-------------------------- MODULE HeapTimer_proofs --------------------------
(***************************************************************************)
(* Proofs about MinHeap and HeapTimer for any number of timers, intervals  *)
(* and threads, however long the clock runs.                               *)
(***************************************************************************)
EXTENDS HeapTimer, FiniteSetTheorems, SequenceTheorems, WellFoundedInduction, TLAPS

(***************************************************************************)
(* Numbers.                                                                *)
(***************************************************************************)
LEMMA Half ==
  ASSUME NEW i \in Nat
  PROVE  i \div 2 \in Nat /\ 2 * (i \div 2) <= i /\ i <= 2 * (i \div 2) + 1
OBVIOUS

LEMMA Doubles ==
  ASSUME NEW i \in Nat
  PROVE  (2 * i) \div 2 = i /\ (2 * i + 1) \div 2 = i
OBVIOUS

LEMMA MinIn ==
  ASSUME NEW S \in SUBSET Nat, S # {}
  PROVE  Min(S) \in S /\ \A y \in S : Min(S) <= y
<1>1. PICK x \in S : \A y \in S : ~(<<y, x>> \in OpToRel(<, Nat))
  BY NatLessThanWellFounded, WFMin
<1>2. \A y \in S : ~(y < x)
  BY <1>1 DEF OpToRel
<1>3. \A y \in S : x =< y
  BY <1>2
<1> QED
  BY <1>3 DEF Min

LEMMA GreatestIn ==
  ASSUME NEW n \in Nat, NEW S \in SUBSET (1..n), S # {}
  PROVE  \E x \in S : \A y \in S : y <= x
<1> DEFINE T == {n - k : k \in S}
<1>1. T \subseteq Nat /\ T # {}
  <2>1. \A k \in S : n - k \in Nat
    OBVIOUS
  <2> QED
    BY <2>1
<1>2. Min(T) \in T /\ \A y \in T : Min(T) <= y
  BY <1>1, MinIn
<1>3. PICK k \in S : Min(T) = n - k
  BY <1>2
<1>4. \A j \in S : n - k <= n - j
  BY <1>2, <1>3
<1>5. \A j \in S : j <= k
  BY <1>4
<1> QED
  BY <1>5

(***************************************************************************)
(* The indices that a sift visits.                                         *)
(***************************************************************************)
LEMMA VisitedClosed ==
  ASSUME NEW len \in Nat, NEW start \in 1..len, NEW next
  PROVE  LET V == Visited(start, len, next) IN
         /\ V \subseteq 1..len /\ start \in V
         /\ \A k \in V : next[k] \in 1..len => next[k] \in V
BY DEF Visited

\* Induction along the path.
LEMMA VisitedInduction ==
  ASSUME NEW len \in Nat, NEW start \in 1..len, NEW next, NEW P \in SUBSET (1..len),
         start \in P,
         \A k \in Visited(start, len, next) \cap P : next[k] \in 1..len => next[k] \in P
  PROVE  Visited(start, len, next) \subseteq P
<1> DEFINE V == Visited(start, len, next)
<1>1. V \cap P \in SUBSET (1..len) /\ start \in V \cap P
  BY VisitedClosed
<1>2. \A k \in V \cap P : next[k] \in 1..len => next[k] \in V \cap P
  BY VisitedClosed
<1>3. \A j \in V : j \in V \cap P
  BY <1>1, <1>2 DEF Visited
<1> QED
  BY <1>3

\* Every index on the path but the first is the next of one on the path.
LEMMA VisitedBefore ==
  ASSUME NEW len \in Nat, NEW start \in 1..len, NEW next,
         NEW j \in Visited(start, len, next), j # start
  PROVE  \E k \in Visited(start, len, next) : next[k] = j
<1> DEFINE V == Visited(start, len, next)
           P == V \ {j}
<1> SUFFICES ASSUME \A k \in V : next[k] # j PROVE FALSE
  OBVIOUS
<1>1. start \in P /\ \A k \in V \cap P : next[k] \in 1..len => next[k] \in P
  BY VisitedClosed
<1>2. P \in SUBSET (1..len)
  BY VisitedClosed
<1> HIDE DEF P
<1>3. V \subseteq P
  BY <1>1, <1>2, VisitedInduction
<1> QED
  BY <1>3 DEF P

-----------------------------------------------------------------------------
(***************************************************************************)
(* insert.                                                                 *)
(***************************************************************************)
Up(last) == Visited(last, last, [i \in 1..last |-> i \div 2])

\* The path of push_heap: up to the root, and nothing between an index and its
\* parent.
LEMMA UpPath ==
  ASSUME NEW last \in Nat \ {0}
  PROVE  /\ Up(last) \subseteq 1..last /\ last \in Up(last)
         /\ \A j \in Up(last) : j # 1 => j \div 2 \in Up(last)
         /\ \A j \in Up(last) : j # last => \E k \in Up(last) : k \div 2 = j
         /\ \A x, y \in Up(last) : x < y => x <= y \div 2
<1> DEFINE A == Up(last)
           up == [i \in 1..last |-> i \div 2]
<1>0. last \in 1..last /\ A = Visited(last, last, up)
  BY DEF Up
<1> HIDE DEF up
<1>1. A \subseteq 1..last /\ last \in A
  BY <1>0, VisitedClosed
<1>2. \A j \in 1..last : up[j] = j \div 2 /\ j \div 2 \in Nat /\ 2 * (j \div 2) <= j /\ j <= 2 * (j \div 2) + 1
  BY Half DEF up
<1>3. \A j \in A : j # 1 => j \div 2 \in A
  <2> SUFFICES ASSUME NEW j \in A, j # 1 PROVE j \div 2 \in A
    OBVIOUS
  <2>1. up[j] \in 1..last
    BY <1>1, <1>2
  <2> QED
    BY <1>0, <1>1, <1>2, <2>1, VisitedClosed
<1>4. \A j \in A : j # last => \E k \in A : k \div 2 = j
  BY <1>0, <1>1, <1>2, VisitedBefore
<1> HIDE DEF A
<1> DEFINE P == {x \in 1..last : \A y \in A : y >= x \/ y <= x \div 2}
<1>5. last \in P
  <2> DEFINE Q == {y \in 1..last : y >= last \/ y <= last \div 2}
  <2>1. last \in Q
    BY <1>0
  <2>2. \A y \in A \cap Q : up[y] \in 1..last => up[y] \in Q
    BY <1>1, <1>2
  <2>3. Q \in SUBSET (1..last)
    OBVIOUS
  <2> HIDE DEF Q
  <2>4. A \subseteq Q
    BY <1>0, <2>1, <2>2, <2>3, VisitedInduction
  <2> QED
    BY <1>0, <2>4 DEF Q
<1>6. ASSUME NEW x \in A \cap P, up[x] \in 1..last PROVE up[x] \in P
  <2> DEFINE z == x \div 2
             Q == {y \in 1..last : y >= z \/ y <= z \div 2}
  <2>0. /\ x \in 1..last /\ up[x] = z /\ z \in 1..last /\ x <= 2 * z + 1 /\ 2 * z <= x
        /\ 2 * (z \div 2) <= z /\ z <= 2 * (z \div 2) + 1 /\ z \div 2 \in Nat
    BY <1>1, <1>2, <1>6
  <2>1. \A y \in A : y >= x \/ y <= z
    BY <1>6
  <2> HIDE DEF z
  <2>2. last \in Q
    BY <1>0, <2>0
  <2>3. ASSUME NEW y \in A \cap Q, up[y] \in 1..last PROVE up[y] \in Q
    <3>1. /\ y \in 1..last /\ up[y] = y \div 2 /\ 2 * (y \div 2) <= y /\ y <= 2 * (y \div 2) + 1
          /\ y \div 2 \in Nat
      BY <1>1, <1>2
    <3>2. CASE y >= x
      BY <2>0, <2>3, <3>1, <3>2
    <3>3. CASE y <= z
      BY <2>0, <2>3, <3>1, <3>3
    <3> QED
      BY <2>1, <3>2, <3>3
  <2>4. Q \in SUBSET (1..last) /\ \A y \in A \cap Q : up[y] \in 1..last => up[y] \in Q
    BY <2>3
  <2> HIDE DEF Q
  <2>5. A \subseteq Q
    BY <1>0, <2>2, <2>4, VisitedInduction
  <2> QED
    BY <2>0, <2>5 DEF z, Q
<1>7. P \in SUBSET (1..last) /\ \A x \in A \cap P : up[x] \in 1..last => up[x] \in P
  BY <1>6
<1> HIDE DEF P
<1>8. A \subseteq P
  BY <1>0, <1>5, <1>7, VisitedInduction
<1>9. \A x, y \in A : x < y => x <= y \div 2
  BY <1>1, <1>8 DEF P
<1> QED
  BY <1>1, <1>3, <1>4, <1>9 DEF A

\* The nodes in a heap, and that none is in it twice.
In(h) == {h[i] : i \in 1..Len(h)}
Once(h) == \A i, j \in 1..Len(h) : h[i] = h[j] => i = j

LEMMA Inserted ==
  ASSUME NEW S, NEW key \in [S -> Int], NEW h \in Seq(S), NEW n \in S
  PROVE  LET g == heap_insert(h, n, key) IN
         /\ g \in Seq(S) /\ Len(g) = Len(h) + 1 /\ In(g) = In(h) \cup {n}
         /\ Once(h) /\ n \notin In(h) => Once(g)
         /\ IsHeap(h, key) => IsHeap(g, key)
<1> DEFINE g == heap_insert(h, n, key)
           last == Len(h) + 1
           A == Up(last)
           D == {p \in A : \A q \in A \ {last} : q >= p => key[h[q]] > key[n]}
           dest == Min(D)
<1>1. /\ Len(h) \in Nat /\ last \in Nat \ {0} /\ \A q \in 1..Len(h) : h[q] \in S /\ key[h[q]] \in Int
      /\ key[n] \in Int
  OBVIOUS
<1>2. g = [j \in 1..last |-> IF j = dest THEN n
                             ELSE IF j \in A /\ j > dest THEN h[j \div 2] ELSE h[j]]
  BY DEF heap_insert, Up
<1>3. PICK l : l = last /\ l \in Nat \ {0} /\ l = Len(h) + 1
  BY <1>1
<1>4. PICK V : V = A /\ V = Up(l)
  BY <1>3
<1>5. /\ V \subseteq 1..l /\ l \in V
      /\ \A j \in V : j # 1 => j \div 2 \in V
      /\ \A j \in V : j # l => \E k \in V : k \div 2 = j
      /\ \A x, y \in V : x < y => x <= y \div 2
  BY <1>3, <1>4, UpPath
<1>6. PICK d : d = dest
  OBVIOUS
<1>7. /\ d \in V /\ \A q \in V : q # l /\ q >= d => key[h[q]] > key[n]
      /\ \A e \in V : (\A q \in V : q # l /\ q >= e => key[h[q]] > key[n]) => d <= e
  <2>1. D = {p \in V : \A q \in V : q # l /\ q >= p => key[h[q]] > key[n]}
    BY <1>3, <1>4
  <2> HIDE DEF D
  <2>2. D \in SUBSET Nat /\ l \in D
    <3>1. D \subseteq V /\ V \subseteq 1..l /\ 1..l \subseteq Nat
      BY <1>3, <1>5, <2>1
    <3>2. \A q \in V : ~(q # l /\ q >= l)
      BY <1>3, <1>5
    <3> QED
      BY <1>5, <2>1, <3>1, <3>2
  <2>3. d \in D /\ \A e \in D : d <= e
    BY <1>6, <2>2, MinIn
  <2> QED
    BY <2>1, <2>3
<1>8. g = [j \in 1..l |-> IF j = d THEN n
                          ELSE IF j \in V /\ j > d THEN h[j \div 2] ELSE h[j]]
  BY <1>2, <1>3, <1>4, <1>6
<1> HIDE DEF g, last, A, D, dest
<1>9. \A i \in 1..l : /\ i \div 2 \in Nat /\ 2 * (i \div 2) <= i /\ i <= 2 * (i \div 2) + 1
  BY Half
<1>10. \A j \in V : j \in 1..l /\ (j > d => j \div 2 \in V /\ j \div 2 >= d /\ j \div 2 \in 1..Len(h))
  <2> SUFFICES ASSUME NEW j \in V, j > d
               PROVE  j \div 2 \in V /\ j \div 2 >= d /\ j \div 2 \in 1..Len(h)
    BY <1>5
  <2>1. j \in 1..l /\ d \in 1..l /\ j # 1
    BY <1>3, <1>5, <1>7
  <2>2. j \div 2 \in V /\ d <= j \div 2
    BY <1>5, <1>7, <2>1
  <2> QED
    BY <1>1, <1>3, <1>9, <2>1, <2>2
<1>11. /\ g[d] = n
       /\ \A j \in V : j > d => g[j] = h[j \div 2]
       /\ \A j \in 1..l : j # d /\ ~(j \in V /\ j > d) => g[j] = h[j] /\ j \in 1..Len(h)
  <2>1. d \in 1..l
    BY <1>5, <1>7
  <2>2. \A j \in 1..l : j # d /\ ~(j \in V /\ j > d) => j # l
    BY <1>3, <1>5, <2>1
  <2>3. \A j \in 1..l : j # l => j \in 1..Len(h)
    BY <1>1, <1>3
  <2>4. \A j \in V : j > d => j # d /\ j \in 1..l
    BY <1>3, <1>5, <2>1
  <2> QED
    BY <1>8, <2>1, <2>2, <2>3, <2>4
<1>12. g \in Seq(S) /\ Len(g) = l
  <2>1. \A j \in 1..l : g[j] \in S
    BY <1>1, <1>10, <1>11
  <2>2. g \in [1..l -> S]
    BY <1>8, <2>1
  <2> QED
    BY <1>3, <2>2
<1>13. In(g) = In(h) \cup {n}
  <2>1. \A j \in 1..l : g[j] \in In(h) \cup {n}
    BY <1>10, <1>11 DEF In
  <2>2. \A q \in 1..Len(h) : \E j \in 1..l : g[j] = h[q]
    <3> SUFFICES ASSUME NEW q \in 1..Len(h) PROVE \E j \in 1..l : g[j] = h[q]
      OBVIOUS
    <3>0. q \in 1..l /\ q # l /\ d \in 1..l
      BY <1>1, <1>3, <1>5, <1>7
    <3>1. CASE q \in V /\ q >= d
      <4>1. PICK k \in V : k \div 2 = q
        BY <1>5, <3>0, <3>1
      <4>2. k \in 1..l /\ k > d
        BY <1>5, <1>9, <3>0, <3>1, <4>1
      <4> QED
        BY <1>11, <4>1, <4>2
    <3>2. CASE ~(q \in V /\ q >= d)
      <4>1. q # d /\ ~(q \in V /\ q > d)
        BY <1>7, <3>0, <3>2
      <4> QED
        BY <1>11, <3>0, <4>1
    <3> QED
      BY <3>1, <3>2
  <2>3. d \in 1..l
    BY <1>5, <1>7
  <2>4. In(g) \subseteq In(h) \cup {n}
    BY <1>12, <2>1 DEF In
  <2>5. n \in In(g)
    BY <1>11, <1>12, <2>3 DEF In
  <2>6. In(h) \subseteq In(g)
    BY <1>12, <2>2 DEF In
  <2> QED
    BY <2>4, <2>5, <2>6
<1>14. ASSUME Once(h), n \notin In(h) PROVE Once(g)
  <2>1. \A j \in 1..l : j # d => g[j] \in In(h)
    BY <1>10, <1>11 DEF In
  <2>2. ASSUME NEW i \in 1..l, NEW j \in 1..l, i < j, g[i] = g[j] PROVE FALSE
    <3>0. d \in 1..l
      BY <1>5, <1>7
    <3>1. i # d /\ j # d
      BY <1>11, <1>14, <2>1, <2>2
    <3> DEFINE f(x) == IF x \in V /\ x > d THEN x \div 2 ELSE x
    <3>2. \A x \in {i, j} : f(x) \in 1..Len(h) /\ g[x] = h[f(x)]
      BY <1>10, <1>11, <3>1
    <3>3. f(i) = f(j)
      BY <1>14, <2>2, <3>2 DEF Once
    <3>4. CASE i \in V /\ i > d /\ j \in V /\ j > d
      BY <1>3, <1>5, <1>9, <2>2, <3>3, <3>4
    <3>5. CASE i \in V /\ i > d /\ ~(j \in V /\ j > d)
      BY <1>3, <1>9, <2>2, <3>3, <3>5
    <3>6. CASE ~(i \in V /\ i > d) /\ j \in V /\ j > d
      <4>1. i = j \div 2 /\ j \div 2 \in V /\ j \div 2 >= d
        BY <1>10, <3>3, <3>6
      <4>2. i > d
        BY <3>0, <3>1, <4>1
      <4> QED
        BY <3>6, <4>1, <4>2
    <3> QED
      BY <1>3, <2>2, <3>3, <3>4, <3>5, <3>6
  <2> QED
    BY <1>3, <1>12, <2>2 DEF Once
<1>15. ASSUME IsHeap(h, key) PROVE IsHeap(g, key)
  <2>0. \A q \in 2..Len(h) : key[h[q \div 2]] <= key[h[q]] /\ key[h[q]] \in Int /\ key[h[q \div 2]] \in Int
    <3>1. \A q \in 2..Len(h) : q \in 1..Len(h) /\ q \div 2 \in 1..Len(h)
      BY <1>1
    <3> QED
      BY <1>1, <1>15, <3>1 DEF IsHeap
  <2> SUFFICES ASSUME NEW i \in 2..l PROVE key[g[i \div 2]] <= key[g[i]]
    BY <1>12 DEF IsHeap
  <2> DEFINE r == i \div 2
  <2>1. /\ r \in 1..l /\ r < i /\ r \in 1..Len(h) /\ i \in 1..l /\ i \in Nat /\ r \in Nat
        /\ d \in 1..l /\ d \in Nat /\ r # l
    BY <1>1, <1>3, <1>5, <1>7, <1>9
  <2>2. r \in V /\ r > d => g[r] = h[r \div 2] /\ key[h[r \div 2]] <= key[h[r]]
          /\ key[h[r]] \in Int /\ key[h[r \div 2]] \in Int
    <3> HAVE r \in V /\ r > d
    <3>1. r \in 2..Len(h)
      BY <1>1, <2>1
    <3> QED
      BY <1>11, <2>0, <3>1
  <2>3. r = d => g[r] = n /\ key[n] < key[h[r]] /\ key[n] \in Int /\ key[h[r]] \in Int
    BY <1>1, <1>7, <1>11, <2>1
  <2>4. r # d /\ ~(r \in V /\ r > d) => g[r] = h[r]
    BY <1>11, <2>1
  <2>5. CASE i \in V /\ i > d
    <3>1. r \in V /\ r >= d /\ g[i] = h[r]
      BY <1>10, <1>11, <2>5
    <3>2. r = d \/ r > d
      BY <2>1, <3>1
    <3>3. CASE r = d
      BY <2>3, <3>1, <3>3
    <3>4. CASE r > d
      BY <2>2, <3>1, <3>4
    <3> QED
      BY <3>2, <3>3, <3>4
  <2>6. CASE i = d
    <3>1. r \in V /\ g[i] = n /\ r < d
      BY <1>5, <1>7, <1>11, <2>1, <2>6
    <3>2. PICK q \in V : q # l /\ q >= r /\ ~(key[h[q]] > key[n])
      <4>1. (\A q \in V : q # l /\ q >= r => key[h[q]] > key[n]) => d <= r
        BY <1>7, <3>1
      <4>2. ~(d <= r)
        BY <2>1, <3>1
      <4> QED
        BY <4>1, <4>2
    <3>3. q \in 1..l /\ q < d
      BY <1>3, <1>5, <1>7, <2>1, <3>2
    <3>4. q <= r
      BY <1>5, <1>7, <2>6, <3>3
    <3>5. q = r
      BY <2>1, <3>2, <3>3, <3>4
    <3> QED
      BY <1>1, <2>1, <2>4, <3>1, <3>2, <3>5
  <2>7. CASE i # d /\ ~(i \in V /\ i > d)
    <3>1. g[i] = h[i] /\ i \in 1..Len(h)
      BY <1>11, <2>1, <2>7
    <3>2. i \in 2..Len(h)
      BY <1>1, <2>1, <3>1
    <3>3. key[h[r]] <= key[h[i]] /\ key[h[i]] \in Int /\ key[h[r]] \in Int
      BY <2>0, <3>2
    <3> HIDE DEF r
    <3>4. CASE r = d
      BY <2>3, <3>1, <3>3, <3>4 DEF r
    <3>5. CASE r \in V /\ r > d
      BY <2>2, <3>1, <3>3, <3>5 DEF r
    <3>6. CASE r # d /\ ~(r \in V /\ r > d)
      BY <2>4, <3>1, <3>3, <3>6 DEF r
    <3> QED
      BY <3>4, <3>5, <3>6
  <2> QED
    BY <2>5, <2>6, <2>7
<1> QED
  BY <1>3, <1>12, <1>13, <1>14, <1>15 DEF g

-----------------------------------------------------------------------------
(***************************************************************************)
(* pop.                                                                    *)
(***************************************************************************)
\* The path of pop_heap, whichever children it follows: nothing on it between
\* an index and the child it goes to.
LEMMA DownPath ==
  ASSUME NEW len \in Nat \ {0}, NEW child,
         \A i \in 1..len : child[i] \in {2 * i, 2 * i + 1}
  PROVE  LET V == Visited(1, len, child) IN
         /\ V \subseteq 1..len /\ 1 \in V
         /\ \A j \in V : child[j] <= len => child[j] \in V
         /\ \A j \in V : j # 1 => \E k \in V : child[k] = j
         /\ \A x, y \in V : x < y => child[x] <= y
<1> DEFINE V == Visited(1, len, child)
<1>0. 1 \in 1..len
  OBVIOUS
<1>1. V \subseteq 1..len /\ 1 \in V
  BY <1>0, VisitedClosed
<1>2. \A j \in 1..len : child[j] \in Nat /\ child[j] >= 2 * j /\ child[j] <= 2 * j + 1 /\ j >= 1
  OBVIOUS
<1>3. \A j \in V : child[j] <= len => child[j] \in V
  <2> SUFFICES ASSUME NEW j \in V, child[j] <= len PROVE child[j] \in V
    OBVIOUS
  <2>1. child[j] \in 1..len
    BY <1>1, <1>2
  <2> QED
    BY <1>0, <2>1, VisitedClosed
<1>4. \A j \in V : j # 1 => \E k \in V : child[k] = j
  BY <1>0, VisitedBefore
<1> DEFINE P == {x \in 1..len : \A y \in V : y <= x \/ y >= child[x]}
<1>5. 1 \in P
  <2> DEFINE Q == {y \in 1..len : y <= 1 \/ y >= child[1]}
  <2>1. 1 \in Q /\ Q \in SUBSET (1..len)
    BY <1>0
  <2>2. \A y \in V \cap Q : child[y] \in 1..len => child[y] \in Q
    BY <1>0, <1>1, <1>2
  <2> HIDE DEF Q
  <2>3. V \subseteq Q
    BY <1>0, <2>1, <2>2, VisitedInduction
  <2> QED
    BY <1>0, <2>3 DEF Q
<1>6. ASSUME NEW x \in V \cap P, child[x] \in 1..len PROVE child[x] \in P
  <2> DEFINE z == child[x]
             Q == {y \in 1..len : y <= z \/ y >= child[z]}
  <2>0. /\ x \in 1..len /\ z \in 1..len /\ z >= 2 * x /\ z <= 2 * x + 1
        /\ child[z] \in Nat /\ child[z] >= 2 * z
    BY <1>1, <1>2, <1>6
  <2>1. \A y \in V : y <= x \/ y >= z
    BY <1>6
  <2> HIDE DEF z
  <2>2. 1 \in Q /\ Q \in SUBSET (1..len)
    BY <1>0, <2>0
  <2>3. ASSUME NEW y \in V \cap Q, child[y] \in 1..len PROVE child[y] \in Q
    <3>1. y \in 1..len /\ child[y] \in Nat /\ child[y] >= 2 * y /\ child[y] <= 2 * y + 1
      BY <1>1, <1>2
    <3>2. CASE y < x
      BY <2>0, <2>3, <3>1, <3>2
    <3>3. CASE y = x
      BY <2>0, <2>3, <3>1, <3>3 DEF z
    <3>4. CASE y = z
      BY <2>0, <2>3, <3>1, <3>4
    <3>5. CASE y > z
      BY <2>0, <2>3, <3>1, <3>5
    <3> QED
      BY <2>0, <2>1, <3>1, <3>2, <3>3, <3>4, <3>5
  <2>4. \A y \in V \cap Q : child[y] \in 1..len => child[y] \in Q
    BY <2>3
  <2> HIDE DEF Q
  <2>5. V \subseteq Q
    BY <1>0, <2>2, <2>4, VisitedInduction
  <2> QED
    BY <2>0, <2>5 DEF z, Q
<1>7. P \in SUBSET (1..len) /\ \A x \in V \cap P : child[x] \in 1..len => child[x] \in P
  BY <1>6
<1> HIDE DEF P
<1>8. V \subseteq P
  BY <1>0, <1>5, <1>7, VisitedInduction
<1>9. \A x, y \in V : x < y => child[x] <= y
  BY <1>1, <1>8 DEF P
<1> QED
  BY <1>1, <1>3, <1>4, <1>9

LEMMA PoppedHeap ==
  ASSUME NEW S, NEW key \in [S -> Int], NEW h \in Seq(S), h # <<>>
  PROVE  LET g == heap_pop(h, key) IN
         /\ g \in Seq(S) /\ Len(g) = Len(h) - 1 /\ In(g) \subseteq In(h)
         /\ Once(h) => Once(g) /\ In(g) = In(h) \ {h[1]}
         /\ IsHeap(h, key) => IsHeap(g, key)
<1> DEFINE g == heap_pop(h, key)
           len == Len(h) - 1
           child == [i \in 1..len |->
                       IF 2 * i + 1 <= len /\ key[h[2 * i + 1]] <= key[h[2 * i]]
                         THEN 2 * i + 1 ELSE 2 * i]
           path == Visited(1, len, child)
           D == {p \in path : \A q \in path : q > p => key[h[q]] > key[h[Len(h)]]}
           dest == Min(D)
<1>1. /\ Len(h) \in Nat /\ Len(h) >= 1 /\ len \in Nat
      /\ \A q \in 1..Len(h) : h[q] \in S /\ key[h[q]] \in Int
  OBVIOUS
<1>2. g = [j \in 1..len |-> IF j = dest THEN h[Len(h)]
                            ELSE IF j \in path /\ j < dest THEN h[child[j]] ELSE h[j]]
  BY DEF heap_pop
<1>3. CASE len = 0
  <2>1. g = [j \in 1..0 |-> IF j = dest THEN h[Len(h)]
                            ELSE IF j \in path /\ j < dest THEN h[child[j]] ELSE h[j]]
    BY <1>2, <1>3
  <2> HIDE DEF g, dest, path, child, D
  <2>2. g = <<>>
    BY <2>1
  <2>3. g \in Seq(S) /\ Len(g) = 0 /\ 1..Len(g) = {}
    BY <2>2
  <2>4. In(g) = {} /\ Once(g) /\ IsHeap(g, key)
    BY <2>3 DEF In, Once, IsHeap
  <2>5. In(h) = {h[1]}
    <3>1. Len(h) = 1
      BY <1>1, <1>3
    <3>2. 1..1 = {1}
      OBVIOUS
    <3> QED
      BY <3>1, <3>2 DEF In
  <2> QED
    BY <1>3, <2>3, <2>4, <2>5 DEF g
<1>4. CASE len # 0
  <2>0. len \in Nat \ {0} /\ Len(h) = len + 1
    BY <1>1, <1>4
  <2>1. PICK l : l = len /\ l \in Nat \ {0} /\ Len(h) = l + 1
    BY <2>0
  <2>2. PICK c : c = child
    OBVIOUS
  <2>3. /\ \A i \in 1..l : c[i] \in {2 * i, 2 * i + 1}
        /\ \A i \in 1..l : c[i] = IF 2 * i + 1 <= l /\ key[h[2 * i + 1]] <= key[h[2 * i]]
                                   THEN 2 * i + 1 ELSE 2 * i
    BY <2>1, <2>2
  <2>4. PICK V : V = path /\ V = Visited(1, l, c)
    BY <2>1, <2>2
  <2>5. /\ V \subseteq 1..l /\ 1 \in V
        /\ \A j \in V : c[j] <= l => c[j] \in V
        /\ \A j \in V : j # 1 => \E k \in V : c[k] = j
        /\ \A x, y \in V : x < y => c[x] <= y
    BY <2>1, <2>3, <2>4, DownPath
  <2>6. PICK d, m : d = dest /\ m = h[l + 1]
    OBVIOUS
  <2>7. /\ d \in V /\ \A q \in V : q > d => key[h[q]] > key[m]
        /\ \A e \in V : (\A q \in V : q > e => key[h[q]] > key[m]) => d <= e
    <3>1. D = {p \in V : \A q \in V : q > p => key[h[q]] > key[m]}
      BY <2>1, <2>4, <2>6
    <3> HIDE DEF D
    <3>2. PICK x \in V : \A y \in V : y <= x
      BY <2>1, <2>5, GreatestIn
    <3>3. D \in SUBSET Nat /\ x \in D
      <4>1. D \subseteq V /\ V \subseteq 1..l /\ 1..l \subseteq Nat
        BY <2>1, <2>5, <3>1
      <4>2. \A q \in V : ~(q > x)
        BY <3>2, <4>1
      <4> QED
        BY <3>1, <4>1, <4>2
    <3>4. d \in D /\ \A e \in D : d <= e
      BY <2>6, <3>3, MinIn
    <3> QED
      BY <3>1, <3>4
  <2>8. g = [j \in 1..l |-> IF j = d THEN m
                            ELSE IF j \in V /\ j < d THEN h[c[j]] ELSE h[j]]
    BY <1>2, <2>1, <2>2, <2>4, <2>6
  <2> HIDE DEF g, len, child, path, D, dest
  <2>9. /\ d \in 1..l /\ d \in Nat /\ l \in Nat /\ m \in S /\ key[m] \in Int
        /\ \A q \in 1..l : q \in 1..Len(h)
    BY <1>1, <2>1, <2>5, <2>6, <2>7
  <2>10. \A j \in 1..l : /\ c[j] \in Nat /\ c[j] >= 2 * j /\ c[j] <= 2 * j + 1 /\ j >= 1 /\ j < c[j]
                         /\ c[j] \div 2 = j
    <3>1. \A j \in 1..l : (2 * j) \div 2 = j /\ (2 * j + 1) \div 2 = j
      BY <2>1, Doubles
    <3> SUFFICES ASSUME NEW j \in 1..l
                 PROVE  /\ c[j] \in Nat /\ c[j] >= 2 * j /\ c[j] <= 2 * j + 1 /\ j >= 1
                        /\ j < c[j] /\ c[j] \div 2 = j
      OBVIOUS
    <3>2. j \in Nat /\ j >= 1 /\ (c[j] = 2 * j \/ c[j] = 2 * j + 1)
      BY <2>1, <2>3
    <3>3. c[j] \div 2 = j
      BY <3>1, <3>2
    <3>4. c[j] \in Nat /\ c[j] >= 2 * j /\ c[j] <= 2 * j + 1 /\ j < c[j]
      BY <3>2
    <3> QED
      BY <3>2, <3>3, <3>4
  <2>11. \A j \in V : j \in 1..l /\ (j < d => c[j] \in V /\ c[j] <= d /\ c[j] \in 1..l)
    <3> SUFFICES ASSUME NEW j \in V, j < d PROVE c[j] \in V /\ c[j] <= d /\ c[j] \in 1..l
      BY <2>5
    <3>1. j \in 1..l /\ c[j] \in Nat /\ c[j] >= 1 /\ c[j] <= d
      <4>1. j \in 1..l /\ c[j] <= d
        BY <2>5, <2>7
      <4>2. c[j] \in Nat /\ j >= 1 /\ j < c[j] /\ j \in Nat
        BY <2>9, <2>10, <4>1
      <4> QED
        BY <4>1, <4>2
    <3>2. c[j] <= l
      BY <2>9, <3>1
    <3> QED
      BY <2>5, <2>9, <3>1, <3>2
  <2>12. /\ g[d] = m
         /\ \A j \in V : j < d => g[j] = h[c[j]]
         /\ \A j \in 1..l : j # d /\ ~(j \in V /\ j < d) => g[j] = h[j]
    BY <2>8, <2>9, <2>11
  <2>13. g \in Seq(S) /\ Len(g) = l
    <3>1. \A j \in 1..l : g[j] \in S
      BY <1>1, <2>9, <2>11, <2>12
    <3>2. g \in [1..l -> S]
      BY <2>8, <3>1
    <3> QED
      BY <2>9, <3>2
  <2> DEFINE f(j) == IF j = d THEN l + 1 ELSE IF j \in V /\ j < d THEN c[j] ELSE j
  <2>14. \A j \in 1..l : f(j) \in 2..l + 1 /\ g[j] = h[f(j)]
    <3> SUFFICES ASSUME NEW j \in 1..l PROVE f(j) \in 2..l + 1 /\ g[j] = h[f(j)]
      OBVIOUS
    <3>1. CASE j = d
      BY <2>1, <2>6, <2>12, <3>1
    <3>2. CASE j # d /\ j \in V /\ j < d
      <4>1. c[j] \in 1..l /\ c[j] > j
        BY <2>10, <2>11, <3>2
      <4>2. c[j] \in 2..l + 1
        BY <2>9, <4>1
      <4> QED
        BY <2>12, <3>2, <4>2
    <3>3. CASE j # d /\ ~(j \in V /\ j < d)
      <4>1. j # 1
        BY <2>5, <2>9, <3>3
      <4> QED
        BY <2>1, <2>12, <3>3, <4>1
    <3> QED
      BY <3>1, <3>2, <3>3
  <2>15. In(g) \subseteq In(h)
    <3>1. 2..l + 1 \subseteq 1..Len(h)
      BY <2>1
    <3>2. \A j \in 1..l : g[j] \in In(h)
      BY <2>14, <3>1 DEF In
    <3> QED
      BY <2>13, <3>2 DEF In
  <2>16. \A i, j \in 1..l : f(i) = f(j) => i = j
    <3> SUFFICES ASSUME NEW i \in 1..l, NEW j \in 1..l, f(i) = f(j), i # j PROVE FALSE
      OBVIOUS
    <3>0. \A x \in {i, j} : x # d => f(x) \in 1..l
      BY <2>11
    <3>1. ~(i = d) /\ ~(j = d)
      BY <2>9, <3>0
    <3>2. CASE i \in V /\ i < d /\ j \in V /\ j < d
      BY <2>10, <3>1, <3>2
    <3>3. CASE i \in V /\ i < d /\ ~(j \in V /\ j < d)
      BY <2>9, <2>11, <3>1, <3>3
    <3>4. CASE ~(i \in V /\ i < d) /\ j \in V /\ j < d
      BY <2>9, <2>11, <3>1, <3>4
    <3> QED
      BY <3>1, <3>2, <3>3, <3>4
  <2>17. \A q \in 2..l + 1 : \E j \in 1..l : f(j) = q
    <3> SUFFICES ASSUME NEW q \in 2..l + 1 PROVE \E j \in 1..l : f(j) = q
      OBVIOUS
    <3>1. CASE q = l + 1
      BY <2>9, <3>1
    <3>2. CASE q # l + 1 /\ q \in V /\ q <= d
      <4>1. PICK k \in V : c[k] = q
        BY <2>1, <2>5, <3>2
      <4>2. k \in 1..l /\ k < d
        <5>1. k \in 1..l
          BY <2>5
        <5>2. k < c[k]
          BY <2>10, <5>1
        <5> QED
          BY <2>9, <3>2, <4>1, <5>1, <5>2
      <4>3. f(k) = q
        BY <2>9, <4>1, <4>2
      <4> QED
        BY <4>2, <4>3
    <3>3. CASE q # l + 1 /\ ~(q \in V /\ q <= d)
      <4>1. q \in 1..l /\ f(q) = q
        BY <2>1, <2>7, <2>9, <3>3
      <4> QED
        BY <4>1
    <3> QED
      BY <3>1, <3>2, <3>3
  <2>18. ASSUME Once(h) PROVE Once(g) /\ In(g) = In(h) \ {h[1]}
    <3> HIDE DEF f
    <3>0. \A j \in 1..l : f(j) \in 1..Len(h) /\ f(j) # 1 /\ 1 \in 1..Len(h)
      BY <2>1, <2>14
    <3>1. Once(g)
      <4> SUFFICES ASSUME NEW i \in 1..l, NEW j \in 1..l, g[i] = g[j] PROVE i = j
        BY <2>13 DEF Once
      <4>1. h[f(i)] = h[f(j)]
        BY <2>14
      <4>2. f(i) = f(j)
        BY <2>18, <3>0, <4>1 DEF Once
      <4> QED
        BY <2>16, <4>2
    <3>2. \A j \in 1..l : g[j] # h[1]
      BY <2>14, <2>18, <3>0 DEF Once
    <3>3. \A q \in 1..Len(h) : q # 1 => \E j \in 1..l : g[j] = h[q]
      <4> SUFFICES ASSUME NEW q \in 1..Len(h), q # 1 PROVE \E j \in 1..l : g[j] = h[q]
        OBVIOUS
      <4>1. q \in 2..l + 1
        BY <2>1
      <4> QED
        BY <2>14, <2>17, <4>1
    <3>4. In(h) \ {h[1]} \subseteq In(g)
      BY <2>13, <3>3 DEF In
    <3>5. h[1] \notin In(g)
      BY <2>13, <3>2 DEF In
    <3> QED
      BY <2>15, <3>1, <3>4, <3>5
  <2>19. ASSUME IsHeap(h, key) PROVE IsHeap(g, key)
    <3> HIDE DEF f
    <3>0. \A q \in 2..l : /\ key[h[q \div 2]] <= key[h[q]] /\ key[h[q]] \in Int
                          /\ key[h[q \div 2]] \in Int
      <4>1. \A q \in 2..l : q \in 2..Len(h) /\ q \in 1..Len(h) /\ q \div 2 \in 1..Len(h)
        BY <2>1, Half
      <4> QED
        BY <1>1, <2>19, <4>1 DEF IsHeap
    <3> SUFFICES ASSUME NEW i \in 2..l PROVE key[g[i \div 2]] <= key[g[i]]
      BY <2>13 DEF IsHeap
    <3>1. PICK r : r = i \div 2
      OBVIOUS
    <3>2. /\ r \in 1..l /\ r < i /\ i \in 1..l /\ (i = 2 * r \/ i = 2 * r + 1) /\ i # 1
          /\ r \in Nat /\ i \in Nat
      BY <2>1, <3>1, Half
    <3>3. /\ c[r] \in 2..l /\ key[h[c[r]]] <= key[h[i]]
          /\ key[h[c[r]]] \in Int /\ key[h[i]] \in Int /\ key[h[r]] \in Int
      <4>1. c[r] \in 2..l
        BY <2>1, <2>3, <3>2
      <4>2. key[h[c[r]]] \in Int /\ key[h[i]] \in Int /\ key[h[r]] \in Int
        BY <3>0, <3>1, <3>2, <4>1
      <4>3. CASE i = c[r]
        BY <4>2, <4>3
      <4>4. CASE i # c[r]
        <5>1. CASE i = 2 * r
          BY <2>3, <3>2, <4>2, <4>4, <5>1
        <5>2. CASE i = 2 * r + 1
          <6>1. c[r] = 2 * r /\ ~(key[h[2 * r + 1]] <= key[h[2 * r]])
            BY <2>3, <2>9, <3>2, <4>4, <5>2
          <6>2. key[h[i]] = key[h[2 * r + 1]] /\ key[h[c[r]]] = key[h[2 * r]]
            BY <5>2, <6>1
          <6> QED
            BY <4>1, <4>2, <6>1, <6>2
        <5> QED
          BY <3>2, <5>1, <5>2
      <4> QED
        BY <4>1, <4>2, <4>3, <4>4
    <3>4. i \in V => r \in V /\ i = c[r]
      <4> HAVE i \in V
      <4>1. PICK k \in V : c[k] = i
        BY <2>5, <3>2
      <4>2. k = r
        BY <2>5, <2>10, <3>1, <4>1
      <4> QED
        BY <4>1, <4>2
    <3>5. CASE r \in V /\ r < d
      <4>0. g[r] = h[c[r]] /\ c[r] \in V /\ c[r] <= d
        BY <2>11, <2>12, <3>5
      <4>1. CASE i = c[r] /\ i = d
        <5>1. g[i] = m
          BY <2>12, <4>1
        <5>2. PICK q \in V : q > r /\ ~(key[h[q]] > key[m])
          <6>1. (\A q \in V : q > r => key[h[q]] > key[m]) => d <= r
            BY <2>7, <3>5
          <6>2. ~(d <= r)
            BY <2>9, <3>2, <3>5
          <6> QED
            BY <6>1, <6>2
        <5>3. q \in 1..l /\ q <= d /\ q >= c[r]
          BY <2>5, <2>7, <2>9, <3>2, <3>5, <5>2
        <5>4. q = d
          BY <2>9, <4>1, <5>3
        <5> QED
          BY <2>9, <3>1, <3>3, <4>0, <4>1, <5>1, <5>2, <5>4
      <4>2. CASE i = c[r] /\ i # d
        <5>1. i \in V /\ i < d
          BY <2>9, <3>2, <4>0, <4>2
        <5>2. g[i] = h[c[i]] /\ c[i] \in 1..l /\ c[i] \div 2 = i /\ c[i] >= 2 * i
          BY <2>10, <2>11, <2>12, <3>2, <5>1
        <5>3. c[i] \in 2..l
          BY <2>9, <3>2, <5>2
        <5> QED
          BY <3>0, <3>1, <4>0, <4>2, <5>2, <5>3
      <4>3. CASE i # c[r]
        <5>1. i \notin V /\ i # d
          BY <2>7, <3>4, <4>3
        <5>2. g[i] = h[i]
          BY <2>12, <3>2, <5>1
        <5> QED
          BY <3>1, <3>3, <4>0, <5>2
      <4> QED
        BY <4>1, <4>2, <4>3
    <3>6. CASE r = d
      <4>1. g[r] = m
        BY <2>12, <3>6
      <4>2. c[r] \in V /\ c[r] > d
        <5>1. c[r] <= l /\ c[r] > r
          BY <2>9, <2>10, <3>2, <3>3, SMTT(20)
        <5> QED
          BY <2>5, <2>7, <3>6, <5>1
      <4>3. key[h[c[r]]] > key[m]
        BY <2>7, <4>2
      <4>4. g[i] = h[i]
        BY <2>9, <2>12, <3>2, <3>6
      <4> QED
        BY <2>9, <3>1, <3>3, <4>1, <4>3, <4>4
    <3>7. CASE r # d /\ ~(r \in V /\ r < d)
      <4>1. g[r] = h[r]
        BY <2>12, <3>2, <3>7
      <4>2. i # d /\ ~(i \in V /\ i < d)
        BY <2>7, <2>9, <3>2, <3>4, <3>7
      <4>3. g[i] = h[i]
        BY <2>12, <3>2, <4>2
      <4> QED
        BY <3>0, <3>1, <4>1, <4>3
    <3> QED
      BY <3>5, <3>6, <3>7
  <2> QED
    BY <2>1, <2>13, <2>15, <2>18, <2>19 DEF g
<1> QED
  BY <1>3, <1>4

-----------------------------------------------------------------------------
(***************************************************************************)
(* The inductive invariant.                                                *)
(***************************************************************************)
Timer == [timer_id : Nat, interval : Nat, loop : BOOLEAN, stopped : BOOLEAN, expire_time : Nat]
Adding == {"add", "register", "reinsert"}
Labels == {"idle", "loop", "pop", "check", "call", "handler", "insert"} \cup Adding

TypeOK ==
  /\ now \in Nat /\ nodes \in Seq(Timer) /\ Len(nodes) <= MaxNodes
  /\ heap \in Seq(1..Len(nodes))
  /\ timer_nodes \in [0..MaxNodes -> 0..Len(nodes)] /\ timer_index \in Nat \ {0}
  /\ pc \in [Threads -> Labels] /\ Worker \in Threads
  /\ new \in [Threads -> 0..Len(nodes)] /\ cur \in 0..Len(nodes)
  /\ ended \subseteq 1..Len(nodes) /\ late \in [1..MaxNodes -> Nat]

\* timer_loop is at a node, and pops from a heap that is not empty.
LoopInv ==
  /\ pc[Worker] \notin {"idle", "loop"} => cur \in 1..Len(nodes)
  /\ pc[Worker] = "pop" => heap # <<>>

\* A call that adds a node holds one; as long as the node is not in the heap it
\* has no id and belongs to this call only.
CallInv ==
  /\ \A t \in Threads : pc[t] \in Adding => new[t] \in 1..Len(nodes)
  /\ \A t \in Threads : pc[t] \in {"add", "reinsert"} => nodes[new[t]].timer_id = 0
  /\ \A t, u \in Threads :
       pc[t] \in {"add", "reinsert"} /\ pc[u] \in Adding /\ new[t] = new[u] => t = u

\* Every id that was given out belongs to a node, so that there are no more ids
\* than nodes.
IdInv ==
  \A id \in 1..timer_index - 1 : \E n \in 1..Len(nodes) : nodes[n].timer_id = id

\* A timer that was stopped stays marked, and the pass of timer_loop that calls a
\* handler has not called it late before.
LateInv ==
  /\ \A n \in ended : nodes[n].stopped
  /\ \A n \in 1..MaxNodes : late[n] =< 1 /\ (late[n] # 0 => n \in ended)
  /\ pc[Worker] = "call" => late[cur] = 0

\* The map, and the node that a call will put into it.
MapInv ==
  Alone =>
    /\ \A id \in 0..MaxNodes : timer_nodes[id] # 0 =>
         nodes[timer_nodes[id]].timer_id = id /\ ~nodes[timer_nodes[id]].stopped
    /\ pc[Worker] \in Adding => ~nodes[new[Worker]].stopped
    /\ pc[Worker] = "add" => \A id \in 0..MaxNodes : timer_nodes[id] # new[Worker]

\* An id is given out once, and the map leads from it to its timer until that
\* is ended, but for the call that is about to register it.
ReachInv ==
  Alone =>
    /\ \A n \in 1..Len(nodes) : nodes[n].timer_id < timer_index
    /\ \A n, k \in 1..Len(nodes) :
         nodes[n].timer_id # 0 /\ nodes[n].timer_id = nodes[k].timer_id => n = k
    /\ \A n \in 1..Len(nodes) : nodes[n].timer_id # 0 /\ ~nodes[n].stopped =>
         timer_nodes[nodes[n].timer_id] = n \/ (pc[Worker] = "register" /\ new[Worker] = n)

\* timer_loop has taken the node it is at out of the heap.
Held == pc[Worker] \notin {"idle", "loop", "pop"}
Comes == pc[Worker] \in {"add", "reinsert"}

\* Where the timers are.
PlaceInv ==
  Alone =>
    /\ Once(heap) /\ IsHeap(heap, Expire)
    /\ pc[Worker] = "pop" => heap[1] = cur
    /\ Held => cur \notin In(heap)
    /\ Comes => new[Worker] \notin In(heap) /\ new[Worker] # cur
    /\ pc[Worker] \in {"handler", "insert"} \cup Adding => cur \in fired
    /\ \A n \in 1..Len(nodes) :
         ~nodes[n].stopped /\ (nodes[n].loop \/ n \notin fired) =>
           n \in In(heap) \/ (Held /\ cur = n) \/ (Comes /\ new[Worker] = n)

Inv == TypeOK /\ LoopInv /\ CallInv /\ IdInv /\ LateInv /\ MapInv /\ ReachInv /\ PlaceInv

-----------------------------------------------------------------------------
LEMMA NodeFacts ==
  ASSUME TypeOK
  PROVE  /\ DOMAIN nodes = 1..Len(nodes) /\ Len(nodes) \in Nat /\ MaxNodes \in Nat
         /\ \A n \in 1..Len(nodes) : nodes[n] \in Timer /\ n \in 1..MaxNodes
         /\ Expire \in [1..Len(nodes) -> Int]
         /\ \A n \in 1..Len(nodes) : Expire[n] = nodes[n].expire_time
<1>1. DOMAIN nodes = 1..Len(nodes) /\ Len(nodes) \in Nat /\ MaxNodes \in Nat
  BY TimesAssumption DEF TypeOK
<1>2. \A n \in 1..Len(nodes) : nodes[n] \in Timer
  BY <1>1 DEF TypeOK
<1>3. \A n \in 1..Len(nodes) : n \in 1..MaxNodes
  BY <1>1 DEF TypeOK
<1>4. \A n \in 1..Len(nodes) : nodes[n].expire_time \in Int
  BY <1>2 DEF Timer
<1>5. Expire = [n \in 1..Len(nodes) |-> nodes[n].expire_time]
  BY <1>1 DEF Expire
<1> QED
  BY <1>1, <1>2, <1>3, <1>4, <1>5

\* No id is beyond the map: two ids never share a node.
LEMMA Ids ==
  ASSUME TypeOK, IdInv, NEW id \in 0..timer_index - 1
  PROVE  id \in 0..MaxNodes /\ timer_nodes[id] \in 0..Len(nodes)
<1> DEFINE I == 1..timer_index - 1
           N == 1..Len(nodes)
           f == [i \in I |-> CHOOSE n \in N : nodes[n].timer_id = i]
<1>0. timer_index \in Nat /\ timer_index >= 1 /\ Len(nodes) \in Nat /\ Len(nodes) <= MaxNodes
        /\ MaxNodes \in Nat
  BY NodeFacts DEF TypeOK
<1>1. \A i \in I : f[i] \in N /\ nodes[f[i]].timer_id = i
  BY DEF IdInv
<1>2. f \in Injection(I, N)
  BY <1>1 DEF Injection, IsInjective
<1>3. Cardinality(N) = Len(nodes) /\ IsFiniteSet(N)
  <2>1. PICK l \in Nat : l = Len(nodes)
    BY <1>0
  <2>2. IsFiniteSet(1..l) /\ Cardinality(1..l) = IF 1 > l THEN 0 ELSE l - 1 + 1
    BY FS_Interval
  <2>3. Cardinality(1..l) = l
    BY <2>2
  <2> QED
    BY <2>1, <2>2, <2>3
<1>4. Cardinality(I) <= Cardinality(N)
  BY <1>2, <1>3, FS_Injection
<1>5. Cardinality(I) = timer_index - 1
  BY <1>0, FS_Interval
<1>6. timer_index - 1 <= Len(nodes)
  BY <1>3, <1>4, <1>5
<1>7. id \in 0..MaxNodes
  BY <1>0, <1>6
<1> QED
  BY <1>7 DEF TypeOK

\* What every step leaves as it is: timers are never forgotten, a stopped one
\* never runs again, a periodic one stays periodic.
Kept ==
  /\ nodes' \in Seq(Timer) /\ Len(nodes') >= Len(nodes) /\ Len(nodes') <= MaxNodes
  /\ \A n \in 1..Len(nodes) : /\ nodes'[n].loop = nodes[n].loop
                              /\ nodes[n].stopped => nodes'[n].stopped
SameIds == \A n \in 1..Len(nodes) : nodes'[n].timer_id = nodes[n].timer_id
SameTimes == \A n \in 1..Len(nodes) : nodes'[n].expire_time = nodes[n].expire_time

LEMMA KeptFacts ==
  ASSUME TypeOK, Kept
  PROVE  /\ Len(nodes') \in Nat /\ DOMAIN nodes' = 1..Len(nodes')
         /\ 1..Len(nodes) \subseteq 1..Len(nodes') /\ 0..Len(nodes) \subseteq 0..Len(nodes')
         /\ 1..Len(nodes') \subseteq 1..MaxNodes
         /\ \A n \in 1..Len(nodes') : nodes'[n] \in Timer
         /\ Expire' \in [1..Len(nodes') -> Int]
         /\ \A n \in 1..Len(nodes') : Expire'[n] = nodes'[n].expire_time
<1>0. Len(nodes) \in Nat /\ MaxNodes \in Nat
  BY NodeFacts
<1>1. Len(nodes') \in Nat /\ DOMAIN nodes' = 1..Len(nodes')
  BY DEF Kept
<1>2. \A n \in 1..Len(nodes') : nodes'[n] \in Timer
  BY <1>1 DEF Kept
<1>3. /\ 1..Len(nodes) \subseteq 1..Len(nodes') /\ 0..Len(nodes) \subseteq 0..Len(nodes')
      /\ 1..Len(nodes') \subseteq 1..MaxNodes
  BY <1>0, <1>1 DEF Kept
<1>4. \A n \in 1..Len(nodes') : nodes'[n].expire_time \in Int
  BY <1>2 DEF Timer
<1>5. Expire' = [n \in 1..Len(nodes') |-> nodes'[n].expire_time]
  BY <1>1 DEF Expire
<1> QED
  BY <1>1, <1>2, <1>3, <1>4, <1>5

LEMMA Unchanged ==
  ASSUME TypeOK, UNCHANGED nodes
  PROVE  Kept /\ SameIds /\ SameTimes /\ Len(nodes') = Len(nodes)
BY NodeFacts DEF Kept, SameIds, SameTimes, TypeOK

\* A heap that is not touched.
LEMMA HeapStays ==
  ASSUME TypeOK, Kept, UNCHANGED heap,
         \A n \in In(heap) : nodes'[n].expire_time = nodes[n].expire_time
  PROVE  /\ heap' \in Seq(1..Len(nodes')) /\ In(heap) \subseteq 1..Len(nodes)
         /\ IsHeap(heap, Expire) => IsHeap(heap', Expire')
<1>1. heap \in Seq(1..Len(nodes)) /\ Len(heap) \in Nat
  BY DEF TypeOK
<1>2. \A i \in 1..Len(heap) : heap[i] \in 1..Len(nodes) /\ heap[i] \in In(heap)
  BY <1>1 DEF In
<1>3. heap' \in Seq(1..Len(nodes'))
  <2>1. \A i \in 1..Len(heap) : heap[i] \in 1..Len(nodes')
    BY <1>2, KeptFacts
  <2> QED
    BY <1>1, <2>1
<1>4. \A i \in 1..Len(heap) : Expire'[heap[i]] = Expire[heap[i]]
  <2>1. \A k \in 1..Len(nodes) : Expire[k] = nodes[k].expire_time
    BY NodeFacts
  <2>2. \A k \in 1..Len(nodes) : Expire'[k] = nodes'[k].expire_time
    BY KeptFacts
  <2> QED
    BY <1>2, <2>1, <2>2
<1>5. \A i \in 2..Len(heap) : i \in 1..Len(heap) /\ i \div 2 \in 1..Len(heap)
  BY <1>1, Half
<1>6. ASSUME IsHeap(heap, Expire) PROVE IsHeap(heap', Expire')
  <2>1. \A i \in 2..Len(heap) : Expire'[heap[i \div 2]] <= Expire'[heap[i]]
    BY <1>4, <1>5, <1>6 DEF IsHeap
  <2> QED
    BY <2>1 DEF IsHeap
<1>7. In(heap) \subseteq 1..Len(nodes)
  BY <1>2 DEF In
<1> QED
  BY <1>3, <1>6, <1>7

\* insert, in the state machine.
LEMMA HeapGrows ==
  ASSUME TypeOK, Kept, SameTimes, Len(nodes') = Len(nodes), NEW n \in 1..Len(nodes),
         heap' = heap_insert(heap, n, Expire)
  PROVE  /\ heap' \in Seq(1..Len(nodes')) /\ heap' # <<>> /\ In(heap') = In(heap) \cup {n}
         /\ Once(heap) /\ n \notin In(heap) => Once(heap')
         /\ IsHeap(heap, Expire) => IsHeap(heap', Expire')
<1>1. Expire' = Expire
  <2>1. \A k \in 1..Len(nodes) : Expire'[k] = Expire[k]
    BY NodeFacts, KeptFacts DEF SameTimes
  <2> QED
    BY <2>1, NodeFacts, KeptFacts
<1>2. /\ heap' \in Seq(1..Len(nodes)) /\ Len(heap') = Len(heap) + 1 /\ In(heap') = In(heap) \cup {n}
      /\ Once(heap) /\ n \notin In(heap) => Once(heap')
      /\ IsHeap(heap, Expire) => IsHeap(heap', Expire)
  <2>1. PICK S, key, h : S = 1..Len(nodes) /\ key = Expire /\ h = heap
    OBVIOUS
  <2>2. key \in [S -> Int] /\ h \in Seq(S) /\ n \in S
    BY <2>1, NodeFacts DEF TypeOK
  <2>3. LET g == heap_insert(h, n, key) IN
        /\ g \in Seq(S) /\ Len(g) = Len(h) + 1 /\ In(g) = In(h) \cup {n}
        /\ Once(h) /\ n \notin In(h) => Once(g)
        /\ IsHeap(h, key) => IsHeap(g, key)
    BY <2>2, Inserted, Zenon
  <2> QED
    BY <2>1, <2>3
<1>3. heap' # <<>>
  BY <1>2 DEF TypeOK
<1> QED
  BY <1>1, <1>2, <1>3

LEMMA LateStays ==
  ASSUME Inv, Kept, UNCHANGED late, ended \subseteq ended',
         \A n \in ended' : n \notin ended => nodes'[n].stopped,
         pc'[Worker] = "call" => pc[Worker] = "call" /\ cur' = cur
  PROVE  LateInv'
<1>1. \A n \in ended : n \in 1..Len(nodes)
  BY DEF Inv, TypeOK
<1> QED
  BY <1>1 DEF Inv, LateInv, Kept

LEMMA PcFacts ==
  ASSUME TypeOK, NEW t \in Threads, NEW l \in Labels, pc' = [pc EXCEPT ![t] = l]
  PROVE  /\ pc' \in [Threads' -> Labels] /\ Threads' = Threads /\ Worker \in Threads'
         /\ pc'[t] = l /\ \A u \in Threads : u # t => pc'[u] = pc[u]
         /\ Alone' = Alone /\ (Alone => t = Worker)
BY DEF TypeOK, Threads, Alone

\* A step that gives no id away and takes no id of a running timer out of the map.
LEMMA ReachStays ==
  ASSUME Inv, Kept, SameIds, UNCHANGED timer_index, Alone' = Alone,
         \A n \in 1..Len(nodes') : n \notin 1..Len(nodes) => nodes'[n].timer_id = 0,
         Alone => \A n \in 1..Len(nodes) :
           nodes[n].timer_id # 0 /\ ~nodes'[n].stopped /\ timer_nodes[nodes[n].timer_id] = n
             => timer_nodes'[nodes[n].timer_id] = n,
         Alone /\ pc[Worker] = "register" => pc'[Worker] = "register" /\ new'[Worker] = new[Worker]
  PROVE  ReachInv'
<1> USE DEF Inv
<1> SUFFICES ASSUME Alone PROVE ReachInv'
  BY DEF ReachInv
<1>1. \A n \in 1..Len(nodes') : nodes'[n].timer_id < timer_index
  <2>1. 0 < timer_index
    BY DEF TypeOK
  <2> QED
    BY <2>1 DEF ReachInv, SameIds
<1>2. \A n \in 1..Len(nodes') : nodes'[n].timer_id # 0 =>
        n \in 1..Len(nodes) /\ nodes'[n].timer_id = nodes[n].timer_id
  BY DEF SameIds
<1>3. \A n, k \in 1..Len(nodes') :
        nodes'[n].timer_id # 0 /\ nodes'[n].timer_id = nodes'[k].timer_id => n = k
  BY <1>2 DEF ReachInv
<1>4. \A n \in 1..Len(nodes') : nodes'[n].timer_id # 0 /\ ~nodes'[n].stopped =>
        \/ timer_nodes'[nodes'[n].timer_id] = n
        \/ pc'[Worker] = "register" /\ new'[Worker] = n
  BY <1>2 DEF ReachInv, Kept
<1> QED
  BY <1>1, <1>3, <1>4 DEF ReachInv

-----------------------------------------------------------------------------
LEMMA InitialInv == Init => Inv
<1> SUFFICES ASSUME Init PROVE Inv
  OBVIOUS
<1>1. PICK i \in Intervals, b \in BOOLEAN :
        nodes = <<[timer_id |-> 1, interval |-> i, loop |-> b, stopped |-> FALSE,
                   expire_time |-> i]>>
  BY DEF Init
<1>2. PICK apps \in Deployments : /\ pc = [t \in apps \cup {Worker} |-> "idle"]
                                  /\ new = [t \in apps \cup {Worker} |-> 0]
  BY DEF Init
<1>3. i \in Nat /\ MaxNodes \in Nat \ {0}
  BY TimesAssumption
<1>4. /\ nodes \in Seq(Timer) /\ Len(nodes) = 1 /\ nodes[1].timer_id = 1
      /\ ~nodes[1].stopped
  BY <1>1, <1>3 DEF Timer
<1>5. /\ now = 0 /\ heap = <<1>> /\ timer_index = 2 /\ cur = 0 /\ ended = {} /\ fired = {}
      /\ timer_nodes = [id \in 0..MaxNodes |-> IF id = 1 THEN 1 ELSE 0]
      /\ late = [n \in 1..MaxNodes |-> 0]
  BY DEF Init
<1>6. Threads = apps \cup {Worker} /\ \A t \in Threads : pc[t] = "idle"
  BY <1>2 DEF Threads
<1>7. TypeOK
  <2>1. heap \in Seq(1..Len(nodes))
    BY <1>4, <1>5
  <2>2. pc \in [Threads -> Labels] /\ Worker \in Threads /\ new \in [Threads -> 0..Len(nodes)]
    BY <1>2, <1>4, <1>6 DEF Labels
  <2>3. late \in [1..MaxNodes -> Nat] /\ timer_nodes \in [0..MaxNodes -> 0..Len(nodes)]
    BY <1>3, <1>4, <1>5
  <2> QED
    BY <1>3, <1>4, <1>5, <2>1, <2>2, <2>3 DEF TypeOK
<1>8. LoopInv /\ CallInv
  BY <1>6, <1>7 DEF LoopInv, CallInv, Adding, TypeOK
<1>9. IdInv
  BY <1>4, <1>5 DEF IdInv
<1>10. LateInv
  BY <1>5, <1>6, <1>7 DEF LateInv, TypeOK
<1>11. MapInv
  BY <1>3, <1>4, <1>5, <1>6, <1>7 DEF MapInv, Adding, TypeOK
<1>12. PlaceInv
  <2>1. Len(heap) = 1 /\ heap[1] = 1 /\ 1..1 = {1}
    BY <1>5
  <2>2. Once(heap) /\ IsHeap(heap, Expire) /\ In(heap) = {1}
    BY <2>1 DEF Once, IsHeap, In
  <2> QED
    BY <1>4, <1>6, <1>7, <2>1, <2>2 DEF PlaceInv, Held, Comes, Adding, TypeOK
<1>13. ReachInv
  <2>1. 1..Len(nodes) = {1} /\ 1 \in 0..MaxNodes
    BY <1>3, <1>4
  <2> QED
    BY <1>4, <1>5, <2>1 DEF ReachInv
<1> QED
  BY <1>7, <1>8, <1>9, <1>10, <1>11, <1>12, <1>13 DEF Inv

\* A call that makes a new node, of start_timer or of restart_timer.
LEMMA NewNode ==
  ASSUME Inv, NEW t \in Threads, NEW l \in {"add", "reinsert"}, Caller(t),
         Kept, SameIds, SameTimes, Len(nodes') = Len(nodes) + 1,
         nodes'[Len(nodes) + 1].timer_id = 0,
         new' = [new EXCEPT ![t] = Len(nodes) + 1], pc' = [pc EXCEPT ![t] = l],
         UNCHANGED <<now, heap, timer_index, cur, fired, late>>,
         timer_nodes' \in [0..MaxNodes -> 0..Len(nodes)], ended' \subseteq 1..Len(nodes)
  PROVE  TypeOK' /\ LoopInv' /\ CallInv' /\ IdInv' /\ PlaceInv'
<1> USE DEF Inv
<1>0. Len(nodes) \in Nat /\ Len(nodes) + 1 \in 1..Len(nodes')
  BY NodeFacts
<1>1. /\ pc' \in [Threads' -> Labels] /\ Threads' = Threads /\ Worker \in Threads'
      /\ pc'[t] = l /\ \A u \in Threads : u # t => pc'[u] = pc[u]
      /\ Alone' = Alone /\ (Alone => t = Worker)
  <2>1. l \in Labels
    BY DEF Labels, Adding
  <2> QED
    BY <2>1, PcFacts
<1>2. new'[t] = Len(nodes) + 1 /\ \A u \in Threads : u # t => new'[u] = new[u]
  BY DEF TypeOK
<1>3. heap' \in Seq(1..Len(nodes')) /\ In(heap) \subseteq 1..Len(nodes)
        /\ (IsHeap(heap, Expire) => IsHeap(heap', Expire'))
  <2>1. In(heap) \subseteq 1..Len(nodes)
    BY DEF TypeOK, In
  <2> QED
    BY <2>1, HeapStays DEF SameTimes
<1>4. TypeOK'
  <2>1. new' \in [Threads' -> 0..Len(nodes')]
    <3>1. \A u \in Threads : new[u] \in 0..Len(nodes')
      BY KeptFacts DEF TypeOK
    <3>2. Len(nodes) + 1 \in 0..Len(nodes')
      BY <1>0
    <3> QED
      BY <1>1, <3>1, <3>2 DEF TypeOK
  <2>2. timer_nodes' \in [0..MaxNodes -> 0..Len(nodes')] /\ cur' \in 0..Len(nodes')
          /\ ended' \subseteq 1..Len(nodes')
    BY KeptFacts DEF TypeOK
  <2> QED
    BY <1>1, <1>3, <2>1, <2>2 DEF TypeOK, Kept
<1>5. pc[Worker] \notin {"idle", "loop", "pop"} \/ t # Worker
  BY DEF Caller
<1>6. LoopInv'
  BY <1>1, <1>5, KeptFacts DEF LoopInv, TypeOK
<1>7. CallInv'
  <2>1. \A u \in Threads : u # t /\ pc[u] \in Adding =>
          new'[u] \in 1..Len(nodes) /\ new'[u] \in 1..Len(nodes') /\ new'[u] # Len(nodes) + 1
    BY <1>0, <1>2, KeptFacts DEF CallInv
  <2>2. \A u \in Threads' : pc'[u] \in Adding => new'[u] \in 1..Len(nodes')
    BY <1>0, <1>1, <1>2, <2>1
  <2>3. \A u \in Threads' : pc'[u] \in {"add", "reinsert"} => nodes'[new'[u]].timer_id = 0
    BY <1>1, <1>2, <2>1 DEF CallInv, SameIds, Adding
  <2>4. \A u, w \in Threads' :
          pc'[u] \in {"add", "reinsert"} /\ pc'[w] \in Adding /\ new'[u] = new'[w] => u = w
    BY <1>1, <1>2, <2>1 DEF CallInv, Adding
  <2> QED
    BY <2>2, <2>3, <2>4 DEF CallInv
<1>8. IdInv'
  BY KeptFacts DEF IdInv, SameIds
<1>9. PlaceInv'
  <2> SUFFICES ASSUME Alone PROVE PlaceInv'
    BY <1>1 DEF PlaceInv
  <2>1. t = Worker /\ pc[Worker] = "handler" /\ pc'[Worker] = l
    BY <1>1 DEF Caller
  <2>2. Held /\ Held' /\ ~Comes /\ Comes'
    BY <2>1 DEF Held, Comes
  <2>3. /\ Once(heap') /\ IsHeap(heap', Expire') /\ cur' \notin In(heap')
        /\ cur' \in fired' /\ cur' \in 1..Len(nodes) /\ In(heap') = In(heap)
    BY <1>3, <2>1, <2>2 DEF PlaceInv, LoopInv
  <2>4. new'[Worker] \notin In(heap') /\ new'[Worker] # cur'
    BY <1>0, <1>2, <1>3, <2>1, <2>3
  <2>5. ASSUME NEW n \in 1..Len(nodes'), ~nodes'[n].stopped, nodes'[n].loop \/ n \notin fired'
        PROVE  n \in In(heap') \/ cur' = n \/ new'[Worker] = n
    <3>1. CASE n = Len(nodes) + 1
      BY <1>2, <2>1, <3>1
    <3>2. CASE n # Len(nodes) + 1
      <4>1. n \in 1..Len(nodes)
        BY <1>0, <3>2
      <4>2. ~nodes[n].stopped /\ (nodes[n].loop \/ n \notin fired)
        BY <2>5, <4>1 DEF Kept
      <4> QED
        BY <2>2, <2>3, <4>1, <4>2 DEF PlaceInv
    <3> QED
      BY <3>1, <3>2
  <2> QED
    BY <2>1, <2>2, <2>3, <2>4, <2>5 DEF PlaceInv
<1> QED
  BY <1>4, <1>6, <1>7, <1>8, <1>9

LEMMA StartTimer ==
  ASSUME Inv, NEW t \in Threads, start_timer(t)
  PROVE  Inv'
<1> USE DEF Inv
<1>0. Len(nodes) \in Nat /\ Len(nodes) < MaxNodes /\ MaxNodes \in Nat
  BY NodeFacts, TimesAssumption DEF start_timer, Room
<1>1. PICK i \in Intervals, b \in BOOLEAN : nodes' = Append(nodes, Node(i, b))
  BY DEF start_timer
<1>2. PICK x : x = Node(i, b)
  OBVIOUS
<1>3. x \in Timer /\ x.timer_id = 0 /\ ~x.stopped
  <2>1. i \in Nat /\ now + i \in Nat
    BY TimesAssumption DEF TypeOK
  <2> QED
    BY <1>2, <2>1 DEF Node, Timer
<1>4. /\ nodes' \in Seq(Timer) /\ Len(nodes') = Len(nodes) + 1
      /\ \A n \in 1..Len(nodes) : nodes'[n] = nodes[n]
      /\ nodes'[Len(nodes) + 1] = x
  BY <1>1, <1>2, <1>3 DEF TypeOK
<1>5. Kept /\ SameIds /\ SameTimes
  BY <1>0, <1>4 DEF Kept, SameIds, SameTimes
<1>6. /\ Caller(t) /\ new' = [new EXCEPT ![t] = Len(nodes) + 1] /\ pc' = [pc EXCEPT ![t] = "add"]
      /\ UNCHANGED <<now, heap, timer_nodes, timer_index, timer_mutex, cur, fired, ended, late>>
  BY DEF start_timer, Goto, history
<1>7. TypeOK' /\ LoopInv' /\ CallInv' /\ IdInv' /\ PlaceInv'
  <2>1. timer_nodes' \in [0..MaxNodes -> 0..Len(nodes)] /\ ended' \subseteq 1..Len(nodes)
    BY <1>6 DEF TypeOK
  <2>2. nodes'[Len(nodes) + 1].timer_id = 0 /\ "add" \in {"add", "reinsert"}
    BY <1>3, <1>4
  <2> QED
    BY <1>4, <1>5, <1>6, <2>1, <2>2, NewNode
<1>8. /\ pc'[t] = "add" /\ \A u \in Threads : u # t => pc'[u] = pc[u]
      /\ Alone' = Alone /\ (Alone => t = Worker) /\ new'[t] = Len(nodes) + 1
  <2>1. "add" \in Labels
    BY DEF Labels, Adding
  <2> QED
    BY <1>6, <2>1, PcFacts DEF TypeOK
<1>9. LateInv'
  <2>1. pc'[Worker] = "call" => pc[Worker] = "call"
    BY <1>8 DEF TypeOK
  <2> QED
    BY <1>5, <1>6, <2>1, LateStays
<1>10. MapInv'
  <2> SUFFICES ASSUME Alone PROVE MapInv'
    BY <1>8 DEF MapInv
  <2>1. \A id \in 0..MaxNodes : timer_nodes[id] \in 0..Len(nodes) /\ timer_nodes[id] # Len(nodes) + 1
    BY <1>0 DEF TypeOK
  <2>2. \A id \in 0..MaxNodes : timer_nodes[id] # 0 => nodes'[timer_nodes[id]] = nodes[timer_nodes[id]]
    BY <1>0, <1>4, <2>1
  <2> QED
    BY <1>3, <1>4, <1>6, <1>8, <2>1, <2>2 DEF MapInv
<1>11. ReachInv'
  <2>1. \A n \in 1..Len(nodes') : n \notin 1..Len(nodes) => n = Len(nodes) + 1
    BY <1>0, <1>4
  <2>2. Alone => pc[Worker] # "register"
    BY <1>6, <1>8 DEF Caller
  <2> QED
    BY <1>3, <1>4, <1>5, <1>6, <1>8, <2>1, <2>2, ReachStays
<1> QED
  BY <1>7, <1>9, <1>10, <1>11

\* The node goes into the heap and gets the next id.
LEMMA AddTimer ==
  ASSUME Inv, NEW t \in Threads, add_timer(t)
  PROVE  Inv'
<1> USE DEF Inv
<1>0. /\ pc[t] = "add" /\ pc' = [pc EXCEPT ![t] = "register"]
      /\ UNCHANGED <<now, timer_nodes, timer_mutex, new, cur, fired, ended, late>>
      /\ timer_index' = timer_index + 1
  BY DEF add_timer, Goto, history
<1>1. PICK n : n = new[t]
  OBVIOUS
<1>2. n \in 1..Len(nodes) /\ nodes[n].timer_id = 0
  BY <1>0, <1>1 DEF CallInv, Adding
<1>3. nodes' = [nodes EXCEPT ![n].timer_id = timer_index] /\ heap' = heap_insert(heap, n, Expire)
  BY <1>1 DEF add_timer
<1>4. /\ nodes' \in Seq(Timer) /\ Len(nodes') = Len(nodes) /\ Len(nodes) \in Nat
      /\ nodes'[n] = [nodes[n] EXCEPT !.timer_id = timer_index]
      /\ \A k \in 1..Len(nodes) : k # n => nodes'[k] = nodes[k]
  <2>1. nodes[n] \in Timer /\ Len(nodes) \in Nat
    BY <1>2, NodeFacts
  <2>2. PICK x : x = [nodes[n] EXCEPT !.timer_id = timer_index]
    OBVIOUS
  <2>3. x \in Timer
    BY <2>1, <2>2 DEF TypeOK, Timer
  <2>4. nodes' = [nodes EXCEPT ![n] = x]
    BY <1>3, <2>2
  <2>5. nodes' \in Seq(Timer) /\ Len(nodes') = Len(nodes)
    BY <1>2, <2>3, <2>4, ExceptSeq DEF TypeOK
  <2>6. nodes'[n] = x /\ \A k \in 1..Len(nodes) : k # n => nodes'[k] = nodes[k]
    BY <1>2, <2>4, NodeFacts
  <2> QED
    BY <2>1, <2>2, <2>5, <2>6
<1>5. /\ nodes'[n].timer_id = timer_index /\ nodes'[n].loop = nodes[n].loop
      /\ nodes'[n].stopped = nodes[n].stopped /\ nodes'[n].expire_time = nodes[n].expire_time
  <2>1. nodes[n] \in Timer
    BY <1>2, NodeFacts
  <2> QED
    BY <1>4, <2>1 DEF Timer
<1>6. Kept /\ SameTimes /\ \A k \in 1..Len(nodes) : nodes'[k].stopped = nodes[k].stopped
  <2>1. Len(nodes') >= Len(nodes) /\ Len(nodes') <= MaxNodes
    BY <1>4 DEF TypeOK
  <2> QED
    BY <1>4, <1>5, <2>1 DEF Kept, SameTimes
<1>7. /\ heap' \in Seq(1..Len(nodes')) /\ heap' # <<>> /\ In(heap') = In(heap) \cup {n}
      /\ (Once(heap) /\ n \notin In(heap) => Once(heap'))
      /\ (IsHeap(heap, Expire) => IsHeap(heap', Expire'))
  BY <1>2, <1>3, <1>4, <1>6, HeapGrows
<1>8. /\ pc' \in [Threads' -> Labels] /\ Threads' = Threads /\ Worker \in Threads'
      /\ pc'[t] = "register" /\ \A u \in Threads : u # t => pc'[u] = pc[u]
      /\ Alone' = Alone /\ (Alone => t = Worker)
  <2>1. "register" \in Labels
    BY DEF Labels, Adding
  <2> QED
    BY <1>0, <2>1, PcFacts
<1>9. TypeOK'
  <2>1. timer_index' \in Nat \ {0}
    BY <1>0 DEF TypeOK
  <2> QED
    BY <1>0, <1>4, <1>7, <1>8, <2>1 DEF TypeOK
<1>10. LoopInv'
  BY <1>0, <1>4, <1>7, <1>8 DEF LoopInv, TypeOK
<1>11. CallInv'
  <2>1. \A u \in Threads : u # t /\ pc[u] \in {"add", "reinsert"} =>
          new[u] # n /\ new[u] \in 1..Len(nodes)
    BY <1>0, <1>1 DEF CallInv, Adding
  <2>2. \A u \in Threads' : pc'[u] \in Adding => new'[u] \in 1..Len(nodes')
    BY <1>0, <1>1, <1>2, <1>4, <1>8 DEF CallInv, Adding
  <2>3. \A u \in Threads' : pc'[u] \in {"add", "reinsert"} => nodes'[new'[u]].timer_id = 0
    BY <1>0, <1>4, <1>8, <2>1 DEF CallInv
  <2>4. \A u, w \in Threads' :
          pc'[u] \in {"add", "reinsert"} /\ pc'[w] \in Adding /\ new'[u] = new'[w] => u = w
    BY <1>0, <1>8 DEF CallInv, Adding
  <2> QED
    BY <2>2, <2>3, <2>4 DEF CallInv
<1>12. IdInv'
  <2> SUFFICES ASSUME NEW id \in 1..timer_index' - 1
               PROVE  \E k \in 1..Len(nodes) : nodes'[k].timer_id = id
    BY <1>4 DEF IdInv
  <2>1. CASE id = timer_index
    BY <1>2, <1>5, <2>1
  <2>2. CASE id # timer_index
    <3>1. id \in 1..timer_index - 1 /\ id # 0
      BY <1>0, <2>2 DEF TypeOK
    <3>2. PICK k \in 1..Len(nodes) : nodes[k].timer_id = id
      BY <3>1 DEF IdInv
    <3> QED
      BY <1>2, <1>4, <3>1, <3>2
  <2> QED
    BY <2>1, <2>2
<1>13. LateInv'
  <2>1. pc'[Worker] = "call" => pc[Worker] = "call"
    BY <1>8 DEF TypeOK
  <2> QED
    BY <1>0, <1>6, <2>1, LateStays
<1>14. MapInv'
  <2> SUFFICES ASSUME Alone PROVE MapInv'
    BY <1>8 DEF MapInv
  <2>1. t = Worker /\ pc'[Worker] = "register" /\ pc[Worker] = "add"
    BY <1>0, <1>8
  <2>2. ASSUME NEW id \in 0..MaxNodes, timer_nodes[id] # 0
        PROVE  /\ nodes'[timer_nodes[id]].timer_id = id /\ ~nodes'[timer_nodes[id]].stopped
    <3>1. timer_nodes[id] # n /\ timer_nodes[id] \in 1..Len(nodes)
      BY <1>1, <1>4, <2>1, <2>2 DEF MapInv, TypeOK
    <3> QED
      BY <1>4, <2>2, <3>1 DEF MapInv
  <2>3. ~nodes'[new'[Worker]].stopped
    BY <1>0, <1>1, <1>5, <2>1 DEF MapInv, Adding
  <2> QED
    BY <1>0, <2>1, <2>2, <2>3 DEF MapInv
<1>15. PlaceInv'
  <2> SUFFICES ASSUME Alone PROVE PlaceInv'
    BY <1>8 DEF PlaceInv
  <2>1. t = Worker /\ pc'[Worker] = "register" /\ pc[Worker] = "add"
    BY <1>0, <1>8
  <2>2. Held /\ Held' /\ Comes /\ ~Comes'
    BY <2>1 DEF Held, Comes
  <2>3. n \notin In(heap) /\ n # cur /\ cur \notin In(heap) /\ cur \in fired
          /\ Once(heap) /\ IsHeap(heap, Expire)
    BY <1>1, <2>1, <2>2 DEF PlaceInv, Adding
  <2>4. Once(heap') /\ IsHeap(heap', Expire') /\ cur' \notin In(heap') /\ cur' \in fired'
    BY <1>0, <1>7, <2>3
  <2>5. ASSUME NEW k \in 1..Len(nodes'), ~nodes'[k].stopped, nodes'[k].loop \/ k \notin fired'
        PROVE  k \in In(heap') \/ cur' = k
    <3>1. k \in 1..Len(nodes) /\ ~nodes[k].stopped /\ (nodes[k].loop \/ k \notin fired)
      BY <1>0, <1>4, <1>6, <2>5 DEF Kept
    <3> QED
      BY <1>0, <1>1, <1>7, <2>1, <2>2, <3>1 DEF PlaceInv
  <2> QED
    BY <2>1, <2>2, <2>4, <2>5 DEF PlaceInv
<1>16. ReachInv'
  <2> SUFFICES ASSUME Alone PROVE ReachInv'
    BY <1>8 DEF ReachInv
  <2>1. t = Worker /\ pc'[Worker] = "register" /\ pc[Worker] = "add" /\ new'[Worker] = n
    BY <1>0, <1>1, <1>8
  <2>2. timer_index \in Nat /\ \A k \in 1..Len(nodes) :
          nodes[k].timer_id \in Nat /\ nodes[k].timer_id < timer_index
    BY NodeFacts DEF ReachInv, TypeOK, Timer
  <2>3. \A k \in 1..Len(nodes) : k # n => nodes'[k].timer_id = nodes[k].timer_id
                                          /\ nodes'[k].stopped = nodes[k].stopped
    BY <1>4
  <2>4. \A k \in 1..Len(nodes) : nodes'[k].timer_id < timer_index'
    BY <1>0, <1>5, <2>2, <2>3
  <2>5. \A k, j \in 1..Len(nodes) :
          nodes'[k].timer_id # 0 /\ nodes'[k].timer_id = nodes'[j].timer_id => k = j
    BY <1>5, <2>2, <2>3 DEF ReachInv
  <2>6. \A k \in 1..Len(nodes) : nodes'[k].timer_id # 0 /\ ~nodes'[k].stopped =>
          timer_nodes'[nodes'[k].timer_id] = k \/ new'[Worker] = k
    BY <1>0, <2>1, <2>3 DEF ReachInv
  <2> QED
    BY <1>4, <2>1, <2>4, <2>5, <2>6 DEF ReachInv
<1> QED
  BY <1>9, <1>10, <1>11, <1>12, <1>13, <1>14, <1>15, <1>16

\* A call returns: the handler goes on, or the other thread is idle.
LEMMA Returns ==
  ASSUME TypeOK, NEW t \in Threads, Return(t)
  PROVE  /\ pc' \in [Threads' -> Labels] /\ Threads' = Threads /\ Worker \in Threads'
         /\ pc'[t] = (IF t = Worker THEN "handler" ELSE "idle")
         /\ \A u \in Threads : u # t => pc'[u] = pc[u]
         /\ Alone' = Alone /\ (Alone => t = Worker)
<1>1. PICK l \in Labels : l = (IF t = Worker THEN "handler" ELSE "idle") /\ pc' = [pc EXCEPT ![t] = l]
  BY DEF Return, Goto, Labels
<1> QED
  BY <1>1, PcFacts

LEMMA RegisterTimer ==
  ASSUME Inv, NEW t \in Threads, add_timer_register(t)
  PROVE  Inv'
<1> USE DEF Inv
<1>0. /\ pc[t] = "register" /\ new' = [new EXCEPT ![t] = 0] /\ Return(t)
      /\ UNCHANGED <<now, nodes, heap, timer_index, timer_mutex, cur, fired, ended, late>>
      /\ timer_nodes' = [timer_nodes EXCEPT ![nodes[new[t]].timer_id] = new[t]]
  BY DEF add_timer_register, history
<1>1. /\ pc' \in [Threads' -> Labels] /\ Threads' = Threads /\ Worker \in Threads'
      /\ pc'[t] = (IF t = Worker THEN "handler" ELSE "idle")
      /\ \A u \in Threads : u # t => pc'[u] = pc[u]
      /\ Alone' = Alone /\ (Alone => t = Worker)
  BY <1>0, Returns
<1>2. new'[t] = 0 /\ \A u \in Threads : u # t => new'[u] = new[u]
  BY <1>0 DEF TypeOK
<1>3. new[t] \in 1..Len(nodes) /\ Len(nodes) \in Nat /\ new[t] \in 0..Len(nodes)
  BY <1>0, NodeFacts DEF CallInv, Adding
<1>4. /\ timer_nodes' \in [0..MaxNodes -> 0..Len(nodes)]
      /\ \A id \in 0..MaxNodes : timer_nodes'[id] =
           IF id = nodes[new[t]].timer_id THEN new[t] ELSE timer_nodes[id]
  BY <1>0, <1>3 DEF TypeOK
<1>5. TypeOK'
  <2>1. new' \in [Threads' -> 0..Len(nodes)]
    BY <1>0, <1>1, <1>3 DEF TypeOK
  <2> QED
    BY <1>0, <1>1, <1>4, <2>1 DEF TypeOK
<1>6. LoopInv'
  BY <1>0, <1>1 DEF LoopInv, TypeOK
<1>7. CallInv'
  BY <1>0, <1>1, <1>2 DEF CallInv, Adding
<1>8. IdInv'
  BY <1>0 DEF IdInv
<1>9. LateInv'
  <2>1. pc'[Worker] = "call" => pc[Worker] = "call"
    BY <1>1 DEF TypeOK
  <2> QED
    BY <1>0, <2>1, LateStays, Unchanged
<1>10. MapInv'
  <2> SUFFICES ASSUME Alone PROVE MapInv'
    BY <1>1 DEF MapInv
  <2>1. t = Worker /\ pc'[Worker] = "handler" /\ ~nodes[new[t]].stopped
    BY <1>0, <1>1 DEF MapInv, Adding
  <2> QED
    BY <1>0, <1>4, <2>1 DEF MapInv, Adding
<1>11. PlaceInv'
  <2> SUFFICES ASSUME Alone PROVE PlaceInv'
    BY <1>1 DEF PlaceInv
  <2>1. t = Worker /\ pc'[Worker] = "handler" /\ pc[Worker] = "register" /\ Expire' = Expire
    BY <1>0, <1>1 DEF Expire
  <2> QED
    BY <1>0, <2>1 DEF PlaceInv, Held, Comes, Adding
<1>12. ReachInv'
  <2> SUFFICES ASSUME Alone PROVE ReachInv'
    BY <1>1 DEF ReachInv
  <2>1. t = Worker
    BY <1>1
  <2>2. ASSUME NEW k \in 1..Len(nodes), nodes[k].timer_id # 0, ~nodes[k].stopped
        PROVE  timer_nodes'[nodes[k].timer_id] = k
    <3>1. nodes[k].timer_id \in Nat /\ nodes[k].timer_id < timer_index /\ timer_index \in Nat
      BY NodeFacts DEF ReachInv, TypeOK, Timer
    <3>2. nodes[k].timer_id \in 0..timer_index - 1
      BY <3>1
    <3>3. nodes[k].timer_id \in 0..MaxNodes
      BY <3>2, Ids
    <3>4. timer_nodes[nodes[k].timer_id] = k \/ new[t] = k
      BY <2>1, <2>2 DEF ReachInv
    <3>5. nodes[k].timer_id = nodes[new[t]].timer_id => k = new[t]
      BY <1>3, <2>2 DEF ReachInv
    <3> QED
      BY <1>4, <3>3, <3>4, <3>5
  <2> QED
    BY <1>0, <2>2 DEF ReachInv
<1> QED
  BY <1>5, <1>6, <1>7, <1>8, <1>9, <1>10, <1>11, <1>12

\* Marking a node as stopped.
Marked(n) == [nodes EXCEPT ![n].stopped = TRUE]

LEMMA Stopped ==
  ASSUME TypeOK, NEW n \in 1..Len(nodes), NEW m, m = Marked(n)
  PROVE  /\ m \in Seq(Timer) /\ Len(m) = Len(nodes) /\ m[n].stopped
         /\ \A k \in 1..Len(nodes) :
              /\ m[k].timer_id = nodes[k].timer_id /\ m[k].loop = nodes[k].loop
              /\ m[k].expire_time = nodes[k].expire_time
              /\ (nodes[k].stopped => m[k].stopped) /\ (k # n => m[k] = nodes[k])
<1>1. \A k \in 1..Len(nodes) : nodes[k] \in Timer
  BY NodeFacts
<1>2. Len(nodes) \in Nat /\ DOMAIN nodes = 1..Len(nodes)
  BY NodeFacts
<1>3. PICK x : x = [nodes[n] EXCEPT !.stopped = TRUE]
  OBVIOUS
<1>4. /\ x \in Timer /\ x.stopped /\ x.timer_id = nodes[n].timer_id /\ x.loop = nodes[n].loop
      /\ x.expire_time = nodes[n].expire_time
  <2>1. nodes[n] \in Timer
    BY <1>1
  <2> QED
    BY <1>3, <2>1 DEF Timer
<1>5. m = [nodes EXCEPT ![n] = x]
  BY <1>3 DEF Marked
<1>6. m[n] = x /\ \A k \in 1..Len(nodes) : k # n => m[k] = nodes[k]
  BY <1>2, <1>5
<1>7. m \in Seq(Timer) /\ Len(m) = Len(nodes)
  <2>1. nodes \in Seq(Timer)
    BY DEF TypeOK
  <2>2. [nodes EXCEPT ![n] = x] \in Seq(Timer) /\ Len([nodes EXCEPT ![n] = x]) = Len(nodes)
    BY <1>4, <2>1, ExceptSeq
  <2> QED
    BY <1>5, <2>2
<1> QED
  BY <1>4, <1>6, <1>7

LEMMA StopTimer ==
  ASSUME Inv, NEW t \in Threads, stop_timer(t)
  PROVE  Inv'
<1> USE DEF Inv
<1>0. /\ Caller(t)
      /\ UNCHANGED <<now, heap, timer_index, timer_mutex, pc, new, cur, fired, late>>
  BY DEF stop_timer
<1>1. PICK id \in 0..timer_index - 1 :
        /\ timer_nodes[id] # 0 /\ nodes' = [nodes EXCEPT ![timer_nodes[id]].stopped = TRUE]
        /\ timer_nodes' = [timer_nodes EXCEPT ![id] = 0]
        /\ ended' = ended \cup {timer_nodes[id]}
  BY DEF stop_timer, Stop
<1>2. PICK n : n = timer_nodes[id]
  OBVIOUS
<1>3. n \in 1..Len(nodes) /\ Len(nodes) \in Nat /\ id \in 0..MaxNodes
  BY <1>1, <1>2, Ids, NodeFacts
<1>4. /\ nodes' \in Seq(Timer) /\ Len(nodes') = Len(nodes) /\ nodes'[n].stopped
      /\ \A k \in 1..Len(nodes) :
           /\ nodes'[k].timer_id = nodes[k].timer_id /\ nodes'[k].loop = nodes[k].loop
           /\ nodes'[k].expire_time = nodes[k].expire_time
           /\ (nodes[k].stopped => nodes'[k].stopped) /\ (k # n => nodes'[k] = nodes[k])
  <2>1. nodes' = Marked(n)
    BY <1>1, <1>2 DEF Marked
  <2>2. PICK m : m = Marked(n)
    OBVIOUS
  <2>3. /\ m \in Seq(Timer) /\ Len(m) = Len(nodes) /\ m[n].stopped
        /\ \A k \in 1..Len(nodes) :
             /\ m[k].timer_id = nodes[k].timer_id /\ m[k].loop = nodes[k].loop
             /\ m[k].expire_time = nodes[k].expire_time
             /\ (nodes[k].stopped => m[k].stopped) /\ (k # n => m[k] = nodes[k])
    BY <1>3, <2>2, Stopped
  <2> QED
    BY <2>1, <2>2, <2>3
<1>5. Kept /\ SameIds /\ SameTimes
  <2>1. Len(nodes') >= Len(nodes) /\ Len(nodes') <= MaxNodes
    BY <1>3, <1>4 DEF TypeOK
  <2> QED
    BY <1>4, <2>1 DEF Kept, SameIds, SameTimes
<1>6. heap' \in Seq(1..Len(nodes')) /\ (IsHeap(heap, Expire) => IsHeap(heap', Expire'))
  <2>1. \A k \in In(heap) : k \in 1..Len(nodes)
    BY DEF TypeOK, In
  <2> QED
    BY <1>0, <1>5, <2>1, HeapStays DEF SameTimes
<1>7. Threads' = Threads /\ Alone' = Alone
  BY <1>0 DEF Threads, Alone
<1>8. TypeOK'
  <2>1. timer_nodes' \in [0..MaxNodes -> 0..Len(nodes)]
    BY <1>1, <1>3 DEF TypeOK
  <2> QED
    BY <1>0, <1>1, <1>2, <1>3, <1>4, <1>6, <1>7, <2>1 DEF TypeOK
<1>9. LoopInv'
  BY <1>0, <1>4 DEF LoopInv
<1>10. CallInv'
  BY <1>0, <1>4, <1>7 DEF CallInv, Adding
<1>11. IdInv'
  BY <1>0, <1>4 DEF IdInv
<1>12. LateInv'
  BY <1>0, <1>1, <1>2, <1>4, <1>5, LateStays
<1>13. MapInv'
  <2> SUFFICES ASSUME Alone PROVE MapInv'
    BY <1>7 DEF MapInv
  <2>1. pc[Worker] = "handler" /\ pc' = pc
    BY <1>0 DEF Caller, Alone
  <2>2. ASSUME NEW k \in 0..MaxNodes, timer_nodes'[k] # 0
        PROVE  /\ nodes'[timer_nodes'[k]].timer_id = k /\ ~nodes'[timer_nodes'[k]].stopped
    <3>1. k # id /\ timer_nodes'[k] = timer_nodes[k]
      BY <1>1, <1>3, <2>2 DEF TypeOK
    <3>2. timer_nodes[k] \in 1..Len(nodes) /\ nodes[timer_nodes[k]].timer_id = k
            /\ ~nodes[timer_nodes[k]].stopped
      <4>1. timer_nodes[k] \in 0..Len(nodes) /\ timer_nodes[k] # 0
        BY <2>2, <3>1 DEF TypeOK
      <4>2. timer_nodes[k] \in 1..Len(nodes)
        BY <1>3, <4>1
      <4> QED
        BY <4>1, <4>2 DEF MapInv
    <3>3. timer_nodes[k] # n
      BY <1>1, <1>2, <1>3, <3>1, <3>2 DEF MapInv
    <3> QED
      BY <1>4, <3>1, <3>2, <3>3
  <2> QED
    BY <2>1, <2>2 DEF MapInv, Adding
<1>14. PlaceInv'
  <2> SUFFICES ASSUME Alone PROVE PlaceInv'
    BY <1>7 DEF PlaceInv
  <2>1. ASSUME NEW k \in 1..Len(nodes'), ~nodes'[k].stopped, nodes'[k].loop \/ k \notin fired'
        PROVE  k \in 1..Len(nodes) /\ ~nodes[k].stopped /\ (nodes[k].loop \/ k \notin fired)
    BY <1>0, <1>4, <2>1
  <2> QED
    BY <1>0, <1>6, <2>1 DEF PlaceInv, Held, Comes
<1>15. ReachInv'
  <2>1. ASSUME Alone, NEW k \in 1..Len(nodes), ~nodes'[k].stopped,
               timer_nodes[nodes[k].timer_id] = k
        PROVE  timer_nodes'[nodes[k].timer_id] = k
    <3>1. k # n /\ nodes[k].timer_id # id
      BY <1>2, <1>4, <2>1
    <3> QED
      BY <1>1, <2>1, <3>1 DEF TypeOK
  <2> QED
    BY <1>0, <1>4, <1>5, <1>7, <2>1, ReachStays
<1> QED
  BY <1>8, <1>9, <1>10, <1>11, <1>12, <1>13, <1>14, <1>15

LEMMA RestartTimer ==
  ASSUME Inv, NEW t \in Threads, restart_timer(t)
  PROVE  Inv'
<1> USE DEF Inv
<1>0. /\ Caller(t) /\ new' = [new EXCEPT ![t] = Len(nodes) + 1]
      /\ pc' = [pc EXCEPT ![t] = "reinsert"]
      /\ UNCHANGED <<now, heap, timer_index, cur, fired, late>>
      /\ Len(nodes) < MaxNodes /\ Len(nodes) \in Nat /\ MaxNodes \in Nat
  BY NodeFacts, TimesAssumption DEF restart_timer, Goto, Room
<1>1. PICK id \in 0..timer_index - 1, i \in Intervals \cup {0} :
        /\ timer_nodes[id] # 0
        /\ nodes' = Append([nodes EXCEPT ![timer_nodes[id]].stopped = TRUE],
                           Node(new_interval(i, timer_nodes[id]), nodes[timer_nodes[id]].loop))
        /\ timer_nodes' = [timer_nodes EXCEPT ![id] = 0]
        /\ ended' = ended \cup {timer_nodes[id]}
  BY DEF restart_timer
<1>2. PICK n, m, x : /\ n = timer_nodes[id] /\ m = Marked(n)
                     /\ x = Node(new_interval(i, n), nodes[n].loop)
  OBVIOUS
<1>3. n \in 1..Len(nodes) /\ id \in 0..MaxNodes
  BY <1>0, <1>1, <1>2, Ids
<1>4. /\ m \in Seq(Timer) /\ Len(m) = Len(nodes) /\ m[n].stopped
      /\ \A k \in 1..Len(nodes) :
           /\ m[k].timer_id = nodes[k].timer_id /\ m[k].loop = nodes[k].loop
           /\ m[k].expire_time = nodes[k].expire_time
           /\ (nodes[k].stopped => m[k].stopped) /\ (k # n => m[k] = nodes[k])
  <2>1. TypeOK /\ n \in 1..Len(nodes) /\ m = Marked(n)
    BY <1>2, <1>3
  <2> HIDE DEF Inv
  <2> QED
    BY <2>1, Stopped
<1>5. x \in Timer /\ x.timer_id = 0 /\ ~x.stopped
  <2>1. nodes[n] \in Timer
    BY <1>3, NodeFacts
  <2>2. new_interval(i, n) \in Nat /\ nodes[n].loop \in BOOLEAN
    <3> HIDE DEF Inv
    <3>1. nodes[n].interval \in Nat /\ nodes[n].loop \in BOOLEAN
      BY <2>1, TimesAssumption DEF Timer
    <3>2. i \in Nat
      BY TimesAssumption
    <3>3. new_interval(i, n) = i \/ new_interval(i, n) = nodes[n].interval
      BY Zenon DEF new_interval
    <3> QED
      BY <3>1, <3>2, <3>3, Zenon
  <2>3. now + new_interval(i, n) \in Nat
    BY <2>2 DEF TypeOK
  <2> QED
    BY <1>2, <2>2, <2>3 DEF Node, Timer
<1>6. /\ nodes' \in Seq(Timer) /\ Len(nodes') = Len(nodes) + 1 /\ nodes'[Len(nodes) + 1] = x
      /\ \A k \in 1..Len(nodes) : nodes'[k] = m[k]
  <2>1. nodes' = Append(m, x)
    BY <1>1, <1>2 DEF Marked
  <2> QED
    BY <1>0, <1>4, <1>5, <2>1
<1>7. Kept /\ SameIds /\ SameTimes
  <2>1. Kept
    BY <1>0, <1>4, <1>6, SMTT(20) DEF Kept
  <2>2. SameIds
    BY <1>0, <1>4, <1>6 DEF SameIds
  <2>3. SameTimes
    BY <1>0, <1>4, <1>6 DEF SameTimes
  <2> QED
    BY <2>1, <2>2, <2>3
<1>8. timer_nodes' \in [0..MaxNodes -> 0..Len(nodes)] /\ ended' \subseteq 1..Len(nodes)
  <2>1. 0 \in 0..Len(nodes)
    BY <1>0
  <2> QED
    BY <1>1, <1>2, <1>3, <2>1 DEF TypeOK
<1>9. TypeOK' /\ LoopInv' /\ CallInv' /\ IdInv' /\ PlaceInv'
  <2>1. nodes'[Len(nodes) + 1].timer_id = 0 /\ "reinsert" \in {"add", "reinsert"}
    BY <1>5, <1>6
  <2> QED
    BY <1>0, <1>6, <1>7, <1>8, <2>1, NewNode
<1>10. /\ pc'[t] = "reinsert" /\ \A u \in Threads : u # t => pc'[u] = pc[u]
       /\ Alone' = Alone /\ (Alone => t = Worker) /\ new'[t] = Len(nodes) + 1
  <2>1. "reinsert" \in Labels
    BY DEF Labels, Adding
  <2> QED
    BY <1>0, <2>1, PcFacts DEF TypeOK
<1>11. LateInv'
  <2>1. pc'[Worker] = "call" => pc[Worker] = "call"
    BY <1>10 DEF TypeOK
  <2>2. ended \subseteq ended' /\ \A k \in ended' : k \notin ended => nodes'[k].stopped
    BY <1>1, <1>2, <1>3, <1>4, <1>6
  <2> QED
    BY <1>0, <1>7, <2>1, <2>2, LateStays
<1>12. MapInv'
  <2> SUFFICES ASSUME Alone PROVE MapInv'
    BY <1>10 DEF MapInv
  <2>1. pc'[Worker] = "reinsert" /\ new'[Worker] = Len(nodes) + 1
    BY <1>10
  <2>2. ASSUME NEW k \in 0..MaxNodes, timer_nodes'[k] # 0
        PROVE  /\ nodes'[timer_nodes'[k]].timer_id = k /\ ~nodes'[timer_nodes'[k]].stopped
    <3>1. k # id /\ timer_nodes'[k] = timer_nodes[k]
      BY <1>1, <1>3, <2>2 DEF TypeOK
    <3>2. timer_nodes[k] \in 1..Len(nodes) /\ nodes[timer_nodes[k]].timer_id = k
            /\ ~nodes[timer_nodes[k]].stopped
      BY <1>0, <2>2, <3>1 DEF MapInv, TypeOK
    <3>3. timer_nodes[k] # n
      BY <1>1, <1>2, <1>3, <3>1, <3>2 DEF MapInv
    <3> QED
      BY <1>4, <1>6, <3>1, <3>2, <3>3
  <2> QED
    BY <1>5, <1>6, <2>1, <2>2 DEF MapInv
<1>13. ReachInv'
  <2>1. \A k \in 1..Len(nodes') : k \notin 1..Len(nodes) => k = Len(nodes) + 1
    BY <1>0, <1>6
  <2>2. Alone => pc[Worker] # "register"
    BY <1>0, <1>10 DEF Caller
  <2>3. ASSUME Alone, NEW k \in 1..Len(nodes), ~nodes'[k].stopped,
               timer_nodes[nodes[k].timer_id] = k
        PROVE  timer_nodes'[nodes[k].timer_id] = k
    <3>1. k # n /\ nodes[k].timer_id # id
      BY <1>2, <1>4, <1>6, <2>3
    <3> QED
      BY <1>1, <2>3, <3>1 DEF TypeOK
  <2>4. \A k \in 1..Len(nodes') : k \notin 1..Len(nodes) => nodes'[k].timer_id = 0
    BY <1>5, <1>6, <2>1
  <2> QED
    BY <1>0, <1>7, <1>10, <2>2, <2>3, <2>4, ReachStays
<1> QED
  BY <1>9, <1>11, <1>12, <1>13

LEMMA RestartInsert ==
  ASSUME Inv, NEW t \in Threads, restart_timer_insert(t)
  PROVE  Inv'
<1> USE DEF Inv
<1>0. /\ pc[t] = "reinsert" /\ new' = [new EXCEPT ![t] = 0] /\ Return(t)
      /\ UNCHANGED <<now, nodes, timer_index, cur, fired, ended, late>>
      /\ timer_nodes' = [timer_nodes EXCEPT ![nodes[new[t]].timer_id] = new[t]]
  BY DEF restart_timer_insert, history
<1>1. /\ pc' \in [Threads' -> Labels] /\ Threads' = Threads /\ Worker \in Threads'
      /\ pc'[t] = (IF t = Worker THEN "handler" ELSE "idle")
      /\ \A u \in Threads : u # t => pc'[u] = pc[u]
      /\ Alone' = Alone /\ (Alone => t = Worker)
  BY <1>0, Returns
<1>2. new'[t] = 0 /\ \A u \in Threads : u # t => new'[u] = new[u]
  BY <1>0 DEF TypeOK
<1>3. PICK n : n = new[t]
  OBVIOUS
<1>4. n \in 1..Len(nodes) /\ Len(nodes) \in Nat /\ n \in 0..Len(nodes) /\ 0 \in 0..Len(nodes)
  BY <1>0, <1>3, NodeFacts DEF CallInv, Adding
<1>5. /\ timer_nodes' \in [0..MaxNodes -> 0..Len(nodes)]
      /\ \A id \in 0..MaxNodes : timer_nodes'[id] =
           IF id = nodes[n].timer_id THEN n ELSE timer_nodes[id]
  BY <1>0, <1>3, <1>4 DEF TypeOK
<1>6. Kept /\ SameIds /\ SameTimes /\ Len(nodes') = Len(nodes)
  BY <1>0, Unchanged
<1>7. /\ heap' \in Seq(1..Len(nodes')) /\ heap' # <<>> /\ In(heap') = In(heap) \cup {n}
      /\ (Once(heap) /\ n \notin In(heap) => Once(heap'))
      /\ (IsHeap(heap, Expire) => IsHeap(heap', Expire'))
  <2>1. heap' = heap_insert(heap, n, Expire)
    BY <1>3 DEF restart_timer_insert
  <2> QED
    BY <1>4, <1>6, <2>1, HeapGrows
<1>8. TypeOK'
  <2>1. new' \in [Threads' -> 0..Len(nodes)]
    BY <1>0, <1>1, <1>4 DEF TypeOK
  <2> QED
    BY <1>0, <1>1, <1>5, <1>7, <2>1 DEF TypeOK
<1>9. LoopInv'
  BY <1>0, <1>1, <1>7 DEF LoopInv, TypeOK
<1>10. CallInv'
  BY <1>0, <1>1, <1>2 DEF CallInv, Adding
<1>11. IdInv'
  BY <1>0 DEF IdInv
<1>12. LateInv'
  <2>1. pc'[Worker] = "call" => pc[Worker] = "call"
    BY <1>1 DEF TypeOK
  <2> QED
    BY <1>0, <1>6, <2>1, LateStays
<1>13. MapInv'
  <2> SUFFICES ASSUME Alone PROVE MapInv'
    BY <1>1 DEF MapInv
  <2>1. t = Worker /\ pc'[Worker] = "handler" /\ ~nodes[n].stopped
    BY <1>0, <1>1, <1>3 DEF MapInv, Adding
  <2> QED
    BY <1>0, <1>5, <2>1 DEF MapInv, Adding
<1>14. PlaceInv'
  <2> SUFFICES ASSUME Alone PROVE PlaceInv'
    BY <1>1 DEF PlaceInv
  <2>1. t = Worker /\ pc'[Worker] = "handler" /\ pc[Worker] = "reinsert"
    BY <1>0, <1>1
  <2>2. Held /\ Held' /\ Comes /\ ~Comes'
    BY <2>1 DEF Held, Comes
  <2>3. n \notin In(heap) /\ n # cur /\ cur \notin In(heap) /\ cur \in fired
          /\ Once(heap) /\ IsHeap(heap, Expire)
    BY <1>3, <2>1, <2>2 DEF PlaceInv, Adding
  <2>4. Once(heap') /\ IsHeap(heap', Expire') /\ cur' \notin In(heap') /\ cur' \in fired'
    BY <1>0, <1>7, <2>3
  <2>5. ASSUME NEW k \in 1..Len(nodes'), ~nodes'[k].stopped, nodes'[k].loop \/ k \notin fired'
        PROVE  k \in In(heap') \/ cur' = k
    BY <1>0, <1>3, <1>7, <2>1, <2>2, <2>5 DEF PlaceInv
  <2> QED
    BY <2>1, <2>2, <2>4, <2>5 DEF PlaceInv
<1>15. ReachInv'
  <2>1. nodes[n].timer_id = 0 /\ (Alone => pc[Worker] = "reinsert")
    BY <1>0, <1>1, <1>3 DEF CallInv
  <2>2. \A k \in 1..Len(nodes) : nodes[k].timer_id # 0 =>
          timer_nodes'[nodes[k].timer_id] = timer_nodes[nodes[k].timer_id]
    BY <1>0, <1>3, <2>1 DEF TypeOK
  <2> QED
    BY <1>0, <1>1, <1>6, <2>1, <2>2, ReachStays
<1> QED
  BY <1>8, <1>9, <1>10, <1>11, <1>12, <1>13, <1>14, <1>15

-----------------------------------------------------------------------------
(***************************************************************************)
(* timer_loop.                                                             *)
(***************************************************************************)
\* What a step of timer_loop leaves alone.
LEMMA WorkerStep ==
  ASSUME Inv, NEW l \in Labels \ Adding, pc' = [pc EXCEPT ![Worker] = l],
         Kept, SameIds, Len(nodes') = Len(nodes), UNCHANGED <<new, timer_index>>
  PROVE  /\ pc' \in [Threads' -> Labels] /\ Threads' = Threads /\ Worker \in Threads'
         /\ pc'[Worker] = l /\ Alone' = Alone /\ CallInv' /\ IdInv'
<1> USE DEF Inv
<1>0. Worker \in Threads /\ l \in Labels
  BY DEF TypeOK
<1>1. /\ pc' \in [Threads' -> Labels] /\ Threads' = Threads /\ Worker \in Threads'
      /\ pc'[Worker] = l /\ \A u \in Threads : u # Worker => pc'[u] = pc[u]
      /\ Alone' = Alone
  BY <1>0, PcFacts
<1>2. \A u \in Threads : pc'[u] \in Adding => pc'[u] = pc[u]
  BY <1>1
<1>3. CallInv'
  <2>1. \A u \in Threads' : pc'[u] \in Adding => new'[u] \in 1..Len(nodes')
    BY <1>1, <1>2 DEF CallInv
  <2>2. \A u \in Threads' : pc'[u] \in {"add", "reinsert"} => nodes'[new'[u]].timer_id = 0
    BY <1>1, <1>2 DEF CallInv, Adding, SameIds
  <2>3. \A u, w \in Threads' :
          pc'[u] \in {"add", "reinsert"} /\ pc'[w] \in Adding /\ new'[u] = new'[w] => u = w
    BY <1>1, <1>2 DEF CallInv, Adding
  <2> QED
    BY <2>1, <2>2, <2>3 DEF CallInv
<1>4. IdInv'
  BY DEF IdInv, SameIds
<1> QED
  BY <1>1, <1>3, <1>4

\* The steps of timer_loop that change neither a node nor the map: MapInv.
LEMMA MapStays ==
  ASSUME Inv, UNCHANGED <<nodes, timer_nodes>>, Alone' = Alone, pc'[Worker] \notin Adding
  PROVE  MapInv'
BY DEF Inv, MapInv, Adding

LEMMA LoopTop ==
  ASSUME Inv, timer_loop_top \/ timer_loop_return
  PROVE  Inv'
<1> USE DEF Inv
<1>0. UNCHANGED <<now, nodes, heap, timer_nodes, timer_index, timer_mutex, new, fired, ended, late>>
  BY DEF timer_loop_top, timer_loop_return, history
<1>1. Kept /\ SameIds /\ SameTimes /\ Len(nodes') = Len(nodes)
  BY <1>0, Unchanged
<1>2. PICK l \in {"pop", "idle"} :
        /\ pc[Worker] \in {"idle", "loop"} /\ pc' = [pc EXCEPT ![Worker] = l]
        /\ (l = "pop" => heap # <<>> /\ cur' = heap[1]) /\ (l = "idle" => cur' = 0)
  BY DEF timer_loop_top, timer_loop_return, Goto, Due
<1>3. /\ pc' \in [Threads' -> Labels] /\ Threads' = Threads /\ Worker \in Threads'
      /\ pc'[Worker] = l /\ Alone' = Alone /\ CallInv' /\ IdInv'
  <2>1. l \in Labels \ Adding
    BY DEF Labels, Adding
  <2> QED
    BY <1>0, <1>1, <1>2, <2>1, WorkerStep
<1>4. (l = "pop" => cur' \in 1..Len(nodes)) /\ cur' \in 0..Len(nodes)
  <2>1. heap # <<>> => heap[1] \in 1..Len(nodes)
    BY DEF TypeOK
  <2>2. Len(nodes) \in Nat
    BY NodeFacts
  <2> QED
    BY <1>2, <2>1, <2>2
<1>5. TypeOK'
  BY <1>0, <1>3, <1>4 DEF TypeOK
<1>6. LoopInv'
  BY <1>0, <1>2, <1>3, <1>4 DEF LoopInv
<1>7. LateInv'
  BY <1>0, <1>1, <1>3, LateStays
<1>8. MapInv'
  BY <1>0, <1>3, MapStays DEF Adding
<1>9. PlaceInv'
  <2>1. Expire' = Expire
    BY <1>0 DEF Expire
  <2> QED
    BY <1>0, <1>2, <1>3, <2>1 DEF PlaceInv, Held, Comes, Adding
<1>10. ReachInv'
  BY <1>0, <1>1, <1>2, <1>3, ReachStays
<1> QED
  BY <1>3, <1>5, <1>6, <1>7, <1>8, <1>9, <1>10

\* With handlers only, pop removes the node that top gave.
LEMMA LoopPop ==
  ASSUME Inv, timer_loop_pop
  PROVE  Inv'
<1> USE DEF Inv
<1>0. /\ pc[Worker] = "pop" /\ pc' = [pc EXCEPT ![Worker] = "check"] /\ heap # <<>>
      /\ heap' = heap_pop(heap, Expire)
      /\ UNCHANGED <<now, nodes, timer_nodes, timer_index, timer_mutex, new, cur, fired, ended, late>>
  BY DEF timer_loop_pop, history, Goto, LoopInv
<1>1. Kept /\ SameIds /\ SameTimes /\ Len(nodes') = Len(nodes)
  BY <1>0, Unchanged
<1>2. /\ pc' \in [Threads' -> Labels] /\ Threads' = Threads /\ Worker \in Threads'
      /\ pc'[Worker] = "check" /\ Alone' = Alone /\ CallInv' /\ IdInv'
  <2>1. "check" \in Labels \ Adding
    BY DEF Labels, Adding
  <2> QED
    BY <1>0, <1>1, <2>1, WorkerStep
<1>3. /\ heap' \in Seq(1..Len(nodes)) /\ In(heap') \subseteq In(heap)
      /\ (Once(heap) => Once(heap') /\ In(heap') = In(heap) \ {heap[1]})
      /\ (IsHeap(heap, Expire) => IsHeap(heap', Expire))
  <2>1. PICK S, key, h : S = 1..Len(nodes) /\ key = Expire /\ h = heap
    OBVIOUS
  <2>2. key \in [S -> Int] /\ h \in Seq(S) /\ h # <<>>
    BY <1>0, <2>1, NodeFacts DEF TypeOK
  <2>3. LET g == heap_pop(h, key) IN
         /\ g \in Seq(S) /\ Len(g) = Len(h) - 1 /\ In(g) \subseteq In(h)
         /\ Once(h) => Once(g) /\ In(g) = In(h) \ {h[1]}
         /\ IsHeap(h, key) => IsHeap(g, key)
    BY <2>2, PoppedHeap, Zenon
  <2> QED
    BY <1>0, <2>1, <2>3
<1>4. TypeOK'
  BY <1>0, <1>2, <1>3 DEF TypeOK
<1>5. LoopInv'
  BY <1>0, <1>2 DEF LoopInv
<1>6. LateInv'
  BY <1>0, <1>1, <1>2, LateStays
<1>7. MapInv'
  BY <1>0, <1>2, MapStays DEF Adding
<1>8. PlaceInv'
  <2>1. Expire' = Expire
    BY <1>0 DEF Expire
  <2> QED
    BY <1>0, <1>2, <1>3, <2>1 DEF PlaceInv, Held, Comes, Adding
<1>9. ReachInv'
  BY <1>0, <1>1, <1>2, ReachStays
<1> QED
  BY <1>2, <1>4, <1>5, <1>6, <1>7, <1>8, <1>9

\* The test of stopped: a handler is called only for a node that was not ended.
LEMMA LoopCheck ==
  ASSUME Inv, timer_loop_check
  PROVE  Inv'
<1> USE DEF Inv
<1>0. /\ pc[Worker] = "check"
      /\ UNCHANGED <<now, nodes, heap, timer_nodes, timer_index, timer_mutex, new, cur, fired,
                     ended, late>>
  BY DEF timer_loop_check, history
<1>1. PICK l \in {"loop", "call"} : /\ l = (IF nodes[cur].stopped THEN "loop" ELSE "call")
                                    /\ pc' = [pc EXCEPT ![Worker] = l]
  BY DEF timer_loop_check, Goto
<1>2. Kept /\ SameIds /\ SameTimes /\ Len(nodes') = Len(nodes)
  BY <1>0, Unchanged
<1>3. /\ pc' \in [Threads' -> Labels] /\ Threads' = Threads /\ Worker \in Threads'
      /\ pc'[Worker] = l /\ Alone' = Alone /\ CallInv' /\ IdInv'
  <2>1. l \in Labels \ Adding
    BY DEF Labels, Adding
  <2> QED
    BY <1>0, <1>1, <1>2, <2>1, WorkerStep
<1>4. TypeOK'
  BY <1>0, <1>3 DEF TypeOK
<1>5. LoopInv'
  BY <1>0, <1>1, <1>3 DEF LoopInv
<1>6. LateInv'
  <2>1. cur \in 1..MaxNodes
    BY <1>0, NodeFacts DEF LoopInv
  <2>2. l = "call" => late[cur] = 0
    BY <1>1, <2>1 DEF LateInv
  <2> QED
    BY <1>0, <1>3, <2>2 DEF LateInv
<1>7. MapInv'
  BY <1>0, <1>3, MapStays DEF Adding
<1>8. PlaceInv'
  <2>1. Expire' = Expire
    BY <1>0 DEF Expire
  <2> QED
    BY <1>0, <1>1, <1>3, <2>1 DEF PlaceInv, Held, Comes, Adding
<1>9. ReachInv'
  BY <1>0, <1>2, <1>3, ReachStays
<1> QED
  BY <1>3, <1>4, <1>5, <1>6, <1>7, <1>8, <1>9

LEMMA HandleTimeout ==
  ASSUME Inv, handle_timeout
  PROVE  Inv'
<1> USE DEF Inv
<1>0. /\ pc[Worker] = "call" /\ pc' = [pc EXCEPT ![Worker] = "handler"]
      /\ fired' = fired \cup {cur}
      /\ late' = [late EXCEPT ![cur] = @ + IF cur \in ended THEN 1 ELSE 0]
      /\ UNCHANGED <<now, nodes, heap, timer_nodes, timer_index, timer_mutex, new, cur, ended>>
  BY DEF handle_timeout, Goto
<1>1. Kept /\ SameIds /\ SameTimes /\ Len(nodes') = Len(nodes)
  BY <1>0, Unchanged
<1>2. /\ pc' \in [Threads' -> Labels] /\ Threads' = Threads /\ Worker \in Threads'
      /\ pc'[Worker] = "handler" /\ Alone' = Alone /\ CallInv' /\ IdInv'
  <2>1. "handler" \in Labels \ Adding
    BY DEF Labels, Adding
  <2> QED
    BY <1>0, <1>1, <2>1, WorkerStep
<1>3. cur \in 1..MaxNodes /\ cur \in 1..Len(nodes) /\ late[cur] = 0
  BY <1>0, NodeFacts DEF LoopInv, LateInv
<1>4. /\ late'[cur] = (IF cur \in ended THEN 1 ELSE 0)
      /\ \A n \in 1..MaxNodes : n # cur => late'[n] = late[n]
      /\ late' \in [1..MaxNodes -> Nat]
  <2>1. late[cur] + (IF cur \in ended THEN 1 ELSE 0) = (IF cur \in ended THEN 1 ELSE 0)
    BY <1>3
  <2>2. late' = [late EXCEPT ![cur] = IF cur \in ended THEN 1 ELSE 0]
    BY <1>0, <2>1
  <2>3. (IF cur \in ended THEN 1 ELSE 0) \in Nat
    OBVIOUS
  <2> QED
    BY <1>3, <2>2, <2>3 DEF TypeOK
<1>5. TypeOK'
  BY <1>0, <1>2, <1>4 DEF TypeOK
<1>6. LoopInv'
  BY <1>0, <1>2 DEF LoopInv
<1>7. LateInv'
  <2>1. \A n \in 1..MaxNodes : late'[n] =< 1 /\ (late'[n] # 0 => n \in ended)
    BY <1>3, <1>4 DEF LateInv
  <2> QED
    BY <1>0, <1>2, <2>1 DEF LateInv
<1>8. MapInv'
  BY <1>0, <1>2, MapStays DEF Adding
<1>9. PlaceInv'
  <2>1. Expire' = Expire
    BY <1>0 DEF Expire
  <2> QED
    BY <1>0, <1>2, <2>1 DEF PlaceInv, Held, Comes, Adding
<1>10. ReachInv'
  BY <1>0, <1>1, <1>2, ReachStays
<1> QED
  BY <1>2, <1>5, <1>6, <1>7, <1>8, <1>9, <1>10

\* expire_time changes only of a node that is out of the heap.
LEMMA TimeoutTrue ==
  ASSUME Inv, handle_timeout_true
  PROVE  Inv'
<1> USE DEF Inv
<1>0. /\ pc[Worker] = "handler" /\ cur \in 1..Len(nodes)
      /\ UNCHANGED <<now, heap, timer_nodes, timer_index, timer_mutex, new, cur, fired, ended, late>>
  BY DEF handle_timeout_true, history, LoopInv
<1>1. nodes[cur] \in Timer /\ Len(nodes) \in Nat
  BY <1>0, NodeFacts
<1>2. PICK l \in {"loop", "insert"} :
        /\ pc' = [pc EXCEPT ![Worker] = l]
        /\ l = "insert" => nodes' = [nodes EXCEPT ![cur].expire_time = now + nodes[cur].interval]
        /\ l = "loop" => nodes' = nodes /\ (~nodes[cur].loop \/ nodes[cur].stopped)
  BY DEF handle_timeout_true, Goto
<1>3. /\ nodes' \in Seq(Timer) /\ Len(nodes') = Len(nodes)
      /\ \A n \in 1..Len(nodes) : /\ nodes'[n].loop = nodes[n].loop
                                  /\ nodes'[n].stopped = nodes[n].stopped
                                  /\ nodes'[n].timer_id = nodes[n].timer_id
                                  /\ n # cur => nodes'[n] = nodes[n]
  <2>1. CASE l = "loop"
    BY <1>2, <2>1 DEF TypeOK
  <2>2. CASE l = "insert"
    <3>1. PICK x : x = [nodes[cur] EXCEPT !.expire_time = now + nodes[cur].interval]
      OBVIOUS
    <3>2. now + nodes[cur].interval \in Nat
      <4>1. nodes[cur].interval \in Nat
        BY <1>1 DEF Timer
      <4>2. now \in Nat
        BY DEF TypeOK
      <4> QED
        BY <4>1, <4>2
    <3>3. /\ x \in Timer /\ x.loop = nodes[cur].loop /\ x.stopped = nodes[cur].stopped
          /\ x.timer_id = nodes[cur].timer_id
      BY <1>1, <3>1, <3>2 DEF Timer
    <3>4. nodes' = [nodes EXCEPT ![cur] = x]
      BY <1>2, <2>2, <3>1
    <3>5. nodes' \in Seq(Timer) /\ Len(nodes') = Len(nodes)
      BY <1>0, <3>3, <3>4, ExceptSeq DEF TypeOK
    <3>6. nodes'[cur] = x /\ \A n \in 1..Len(nodes) : n # cur => nodes'[n] = nodes[n]
      BY <1>0, <3>4, NodeFacts
    <3> QED
      BY <3>3, <3>5, <3>6
  <2> QED
    BY <2>1, <2>2
<1>4. Kept /\ SameIds
  <2>1. Len(nodes') >= Len(nodes) /\ Len(nodes') <= MaxNodes
    BY <1>1, <1>3 DEF TypeOK
  <2> QED
    BY <1>3, <2>1 DEF Kept, SameIds
<1>5. /\ pc' \in [Threads' -> Labels] /\ Threads' = Threads /\ Worker \in Threads'
      /\ pc'[Worker] = l /\ Alone' = Alone /\ CallInv' /\ IdInv'
  <2>1. l \in Labels \ Adding
    BY DEF Labels, Adding
  <2> QED
    BY <1>0, <1>2, <1>3, <1>4, <2>1, WorkerStep
<1>6. TypeOK'
  BY <1>0, <1>3, <1>5 DEF TypeOK
<1>7. LoopInv'
  BY <1>0, <1>3, <1>5 DEF LoopInv
<1>8. LateInv'
  BY <1>0, <1>4, <1>5, LateStays
<1>9. MapInv'
  <2>1. \A id \in 0..MaxNodes : timer_nodes[id] # 0 => timer_nodes[id] \in 1..Len(nodes)
    BY <1>1 DEF TypeOK
  <2> QED
    BY <1>0, <1>3, <1>5, <2>1 DEF MapInv, Adding
<1>10. PlaceInv'
  <2> SUFFICES ASSUME Alone PROVE PlaceInv'
    BY <1>5 DEF PlaceInv
  <2>1. cur \notin In(heap) /\ cur \in fired /\ Once(heap) /\ IsHeap(heap, Expire) /\ Held /\ ~Comes
    BY <1>0 DEF PlaceInv, Held, Comes
  <2>2. \A n \in In(heap) : nodes'[n].expire_time = nodes[n].expire_time
    <3>1. \A n \in In(heap) : n \in 1..Len(nodes)
      BY DEF TypeOK, In
    <3> QED
      BY <1>3, <2>1, <3>1
  <2>3. IsHeap(heap', Expire') /\ Once(heap') /\ In(heap') = In(heap)
    BY <1>0, <1>4, <2>1, <2>2, HeapStays
  <2>4. \A n \in 1..Len(nodes') :
          ~nodes'[n].stopped /\ (nodes'[n].loop \/ n \notin fired') =>
            n \in In(heap') \/ (l = "insert" /\ cur' = n)
    BY <1>0, <1>2, <1>3, <2>1, <2>3 DEF PlaceInv
  <2> QED
    BY <1>0, <1>5, <2>1, <2>3, <2>4 DEF PlaceInv, Held, Comes, Adding
<1>11. ReachInv'
  BY <1>0, <1>3, <1>4, <1>5, ReachStays
<1> QED
  BY <1>5, <1>6, <1>7, <1>8, <1>9, <1>10, <1>11

LEMMA TimeoutInsert ==
  ASSUME Inv, handle_timeout_insert
  PROVE  Inv'
<1> USE DEF Inv
<1>0. /\ pc[Worker] = "insert" /\ cur \in 1..Len(nodes) /\ pc' = [pc EXCEPT ![Worker] = "loop"]
      /\ heap' = heap_insert(heap, cur, Expire)
      /\ UNCHANGED <<now, nodes, timer_nodes, timer_index, timer_mutex, new, cur, fired, ended, late>>
  BY DEF handle_timeout_insert, history, Goto, LoopInv
<1>1. Kept /\ SameIds /\ SameTimes /\ Len(nodes') = Len(nodes)
  BY <1>0, Unchanged
<1>2. /\ pc' \in [Threads' -> Labels] /\ Threads' = Threads /\ Worker \in Threads'
      /\ pc'[Worker] = "loop" /\ Alone' = Alone /\ CallInv' /\ IdInv'
  <2>1. "loop" \in Labels \ Adding
    BY DEF Labels, Adding
  <2> QED
    BY <1>0, <1>1, <2>1, WorkerStep
<1>3. /\ heap' \in Seq(1..Len(nodes')) /\ heap' # <<>> /\ In(heap') = In(heap) \cup {cur}
      /\ (Once(heap) /\ cur \notin In(heap) => Once(heap'))
      /\ (IsHeap(heap, Expire) => IsHeap(heap', Expire'))
  <2>1. PICK n : n = cur
    OBVIOUS
  <2>2. n \in 1..Len(nodes) /\ heap' = heap_insert(heap, n, Expire)
    BY <1>0, <2>1
  <2>3. /\ heap' \in Seq(1..Len(nodes')) /\ heap' # <<>> /\ In(heap') = In(heap) \cup {n}
        /\ (Once(heap) /\ n \notin In(heap) => Once(heap'))
        /\ (IsHeap(heap, Expire) => IsHeap(heap', Expire'))
    BY <1>1, <2>2, HeapGrows
  <2> QED
    BY <2>1, <2>3
<1>4. TypeOK'
  BY <1>0, <1>2, <1>3 DEF TypeOK
<1>5. LoopInv'
  BY <1>2 DEF LoopInv
<1>6. LateInv'
  BY <1>0, <1>1, <1>2, LateStays
<1>7. MapInv'
  BY <1>0, <1>2, MapStays DEF Adding
<1>8. PlaceInv'
  BY <1>0, <1>2, <1>3 DEF PlaceInv, Held, Comes, Adding
<1>9. ReachInv'
  BY <1>0, <1>1, <1>2, ReachStays
<1> QED
  BY <1>2, <1>4, <1>5, <1>6, <1>7, <1>8, <1>9

\* A handler that returned false: its node leaves the map with its id.
LEMMA TimeoutFalse ==
  ASSUME Inv, handle_timeout_false
  PROVE  Inv'
<1> USE DEF Inv
<1>0. /\ pc[Worker] = "handler" /\ cur \in 1..Len(nodes) /\ pc' = [pc EXCEPT ![Worker] = "loop"]
      /\ UNCHANGED <<now, heap, timer_index, timer_mutex, new, cur, fired, ended, late>>
      /\ timer_nodes' = [timer_nodes EXCEPT ![nodes[cur].timer_id] = 0]
  BY DEF handle_timeout_false, history, LoopInv, Goto
<1>1. Len(nodes) \in Nat
  BY NodeFacts
<1>2. /\ nodes' \in Seq(Timer) /\ Len(nodes') = Len(nodes) /\ nodes'[cur].stopped
      /\ \A k \in 1..Len(nodes) :
           /\ nodes'[k].timer_id = nodes[k].timer_id /\ nodes'[k].loop = nodes[k].loop
           /\ nodes'[k].expire_time = nodes[k].expire_time
           /\ (nodes[k].stopped => nodes'[k].stopped) /\ (k # cur => nodes'[k] = nodes[k])
  <2>1. PICK n, m : n = cur /\ m = Marked(n)
    OBVIOUS
  <2>2. /\ m \in Seq(Timer) /\ Len(m) = Len(nodes) /\ m[n].stopped
        /\ \A k \in 1..Len(nodes) :
             /\ m[k].timer_id = nodes[k].timer_id /\ m[k].loop = nodes[k].loop
             /\ m[k].expire_time = nodes[k].expire_time
             /\ (nodes[k].stopped => m[k].stopped) /\ (k # n => m[k] = nodes[k])
    BY <1>0, <2>1, Stopped
  <2>3. nodes' = m
    BY <2>1 DEF handle_timeout_false, Stop, Marked
  <2> QED
    BY <2>1, <2>2, <2>3
<1>3. Kept /\ SameIds /\ SameTimes
  <2>1. Len(nodes') >= Len(nodes) /\ Len(nodes') <= MaxNodes
    BY <1>1, <1>2 DEF TypeOK
  <2> QED
    BY <1>2, <2>1 DEF Kept, SameIds, SameTimes
<1>4. /\ pc' \in [Threads' -> Labels] /\ Threads' = Threads /\ Worker \in Threads'
      /\ pc'[Worker] = "loop" /\ Alone' = Alone /\ CallInv' /\ IdInv'
  <2>1. "loop" \in Labels \ Adding
    BY DEF Labels, Adding
  <2> QED
    BY <1>0, <1>2, <1>3, <2>1, WorkerStep
<1>5. heap' \in Seq(1..Len(nodes')) /\ (IsHeap(heap, Expire) => IsHeap(heap', Expire'))
  <2>1. \A k \in In(heap) : k \in 1..Len(nodes)
    BY DEF TypeOK, In
  <2> QED
    BY <1>0, <1>3, <2>1, HeapStays DEF SameTimes
<1>6. /\ timer_nodes' \in [0..MaxNodes -> 0..Len(nodes)]
      /\ \A id \in 0..MaxNodes : timer_nodes'[id] =
           IF id = nodes[cur].timer_id THEN 0 ELSE timer_nodes[id]
  <2>1. 0 \in 0..Len(nodes)
    BY <1>1
  <2> QED
    BY <1>0, <2>1 DEF TypeOK
<1>7. TypeOK'
  BY <1>0, <1>2, <1>4, <1>5, <1>6 DEF TypeOK
<1>8. LoopInv'
  BY <1>4 DEF LoopInv
<1>9. LateInv'
  BY <1>0, <1>3, <1>4, LateStays
<1>10. MapInv'
  <2> SUFFICES ASSUME Alone PROVE MapInv'
    BY <1>4 DEF MapInv
  <2>1. ASSUME NEW k \in 0..MaxNodes, timer_nodes'[k] # 0
        PROVE  /\ nodes'[timer_nodes'[k]].timer_id = k /\ ~nodes'[timer_nodes'[k]].stopped
    <3>1. k # nodes[cur].timer_id /\ timer_nodes'[k] = timer_nodes[k]
      BY <1>6, <2>1
    <3>2. timer_nodes[k] \in 0..Len(nodes) /\ timer_nodes[k] # 0
      BY <2>1, <3>1 DEF TypeOK
    <3>3. timer_nodes[k] \in 1..Len(nodes)
      BY <1>1, <3>2
    <3>4. nodes[timer_nodes[k]].timer_id = k /\ ~nodes[timer_nodes[k]].stopped
      BY <3>2 DEF MapInv
    <3> QED
      BY <1>2, <3>1, <3>3, <3>4
  <2> QED
    BY <1>4, <2>1 DEF MapInv, Adding
<1>11. PlaceInv'
  <2> SUFFICES ASSUME Alone PROVE PlaceInv'
    BY <1>4 DEF PlaceInv
  <2>1. Once(heap) /\ IsHeap(heap, Expire) /\ ~Comes
    BY <1>0 DEF PlaceInv, Comes
  <2>2. \A n \in 1..Len(nodes') :
          ~nodes'[n].stopped /\ (nodes'[n].loop \/ n \notin fired') => n \in In(heap')
    BY <1>0, <1>2, <2>1 DEF PlaceInv
  <2> QED
    BY <1>0, <1>4, <1>5, <2>1, <2>2 DEF PlaceInv, Held, Comes, Adding
<1>12. ReachInv'
  <2>1. ASSUME Alone, NEW k \in 1..Len(nodes), nodes[k].timer_id # 0, ~nodes'[k].stopped,
               timer_nodes[nodes[k].timer_id] = k
        PROVE  timer_nodes'[nodes[k].timer_id] = k
    <3>1. k # cur /\ nodes[k].timer_id # nodes[cur].timer_id
      BY <1>0, <1>2, <2>1 DEF ReachInv
    <3> QED
      BY <1>0, <2>1, <3>1 DEF TypeOK
  <2> QED
    BY <1>0, <1>2, <1>3, <1>4, <2>1, ReachStays
<1> QED
  BY <1>4, <1>7, <1>8, <1>9, <1>10, <1>11, <1>12

\* The clock, and steps that change nothing.
LEMMA TimePasses ==
  ASSUME Inv, Tick \/ UNCHANGED vars
  PROVE  Inv'
<1> USE DEF Inv
<1>0. /\ UNCHANGED <<nodes, heap, timer_nodes, timer_index, timer_mutex, pc, new, cur, fired,
                     ended, late>>
      /\ now' \in Nat
  BY DEF Tick, vars, history, TypeOK
<1>1. Threads' = Threads /\ Alone' = Alone /\ Expire' = Expire
  BY <1>0 DEF Threads, Alone, Expire
<1>2. TypeOK'
  BY <1>0, <1>1 DEF TypeOK
<1>3. LoopInv' /\ CallInv' /\ IdInv' /\ LateInv'
  BY <1>0, <1>1 DEF LoopInv, CallInv, IdInv, LateInv
<1>4. MapInv' /\ PlaceInv'
  BY <1>0, <1>1 DEF MapInv, PlaceInv, Held, Comes
<1>5. ReachInv'
  BY <1>0, <1>1 DEF ReachInv
<1> QED
  BY <1>2, <1>3, <1>4, <1>5

LEMMA NextInv == Inv /\ [Next]_vars => Inv'
<1> SUFFICES ASSUME Inv, [Next]_vars PROVE Inv'
  OBVIOUS
<1>1. CASE \E t \in Threads : Use(t)
  BY <1>1, StartTimer, AddTimer, RegisterTimer, StopTimer, RestartTimer, RestartInsert DEF Use
<1>2. CASE timer_loop
  BY <1>2, LoopTop, LoopPop, LoopCheck, HandleTimeout, TimeoutTrue, TimeoutInsert, TimeoutFalse
     DEF timer_loop
<1>3. CASE Tick \/ UNCHANGED vars
  BY <1>3, TimePasses
<1> QED
  BY <1>1, <1>2, <1>3 DEF Next

LEMMA SpecInv == Spec => []Inv
BY InitialInv, NextInv, PTL DEF Spec

-----------------------------------------------------------------------------
\* stop_timer and restart_timer are final, whichever threads use the timers: the
\* handler of a timer begins at most once after the call.
THEOREM TimerStopIsFinal == Spec => []StopIsFinal
<1>1. Inv => StopIsFinal
  BY DEF Inv, LateInv, StopIsFinal
<1> QED
  BY <1>1, SpecInv, PTL

\* When only handlers use the timers, an id never leads stop_timer or restart_timer
\* to a timer that was ended or to another timer, and leads to its own until that
\* is ended: for any number of timers.
THEOREM TimerMapSound == Spec => []MapSound
<1>1. Inv => MapSound
  <2> SUFFICES ASSUME Inv PROVE MapSound
    OBVIOUS
  <2>1. DOMAIN nodes = 1..Len(nodes)
    BY NodeFacts DEF Inv
  <2> QED
    BY <2>1 DEF Inv, MapInv, ReachInv, MapSound
<1> QED
  BY <1>1, SpecInv, PTL

LEMMA OnePlace ==
  ASSUME Inv, Alone, NEW n \in 1..Len(nodes),
         ~nodes[n].stopped, nodes[n].loop \/ n \notin fired
  PROVE  Places(n) = 1
<1> USE DEF Inv
<1> DEFINE H == {i \in DOMAIN heap : heap[i] = n}
           C == {t \in Threads : new[t] = n /\ pc[t] \in {"add", "reinsert"}}
<1>0. Cardinality({}) = 0 /\ \A x : Cardinality({x}) = 1
  BY FS_EmptySet, FS_Singleton
<1>1. Threads = {Worker} /\ DOMAIN heap = 1..Len(heap)
  BY DEF Alone, TypeOK
<1>2. n \in In(heap) => Cardinality(H) = 1
  <2> HAVE n \in In(heap)
  <2>1. PICK i \in 1..Len(heap) : heap[i] = n
    BY DEF In
  <2>2. H = {i}
    BY <1>1, <2>1 DEF PlaceInv, Once
  <2> QED
    BY <1>0, <2>2
<1>3. n \notin In(heap) => Cardinality(H) = 0
  <2> HAVE n \notin In(heap)
  <2>1. H = {}
    BY <1>1 DEF In
  <2> QED
    BY <1>0, <2>1
<1>4. Comes /\ new[Worker] = n => Cardinality(C) = 1
  <2> HAVE Comes /\ new[Worker] = n
  <2>1. C = {Worker}
    BY <1>1 DEF Comes
  <2> QED
    BY <1>0, <2>1
<1>5. ~(Comes /\ new[Worker] = n) => Cardinality(C) = 0
  <2> HAVE ~(Comes /\ new[Worker] = n)
  <2>1. C = {}
    BY <1>1 DEF Comes
  <2> QED
    BY <1>0, <2>1
<1>6. Places(n) = Cardinality(H) + (IF cur = n /\ Held THEN 1 ELSE 0) + Cardinality(C)
  BY DEF Places, Held
<1> HIDE DEF H, C
<1>7. CASE n \in In(heap)
  <2>1. ~(cur = n /\ Held) /\ ~(Comes /\ new[Worker] = n)
    BY <1>7 DEF PlaceInv
  <2> QED
    BY <1>2, <1>5, <1>6, <1>7, <2>1
<1>8. CASE n \notin In(heap) /\ Held /\ cur = n
  <2>1. ~(Comes /\ new[Worker] = n)
    BY <1>8 DEF PlaceInv
  <2> QED
    BY <1>3, <1>5, <1>6, <1>8, <2>1
<1>9. CASE n \notin In(heap) /\ ~(Held /\ cur = n)
  <2>1. Comes /\ new[Worker] = n
    BY <1>9 DEF PlaceInv
  <2> QED
    BY <1>3, <1>4, <1>6, <1>9, <2>1
<1> QED
  BY <1>7, <1>8, <1>9

\* When only handlers use the timers, no timer that runs is lost or doubled, and
\* the heap is one, although expire times change: for any number of timers.
THEOREM TimerHeapSound == Spec => []HeapSound
<1>1. Inv => HeapSound
  <2> SUFFICES ASSUME Inv, Alone
               PROVE  /\ \A n \in DOMAIN nodes :
                           ~nodes[n].stopped /\ (nodes[n].loop \/ n \notin fired) => Places(n) = 1
                      /\ IsHeap(heap, Expire)
    BY DEF HeapSound
  <2>1. DOMAIN nodes = 1..Len(nodes)
    BY NodeFacts DEF Inv
  <2> QED
    BY <2>1, OnePlace DEF Inv, PlaceInv
<1> QED
  BY <1>1, SpecInv, PTL
=============================================================================
