--------------------------- MODULE Queues_proofs ---------------------------
(***************************************************************************)
(* Proofs about the two queues: LoopBuffer, for any size of the buffer and *)
(* of the counters, any number of producers and any lengths of push, read  *)
(* and wait; and, at the end, NotifyQueue.                                 *)
(***************************************************************************)
EXTENDS LoopBuffer, NotifyQueue, SequenceTheorems, TLAPS

\* How the buffer may be used: with a mutex, or with one producer.
OneWriter == Mutexed \/ \A p, q \in Producers : p = q

Writing == {"copy", "wrap", "publish"}
ProducerLabels == {"idle", "room", "block", "blocked", "woken"} \cup Writing
ConsumerLabels == {"idle", "handle", "handled", "notify"}

TypeOK ==
  /\ head \in 0..Word - 1 /\ tail \in 0..Word - 1
  /\ buffer \in [0..BufferSize - 1 -> Byte] /\ queue \in Seq(Byte)
  /\ write_mutex \in Producers \cup {Free}
  /\ pc \in [Producers \cup {Consumer} -> ProducerLabels \cup ConsumerLabels]
  /\ data \in [Producers -> Seq(Byte)] /\ need \in [Producers -> Nat]
  /\ view \in [pos : Nat, len : Nat]

\* The position x places from the start of the array, x < 2 * BufferSize.
Wrap(x) == IF x < BufferSize THEN x ELSE x - BufferSize

\* A producer that is writing, or about to block, holds the mutex.
LockInv ==
  Mutexed => \A p \in Producers : pc[p] \in Writing \cup {"block"} => write_mutex = p

\* The unread bytes, in terms of positions.
RingInv ==
  /\ Len(queue) = Used /\ Used =< BufferSize
  /\ \A i \in 1..Len(queue) : buffer[Wrap(Position(head) + i - 1)] = queue[i]

\* A push has room to the end, and what it copied lies from tail on.
WriteInv ==
  \A p \in Producers :
    /\ pc[p] \in Writing => Len(data[p]) >= 1 /\ Used + Len(data[p]) =< BufferSize
    /\ pc[p] = "wrap" =>
         /\ Len(data[p]) > TailSize
         /\ \A j \in 1..TailSize : buffer[Position(tail) + j - 1] = data[p][j]
    /\ pc[p] = "publish" =>
         \A j \in 1..Len(data[p]) : buffer[Wrap(Position(tail) + j - 1)] = data[p][j]

\* What pop or read computed stays true until head moves.
ReadInv ==
  /\ pc[Consumer] \in {"handle", "handled"} =>
       /\ view.pos = Position(head) /\ view.len >= 1 /\ view.len =< Len(queue)
       /\ view.pos + view.len =< BufferSize
  /\ pc[Consumer] = "handled" => chunk = [i \in 1..view.len |-> queue[i]]

Inv == TypeOK /\ LockInv /\ RingInv /\ WriteInv /\ ReadInv

-----------------------------------------------------------------------------
(***************************************************************************)
(* The counters.  BufferSize divides Word, so that a counter's position is *)
(* not disturbed when the counter wraps.                                   *)
(***************************************************************************)
LEMMA Sizes == BufferSize \in Nat \ {0} /\ Word \in Nat \ {0} /\ BufferSize < Word /\ MaxLen \in Nat
BY SizeAssumption

LEMMA DivMod ==
  ASSUME NEW a \in Int, NEW m \in Nat \ {0}
  PROVE  a % m \in 0..m - 1 /\ a \div m \in Int /\ a = m * (a \div m) + (a % m)
OBVIOUS

LEMMA ModIs ==
  ASSUME NEW a \in Int, NEW m \in Nat \ {0}, NEW q \in Int, NEW r \in 0..m - 1, a = m * q + r
  PROVE  a % m = r
OBVIOUS

LEMMA Distribute ==
  ASSUME NEW a \in Int, NEW b \in Int, NEW m \in Int
  PROVE  m * a + m * b = m * (a + b) /\ m * a - m * b = m * (a - b)
OBVIOUS

LEMMA Associate ==
  ASSUME NEW a \in Int, NEW b \in Int, NEW m \in Int
  PROVE  (m * a) * b = m * (a * b) /\ a * b \in Int
OBVIOUS

LEMMA Advances ==
  ASSUME NEW c \in 0..Word - 1, NEW n \in Nat
  PROVE  /\ Advance(c, n) \in 0..Word - 1 /\ Position(c) \in 0..BufferSize - 1
         /\ \E q \in Int : Advance(c, n) = c + n - Word * q
<1>1. c + n \in Int /\ c \in Int
  BY Sizes
<1>2. Advance(c, n) \in 0..Word - 1 /\ c + n = Word * ((c + n) \div Word) + Advance(c, n)
        /\ (c + n) \div Word \in Int
  BY <1>1, Sizes, DivMod DEF Advance
<1>3. Position(c) \in 0..BufferSize - 1
  BY <1>1, Sizes, DivMod DEF Position
<1> DEFINE q == (c + n) \div Word
<1>4. Advance(c, n) = c + n - Word * q
  <2>1. Word * q \in Int
    BY <1>2, Sizes
  <2> QED
    BY <1>1, <1>2, <2>1, Sizes
<1> QED
  BY <1>2, <1>3, <1>4

\* A counter that moves by at most BufferSize moves its position as far, once
\* around the array at most.
LEMMA Moves ==
  ASSUME NEW c \in 0..Word - 1, NEW n \in 0..BufferSize
  PROVE  Position(Advance(c, n)) = Wrap(Position(c) + n)
<1>0. n \in Nat /\ c \in Int /\ BufferSize \in Int
  BY Sizes
<1>1. PICK q \in Int : Advance(c, n) = c + n - Word * q
  BY <1>0, Advances
<1>2. Advance(c, n) \in Int /\ Position(c) \in 0..BufferSize - 1
  BY <1>0, Advances, Sizes
<1> DEFINE w == Word \div BufferSize
           k == c \div BufferSize
<1>3. w \in Int /\ Word = BufferSize * w
  BY Sizes, SizeAssumption, DivMod
<1>4. k \in Int /\ c = BufferSize * k + Position(c)
  BY <1>0, Sizes, DivMod DEF Position
<1> HIDE DEF w, k
<1>5. w * q \in Int /\ Word * q = BufferSize * (w * q)
  BY <1>0, <1>1, <1>3, Associate
<1>6. k - w * q \in Int /\ BufferSize * k - BufferSize * (w * q) = BufferSize * (k - w * q)
  BY <1>0, <1>4, <1>5, Distribute
<1> DEFINE j == k - w * q
<1>7. /\ j \in Int /\ BufferSize * j \in Int
      /\ Advance(c, n) = BufferSize * j + (Position(c) + n)
  <2>1. BufferSize * k \in Int /\ BufferSize * (w * q) \in Int
    BY <1>0, <1>4, <1>5
  <2> QED
    BY <1>0, <1>1, <1>2, <1>4, <1>5, <1>6, <2>1
<1> HIDE DEF j
<1>8. CASE Position(c) + n < BufferSize
  <2>1. Position(c) + n \in 0..BufferSize - 1
    BY <1>0, <1>2, <1>8
  <2> QED
    BY <1>2, <1>7, <1>8, <2>1, Sizes, ModIs DEF Position, Wrap
<1>9. CASE ~(Position(c) + n < BufferSize)
  <2>1. Position(c) + n - BufferSize \in 0..BufferSize - 1
    BY <1>0, <1>2, <1>9
  <2>2. BufferSize * j + BufferSize = BufferSize * (j + 1) /\ j + 1 \in Int
    BY <1>0, <1>7, Distribute
  <2>3. Advance(c, n) = BufferSize * (j + 1) + (Position(c) + n - BufferSize)
    BY <1>0, <1>2, <1>7, <2>1, <2>2
  <2> DEFINE r == Position(c) + n - BufferSize
             a == Advance(c, n)
             i == j + 1
  <2>4. a \in Int /\ i \in Int /\ r \in 0..BufferSize - 1 /\ a = BufferSize * i + r
    BY <1>2, <2>1, <2>2, <2>3
  <2>5. Wrap(Position(c) + n) = r
    BY <1>0, <1>2, <1>9 DEF Wrap
  <2> HIDE DEF r, a, i
  <2>6. a % BufferSize = r
    BY <2>4, Sizes, ModIs
  <2> QED
    BY <2>5, <2>6 DEF a, Position
<1> QED
  BY <1>8, <1>9

\* The counters' difference.
LEMMA Counts ==
  ASSUME TypeOK
  PROVE  /\ Used \in 0..Word - 1 /\ tail = Advance(head, Used)
         /\ \E q \in Int : tail - head = Word * q + Used
<1>1. tail - head \in Int /\ head \in Int /\ tail \in Int
  BY Sizes DEF TypeOK
<1> DEFINE q == (tail - head) \div Word
<1>2. Used \in 0..Word - 1 /\ q \in Int /\ tail - head = Word * q + Used
  BY <1>1, Sizes, DivMod DEF Used
<1> HIDE DEF q
<1>3. Used \in Int /\ head + Used \in Int
  BY <1>1, <1>2, Sizes
<1>4. PICK r \in Int : r = 0 - q
  BY <1>2
<1> DEFINE x == Word * q
           y == Word * r
<1>5. x \in Int /\ y = 0 - x /\ tail - head = x + Used
  BY <1>2, <1>4, Sizes
<1> HIDE DEF x, y
<1>6. head + Used = y + tail
  BY <1>1, <1>3, <1>5
<1>7. (head + Used) % Word = tail
  BY <1>3, <1>4, <1>6, Sizes, ModIs DEF TypeOK, y
<1> QED
  BY <1>2, <1>7 DEF Advance

LEMMA Pushed ==
  ASSUME TypeOK, NEW n \in Nat, Used + n =< BufferSize
  PROVE  (Advance(tail, n) - head) % Word = Used + n
<1>1. PICK q \in Int : tail - head = Word * q + Used
  BY Counts
<1>2. PICK r \in Int : Advance(tail, n) = tail + n - Word * r
  BY Advances DEF TypeOK
<1>3. /\ head \in Int /\ tail \in Int /\ Used \in Nat /\ Word \in Int /\ BufferSize \in Int
      /\ Advance(tail, n) \in Int /\ Used + n \in 0..Word - 1
  <2>1. Used \in 0..Word - 1 /\ Advance(tail, n) \in 0..Word - 1
    BY Counts, Advances DEF TypeOK
  <2> QED
    BY <2>1, Sizes DEF TypeOK
<1>4. Word * q - Word * r = Word * (q - r) /\ Word * q \in Int /\ Word * r \in Int /\ q - r \in Int
  BY <1>3, Distribute
<1>5. Advance(tail, n) - head = Word * (q - r) + (Used + n)
  BY <1>1, <1>2, <1>3, <1>4
<1>6. Advance(tail, n) - head \in Int
  BY <1>3
<1> QED
  BY <1>3, <1>4, <1>5, <1>6, Sizes, ModIs

LEMMA Popped ==
  ASSUME TypeOK, NEW n \in 0..Used
  PROVE  (tail - Advance(head, n)) % Word = Used - n
<1>0. n \in Nat /\ Used \in Nat
  BY Counts, Sizes
<1>1. PICK q \in Int : tail - head = Word * q + Used
  BY Counts
<1>2. PICK r \in Int : Advance(head, n) = head + n - Word * r
  BY <1>0, Advances DEF TypeOK
<1>3. /\ head \in Int /\ tail \in Int /\ Word \in Int
      /\ Advance(head, n) \in Int /\ Used - n \in 0..Word - 1
  <2>1. Used \in 0..Word - 1 /\ Advance(head, n) \in 0..Word - 1
    BY <1>0, Counts, Advances DEF TypeOK
  <2> QED
    BY <1>0, <2>1, Sizes DEF TypeOK
<1>4. Word * q + Word * r = Word * (q + r) /\ Word * q \in Int /\ Word * r \in Int /\ q + r \in Int
  BY <1>3, Distribute
<1>5. tail - Advance(head, n) = Word * (q + r) + (Used - n)
  BY <1>0, <1>1, <1>2, <1>3, <1>4
<1>6. tail - Advance(head, n) \in Int
  BY <1>3
<1> QED
  BY <1>3, <1>4, <1>5, <1>6, Sizes, ModIs

\* What the arithmetic of the steps rests on.
LEMMA Positions ==
  ASSUME TypeOK, RingInv
  PROVE  /\ Position(head) \in 0..BufferSize - 1 /\ Position(tail) \in 0..BufferSize - 1
         /\ Used \in Nat /\ Used =< BufferSize /\ BufferSize \in Nat /\ BufferSize > 0
         /\ Position(tail) = Wrap(Position(head) + Used)
<1>1. Used \in 0..BufferSize
  BY Counts, Sizes DEF RingInv
<1>2. Position(tail) = Wrap(Position(head) + Used)
  BY <1>1, Counts, Moves DEF TypeOK
<1> QED
  BY <1>1, <1>2, Advances, Sizes DEF TypeOK

\* The L bytes from position t on, and those that wrap around, are not among the
\* u bytes from position h on.
LEMMA Disjoint ==
  ASSUME NEW h \in 0..BufferSize - 1, NEW u \in Nat, NEW L \in Nat, NEW t \in 0..BufferSize - 1,
         L >= 1, u + L =< BufferSize, t = Wrap(h + u), NEW i \in 1..u
  PROVE  LET x == Wrap(h + i - 1) IN
         x \in 0..BufferSize - 1 /\ ~(x - t \in 0..L - 1) /\ ~(x < L - (BufferSize - t))
<1>0. BufferSize \in Nat /\ BufferSize > 0 /\ h \in Nat /\ i \in Nat /\ t \in Nat
  BY Sizes
<1>1. CASE h + u < BufferSize
  <2>1. t = h + u /\ Wrap(h + i - 1) = h + i - 1
    BY <1>0, <1>1 DEF Wrap
  <2> QED
    BY <1>0, <1>1, <2>1
<1>2. CASE ~(h + u < BufferSize)
  <2>1. t = h + u - BufferSize
    BY <1>0, <1>2 DEF Wrap
  <2>2. CASE h + i - 1 < BufferSize
    <3>1. Wrap(h + i - 1) = h + i - 1
      BY <2>2 DEF Wrap
    <3> QED
      BY <1>0, <2>1, <2>2, <3>1
  <2>3. CASE ~(h + i - 1 < BufferSize)
    <3>1. Wrap(h + i - 1) = h + i - 1 - BufferSize
      BY <1>0, <2>3 DEF Wrap
    <3> QED
      BY <1>0, <2>1, <2>3, <3>1
  <2> QED
    BY <2>2, <2>3
<1> QED
  BY <1>1, <1>2

\* Two producers never write at the same time.
LEMMA Exclusive ==
  ASSUME OneWriter, LockInv, NEW p \in Producers, NEW q \in Producers,
         pc[p] \in Writing, pc[q] \in Writing \cup {"block"}, Mutexed \/ pc[q] \in Writing
  PROVE  p = q
BY DEF OneWriter, LockInv

LEMMA DataFacts ==
  ASSUME NEW d \in Data
  PROVE  d \in Seq(Byte) /\ Len(d) \in Nat /\ Len(d) >= 1
<1>1. PICK n \in 1..MaxLen : d \in [1..n -> Byte]
  BY DEF Data
<1>2. n \in Nat /\ n >= 1
  BY <1>1, Sizes
<1>3. d \in Seq(Byte)
  BY <1>1, <1>2
<1>4. Len(d) = n
  BY <1>1, <1>2, <1>3
<1> QED
  BY <1>2, <1>3, <1>4

-----------------------------------------------------------------------------
LEMMA InitialInv == Init => Inv
<1> SUFFICES ASSUME Init PROVE Inv
  OBVIOUS
<1>1. Used = 0
  BY Sizes DEF Init, Used
<1>2. TypeOK
  BY Sizes DEF Init, TypeOK, ProducerLabels, ConsumerLabels
<1>3. LockInv /\ WriteInv /\ ReadInv
  BY ProducersAssumption DEF Init, LockInv, WriteInv, ReadInv, Writing
<1>4. RingInv
  BY <1>1, Sizes DEF Init, RingInv
<1> QED
  BY <1>2, <1>3, <1>4 DEF Inv

\* The steps that leave the ring alone.
LEMMA Same ==
  ASSUME Inv, UNCHANGED <<head, tail, buffer, queue>>
  PROVE  RingInv' /\ Used' = Used /\ Position(head)' = Position(head)
           /\ Position(tail)' = Position(tail) /\ TailSize' = TailSize
<1>1. Used' = Used /\ Position(head)' = Position(head) /\ Position(tail)' = Position(tail)
  BY DEF Used, Position
<1> QED
  BY <1>1 DEF Inv, RingInv, TailSize

LEMMA Push ==
  ASSUME OneWriter, Inv, NEW p \in Producers, push(p)
  PROVE  Inv'
<1> USE DEF Inv
<1>0. UNCHANGED <<head, tail, buffer, queue, op, view, chunk, need>>
  BY DEF push, ringVars, readVars
<1>1. PICK d \in Data : HasRoom(Len(d)) /\ data' = [data EXCEPT ![p] = d]
  BY DEF push
<1>2. d \in Seq(Byte) /\ Len(d) \in Nat /\ Len(d) >= 1
  BY DataFacts
<1>3. pc' = [pc EXCEPT ![p] = "copy"] /\ pc[p] \in {"idle", "room"} /\ p # Consumer
  BY ProducersAssumption DEF push, Goto
<1>4. write_mutex = Free /\ write_mutex' = IF Mutexed THEN p ELSE Free
  BY DEF push, Lock
<1>5. TypeOK'
  BY <1>0, <1>1, <1>2, <1>3, <1>4 DEF TypeOK, ProducerLabels, Writing
<1>6. LockInv'
  BY <1>3, <1>4, ProducersAssumption DEF LockInv, TypeOK
<1>7. \A q \in Producers : q # p => pc[q] \notin Writing
  BY <1>4, ProducersAssumption DEF OneWriter, LockInv
<1>8. Used + Len(d) =< BufferSize
  BY <1>1, <1>2, Positions DEF HasRoom
<1>9. data'[p] = d /\ pc'[p] = "copy" /\ \A q \in Producers : q # p => pc'[q] = pc[q]
  BY <1>1, <1>3 DEF TypeOK
<1>10. WriteInv'
  BY <1>0, <1>2, <1>7, <1>8, <1>9, Same DEF WriteInv, Writing
<1>11. ReadInv'
  <2>1. pc'[Consumer] = pc[Consumer]
    BY <1>3 DEF TypeOK
  <2> QED
    BY <1>0, <2>1, Same DEF ReadInv
<1> QED
  BY <1>0, <1>5, <1>6, <1>10, <1>11, Same

\* The first memcpy keeps clear of the unread bytes.
LEMMA PushCopy ==
  ASSUME OneWriter, Inv, NEW p \in Producers, push_copy(p)
  PROVE  Inv'
<1> USE DEF Inv
<1> DEFINE t == Position(tail)
           d == data[p]
<1>0. UNCHANGED <<head, tail, queue, op, view, chunk, write_mutex, data, need>>
  BY DEF push_copy, readVars
<1>1. /\ pc[p] = "copy" /\ p # Consumer
      /\ pc' = [pc EXCEPT ![p] = IF Len(d) > TailSize THEN "wrap" ELSE "publish"]
  BY ProducersAssumption DEF push_copy, Goto
<1>2. /\ Len(d) \in Nat /\ Len(d) >= 1 /\ Used + Len(d) =< BufferSize
      /\ d \in Seq(Byte)
  BY <1>1 DEF WriteInv, Writing, TypeOK
<1>3. \A i \in 0..BufferSize - 1 :
        buffer'[i] = IF i - t \in 0..Len(d) - 1 THEN d[i - t + 1] ELSE buffer[i]
  BY DEF push_copy, TypeOK
<1>4. buffer' \in [0..BufferSize - 1 -> Byte]
  <2>1. \A i \in 0..BufferSize - 1 : i - t \in 0..Len(d) - 1 => d[i - t + 1] \in Byte
    BY <1>2, Positions
  <2>2. buffer' = [i \in 0..BufferSize - 1 |-> IF i - t \in 0..Len(d) - 1 THEN d[i - t + 1] ELSE buffer[i]]
    BY DEF push_copy, TypeOK
  <2> QED
    BY <2>1, <2>2 DEF TypeOK
<1>5. TypeOK'
  BY <1>0, <1>1, <1>4 DEF TypeOK, ProducerLabels, Writing
<1>6. /\ Used' = Used /\ Position(head)' = Position(head) /\ Position(tail)' = t
      /\ TailSize' = TailSize /\ TailSize = BufferSize - t
  BY <1>0 DEF Used, Position, TailSize
<1>7. \A i \in 1..Used : /\ Wrap(Position(head) + i - 1) \in 0..BufferSize - 1
                         /\ ~(Wrap(Position(head) + i - 1) - t \in 0..Len(d) - 1)
  BY <1>2, Positions, Disjoint
<1>8. RingInv'
  BY <1>0, <1>3, <1>6, <1>7 DEF RingInv
<1>9. \A q \in Producers : q # p => pc'[q] = pc[q] /\ pc[q] \notin Writing
  BY <1>1, Exclusive DEF TypeOK, Writing
<1>10. LockInv'
  BY <1>0, <1>1, <1>9 DEF LockInv, Writing, TypeOK
<1>11. pc'[p] = IF Len(d) > TailSize THEN "wrap" ELSE "publish"
  BY <1>1 DEF TypeOK
<1>12. \A j \in 1..Len(d) : j =< BufferSize - t => buffer'[t + j - 1] = d[j]
  <2> SUFFICES ASSUME NEW j \in 1..Len(d), j =< BufferSize - t PROVE buffer'[t + j - 1] = d[j]
    OBVIOUS
  <2>1. /\ t \in Int /\ 0 =< t /\ BufferSize \in Int /\ Len(d) \in Int
        /\ j \in Int /\ 1 =< j /\ j =< Len(d)
    BY <1>2, Positions
  <2>2. (t + j - 1) - t = j - 1
    <3> HIDE DEF t, d
    <3> QED
      BY <2>1
  <2>3. t + j - 1 \in 0..BufferSize - 1 /\ j - 1 \in 0..Len(d) - 1 /\ (j - 1) + 1 = j
    <3> HIDE DEF t, d
    <3> QED
      BY <2>1
  <2> QED
    BY <1>3, <2>2, <2>3
<1>13. /\ pc'[p] = "wrap" => \A j \in 1..TailSize : buffer'[t + j - 1] = d[j]
       /\ pc'[p] = "publish" => \A j \in 1..Len(d) : buffer'[Wrap(t + j - 1)] = d[j]
  <2>1. ASSUME pc'[p] = "wrap", NEW j \in 1..TailSize PROVE j \in 1..Len(d) /\ j =< BufferSize - t
    BY <1>2, <1>6, <1>11, <2>1, Positions
  <2>2. ASSUME pc'[p] = "publish", NEW j \in 1..Len(d)
        PROVE  j =< BufferSize - t /\ Wrap(t + j - 1) = t + j - 1
    <3>1. /\ ~(Len(d) > BufferSize - t) /\ t \in Int /\ BufferSize \in Int
          /\ Len(d) \in Int /\ j \in Int /\ j =< Len(d)
      BY <1>2, <1>6, <1>11, <2>2, Positions
    <3> HIDE DEF t, d
    <3> QED
      BY <3>1 DEF Wrap
  <2> QED
    BY <1>12, <2>1, <2>2
<1>14. WriteInv'
  BY <1>0, <1>2, <1>6, <1>9, <1>11, <1>13 DEF WriteInv, Writing
<1>15. ReadInv'
  <2>1. pc'[Consumer] = pc[Consumer]
    BY <1>1 DEF TypeOK
  <2> QED
    BY <1>0, <1>6, <2>1 DEF ReadInv
<1> QED
  BY <1>5, <1>8, <1>10, <1>14, <1>15

\* So does the second, which stays clear of the first as well.
LEMMA PushWrap ==
  ASSUME OneWriter, Inv, NEW p \in Producers, push_wrap(p)
  PROVE  Inv'
<1> USE DEF Inv
<1> DEFINE t == Position(tail)
           d == data[p]
<1>0. UNCHANGED <<head, tail, queue, op, view, chunk, write_mutex, data, need>>
  BY DEF push_wrap, readVars
<1>1. pc[p] = "wrap" /\ p # Consumer /\ pc' = [pc EXCEPT ![p] = "publish"]
  BY ProducersAssumption DEF push_wrap, Goto
<1>2. /\ Len(d) \in Nat /\ Len(d) >= 1 /\ Used + Len(d) =< BufferSize
      /\ d \in Seq(Byte) /\ TailSize = BufferSize - t /\ Len(d) > BufferSize - t
      /\ \A j \in 1..BufferSize - t : buffer[t + j - 1] = d[j]
  BY <1>1 DEF WriteInv, Writing, TypeOK, TailSize
<1>3. \A i \in 0..BufferSize - 1 :
        buffer'[i] = IF i < Len(d) - TailSize THEN d[i + TailSize + 1] ELSE buffer[i]
  BY DEF push_wrap, TypeOK
<1>4. buffer' \in [0..BufferSize - 1 -> Byte]
  <2>1. \A i \in 0..BufferSize - 1 : i < Len(d) - TailSize => d[i + TailSize + 1] \in Byte
    BY <1>2, Positions
  <2>2. buffer' = [i \in 0..BufferSize - 1 |->
                     IF i < Len(d) - TailSize THEN d[i + TailSize + 1] ELSE buffer[i]]
    BY DEF push_wrap, TypeOK
  <2> QED
    BY <2>1, <2>2 DEF TypeOK
<1>5. TypeOK'
  BY <1>0, <1>1, <1>4 DEF TypeOK, ProducerLabels, Writing
<1>6. Used' = Used /\ Position(head)' = Position(head) /\ Position(tail)' = t
  BY <1>0 DEF Used, Position
<1>7. \A i \in 1..Used : /\ Wrap(Position(head) + i - 1) \in 0..BufferSize - 1
                         /\ ~(Wrap(Position(head) + i - 1) < Len(d) - TailSize)
  BY <1>2, Positions, Disjoint
<1>8. RingInv'
  BY <1>0, <1>3, <1>6, <1>7 DEF RingInv
<1>9. \A q \in Producers : q # p => pc'[q] = pc[q] /\ pc[q] \notin Writing
  BY <1>1, Exclusive DEF TypeOK, Writing
<1>10. LockInv'
  BY <1>0, <1>1, <1>9 DEF LockInv, Writing, TypeOK
<1>11. pc'[p] = "publish"
  BY <1>1 DEF TypeOK
<1>12. \A j \in 1..Len(d) : buffer'[Wrap(t + j - 1)] = d[j]
  <2> SUFFICES ASSUME NEW j \in 1..Len(d) PROVE buffer'[Wrap(t + j - 1)] = d[j]
    OBVIOUS
  <2>1. CASE t + j - 1 < BufferSize
    <3>1. Wrap(t + j - 1) = t + j - 1 /\ j \in 1..BufferSize - t
      BY <1>2, <2>1, Positions DEF Wrap
    <3>2. t + j - 1 \in 0..BufferSize - 1 /\ ~(t + j - 1 < Len(d) - TailSize)
      <4>1. /\ t \in Int /\ 0 =< t /\ BufferSize \in Int /\ Len(d) \in Int
            /\ Len(d) =< BufferSize /\ j \in Int /\ 1 =< j /\ TailSize = BufferSize - t
        BY <1>2, Positions
      <4> HIDE DEF t, d
      <4> QED
        BY <2>1, <4>1
    <3> QED
      BY <1>2, <1>3, <3>1, <3>2
  <2>2. CASE ~(t + j - 1 < BufferSize)
    <3>1. Wrap(t + j - 1) = j - 1 - TailSize
      BY <1>2, <2>2, Positions DEF Wrap
    <3>2. /\ j - 1 - TailSize \in 0..BufferSize - 1 /\ j - 1 - TailSize < Len(d) - TailSize
          /\ (j - 1 - TailSize) + TailSize + 1 = j
      <4>1. /\ j \in Int /\ j >= 1 /\ j =< Len(d) /\ t \in Int /\ t >= 0 /\ BufferSize \in Int
            /\ Len(d) \in Int /\ Len(d) =< BufferSize /\ t < BufferSize
        BY <1>2, Positions
      <4>2. PICK z \in Int : z = TailSize /\ z = BufferSize - t
        BY <1>2, <4>1
      <4>3. t = BufferSize - z /\ j - 1 - z >= 0
        BY <2>2, <4>1, <4>2
      <4>4. PICK l \in Int : l = Len(d)
        BY <4>1
      <4> HIDE DEF t, d
      <4>5. /\ j - 1 - z \in 0..BufferSize - 1 /\ j - 1 - z < Len(d) - z
            /\ (j - 1 - z) + z + 1 = j
        BY <4>1, <4>2, <4>3, <4>4
      <4> QED
        BY <4>2, <4>5
    <3> QED
      BY <1>3, <3>1, <3>2
  <2> QED
    BY <2>1, <2>2
<1>14. WriteInv'
  BY <1>0, <1>2, <1>6, <1>9, <1>11, <1>12 DEF WriteInv, Writing
<1>15. ReadInv'
  <2>1. pc'[Consumer] = pc[Consumer]
    BY <1>1 DEF TypeOK
  <2> QED
    BY <1>0, <1>6, <2>1 DEF ReadInv
<1> QED
  BY <1>5, <1>8, <1>10, <1>14, <1>15

\* What the push copied becomes the end of the queue.
LEMMA PushPublish ==
  ASSUME OneWriter, Inv, NEW p \in Producers, push_publish(p)
  PROVE  Inv'
<1> USE DEF Inv
<1> DEFINE t == Position(tail)
           h == Position(head)
           d == data[p]
<1>0. UNCHANGED <<head, buffer, op, view, chunk, need>>
  BY DEF push_publish, readVars
<1>1. /\ pc[p] = "publish" /\ p # Consumer /\ pc' = [pc EXCEPT ![p] = "idle"]
      /\ write_mutex' = Free /\ data' = [data EXCEPT ![p] = <<>>]
  BY ProducersAssumption DEF push_publish, Goto
<1>2. /\ Len(d) \in Nat /\ Len(d) >= 1 /\ Used + Len(d) =< BufferSize /\ d \in Seq(Byte)
      /\ \A j \in 1..Len(d) : buffer[Wrap(t + j - 1)] = d[j]
  BY <1>1 DEF WriteInv, Writing, TypeOK
<1>3. tail' = Advance(tail, Len(d)) /\ queue' = queue \o d
  BY DEF push_publish
<1>4. Used' = Used + Len(d) /\ Position(head)' = h
  BY <1>0, <1>2, <1>3, Pushed DEF Used, Position
<1>5. TypeOK'
  <2>1. tail' \in 0..Word - 1
    BY <1>2, <1>3, Advances DEF TypeOK
  <2>2. queue' \in Seq(Byte)
    BY <1>2, <1>3 DEF TypeOK
  <2> QED
    BY <1>0, <1>1, <2>1, <2>2 DEF TypeOK, ProducerLabels
<1>6. \A q \in Producers : q # p => pc'[q] = pc[q] /\ pc[q] \notin Writing
  BY <1>1, Exclusive DEF TypeOK, Writing
<1>7. pc'[p] = "idle" /\ pc'[Consumer] = pc[Consumer]
  BY <1>1 DEF TypeOK
<1>8. LockInv'
  BY <1>1, <1>6, <1>7, Exclusive DEF LockInv, Writing
<1>9. WriteInv'
  BY <1>6, <1>7 DEF WriteInv, Writing
<1>10. Len(queue) = Used /\ queue \in Seq(Byte) /\ Len(queue') = Used + Len(d)
  <2>1. Len(queue) = Used /\ queue \in Seq(Byte)
    BY DEF RingInv, TypeOK
  <2>2. d \in Seq(Byte)
    BY <1>2
  <2>3. Len(queue \o d) = Len(queue) + Len(d)
    BY <2>1, <2>2, ConcatProperties
  <2> QED
    BY <1>3, <2>1, <2>3
<1>11. \A i \in 1..Used : queue'[i] = queue[i] /\ buffer[Wrap(h + i - 1)] = queue[i]
  BY <1>2, <1>3, <1>10, Positions DEF RingInv
<1>12. ASSUME NEW i \in 1..Used + Len(d), i > Used PROVE buffer[Wrap(h + i - 1)] = queue'[i]
  <2>1. PICK j \in 1..Len(d) : i = Used + j
    <3>1. i - Used \in 1..Len(d) /\ i = Used + (i - Used)
      BY <1>2, <1>12, Positions
    <3> QED
      BY <3>1
  <2>2. queue'[i] = d[j]
    <3>1. (queue \o d)[Len(queue) + j] = d[j]
      BY <1>2, <1>10
    <3> QED
      BY <1>3, <1>10, <2>1, <3>1
  <2>3. Wrap(h + i - 1) = Wrap(t + j - 1)
    <3>1. /\ h \in Int /\ 0 =< h /\ h < BufferSize /\ BufferSize \in Int /\ Used \in Int
          /\ t = Wrap(h + Used) /\ j \in Int /\ j >= 1 /\ Used + j =< BufferSize /\ Used >= 0
      BY <1>2, Positions
    <3>2. CASE h + Used < BufferSize
      <4>1. t = h + Used
        BY <3>1, <3>2 DEF Wrap
      <4> QED
        BY <2>1, <3>1, <4>1
    <3>3. CASE ~(h + Used < BufferSize)
      <4>1. t = h + Used - BufferSize
        BY <3>1, <3>3 DEF Wrap
      <4>2. h + i - 1 = h + Used + j - 1 /\ t + j - 1 = h + Used + j - 1 - BufferSize
        BY <2>1, <3>1, <4>1
      <4> HIDE DEF h, t
      <4>3. ~(h + i - 1 < BufferSize) /\ t + j - 1 < BufferSize
        BY <3>1, <3>3, <4>2
      <4> QED
        BY <3>1, <4>2, <4>3 DEF Wrap
    <3> QED
      BY <3>2, <3>3
  <2> QED
    BY <1>2, <2>2, <2>3
<1>13. RingInv'
  <2>1. \A i \in 1..Used + Len(d) : buffer[Wrap(h + i - 1)] = queue'[i]
    <3> SUFFICES ASSUME NEW i \in 1..Used + Len(d) PROVE buffer[Wrap(h + i - 1)] = queue'[i]
      OBVIOUS
    <3>1. i > Used \/ i \in 1..Used
      BY <1>2, Positions
    <3> QED
      BY <1>11, <1>12, <3>1
  <2> QED
    BY <1>0, <1>2, <1>4, <1>10, <2>1 DEF RingInv
<1>14. ReadInv'
  <2>1. view.len =< Len(queue) => view.len =< Len(queue') /\ \A i \in 1..view.len : i \in 1..Used
    BY <1>2, <1>10, Positions DEF TypeOK
  <2>2. view.len =< Len(queue) =>
          [i \in 1..view.len |-> queue'[i]] = [i \in 1..view.len |-> queue[i]]
    BY <1>11, <2>1
  <2> QED
    BY <1>0, <1>4, <1>7, <2>1, <2>2 DEF ReadInv
<1> QED
  BY <1>5, <1>8, <1>9, <1>13, <1>14

\* The steps in which no producer goes on writing.
LEMMA NoWrite ==
  ASSUME Inv, UNCHANGED <<head, tail, buffer, queue, data>>,
         \A p \in Producers : pc'[p] \in Writing => pc'[p] = pc[p]
  PROVE  RingInv' /\ WriteInv'
<1>1. /\ RingInv' /\ Used' = Used
      /\ Position(tail)' = Position(tail) /\ TailSize' = TailSize
  BY Same
<1> QED
  BY <1>1 DEF WriteInv, Writing, Inv

\* Waiting touches neither the ring nor the data.
LEMMA Waiting ==
  ASSUME OneWriter, Inv, NEW p \in Producers,
         wait(p) \/ wait_block(p) \/ wait_wake(p) \/ wait_timeout(p)
  PROVE  Inv'
<1>0. UNCHANGED <<head, tail, buffer, queue, data, op, view, chunk>>
  BY DEF wait, wait_block, wait_wake, wait_timeout, ringVars, readVars
<1>1. PICK l \in {"idle", "room", "block", "blocked", "woken"} : pc' = [pc EXCEPT ![p] = l]
  BY DEF wait, wait_block, wait_wake, wait_timeout, Goto
<1>2. /\ pc'[p] = l /\ pc'[Consumer] = pc[Consumer]
      /\ \A q \in Producers : q # p => pc'[q] = pc[q]
  BY <1>1, ProducersAssumption DEF Inv, TypeOK
<1>3. TypeOK'
  <2>1. need' \in [Producers -> Nat]
    <3>1. CASE wait(p)
      <4>1. PICK n \in 1..Smaller(MaxLen, BufferSize) : need' = [need EXCEPT ![p] = n]
        BY <3>1 DEF wait
      <4>2. n \in Nat
        BY Sizes DEF Smaller
      <4> QED
        BY <4>1, <4>2 DEF Inv, TypeOK
    <3> QED
      BY <3>1 DEF wait_block, wait_wake, wait_timeout, Inv, TypeOK
  <2>2. write_mutex' \in Producers \cup {Free}
    BY DEF wait, wait_block, wait_wake, wait_timeout, Inv, TypeOK
  <2>3. pc' \in [Producers \cup {Consumer} -> ProducerLabels \cup ConsumerLabels]
    BY <1>1 DEF Inv, TypeOK, ProducerLabels
  <2> QED
    BY <1>0, <2>1, <2>2, <2>3 DEF Inv, TypeOK
<1>4. LockInv'
  <2>1. CASE wait(p) \/ wait_wake(p)
    <3>1. write_mutex = Free /\ (l = "block" => write_mutex' = p) /\ (l # "block" => write_mutex' = Free)
      BY <2>1, <1>1, <1>2 DEF wait, wait_wake, Goto, Inv, TypeOK
    <3> QED
      BY <3>1, <1>2, ProducersAssumption DEF LockInv, Inv, Writing
  <2>2. CASE wait_block(p)
    <3>1. pc[p] = "block" /\ l = "blocked"
      BY <2>2, <1>2 DEF wait_block, Goto, Inv, TypeOK
    <3> QED
      BY <3>1, <1>2 DEF LockInv, Inv, Writing
  <2>3. CASE wait_timeout(p)
    <3>1. l \in {"idle", "woken"} /\ write_mutex' = write_mutex
      BY <2>3, <1>2 DEF wait_timeout, Goto, Inv, TypeOK
    <3> QED
      BY <3>1, <1>2 DEF LockInv, Inv, Writing
  <2> QED
    BY <2>1, <2>2, <2>3
<1>5. RingInv' /\ WriteInv'
  <2>1. \A q \in Producers : pc'[q] \in Writing => pc'[q] = pc[q]
    BY <1>2 DEF Writing
  <2> QED
    BY <1>0, <2>1, NoWrite
<1>6. ReadInv'
  BY <1>0, <1>2, Same DEF ReadInv, Inv
<1> QED
  BY <1>3, <1>4, <1>5, <1>6 DEF Inv

\* The consumer looks at the counters: what it sees of tail can only grow.
LEMMA Look ==
  ASSUME Inv, pop \/ read
  PROVE  Inv'
<1>0. UNCHANGED <<head, tail, buffer, queue, chunk, write_mutex, data, need>>
  BY DEF pop, read, ringVars
<1>1. pc' = [pc EXCEPT ![Consumer] = "handle"] /\ Used # 0
  BY DEF pop, read, Goto
<1>2. pc'[Consumer] = "handle" /\ \A p \in Producers : pc'[p] = pc[p]
  BY <1>1, ProducersAssumption DEF Inv, TypeOK
<1>3. /\ Used \in Nat /\ Used >= 1 /\ Len(queue) = Used
      /\ Position(head) \in 0..BufferSize - 1 /\ BufferSize \in Nat
  BY <1>1, Positions DEF Inv, RingInv
<1>4. /\ Contiguous \in Nat /\ Contiguous >= 1 /\ Contiguous =< Used
      /\ Position(head) + Contiguous =< BufferSize
  BY <1>3 DEF Contiguous, Smaller
<1>5. PICK n \in Nat : /\ view' = [pos |-> Position(head), len |-> n]
                       /\ n >= 1 /\ n =< Contiguous
  <2>1. CASE pop
    BY <1>4, <2>1 DEF pop
  <2>2. CASE read
    <3>1. PICK limit \in 0..MaxLen :
            view' = [pos |-> Position(head),
                     len |-> IF limit > 0 THEN Smaller(Contiguous, limit) ELSE Contiguous]
      BY <2>2 DEF read
    <3>2. limit \in Nat
      BY Sizes
    <3> QED
      BY <1>4, <3>1, <3>2 DEF Smaller
  <2> QED
    BY <2>1, <2>2
<1>6. TypeOK'
  BY <1>0, <1>1, <1>3, <1>5 DEF Inv, TypeOK, ConsumerLabels
<1>7. LockInv'
  BY <1>0, <1>2 DEF Inv, LockInv
<1>8. RingInv' /\ WriteInv'
  BY <1>0, <1>2, NoWrite
<1>9. ReadInv'
  BY <1>0, <1>2, <1>3, <1>4, <1>5, Same DEF ReadInv
<1> QED
  BY <1>6, <1>7, <1>8, <1>9 DEF Inv

\* The handler reads the oldest bytes: they do not wrap.
LEMMA Handle ==
  ASSUME Inv, handler
  PROVE  Inv'
<1>0. UNCHANGED <<head, tail, buffer, queue, view, write_mutex, data, need>>
  BY DEF handler, ringVars
<1>1. pc[Consumer] = "handle" /\ pc' = [pc EXCEPT ![Consumer] = "handled"]
  BY DEF handler, Goto
<1>2. pc'[Consumer] = "handled" /\ \A p \in Producers : pc'[p] = pc[p]
  BY <1>1, ProducersAssumption DEF Inv, TypeOK
<1>3. /\ view.pos = Position(head) /\ view.len >= 1 /\ view.len =< Len(queue)
      /\ view.pos + view.len =< BufferSize /\ view.len \in Nat
  BY <1>1 DEF Inv, ReadInv, TypeOK
<1>4. \A i \in 1..view.len : i \in 1..Len(queue) /\ Wrap(Position(head) + i - 1) = view.pos + i - 1
  <2> SUFFICES ASSUME NEW i \in 1..view.len
               PROVE  /\ i \in 1..Len(queue)
                      /\ Wrap(Position(head) + i - 1) = view.pos + i - 1
    OBVIOUS
  <2>1. /\ Position(head) \in Int /\ BufferSize \in Int /\ Len(queue) \in Nat
        /\ i \in Int /\ 1 =< i /\ i =< view.len
    BY <1>3, Positions DEF Inv, RingInv
  <2> QED
    BY <1>3, <2>1 DEF Wrap
<1>5. \A i \in 1..view.len : buffer[view.pos + i - 1] = queue[i]
  BY <1>4 DEF Inv, RingInv
<1>6. chunk' = [i \in 1..view.len |-> queue[i]]
  BY <1>5 DEF handler
<1>7. TypeOK'
  BY <1>0, <1>1 DEF Inv, TypeOK, ConsumerLabels
<1>8. LockInv'
  BY <1>0, <1>2 DEF Inv, LockInv
<1>9. RingInv' /\ WriteInv'
  BY <1>0, <1>2, NoWrite
<1>10. ReadInv'
  BY <1>0, <1>2, <1>3, <1>6, Same DEF ReadInv
<1> QED
  BY <1>7, <1>8, <1>9, <1>10 DEF Inv

\* Giving space back leaves the rest of the queue where it is.
LEMMA Release ==
  ASSUME Inv, NEW n \in 1..view.len, release(n)
  PROVE  Inv' /\ Used' =< Used
<1> DEFINE h == Position(head)
<1>0. UNCHANGED <<tail, buffer, view, write_mutex, data, need>>
  BY DEF release
<1>1. PICK l \in {"notify", "idle"} : pc' = [pc EXCEPT ![Consumer] = l]
  BY DEF release, Goto
<1>2. pc'[Consumer] = l /\ \A p \in Producers : pc'[p] = pc[p]
  BY <1>1, ProducersAssumption DEF Inv, TypeOK
<1>3. /\ pc[Consumer] = "handled" /\ head' = Advance(head, n)
      /\ queue' = SubSeq(queue, n + 1, Len(queue))
  BY DEF release
<1>4. /\ n \in Nat /\ n =< Used /\ Len(queue) = Used /\ Used \in Nat /\ Used =< BufferSize
      /\ h \in 0..BufferSize - 1 /\ BufferSize \in Nat /\ queue \in Seq(Byte) /\ n >= 1
  <2>1. view.len \in Nat /\ view.len =< Len(queue)
    BY <1>3 DEF Inv, ReadInv, TypeOK
  <2> QED
    BY <2>1, Positions DEF Inv, RingInv, TypeOK
<1>5. Used' = Used - n /\ Position(tail)' = Position(tail) /\ TailSize' = TailSize
  BY <1>0, <1>3, <1>4, Popped DEF Used, Inv, Position, TailSize
<1>6. Position(head)' = Wrap(h + n)
  <2>1. Position(Advance(head, n)) = Wrap(h + n)
    BY <1>4, Moves DEF Inv, TypeOK
  <2> QED
    BY <1>3, <2>1 DEF Position
<1>7. head' \in 0..Word - 1
  BY <1>3, <1>4, Advances DEF Inv, TypeOK
<1>8. /\ queue' \in Seq(Byte) /\ Len(queue') = Used - n
      /\ \A i \in 1..Used - n : queue'[i] = queue[i + n]
  <2>1. Len(queue') = Used - n
    BY <1>3, <1>4
  <2>2. queue' \in Seq(Byte)
    BY <1>3, <1>4
  <2>3. \A i \in 1..Used - n : queue'[i] = queue[i + n]
    BY <1>3, <1>4
  <2> QED
    BY <2>1, <2>2, <2>3
<1>9. TypeOK'
  BY <1>0, <1>1, <1>7, <1>8 DEF Inv, TypeOK, ConsumerLabels
<1>10. LockInv'
  BY <1>0, <1>2 DEF Inv, LockInv
<1>11. \A i \in 1..Used - n : i + n \in 1..Used /\ Wrap(Wrap(h + n) + i - 1) = Wrap(h + (i + n) - 1)
  BY <1>4 DEF Wrap
<1>12. RingInv'
  <2>1. \A i \in 1..Used - n : buffer[Wrap(Wrap(h + n) + i - 1)] = queue'[i]
    BY <1>4, <1>8, <1>11 DEF Inv, RingInv
  <2>2. Used - n =< BufferSize
    BY <1>4
  <2> QED
    BY <1>0, <1>5, <1>6, <1>8, <2>1, <2>2 DEF RingInv
<1>13. WriteInv'
  <2>1. \A p \in Producers : Used + Len(data[p]) =< BufferSize /\ Len(data[p]) \in Nat
          => Used - n + Len(data[p]) =< BufferSize
    BY <1>4
  <2>2. \A p \in Producers : Len(data[p]) \in Nat
    BY DEF Inv, TypeOK
  <2> QED
    BY <1>0, <1>2, <1>5, <2>1, <2>2 DEF Inv, WriteInv
<1>14. ReadInv'
  BY <1>2 DEF ReadInv
<1>15. Used' =< Used
  BY <1>4, <1>5
<1> QED
  BY <1>9, <1>10, <1>12, <1>13, <1>14, <1>15 DEF Inv

LEMMA Notify ==
  ASSUME Inv, notify
  PROVE  Inv'
<1>0. UNCHANGED <<head, tail, buffer, queue, op, view, chunk, write_mutex, data, need>>
  BY DEF notify, ringVars, readVars
<1>1. /\ pc' \in [Producers \cup {Consumer} -> ProducerLabels \cup ConsumerLabels]
      /\ pc'[Consumer] = "idle"
      /\ \A p \in Producers : pc'[p] = pc[p] \/ pc'[p] = "woken"
  BY ProducersAssumption DEF notify, Goto, Inv, TypeOK, ProducerLabels, ConsumerLabels
<1>2. TypeOK'
  BY <1>0, <1>1 DEF Inv, TypeOK
<1>3. LockInv'
  BY <1>0, <1>1 DEF Inv, LockInv, Writing
<1>4. RingInv' /\ WriteInv'
  BY <1>0, <1>1, NoWrite DEF Writing
<1>5. ReadInv'
  BY <1>1 DEF ReadInv
<1> QED
  BY <1>2, <1>3, <1>4, <1>5 DEF Inv

LEMMA Clear ==
  ASSUME Inv, clear
  PROVE  Inv' /\ Used' = 0
<1>0. UNCHANGED <<buffer, op, view, chunk, write_mutex, pc, data, need>>
  BY DEF clear, readVars
<1>1. head' = 0 /\ tail' = 0 /\ queue' = <<>>
  BY DEF clear
<1>2. Used' = 0
  BY <1>1, Sizes DEF Used
<1>3. \A t \in Producers \cup {Consumer} : pc[t] = "idle"
  BY DEF clear, Inv, TypeOK
<1>4. TypeOK'
  BY <1>0, <1>1, Sizes DEF Inv, TypeOK
<1>5. LockInv' /\ WriteInv' /\ ReadInv'
  BY <1>0, <1>3 DEF LockInv, WriteInv, ReadInv, Writing
<1>6. RingInv'
  BY <1>1, <1>2, Sizes DEF RingInv
<1> QED
  BY <1>2, <1>4, <1>5, <1>6 DEF Inv

LEMMA Stutter == Inv /\ UNCHANGED vars => Inv'
<1> SUFFICES ASSUME Inv, UNCHANGED vars PROVE Inv'
  OBVIOUS
<1>1. RingInv' /\ WriteInv'
  BY NoWrite DEF vars
<1>2. TypeOK' /\ LockInv'
  BY DEF vars, Inv, TypeOK, LockInv
<1>3. ReadInv'
  BY Same DEF vars, Inv, ReadInv
<1> QED
  BY <1>1, <1>2, <1>3 DEF Inv

\* A release only ever gives back what was handed out.
LEMMA Releases ==
  ASSUME Inv, pop_end \/ commit
  PROVE  \E n \in 1..view.len : release(n)
<1>1. CASE pop_end
  <2>1. pc[Consumer] = "handled" /\ release(view.len)
    BY <1>1 DEF pop_end, release
  <2>2. view.len \in 1..view.len
    BY <2>1 DEF Inv, ReadInv, TypeOK
  <2> QED
    BY <2>1, <2>2
<1>2. CASE commit
  BY <1>2 DEF commit
<1> QED
  BY <1>1, <1>2

LEMMA NextInv == ASSUME OneWriter PROVE Inv /\ [Next]_vars => Inv'
<1> SUFFICES ASSUME Inv, Next PROVE Inv'
  BY Stutter
<1>1. CASE \E p \in Producers : Produce(p)
  BY <1>1, Push, PushCopy, PushWrap, PushPublish, Waiting DEF Produce
<1>2. CASE Consume
  BY <1>2, Look, Handle, Releases, Release, Notify DEF Consume
<1>3. CASE clear
  BY <1>3, Clear
<1> QED
  BY <1>1, <1>2, <1>3 DEF Next

-----------------------------------------------------------------------------
LEMMA InvFifo == Inv => Fifo
<1> SUFFICES ASSUME Inv PROVE Fifo
  OBVIOUS
<1>1. /\ Len(queue) = Used /\ Used \in Nat /\ Used =< BufferSize
      /\ BufferSize \in Nat /\ queue \in Seq(Byte)
  BY Positions DEF Inv, RingInv, TypeOK
<1>2. ASSUME NEW i \in 1..Len(queue) PROVE buffer[Position(Advance(head, i - 1))] = queue[i]
  <2>1. i - 1 \in 0..BufferSize
    BY <1>1
  <2>2. Position(Advance(head, i - 1)) = Wrap(Position(head) + (i - 1))
    BY <2>1, Moves DEF Inv, TypeOK
  <2>3. Position(head) + (i - 1) = Position(head) + i - 1
    BY <1>1, Positions DEF Inv
  <2> QED
    BY <2>2, <2>3 DEF Inv, RingInv
<1>3. ASSUME pc[Consumer] = "handled"
      PROVE  chunk # <<>> /\ Len(chunk) =< Len(queue) /\ chunk = SubSeq(queue, 1, Len(chunk))
  <2>1. /\ view.len \in Nat /\ view.len >= 1 /\ view.len =< Len(queue)
        /\ chunk = [i \in 1..view.len |-> queue[i]]
    BY <1>3 DEF Inv, ReadInv, TypeOK
  <2>2. \A i \in 1..view.len : queue[i] \in Byte
    BY <1>1, <2>1
  <2>3. chunk \in Seq(Byte) /\ Len(chunk) = view.len
    BY <2>1, <2>2
  <2>4. /\ SubSeq(queue, 1, view.len) \in Seq(Byte) /\ Len(SubSeq(queue, 1, view.len)) = view.len
        /\ \A i \in 1..view.len : SubSeq(queue, 1, view.len)[i] = queue[i]
    BY <1>1, <2>1
  <2>5. chunk = SubSeq(queue, 1, view.len)
    BY <2>1, <2>3, <2>4, SeqEqual
  <2> QED
    BY <2>1, <2>3, <2>5
<1> QED
  BY <1>1, <1>2, <1>3 DEF Fifo

\* With a mutex, or with one producer, the ring is a queue of bytes: push, pop,
\* read and commit lose, repeat and reorder none, for every size of the buffer
\* and of the counters, and no push disturbs what a handler is reading.
THEOREM LoopBufferFifo == ASSUME OneWriter PROVE Spec => []Fifo
<1>1. Init => Inv
  BY InitialInv
<1>2. Inv /\ [Next]_vars => Inv'
  BY NextInv
<1> QED
  BY <1>1, <1>2, InvFifo, PTL DEF Spec

-----------------------------------------------------------------------------
(***************************************************************************)
(* The promise of wait.                                                    *)
(***************************************************************************)
\* Only a push that ends takes room away.
LEMMA RoomStays ==
  ASSUME OneWriter, Inv, Next, ~\E q \in Producers : push_publish(q)
  PROVE  Used' =< Used
<1>0. Used \in Nat
  BY Positions DEF Inv
<1>1. CASE UNCHANGED <<head, tail>>
  <2>1. Used' = Used
    BY <1>1 DEF Used
  <2> QED
    BY <1>0, <2>1
<1>2. CASE pop_end \/ commit
  BY <1>2, Releases, Release
<1>3. CASE clear
  BY <1>0, <1>3, Clear
<1> QED
  BY <1>1, <1>2, <1>3 DEF Next, Produce, Consume, push, push_copy, push_wrap, wait, wait_block,
    wait_wake, wait_timeout, pop, read, handler, notify, ringVars

LEMMA RoomStep ==
  ASSUME OneWriter, Inv, Next, NEW p \in Producers,
         pc'[p] = "room", pc[p] = "room" => HasRoom(need[p]),
         ~\E q \in Producers \ {p} : pc[q] = "publish" /\ pc'[q] = "idle"
  PROVE  HasRoom(need[p])'
<1>0. p # Consumer /\ Inv'
  BY ProducersAssumption, NextInv
<1>1. ~\E q \in Producers : push_publish(q)
  <2> SUFFICES ASSUME NEW q \in Producers, push_publish(q) PROVE FALSE
    OBVIOUS
  <2>1. pc[q] = "publish" /\ pc'[q] = "idle"
    BY DEF push_publish, Goto, Inv, TypeOK
  <2> QED
    BY <2>1
<1>2. Used' =< Used /\ Used \in Nat /\ Used' \in Nat /\ BufferSize \in Nat
  <2>1. Used' \in Nat
    <3>1. tail' - head' \in Int
      BY <1>0, Sizes DEF Inv, TypeOK
    <3>2. (tail' - head') % Word \in 0..Word - 1
      BY <3>1, Sizes, DivMod
    <3> QED
      BY <3>2, Sizes DEF Used
  <2> QED
    BY <1>1, <2>1, RoomStays, Positions DEF Inv
<1>3. CASE wait(p)
  <2>1. UNCHANGED <<head, tail>>
    BY <1>3 DEF wait, ringVars
  <2>2. PICK n \in 1..Smaller(MaxLen, BufferSize) :
          /\ need' = [need EXCEPT ![p] = n]
          /\ IF HasRoom(n) THEN Goto(p, "room") ELSE Goto(p, "block")
    BY <1>3 DEF wait
  <2>3. HasRoom(n) /\ need'[p] = n
    BY <2>2 DEF Goto, Inv, TypeOK
  <2> QED
    BY <2>1, <2>3 DEF HasRoom, Used
<1>4. CASE wait_wake(p)
  <2>1. UNCHANGED <<head, tail, need>>
    BY <1>4 DEF wait_wake, ringVars
  <2>2. HasRoom(need[p])
    BY <1>4 DEF wait_wake, Goto, Inv, TypeOK
  <2> QED
    BY <2>1, <2>2 DEF HasRoom, Used
<1>5. CASE ~wait(p) /\ ~wait_wake(p)
  <2>1. pc[p] = "room"
    <3>1. \A q \in Producers : q # p /\ Produce(q) => pc'[p] = pc[p]
      BY DEF Produce, push, push_copy, push_wrap, push_publish, wait, wait_block, wait_wake,
        wait_timeout, Goto, Inv, TypeOK
    <3>2. ~Produce(p)
      BY <1>5 DEF Produce, push, push_copy, push_wrap, push_publish, wait_block, wait_timeout,
        Goto, Inv, TypeOK
    <3>3. Consume \/ clear => pc'[p] = pc[p]
      BY <1>0 DEF Consume, pop, read, handler, pop_end, commit, release, notify, clear, Goto,
        Inv, TypeOK
    <3> QED
      BY <3>1, <3>2, <3>3 DEF Next
  <2>2. need'[p] = need[p] /\ need[p] \in Nat
    BY <1>5 DEF Next, Produce, Consume, push, push_copy, push_wrap, push_publish, wait,
      wait_block, wait_wake, wait_timeout, pop, read, handler, pop_end, commit, release, notify,
      clear, Inv, TypeOK
  <2> QED
    BY <1>2, <2>1, <2>2 DEF HasRoom
<1> QED
  BY <1>3, <1>4, <1>5

\* wait keeps its promise: the room it returned for is there until this producer
\* pushes, unless another producer pushes first.
THEOREM LoopBufferRoomAfterWait == ASSUME OneWriter PROVE Spec => RoomAfterWait
<1>1. Init => Inv
  BY InitialInv
<1>2. Inv /\ [Next]_vars => Inv'
  BY NextInv
<1>3. Inv /\ [Next]_vars =>
        [\A p \in Producers :
           /\ pc'[p] = "room" /\ (pc[p] = "room" => HasRoom(need[p]))
           /\ ~\E q \in Producers \ {p} : pc[q] = "publish" /\ pc'[q] = "idle"
           => HasRoom(need[p])']_vars
  BY RoomStep
<1> QED
  BY <1>1, <1>2, <1>3, PTL DEF Spec, RoomAfterWait
-----------------------------------------------------------------------------
(***************************************************************************)
(* NotifyQueue, for any set of items and any number of exceptions.         *)
(***************************************************************************)
\* The type invariant and NothingLost together are inductive: what push adds to
\* owed it adds to m_data, process moves items between the sets, and an item
\* leaves them only when it leaves owed or m_cache is empty of owed ones.
QueueInv == QueueTypeOK /\ NothingLost

\* The invariant holds of the empty queue.
LEMMA QueueInitInv == QueueInit => QueueInv
BY ThrowsAssumption DEF QueueInit, QueueInv, QueueTypeOK, NothingLost

\* Every step of a producer or of process preserves the invariant.
LEMMA QueueNextInv ==
  ASSUME QueueInv, [QueueNext]_queueVars
  PROVE  QueueInv'
<1> USE ThrowsAssumption DEF QueueInv, QueueTypeOK, NothingLost
<1>1. ASSUME NEW i \in Items, push_item(i) PROVE QueueInv'
  BY <1>1 DEF push_item
<1>2. CASE process_take
  <2>1. CASE m_cache = {}
    BY <1>2, <2>1 DEF process_take
  <2>2. CASE m_cache # {}
    BY <1>2, <2>2 DEF process_take
  <2> QED
    BY <2>1, <2>2
<1>3. CASE process_item
  <2>1. PICK i \in todo : todo' = todo \ {i} /\ owed' = owed \ {i}
    BY <1>3 DEF process_item
  <2> QED
    BY <1>3, <2>1 DEF process_item
<1>4. CASE process_throw
  BY <1>4 DEF process_throw
<1>5. CASE process_end
  BY <1>5 DEF process_end
<1>6. CASE UNCHANGED queueVars
  BY <1>6 DEF queueVars
<1> QED
  BY <1>1, <1>2, <1>3, <1>4, <1>5, <1>6 DEF QueueNext, process

\* No push is lost, with any number of items and of exceptions.
THEOREM NoPushLost == QueueSpec => []NothingLost
<1>1. QueueInv => NothingLost
  BY DEF QueueInv
<1>2. QueueInit => QueueInv
  BY QueueInitInv
<1>3. QueueInv /\ [QueueNext]_queueVars => QueueInv'
  BY QueueNextInv
<1> QED
  BY <1>1, <1>2, <1>3, PTL DEF QueueSpec
=============================================================================
