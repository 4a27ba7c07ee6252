--------------------------- MODULE TcpRead_proofs ---------------------------
(***************************************************************************)
(* Proofs about TcpRead: for any packages, any way the network cuts their  *)
(* bytes into segments and any size of read_buffer.                        *)
(***************************************************************************)
EXTENDS TcpRead, SequenceTheorems, NaturalsInduction, WellFoundedInduction, TLAPS

\* Induction by a least counterexample.
LEMMA Least ==
  ASSUME NEW T, T \subseteq Nat, T # {}
  PROVE  \E x \in T : \A y \in T : x <= y
<1>1. \E x \in T : \A y \in T : ~(<<y, x>> \in OpToRel(<, Nat))
  BY NatLessThanWellFounded, WFMin
<1>2. PICK x \in T : \A y \in T : ~(<<y, x>> \in OpToRel(<, Nat))
  BY <1>1
<1>3. ASSUME NEW y \in T PROVE x <= y
  <2>1. ~(<<y, x>> \in OpToRel(<, Nat))
    BY <1>2
  <2>2. x \in Nat /\ y \in Nat
    OBVIOUS
  <2>3. ~(y < x)
    BY <2>1, <2>2 DEF OpToRel
  <2> QED
    BY <2>2, <2>3
<1> QED
  BY <1>3

\* f is the function that FlattenSeq(s) uses, for the first n elements of s.
FlatDef(s, n, f) == f = [i \in 1..n |-> IF i = 1 THEN s[i] ELSE f[i - 1] \o s[i]]

\* The function FlattenSeq is defined by exists for sequences of every length.
LEMMA FlatStep ==
  ASSUME NEW s, NEW n \in Nat, NEW f, FlatDef(s, n, f)
  PROVE  \E g : FlatDef(s, n + 1, g)
<1> DEFINE g == [i \in 1..(n + 1) |-> IF i = n + 1 THEN (IF i = 1 THEN s[i] ELSE f[i - 1] \o s[i]) ELSE f[i]]
<1>1. ASSUME NEW i \in 1..(n + 1) PROVE g[i] = IF i = 1 THEN s[i] ELSE g[i - 1] \o s[i]
  <2>1. CASE i = n + 1
    BY <2>1
  <2>2. CASE i # n + 1
    <3>1. i \in 1..n
      BY <2>2
    <3>2. f[i] = IF i = 1 THEN s[i] ELSE f[i - 1] \o s[i]
      BY <3>1 DEF FlatDef
    <3>3. i # 1 => g[i - 1] = f[i - 1]
      BY <3>1
    <3> QED
      BY <2>2, <3>1, <3>2, <3>3
  <2> QED
    BY <2>1, <2>2
<1>2. g = [i \in 1..(n + 1) |-> g[i]]
  OBVIOUS
<1> HIDE DEF g
<1>3. g = [i \in 1..(n + 1) |-> IF i = 1 THEN s[i] ELSE g[i - 1] \o s[i]]
  BY <1>1, <1>2
<1> QED
  BY <1>3 DEF FlatDef

LEMMA FlatExists ==
  ASSUME NEW s, NEW n \in Nat
  PROVE  \E f : FlatDef(s, n, f)
<1> DEFINE T == {k \in Nat : ~ \E f : FlatDef(s, k, f)}
<1>1. SUFFICES T = {}
  OBVIOUS
<1>2. ASSUME T # {} PROVE FALSE
  <2>1. T \subseteq Nat
    OBVIOUS
  <2> HIDE DEF T
  <2>2. PICK k \in T : \A y \in T : k <= y
    BY <1>2, <2>1, Least
  <2> USE DEF T
  <2>3. CASE k = 0
    <3> DEFINE f == [i \in 1..0 |-> 0]
    <3>1. f = [i \in 1..0 |-> IF i = 1 THEN s[i] ELSE f[i - 1] \o s[i]]
      OBVIOUS
    <3> QED
      BY <3>1, <2>3 DEF FlatDef
  <2>4. CASE k # 0
    <3>1. k - 1 \in Nat /\ k - 1 \notin T /\ (k - 1) + 1 = k
      BY <2>2, <2>4, <2>1
    <3>2. PICK f : FlatDef(s, k - 1, f)
      BY <3>1
    <3> HIDE DEF T
    <3>3. \E g : FlatDef(s, (k - 1) + 1, g)
      BY <3>1, <3>2, FlatStep
    <3> USE DEF T
    <3> QED
      BY <3>1, <3>3
  <2> QED
    BY <2>3, <2>4
<1> QED
  BY <1>2

\* s and t have the same first n elements.
Agree(s, t, n) == \A i \in 1..n : s[i] = t[i]

\* It depends on the first elements only.
LEMMA FlatUnique ==
  ASSUME NEW s, NEW t, NEW n \in Nat, NEW m \in Nat, NEW f, NEW g,
         n <= m, Agree(s, t, n), FlatDef(s, n, f), FlatDef(t, m, g)
  PROVE  Agree(f, g, n)
<1> USE DEF Agree
<1> DEFINE T == {i \in 1..n : f[i] # g[i]}
<1>1. SUFFICES T = {}
  OBVIOUS
<1>2. ASSUME T # {} PROVE FALSE
  <2>1. T \subseteq Nat
    OBVIOUS
  <2> HIDE DEF T
  <2>2. PICK i \in T : \A y \in T : i <= y
    BY <1>2, <2>1, Least
  <2> USE DEF T
  <2>3. i \in 1..n /\ f[i] # g[i] /\ i \in 1..m
    OBVIOUS
  <2>4. i # 1 => f[i - 1] = g[i - 1]
    <3>1. i # 1 => i - 1 \in 1..n /\ i - 1 \notin T
      BY <2>2, <2>3
    <3> QED
      BY <3>1
  <2>5. f[i] = IF i = 1 THEN s[i] ELSE f[i - 1] \o s[i]
    BY <2>3 DEF FlatDef
  <2>6. g[i] = IF i = 1 THEN t[i] ELSE g[i - 1] \o t[i]
    BY <2>3 DEF FlatDef
  <2>7. s[i] = t[i]
    BY <2>3
  <2> QED
    BY <2>3, <2>4, <2>5, <2>6, <2>7
<1> QED
  BY <1>2

LEMMA FlattenIs ==
  ASSUME NEW S, NEW s \in Seq(S), Len(s) # 0, NEW f, FlatDef(s, Len(s), f)
  PROVE  FlattenSeq(s) = f[Len(s)]
<1> DEFINE c == CHOOSE h : h = [i \in 1..Len(s) |-> IF i = 1 THEN s[i] ELSE h[i - 1] \o s[i]]
<1>1. FlattenSeq(s) = c[Len(s)]
  BY DEF FlattenSeq
<1>2. FlatDef(s, Len(s), c)
  BY DEF FlatDef
<1> HIDE DEF c
<1>3. Len(s) \in Nat /\ Len(s) \in 1..Len(s)
  OBVIOUS
<1>4. Agree(c, f, Len(s))
  <2>1. Agree(s, s, Len(s)) /\ Len(s) <= Len(s)
    BY <1>3 DEF Agree
  <2> QED
    BY <1>2, <1>3, <2>1, FlatUnique
<1> QED
  BY <1>1, <1>3, <1>4 DEF Agree

-----------------------------------------------------------------------------

\* Facts about FlattenSeq.
LEMMA FlattenEmpty == FlattenSeq(<<>>) = <<>>
BY DEF FlattenSeq

\* FlattenSeq of a sequence that is one element longer.
LEMMA FlattenExtend ==
  ASSUME NEW S, NEW s \in Seq(Seq(S)), NEW t \in Seq(Seq(S)),
         Len(s) # 0, Len(t) = Len(s) + 1, \A i \in 1..Len(s) : s[i] = t[i]
  PROVE  FlattenSeq(t) = FlattenSeq(s) \o t[Len(t)]
<1>1. /\ Len(s) \in Nat /\ Len(t) \in Nat /\ Len(s) <= Len(t) /\ Len(t) # 0
      /\ Len(s) \in 1..Len(s) /\ Len(t) \in 1..Len(t)
      /\ Len(t) # 1 /\ Len(t) - 1 = Len(s)
  OBVIOUS
<1>2. PICK f : FlatDef(s, Len(s), f)
  BY <1>1, FlatExists
<1>3. PICK g : FlatDef(t, Len(t), g)
  BY <1>1, FlatExists
<1>4. FlattenSeq(s) = f[Len(s)]
  BY <1>1, <1>2, FlattenIs
<1>5. FlattenSeq(t) = g[Len(t)]
  BY <1>1, <1>3, FlattenIs
<1>6. f[Len(s)] = g[Len(s)]
  <2>1. Agree(s, t, Len(s))
    BY DEF Agree
  <2>2. Agree(f, g, Len(s))
    BY <1>1, <1>2, <1>3, <2>1, FlatUnique
  <2> QED
    BY <1>1, <2>2 DEF Agree
<1>7. g[Len(t)] = g[Len(s)] \o t[Len(t)]
  <2>1. g[Len(t)] = g[Len(t) - 1] \o t[Len(t)]
    BY <1>1, <1>3 DEF FlatDef
  <2> QED
    BY <1>1, <2>1
<1> QED
  BY <1>4, <1>5, <1>6, <1>7

LEMMA FlattenOne ==
  ASSUME NEW S, NEW e \in Seq(S)
  PROVE  FlattenSeq(<<e>>) = e
<1>0. PICK s : s = <<e>>
  OBVIOUS
<1>1. s \in Seq(Seq(S)) /\ Len(s) = 1 /\ s[1] = e
  BY <1>0
<1>2. Len(s) \in Nat /\ Len(s) # 0 /\ 1 \in 1..Len(s)
  BY <1>1
<1>3. PICK f : FlatDef(s, Len(s), f)
  BY <1>2, FlatExists
<1>4. f[1] = s[1]
  BY <1>2, <1>3 DEF FlatDef
<1>5. FlattenSeq(s) = f[Len(s)]
  BY <1>1, <1>2, <1>3, FlattenIs
<1> QED
  BY <1>0, <1>1, <1>4, <1>5

LEMMA FlattenAppend ==
  ASSUME NEW S, NEW s \in Seq(Seq(S)), NEW e \in Seq(S)
  PROVE  FlattenSeq(Append(s, e)) = FlattenSeq(s) \o e
<1>1. CASE s = <<>>
  <2>1. Append(s, e) = <<e>> /\ <<>> \o e = e
    BY <1>1
  <2> QED
    BY <1>1, <2>1, FlattenEmpty, FlattenOne
<1>2. CASE s # <<>>
  <2>1. PICK t : t = Append(s, e)
    OBVIOUS
  <2>2. /\ t \in Seq(Seq(S)) /\ Len(t) = Len(s) + 1 /\ Len(s) \in Nat /\ Len(s) # 0
        /\ Len(s) + 1 \in Nat /\ t[Len(s) + 1] = e /\ \A i \in 1..Len(s) : s[i] = t[i]
    BY <1>2, <2>1
  <2>3. FlattenSeq(t) = FlattenSeq(s) \o t[Len(s) + 1]
    BY <2>2, FlattenExtend
  <2> QED
    BY <2>1, <2>2, <2>3
<1> QED
  BY <1>1, <1>2

\* A prefix of a sequence of sequences, one element longer.
LEMMA PrefixStep ==
  ASSUME NEW S, NEW s \in Seq(S), NEW n \in Nat, n < Len(s)
  PROVE  SubSeq(s, 1, n + 1) = Append(SubSeq(s, 1, n), s[n + 1])
OBVIOUS

\* FlattenSeq of sequences of bytes is a sequence of bytes.
LEMMA FlattenType ==
  ASSUME NEW S, NEW s \in Seq(Seq(S))
  PROVE  FlattenSeq(s) \in Seq(S)
<1> DEFINE T == {n \in 0..Len(s) : FlattenSeq(SubSeq(s, 1, n)) \notin Seq(S)}
<1>1. ASSUME T # {} PROVE FALSE
  <2>1. T \subseteq Nat
    OBVIOUS
  <2> HIDE DEF T
  <2>2. PICK n \in T : \A y \in T : n <= y
    BY <1>1, <2>1, Least
  <2>3. n \in 0..Len(s) /\ FlattenSeq(SubSeq(s, 1, n)) \notin Seq(S)
    BY DEF T
  <2>4. n # 0
    <3>1. SubSeq(s, 1, 0) = <<>> /\ <<>> \in Seq(S)
      OBVIOUS
    <3> QED
      BY <2>3, <3>1, FlattenEmpty
  <2>5. PICK k \in Nat : k < Len(s) /\ n = k + 1
    <3>1. n - 1 \in Nat /\ n - 1 < Len(s) /\ n = (n - 1) + 1
      BY <2>3, <2>4
    <3> QED
      BY <3>1
  <2>6. k \in 0..Len(s) /\ ~(n <= k)
    BY <2>5
  <2>7. FlattenSeq(SubSeq(s, 1, k)) \in Seq(S)
    BY <2>2, <2>6 DEF T
  <2>8. SubSeq(s, 1, k) \in Seq(Seq(S)) /\ s[k + 1] \in Seq(S)
    BY <2>5
  <2>9. FlattenSeq(SubSeq(s, 1, n)) = FlattenSeq(SubSeq(s, 1, k)) \o s[k + 1]
    BY <2>5, <2>8, PrefixStep, FlattenAppend
  <2> QED
    BY <2>3, <2>7, <2>8, <2>9, ConcatProperties
<1>2. Len(s) \in 0..Len(s) /\ SubSeq(s, 1, Len(s)) = s
  OBVIOUS
<1>3. Len(s) \notin T
  BY <1>1
<1> QED
  BY <1>2, <1>3

\* Concatenation of bytes.
LEMMA ConcatAssoc ==
  ASSUME NEW a \in Seq(Nat), NEW b \in Seq(Nat), NEW c \in Seq(Nat)
  PROVE  (a \o b) \o c = a \o (b \o c)
OBVIOUS

LEMMA ConcatType ==
  ASSUME NEW a \in Seq(Nat), NEW b \in Seq(Nat)
  PROVE  a \o b \in Seq(Nat) /\ Len(a \o b) = Len(a) + Len(b)
OBVIOUS

\* What comes after equal bytes is equal.
LEMMA ConcatCancel ==
  ASSUME NEW a \in Seq(Nat), NEW b \in Seq(Nat), NEW c \in Seq(Nat), a \o b = a \o c
  PROVE  b = c
<1>1. Len(b) = Len(c)
  <2>1. Len(a) + Len(b) = Len(a) + Len(c)
    BY ConcatType
  <2> QED
    BY <2>1, LenProperties
<1>2. ASSUME NEW i \in 1..Len(b) PROVE b[i] = c[i]
  <2>1. (a \o b)[Len(a) + i] = b[i] /\ (a \o c)[Len(a) + i] = c[i]
    BY <1>1
  <2> QED
    BY <2>1
<1> QED
  BY <1>1, <1>2, SeqEqual

\* A sequence is the concatenation of two that hold its elements in turn.
LEMMA Joined ==
  ASSUME NEW a, NEW b, NEW s,
         a \in Seq(Nat), b \in Seq(Nat), s \in Seq(Nat),
         Len(s) = Len(a) + Len(b),
         \A i \in 1..Len(a) : s[i] = a[i],
         \A i \in 1..Len(b) : s[Len(a) + i] = b[i]
  PROVE  s = a \o b
<1>1. ASSUME NEW i \in 1..Len(s) PROVE s[i] = (a \o b)[i]
  <2>1. (a \o b)[i] = IF i <= Len(a) THEN a[i] ELSE b[i - Len(a)]
    BY ConcatProperties
  <2>2. CASE i <= Len(a)
    BY <2>1, <2>2
  <2>3. CASE ~(i <= Len(a))
    <3>1. i - Len(a) \in 1..Len(b) /\ Len(a) + (i - Len(a)) = i
      BY <2>3
    <3> QED
      BY <2>1, <2>3, <3>1
  <2> QED
    BY <2>2, <2>3
<1>2. a \o b \in Seq(Nat) /\ Len(a \o b) = Len(s)
  BY ConcatType
<1> QED
  BY <1>1, <1>2, SeqEqual

\* A sequence is its first n elements and the others.
LEMMA SplitSeq ==
  ASSUME NEW s \in Seq(Nat), NEW n \in 0..Len(s)
  PROVE  /\ SubSeq(s, 1, n) \in Seq(Nat) /\ SubSeq(s, n + 1, Len(s)) \in Seq(Nat)
         /\ s = SubSeq(s, 1, n) \o SubSeq(s, n + 1, Len(s))
<1>1. PICK a : a = SubSeq(s, 1, n)
  OBVIOUS
<1>2. PICK b : b = SubSeq(s, n + 1, Len(s))
  OBVIOUS
<1>3. a \in Seq(Nat) /\ Len(a) = n /\ \A i \in 1..n : a[i] = s[i]
  BY <1>1
<1>4. b \in Seq(Nat) /\ Len(b) = Len(s) - n
  BY <1>2
<1>5. \A i \in 1..(Len(s) - n) : b[i] = s[n + i]
  BY <1>2
<1>6. s = a \o b
  <2>1. Len(s) = Len(a) + Len(b)
    BY <1>3, <1>4
  <2>2. \A i \in 1..Len(a) : s[i] = a[i]
    BY <1>3
  <2>3. \A i \in 1..Len(b) : s[Len(a) + i] = b[i]
    BY <1>3, <1>4, <1>5
  <2> QED
    BY <1>3, <1>4, <2>1, <2>2, <2>3, Joined
<1> QED
  BY <1>1, <1>2, <1>3, <1>4, <1>6

\* The bytes of the first k packages are a prefix of the bytes of all.
LEMMA FlattenPrefix ==
  ASSUME NEW s \in Seq(Seq(Nat)), NEW k \in 0..Len(s)
  PROVE  \E u \in Seq(Nat) : FlattenSeq(s) = FlattenSeq(SubSeq(s, 1, k)) \o u
<1> DEFINE P(n) == \E u \in Seq(Nat) :
                     FlattenSeq(SubSeq(s, 1, n)) = FlattenSeq(SubSeq(s, 1, k)) \o u
           T == {n \in k..Len(s) : ~P(n)}
<1>1. ASSUME T # {} PROVE FALSE
  <2>1. T \subseteq Nat
    OBVIOUS
  <2> HIDE DEF T
  <2>2. PICK n \in T : \A y \in T : n <= y
    BY <1>1, <2>1, Least
  <2> HIDE DEF P
  <2>3. n \in k..Len(s) /\ ~P(n)
    BY DEF T
  <2>4. SubSeq(s, 1, k) \in Seq(Seq(Nat))
    OBVIOUS
  <2>5. n # k
    <3>1. FlattenSeq(SubSeq(s, 1, k)) \o <<>> = FlattenSeq(SubSeq(s, 1, k)) /\ <<>> \in Seq(Nat)
      BY <2>4, FlattenType
    <3>2. P(k)
      BY <3>1 DEF P
    <3> QED
      BY <2>3, <3>2
  <2>6. PICK m \in k..Len(s) : m < Len(s) /\ n = m + 1
    <3>1. n - 1 \in k..Len(s) /\ n - 1 < Len(s) /\ n = (n - 1) + 1
      BY <2>3, <2>5
    <3> QED
      BY <3>1
  <2>7. P(m)
    <3>1. ~(n <= m)
      BY <2>6
    <3> QED
      BY <2>2, <3>1 DEF T
  <2>8. PICK u \in Seq(Nat) :
          FlattenSeq(SubSeq(s, 1, m)) = FlattenSeq(SubSeq(s, 1, k)) \o u
    BY <2>7 DEF P
  <2>9. m \in Nat /\ SubSeq(s, 1, m) \in Seq(Seq(Nat)) /\ s[m + 1] \in Seq(Nat)
    BY <2>6
  <2>10. FlattenSeq(SubSeq(s, 1, n)) = FlattenSeq(SubSeq(s, 1, m)) \o s[m + 1]
    BY <2>6, <2>9, PrefixStep, FlattenAppend
  <2>11. FlattenSeq(SubSeq(s, 1, n)) = FlattenSeq(SubSeq(s, 1, k)) \o (u \o s[m + 1])
    <3>1. PICK d : d = FlattenSeq(SubSeq(s, 1, k))
      OBVIOUS
    <3>2. PICK e : e = s[m + 1]
      OBVIOUS
    <3>3. d \in Seq(Nat) /\ e \in Seq(Nat)
      BY <2>4, <2>9, <3>1, <3>2, FlattenType
    <3>4. (d \o u) \o e = d \o (u \o e)
      BY <3>3, ConcatAssoc
    <3> QED
      BY <2>8, <2>10, <3>1, <3>2, <3>4
  <2>12. u \o s[m + 1] \in Seq(Nat)
    BY <2>9, ConcatType
  <2>13. P(n)
    BY <2>11, <2>12 DEF P
  <2> QED
    BY <2>3, <2>13
<1>2. Len(s) \in k..Len(s) /\ SubSeq(s, 1, Len(s)) = s
  OBVIOUS
<1>3. Len(s) \notin T
  BY <1>1
<1>4. P(Len(s))
  BY <1>2, <1>3
<1> QED
  BY <1>2, <1>4

-----------------------------------------------------------------------------

PackageSet == {Package(b) : b \in Bodies}

\* Types and ranges.  Between two calls of process_data nothing of the buffer is
\* parsed; inside, the position does not pass the end of what was received.
TypeInv ==
  /\ handler \in {"all", "checked", "declared"}
  /\ packages \in Seq(PackageSet) /\ delivered \in Seq(Seq(Nat))
  /\ wire \in Seq(Nat) /\ sock \in Seq(Nat)
  /\ peer \in {"up", "eof"} /\ edge \in BOOLEAN /\ closing \in BOOLEAN
  /\ pc \in {"wait", "recv", "parse", "closed"}
  /\ read_buffer \in [1..kReadBufferSize -> Nat]
  /\ read_buffer_pos \in 0..kReadBufferSize /\ readPos \in 0..read_buffer_pos
  /\ pc \in {"wait", "recv"} => readPos = 0

\* What is still to be parsed.
Rest == SubSeq(read_buffer, readPos + 1, read_buffer_pos)

\* The two parts of Framing.
Stream == Bytes(delivered) \o Rest \o sock \o wire = Bytes(packages)
OneByOne == handler # "all" => IsPrefix(delivered, packages)

Inv == TypeInv /\ Stream /\ OneByOne /\ PartialIsDrained

\* A package is its header and as many bytes as the header says.
LEMMA PackageType ==
  ASSUME NEW p \in PackageSet
  PROVE  p \in Seq(Nat) /\ Len(p) >= HeadSize /\ Len(p) = HeadSize + p[HeadSize]
<1>1. PICK b \in Bodies : p = Package(b)
  BY DEF PackageSet
<1>2. b \in Seq(Nat) /\ Len(b) \in Nat
  BY StreamAssumption
<1>3. <<1, Len(b)>> \in Seq(Nat) /\ Len(<<1, Len(b)>>) = 2 /\ <<1, Len(b)>>[2] = Len(b)
  BY <1>2
<1>4. p = <<1, Len(b)>> \o b
  BY <1>1 DEF Package
<1>5. p \in Seq(Nat) /\ Len(p) = 2 + Len(b) /\ p[2] = Len(b)
  BY <1>2, <1>3, <1>4, ConcatProperties
<1> QED
  BY <1>2, <1>5 DEF HeadSize

LEMMA PackagesType ==
  ASSUME TypeInv
  PROVE  packages \in Seq(Seq(Nat))
<1>1. PackageSet \subseteq Seq(Nat)
  BY PackageType
<1> QED
  BY <1>1 DEF TypeInv

\* A stretch of the buffer is a sequence of bytes.
LEMMA StretchType ==
  ASSUME NEW buf \in [1..kReadBufferSize -> Nat], NEW b \in 0..kReadBufferSize, NEW a \in 0..b,
         NEW r, r = SubSeq(buf, a + 1, b)
  PROVE  /\ r \in Seq(Nat) /\ Len(r) = b - a
         /\ \A i \in 1..(b - a) : r[i] = buf[a + i]
<1>1. a \in Int /\ b \in Int /\ a + 1 \in Int /\ a <= b /\ a >= 0 /\ b <= kReadBufferSize
  BY SizeAssumption
<1>2. \A i \in (a + 1)..b : buf[i] \in Nat
  BY <1>1, SizeAssumption
<1>3. /\ r \in Seq(Nat)
      /\ Len(r) = IF a + 1 <= b THEN b - (a + 1) + 1 ELSE 0
      /\ \A i \in 1..(b - (a + 1) + 1) : r[i] = buf[(a + 1) + i - 1]
  BY <1>1, <1>2, SubSeqProperties
<1>4. Len(r) = b - a
  BY <1>1, <1>3
<1>5. ASSUME NEW i \in 1..(b - a) PROVE r[i] = buf[a + i]
  <2>1. i \in 1..(b - (a + 1) + 1) /\ (a + 1) + i - 1 = a + i
    BY <1>1
  <2> QED
    BY <1>3, <2>1
<1> QED
  BY <1>3, <1>4, <1>5

LEMMA FrontType ==
  ASSUME NEW buf \in [1..kReadBufferSize -> Nat], NEW b \in 0..kReadBufferSize,
         NEW r, r = SubSeq(buf, 1, b)
  PROVE  r \in Seq(Nat) /\ Len(r) = b /\ \A i \in 1..b : r[i] = buf[i]
<1>1. 1 \in Int /\ b \in Int /\ b >= 0 /\ \A i \in 1..b : buf[i] \in Nat
  BY SizeAssumption
<1>2. /\ r \in Seq(Nat)
      /\ Len(r) = IF 1 <= b THEN b - 1 + 1 ELSE 0
      /\ \A i \in 1..(b - 1 + 1) : r[i] = buf[1 + i - 1]
  BY <1>1, SubSeqProperties
<1>3. Len(r) = b
  BY <1>1, <1>2
<1>4. ASSUME NEW i \in 1..b PROVE r[i] = buf[i]
  <2>1. i \in 1..(b - 1 + 1) /\ 1 + i - 1 = i
    BY <1>1
  <2> QED
    BY <1>2, <2>1
<1> QED
  BY <1>2, <1>3, <1>4

\* The pieces of the stream are sequences of bytes.
LEMMA StreamType ==
  ASSUME TypeInv
  PROVE  /\ Bytes(delivered) \in Seq(Nat) /\ Bytes(packages) \in Seq(Nat)
         /\ Rest \in Seq(Nat) /\ Len(Rest) = read_buffer_pos - readPos
         /\ \A i \in 1..(read_buffer_pos - readPos) : Rest[i] = read_buffer[readPos + i]
<1>1. Bytes(delivered) \in Seq(Nat) /\ Bytes(packages) \in Seq(Nat)
  BY PackagesType, FlattenType DEF Bytes, TypeInv
<1>2. PICK r : r = Rest
  OBVIOUS
<1>3. r = SubSeq(read_buffer, readPos + 1, read_buffer_pos)
  BY <1>2 DEF Rest
<1>4. /\ r \in Seq(Nat) /\ Len(r) = read_buffer_pos - readPos
      /\ \A i \in 1..(read_buffer_pos - readPos) : r[i] = read_buffer[readPos + i]
  <2>1. /\ read_buffer \in [1..kReadBufferSize -> Nat]
        /\ read_buffer_pos \in 0..kReadBufferSize /\ readPos \in 0..read_buffer_pos
    BY DEF TypeInv
  <2> QED
    BY <1>3, <2>1, StretchType, ZenonT(40)
<1> QED
  BY <1>1, <1>2, <1>4

LEMMA InitInv == Init => Inv
<1> SUFFICES ASSUME Init PROVE Inv
  OBVIOUS
<1>1. packages \in Seq(PackageSet)
  <2>1. PICK n \in 0..MaxPackages : packages \in [1..n -> PackageSet]
    BY DEF Init, PackageSet
  <2>2. n \in Nat
    BY StreamAssumption
  <2> QED
    BY <2>1, <2>2, SeqDef
<1>2. Bytes(<<>>) = <<>> /\ packages \in Seq(Seq(Nat))
  BY <1>1, PackageType, FlattenEmpty DEF Bytes
<1>3. Bytes(packages) \in Seq(Nat)
  BY <1>2, FlattenType DEF Bytes
<1>4. TypeInv
  <2>1. /\ handler \in {"all", "checked", "declared"} /\ wire = Bytes(packages)
        /\ sock = <<>> /\ delivered = <<>> /\ peer = "up" /\ edge = FALSE /\ closing = FALSE
        /\ pc = "wait" /\ read_buffer_pos = 0 /\ readPos = 0
        /\ read_buffer = [i \in 1..kReadBufferSize |-> 0]
    BY HandlersAssumption DEF Init
  <2>2. sock \in Seq(Nat) /\ delivered \in Seq(Seq(Nat))
    BY <2>1
  <2>3. read_buffer \in [1..kReadBufferSize -> Nat]
    BY <2>1
  <2>4. read_buffer_pos \in 0..kReadBufferSize /\ readPos \in 0..read_buffer_pos
    BY <2>1, SizeAssumption
  <2> QED
    BY <1>1, <1>3, <2>1, <2>2, <2>3, <2>4 DEF TypeInv
<1>5. Stream
  <2>1. Rest = <<>>
    BY DEF Init, Rest
  <2>2. ((<<>> \o <<>>) \o <<>>) \o Bytes(packages) = Bytes(packages)
    BY <1>3
  <2> QED
    BY <1>2, <2>1, <2>2 DEF Init, Stream
<1>6. OneByOne
  <2>1. Len(<<>>) = 0 /\ Len(packages) >= 0 /\ SubSeq(<<>>, 1, 0) = <<>> /\ SubSeq(packages, 1, 0) = <<>>
    BY <1>1
  <2> QED
    BY <2>1 DEF Init, OneByOne, IsPrefix
<1>7. PartialIsDrained
  BY DEF Init, PartialIsDrained
<1> QED
  BY <1>4, <1>5, <1>6, <1>7 DEF Inv

\* The byte handle_package or handle_data sees is a byte of the buffer.
LEMMA AtType ==
  ASSUME TypeInv, NEW i \in Nat, i >= 1
  PROVE  At(i) \in Nat
<1>1. readPos + i <= kReadBufferSize => readPos + i \in 1..kReadBufferSize
  BY SizeAssumption DEF TypeInv
<1> QED
  BY <1>1 DEF TypeInv, At

LEMMA PkgLenType ==
  ASSUME TypeInv
  PROVE  pkgLen \in Nat
<1>1. At(HeadSize) \in Nat /\ read_buffer_pos \in Nat
  BY AtType, SizeAssumption DEF HeadSize, TypeInv
<1> QED
  BY <1>1 DEF pkgLen, handle_package, HeadSize

\* The argument of handle_data.
Cut == [i \in 1..pkgLen |-> At(i)]

LEMMA CutType ==
  ASSUME TypeInv
  PROVE  Cut \in Seq(Nat) /\ Len(Cut) = pkgLen
<1>1. \A i \in 1..pkgLen : At(i) \in Nat
  BY AtType, PkgLenType
<1>2. pkgLen \in Nat
  BY PkgLenType
<1>3. Cut \in [1..pkgLen -> Nat]
  BY <1>1 DEF Cut
<1> QED
  BY <1>2, <1>3

\* Every step keeps the types: read_buffer_pos and readPos stay inside the buffer.
LEMMA TypeStep ==
  ASSUME TypeInv, [Next]_vars
  PROVE  TypeInv'
<1> USE SizeAssumption
<1>1. CASE Arrive
  <2>1. PICK n \in 1..Len(wire) : /\ sock' = sock \o SubSeq(wire, 1, n)
                                  /\ wire' = SubSeq(wire, n + 1, Len(wire))
    BY <1>1 DEF Arrive
  <2>2. SubSeq(wire, 1, n) \in Seq(Nat) /\ SubSeq(wire, n + 1, Len(wire)) \in Seq(Nat)
    <3>1. n \in 0..Len(wire) /\ wire \in Seq(Nat)
      BY DEF TypeInv
    <3> QED
      BY <3>1, SplitSeq
  <2>3. sock' \in Seq(Nat) /\ wire' \in Seq(Nat)
    BY <2>1, <2>2, ConcatType DEF TypeInv
  <2> QED
    BY <1>1, <2>3 DEF Arrive, TypeInv
<1>2. CASE Fin
  BY <1>2 DEF Fin, TypeInv
<1>3. CASE process_event
  BY <1>3 DEF process_event, TypeInv, netVars
<1>4. CASE do_read_data
  <2>1. PICK n : /\ n = IF Len(sock) < bufSize THEN Len(sock) ELSE bufSize
                 /\ read_buffer' = [i \in 1..kReadBufferSize |->
                      IF i - read_buffer_pos \in 1..n THEN sock[i - read_buffer_pos]
                      ELSE read_buffer[i]]
                 /\ read_buffer_pos' = read_buffer_pos + n
                 /\ sock' = SubSeq(sock, n + 1, Len(sock))
    BY <1>4 DEF do_read_data
  <2>2. n \in 0..Len(sock) /\ n <= kReadBufferSize - read_buffer_pos /\ Len(sock) \in Nat
    <3>1. Len(sock) \in Nat /\ read_buffer_pos \in 0..kReadBufferSize
      BY DEF TypeInv
    <3>2. n = IF Len(sock) < bufSize THEN Len(sock) ELSE bufSize
      BY <2>1
    <3> QED
      BY <3>1, <3>2 DEF bufSize
  <2>3. sock' \in Seq(Nat)
    BY <2>1, <2>2, SplitSeq DEF TypeInv
  <2>4. read_buffer' \in [1..kReadBufferSize -> Nat]
    <3>1. \A i \in 1..n : sock[i] \in Nat
      <4>1. sock \in Seq(Nat)
        BY DEF TypeInv
      <4> QED
        BY <2>2, <4>1
    <3> QED
      BY <2>1, <3>1 DEF TypeInv
  <2>5. read_buffer_pos' \in 0..kReadBufferSize
    <3>1. read_buffer_pos' = read_buffer_pos + n
      BY <2>1
    <3>2. read_buffer_pos \in 0..kReadBufferSize
      BY DEF TypeInv
    <3> QED
      BY <2>2, <3>1, <3>2
  <2>6. /\ readPos' = 0 /\ pc' = "parse"
        /\ UNCHANGED <<handler, packages, wire, peer, edge, closing, delivered>>
    BY <1>4 DEF do_read_data
  <2>7. readPos' \in 0..read_buffer_pos'
    BY <2>5, <2>6
  <2> QED
    BY <2>3, <2>4, <2>5, <2>6, <2>7 DEF TypeInv
<1>5. CASE do_read_none
  BY <1>5 DEF do_read_none, TypeInv, Leave, netVars
<1>6. CASE do_read_full
  BY <1>6 DEF do_read_full, TypeInv, netVars
<1>7. CASE process_data_package
  <2>1. delivered' \in Seq(Seq(Nat))
    BY <1>7, CutType DEF process_data_package, TypeInv, Cut
  <2>2. readPos' \in 0..read_buffer_pos
    <3>1. pkgLen <= read_buffer_pos - readPos /\ readPos' = readPos + pkgLen
      BY <1>7 DEF process_data_package, whole
    <3>2. pkgLen \in Nat /\ read_buffer_pos \in Nat /\ readPos \in Nat
      BY PkgLenType DEF TypeInv
    <3> QED
      BY <3>1, <3>2
  <2> QED
    BY <1>7, <2>1, <2>2 DEF process_data_package, TypeInv, netVars
<1>8. CASE process_data_oversize
  BY <1>8 DEF process_data_oversize, TypeInv, Leave, netVars
<1>9. CASE process_data_end
  <2>1. read_buffer' \in [1..kReadBufferSize -> Nat]
    <3>1. \A i \in 1..kReadBufferSize : i <= read_buffer_pos - readPos =>
            readPos + i \in 1..kReadBufferSize
      BY DEF TypeInv
    <3> QED
      BY <1>9, <3>1 DEF process_data_end, moved, TypeInv
  <2>2. read_buffer_pos' \in 0..kReadBufferSize /\ readPos' = 0
    BY <1>9 DEF process_data_end, TypeInv
  <2>3. pc' \in {"wait", "recv", "parse", "closed"}
    BY <1>9 DEF process_data_end, Leave
  <2> QED
    BY <1>9, <2>1, <2>2, <2>3 DEF process_data_end, TypeInv, netVars
<1>10. CASE UNCHANGED vars
  BY <1>10 DEF vars, TypeInv
<1> QED
  BY <1>1, <1>2, <1>3, <1>4, <1>5, <1>6, <1>7, <1>8, <1>9, <1>10
     DEF Next, do_read, process_data

\* Going to sleep: either the recv that found nothing, or with the buffer empty.
LEMMA DrainedStep ==
  ASSUME TypeInv, PartialIsDrained, [Next]_vars
  PROVE  PartialIsDrained'
<1> USE SizeAssumption DEF PartialIsDrained
<1>1. CASE Arrive \/ Fin
  BY <1>1 DEF Arrive, Fin
<1>2. CASE process_event \/ do_read_data \/ do_read_full
  BY <1>2 DEF process_event, do_read_data, do_read_full
<1>3. CASE do_read_none
  BY <1>3 DEF do_read_none, Leave, netVars, TypeInv
<1>4. CASE process_data_package
  BY <1>4 DEF process_data_package
<1>5. CASE process_data_oversize
  BY <1>5 DEF process_data_oversize, Leave
<1>6. CASE process_data_end
  BY <1>6 DEF process_data_end, Leave, more, TypeInv
<1>7. CASE UNCHANGED vars
  BY <1>7 DEF vars
<1> QED
  BY <1>1, <1>2, <1>3, <1>4, <1>5, <1>6, <1>7 DEF Next, do_read, process_data

\* Byte sequences and their concatenation, as names the provers need not look
\* into: regrouping the stream takes associativity alone.
ByteSeq == Seq(Nat)
Cat(a, b) == a \o b

LEMMA CatType ==
  ASSUME NEW a \in ByteSeq, NEW b \in ByteSeq
  PROVE  Cat(a, b) \in ByteSeq
BY ConcatType DEF ByteSeq, Cat

LEMMA CatAssoc ==
  ASSUME NEW a \in ByteSeq, NEW b \in ByteSeq, NEW c \in ByteSeq
  PROVE  Cat(Cat(a, b), c) = Cat(a, Cat(b, c))
BY DEF ByteSeq, Cat

\* The stream: what is parsed, buffered, in the socket and on the wire.
Parts(d, r, q, w) == Cat(Cat(Cat(d, r), q), w)

\* Bytes move from the wire to the socket, from there to the buffer, and out of it.
LEMMA PartsArrive ==
  ASSUME NEW d \in ByteSeq, NEW r \in ByteSeq, NEW q \in ByteSeq,
         NEW x \in ByteSeq, NEW y \in ByteSeq
  PROVE  Parts(d, r, Cat(q, x), y) = Parts(d, r, q, Cat(x, y))
<1>1. Cat(d, r) \in ByteSeq /\ Cat(Cat(d, r), q) \in ByteSeq
  BY CatType
<1>2. Cat(Cat(d, r), Cat(q, x)) = Cat(Cat(Cat(d, r), q), x)
  BY <1>1, CatAssoc
<1>3. Cat(Cat(Cat(Cat(d, r), q), x), y) = Cat(Cat(Cat(d, r), q), Cat(x, y))
  BY <1>1, CatAssoc
<1> QED
  BY <1>2, <1>3 DEF Parts

LEMMA PartsReceive ==
  ASSUME NEW d \in ByteSeq, NEW r \in ByteSeq, NEW w \in ByteSeq,
         NEW x \in ByteSeq, NEW y \in ByteSeq
  PROVE  Parts(d, Cat(r, x), y, w) = Parts(d, r, Cat(x, y), w)
<1>1. Cat(d, r) \in ByteSeq
  BY CatType
<1>2. Cat(d, Cat(r, x)) = Cat(Cat(d, r), x)
  BY CatAssoc
<1>3. Cat(Cat(Cat(d, r), x), y) = Cat(Cat(d, r), Cat(x, y))
  BY <1>1, CatAssoc
<1> QED
  BY <1>2, <1>3 DEF Parts

LEMMA PartsParse ==
  ASSUME NEW d \in ByteSeq, NEW q \in ByteSeq, NEW w \in ByteSeq,
         NEW x \in ByteSeq, NEW y \in ByteSeq
  PROVE  Parts(Cat(d, x), y, q, w) = Parts(d, Cat(x, y), q, w)
<1>1. Cat(Cat(d, x), y) = Cat(d, Cat(x, y))
  BY CatAssoc
<1> QED
  BY <1>1 DEF Parts

LEMMA PartsTail ==
  ASSUME NEW d \in ByteSeq, NEW r \in ByteSeq, NEW q \in ByteSeq, NEW w \in ByteSeq
  PROVE  Parts(d, r, q, w) = Cat(d, Cat(r, Cat(q, w)))
<1>1. Cat(d, r) \in ByteSeq /\ Cat(q, w) \in ByteSeq
  BY CatType
<1>2. Cat(Cat(Cat(d, r), q), w) = Cat(Cat(d, r), Cat(q, w))
  BY <1>1, CatAssoc
<1>3. Cat(Cat(d, r), Cat(q, w)) = Cat(d, Cat(r, Cat(q, w)))
  BY <1>1, CatAssoc
<1> QED
  BY <1>2, <1>3 DEF Parts

\* recv appends the bytes it took to what was there.
LEMMA Received ==
  ASSUME TypeInv, do_read_data
  PROVE  \E n \in 0..Len(sock) : /\ Rest' = Rest \o SubSeq(sock, 1, n)
                                 /\ sock' = SubSeq(sock, n + 1, Len(sock))
<1> USE SizeAssumption
<1>1. PICK n : /\ n = IF Len(sock) < bufSize THEN Len(sock) ELSE bufSize
               /\ read_buffer' = [i \in 1..kReadBufferSize |->
                    IF i - read_buffer_pos \in 1..n THEN sock[i - read_buffer_pos]
                    ELSE read_buffer[i]]
               /\ read_buffer_pos' = read_buffer_pos + n
               /\ sock' = SubSeq(sock, n + 1, Len(sock))
  BY DEF do_read_data
<1>2. /\ n \in 0..Len(sock) /\ n <= kReadBufferSize - read_buffer_pos /\ Len(sock) \in Nat
      /\ sock \in Seq(Nat) /\ read_buffer_pos \in 0..kReadBufferSize
      /\ readPos = 0 /\ readPos' = 0
  BY <1>1 DEF do_read_data, bufSize, TypeInv
<1>3. TypeInv'
  BY TypeStep DEF Next, do_read
<1>4. PICK r : r = Rest
  OBVIOUS
<1>5. PICK x : x = SubSeq(sock, 1, n)
  OBVIOUS
<1>6. PICK z : z = Rest'
  OBVIOUS
<1>7. /\ r \in Seq(Nat) /\ Len(r) = read_buffer_pos
      /\ \A i \in 1..read_buffer_pos : r[i] = read_buffer[i]
  <2>1. /\ r \in Seq(Nat) /\ Len(r) = read_buffer_pos - readPos
        /\ \A i \in 1..(read_buffer_pos - readPos) : r[i] = read_buffer[readPos + i]
    BY <1>4, StreamType
  <2> QED
    BY <1>2, <2>1
<1>8. x \in Seq(Nat) /\ Len(x) = n /\ \A i \in 1..n : x[i] = sock[i]
  BY <1>2, <1>5
<1>9. /\ z \in Seq(Nat) /\ Len(z) = read_buffer_pos + n
      /\ \A i \in 1..(read_buffer_pos + n) : z[i] = read_buffer'[i]
  <2>1. z = SubSeq(read_buffer', 1, read_buffer_pos')
    BY <1>2, <1>6 DEF Rest
  <2>2. read_buffer_pos' = read_buffer_pos + n
    BY <1>1
  <2>3. /\ read_buffer' \in [1..kReadBufferSize -> Nat]
        /\ read_buffer_pos' \in 0..kReadBufferSize
    BY <1>3 DEF TypeInv
  <2>4. /\ z \in Seq(Nat) /\ Len(z) = read_buffer_pos'
        /\ \A i \in 1..read_buffer_pos' : z[i] = read_buffer'[i]
    BY <2>1, <2>3, FrontType
  <2> QED
    BY <2>2, <2>4
<1>10. \A i \in 1..read_buffer_pos : z[i] = r[i]
  <2> TAKE i \in 1..read_buffer_pos
  <2>1. i \in 1..kReadBufferSize /\ i \in 1..(read_buffer_pos + n) /\ i - read_buffer_pos \notin 1..n
    BY <1>2
  <2>2. read_buffer'[i] = read_buffer[i]
    BY <1>1, <2>1
  <2> QED
    BY <1>7, <1>9, <2>1, <2>2
<1>11. \A i \in 1..n : z[read_buffer_pos + i] = x[i]
  <2> TAKE i \in 1..n
  <2>1. PICK k : k = read_buffer_pos + i
    OBVIOUS
  <2>2. /\ k \in 1..kReadBufferSize /\ k \in 1..(read_buffer_pos + n)
        /\ k - read_buffer_pos = i
    BY <1>2, <2>1
  <2>3. read_buffer'[k] = sock[i]
    BY <1>1, <2>2
  <2> QED
    BY <1>8, <1>9, <2>1, <2>2, <2>3
<1>12. z = r \o x
  <2>1. Len(z) = Len(r) + Len(x)
    BY <1>7, <1>8, <1>9
  <2>2. \A i \in 1..Len(r) : z[i] = r[i]
    BY <1>7, <1>10
  <2>3. \A i \in 1..Len(x) : z[Len(r) + i] = x[i]
    BY <1>7, <1>8, <1>11
  <2> QED
    BY <1>7, <1>8, <1>9, <2>1, <2>2, <2>3, Joined
<1>13. Rest' = Rest \o SubSeq(sock, 1, n)
  BY <1>4, <1>5, <1>6, <1>12
<1> QED
  BY <1>1, <1>2, <1>13

\* memmove keeps what is left.
LEMMA Moved ==
  ASSUME TypeInv, process_data_end
  PROVE  Rest' = Rest
<1> USE SizeAssumption
<1>1. TypeInv'
  BY TypeStep DEF Next, process_data
<1>2. PICK r : r = Rest
  OBVIOUS
<1>3. PICK z : z = Rest'
  OBVIOUS
<1>4. /\ r \in Seq(Nat) /\ Len(r) = read_buffer_pos - readPos
      /\ \A i \in 1..(read_buffer_pos - readPos) : r[i] = read_buffer[readPos + i]
  BY <1>2, StreamType
<1>5. /\ readPos' = 0 /\ read_buffer_pos' = read_buffer_pos - readPos
      /\ read_buffer' = [i \in 1..kReadBufferSize |->
           IF i <= read_buffer_pos - readPos THEN read_buffer[readPos + i] ELSE read_buffer[i]]
  BY DEF process_data_end, moved
<1>6. /\ z \in Seq(Nat) /\ Len(z) = read_buffer_pos'
      /\ \A i \in 1..read_buffer_pos' : z[i] = read_buffer'[i]
  <2>1. z = SubSeq(read_buffer', 1, read_buffer_pos')
    BY <1>3, <1>5 DEF Rest
  <2>2. /\ read_buffer' \in [1..kReadBufferSize -> Nat]
        /\ read_buffer_pos' \in 0..kReadBufferSize
    BY <1>1 DEF TypeInv
  <2> QED
    BY <2>1, <2>2, FrontType
<1>7. ASSUME NEW i \in 1..Len(r) PROVE r[i] = z[i]
  <2>1. /\ i \in 1..kReadBufferSize /\ i <= read_buffer_pos - readPos
        /\ i \in 1..(read_buffer_pos - readPos) /\ i \in 1..read_buffer_pos'
    BY <1>4, <1>5 DEF TypeInv
  <2>2. read_buffer'[i] = read_buffer[readPos + i]
    BY <1>5, <2>1
  <2> QED
    BY <1>4, <1>6, <2>1, <2>2
<1>8. Len(r) = Len(z)
  BY <1>4, <1>5, <1>6
<1>9. r = z
  BY <1>4, <1>6, <1>7, <1>8, SeqEqual
<1> QED
  BY <1>2, <1>3, <1>9

\* handle_data gets the first pkgLen bytes of what is left, and the rest stays.
LEMMA CutOff ==
  ASSUME TypeInv, process_data_package
  PROVE  Rest = Cut \o Rest'
<1> USE SizeAssumption
<1>1. TypeInv'
  BY TypeStep DEF Next, process_data
<1>2. PICK n \in Nat : n = pkgLen
  BY PkgLenType
<1>3. /\ n <= read_buffer_pos - readPos /\ readPos' = readPos + n
      /\ read_buffer' = read_buffer /\ read_buffer_pos' = read_buffer_pos
  BY <1>2 DEF process_data_package, whole
<1>4. /\ readPos \in 0..read_buffer_pos /\ read_buffer_pos \in 0..kReadBufferSize
      /\ read_buffer \in [1..kReadBufferSize -> Nat]
  BY DEF TypeInv
<1>5. PICK r \in Seq(Nat) : r = Rest
  BY StreamType
<1>6. PICK p \in Seq(Nat) : p = Cut
  BY CutType
<1>7. PICK z : z = Rest'
  OBVIOUS
<1>8. /\ Len(r) = read_buffer_pos - readPos
      /\ \A i \in 1..(read_buffer_pos - readPos) : r[i] = read_buffer[readPos + i]
  BY <1>5, StreamType
<1>9. Len(p) = n /\ \A i \in 1..n : p[i] = At(i)
  <2>1. Len(p) = n
    BY <1>2, <1>6, CutType
  <2>2. p = [i \in 1..n |-> At(i)]
    BY <1>2, <1>6 DEF Cut
  <2> QED
    BY <2>1, <2>2
<1>10. /\ z \in Seq(Nat) /\ Len(z) = read_buffer_pos - (readPos + n)
       /\ \A i \in 1..(read_buffer_pos - (readPos + n)) : z[i] = read_buffer[(readPos + n) + i]
  <2>1. z = SubSeq(read_buffer, (readPos + n) + 1, read_buffer_pos)
    BY <1>3, <1>7 DEF Rest
  <2>2. readPos + n \in 0..read_buffer_pos
    BY <1>3, <1>4
  <2> QED
    BY <1>4, <2>1, <2>2, StretchType
<1>11. Len(r) = Len(p) + Len(z)
  BY <1>4, <1>8, <1>9, <1>10
<1>12. \A i \in 1..Len(p) : r[i] = p[i]
  <2> TAKE i \in 1..Len(p)
  <2>1. i \in 1..n /\ i \in 1..(read_buffer_pos - readPos) /\ readPos + i <= kReadBufferSize
    BY <1>3, <1>4, <1>9
  <2>2. At(i) = read_buffer[readPos + i]
    BY <2>1 DEF At
  <2> QED
    BY <1>8, <1>9, <2>1, <2>2
<1>13. \A i \in 1..Len(z) : r[Len(p) + i] = z[i]
  <2> TAKE i \in 1..Len(z)
  <2>1. /\ i \in 1..(read_buffer_pos - (readPos + n))
        /\ n + i \in 1..(read_buffer_pos - readPos)
        /\ readPos + (n + i) = (readPos + n) + i
    BY <1>3, <1>4, <1>10
  <2>2. r[n + i] = read_buffer[readPos + (n + i)]
    BY <1>8, <2>1
  <2> QED
    BY <1>9, <1>10, <2>1, <2>2
<1>14. r = p \o z
  BY <1>10, <1>11, <1>12, <1>13, Joined
<1> QED
  BY <1>5, <1>6, <1>7, <1>14

\* No step loses, repeats or reorders a byte.
LEMMA StreamStep ==
  ASSUME TypeInv, Stream, [Next]_vars
  PROVE  Stream'
<1>1. PICK d \in ByteSeq : d = Bytes(delivered)
  BY StreamType DEF ByteSeq
<1>2. PICK r \in ByteSeq : r = Rest
  BY StreamType DEF ByteSeq
<1>3. PICK q \in ByteSeq : q = sock
  BY DEF TypeInv, ByteSeq
<1>4. PICK w \in ByteSeq : w = wire
  BY DEF TypeInv, ByteSeq
<1>5. Parts(d, r, q, w) = Bytes(packages)
  BY <1>1, <1>2, <1>3, <1>4 DEF Stream, Parts, Cat
<1>6. packages' = packages
  BY DEF Next, Arrive, Fin, process_event, do_read, do_read_data, do_read_none, do_read_full,
         process_data, process_data_package, process_data_oversize, process_data_end,
         netVars, vars
<1>7. SUFFICES Parts(Bytes(delivered'), Rest', sock', wire') = Bytes(packages)
  BY <1>6 DEF Stream, Parts, Cat, Bytes
<1>8. CASE Arrive
  <2>1. PICK n \in 1..Len(wire) : /\ sock' = sock \o SubSeq(wire, 1, n)
                                  /\ wire' = SubSeq(wire, n + 1, Len(wire))
    BY <1>8 DEF Arrive
  <2>2. n \in 0..Len(w)
    BY <1>4
  <2>3. PICK x \in ByteSeq : x = SubSeq(w, 1, n)
    BY <2>2, SplitSeq DEF ByteSeq
  <2>4. PICK y \in ByteSeq : y = SubSeq(w, n + 1, Len(w))
    BY <2>2, SplitSeq DEF ByteSeq
  <2>5. w = Cat(x, y)
    BY <2>2, <2>3, <2>4, SplitSeq DEF ByteSeq, Cat
  <2>6. Parts(d, r, Cat(q, x), y) = Parts(d, r, q, Cat(x, y))
    BY PartsArrive
  <2>7. sock' = Cat(q, x) /\ wire' = y /\ Rest' = r /\ Bytes(delivered') = d
    BY <1>1, <1>2, <1>3, <1>4, <1>8, <2>1, <2>3, <2>4 DEF Arrive, Rest, Bytes, Cat
  <2> QED
    BY <1>5, <2>5, <2>6, <2>7
<1>9. CASE do_read_data
  <2>1. PICK n \in 0..Len(sock) : /\ Rest' = Rest \o SubSeq(sock, 1, n)
                                  /\ sock' = SubSeq(sock, n + 1, Len(sock))
    BY <1>9, Received
  <2>2. n \in 0..Len(q)
    BY <1>3
  <2>3. PICK x \in ByteSeq : x = SubSeq(q, 1, n)
    BY <2>2, SplitSeq DEF ByteSeq
  <2>4. PICK y \in ByteSeq : y = SubSeq(q, n + 1, Len(q))
    BY <2>2, SplitSeq DEF ByteSeq
  <2>5. q = Cat(x, y)
    BY <2>2, <2>3, <2>4, SplitSeq DEF ByteSeq, Cat
  <2>6. Parts(d, Cat(r, x), y, w) = Parts(d, r, Cat(x, y), w)
    BY PartsReceive
  <2>7. sock' = y /\ wire' = w /\ Rest' = Cat(r, x)
    BY <1>2, <1>3, <1>4, <1>9, <2>1, <2>3, <2>4 DEF do_read_data, Cat
  <2>8. Bytes(delivered') = d
    BY <1>1, <1>9 DEF do_read_data, Bytes
  <2> QED
    BY <1>5, <2>5, <2>6, <2>7, <2>8
<1>10. CASE process_data_package
  <2>1. PICK x \in ByteSeq : x = Cut
    BY CutType DEF ByteSeq
  <2>2. TypeInv'
    BY TypeStep
  <2>3. Rest' \in Seq(Nat)
    BY <2>2, StretchType DEF TypeInv, Rest
  <2>4. PICK y \in ByteSeq : y = Rest'
    BY <2>3 DEF ByteSeq
  <2>5. r = Cat(x, y)
    BY <1>2, <1>10, <2>1, <2>4, CutOff DEF Cat
  <2>6. delivered' = Append(delivered, x)
    BY <1>10, <2>1 DEF process_data_package, Cut
  <2>7. Bytes(delivered') = Cat(d, x)
    <3>1. delivered \in Seq(Seq(Nat)) /\ x \in Seq(Nat)
      BY DEF TypeInv, ByteSeq
    <3>2. FlattenSeq(Append(delivered, x)) = FlattenSeq(delivered) \o x
      BY <3>1, FlattenAppend
    <3> QED
      BY <1>1, <2>6, <3>2 DEF Bytes, Cat
  <2>8. Parts(Cat(d, x), y, q, w) = Parts(d, Cat(x, y), q, w)
    BY PartsParse
  <2>9. sock' = q /\ wire' = w
    BY <1>3, <1>4, <1>10 DEF process_data_package, netVars
  <2> QED
    BY <1>5, <2>4, <2>5, <2>7, <2>8, <2>9
<1>11. CASE process_data_end
  <2>1. Rest' = r
    BY <1>2, <1>11, Moved
  <2>2. sock' = q /\ wire' = w
    BY <1>3, <1>4, <1>11 DEF process_data_end, netVars
  <2>3. Bytes(delivered') = d
    BY <1>1, <1>11 DEF process_data_end, Bytes
  <2> QED
    BY <1>5, <2>1, <2>2, <2>3
<1>12. CASE do_read_full
  <2>1. readPos = 0 /\ readPos' = 0
    BY <1>12 DEF do_read_full, TypeInv
  <2>2. Rest' = r
    BY <1>2, <1>12, <2>1 DEF do_read_full, Rest
  <2>3. sock' = q /\ wire' = w
    BY <1>3, <1>4, <1>12 DEF do_read_full, netVars
  <2>4. Bytes(delivered') = d
    BY <1>1, <1>12 DEF do_read_full, Bytes
  <2> QED
    BY <1>5, <2>2, <2>3, <2>4
<1>13. CASE Fin \/ process_event \/ do_read_none \/ process_data_oversize \/ UNCHANGED vars
  <2>1. UNCHANGED <<sock, wire, read_buffer, read_buffer_pos, readPos, delivered>>
    BY <1>13 DEF Fin, process_event, do_read_none, process_data_oversize, netVars, vars
  <2>2. Rest' = r /\ sock' = q /\ wire' = w /\ Bytes(delivered') = d
    BY <1>1, <1>2, <1>3, <1>4, <2>1 DEF Rest, Bytes
  <2> QED
    BY <1>5, <2>2
<1> QED
  BY <1>8, <1>9, <1>10, <1>11, <1>12, <1>13 DEF Next, do_read, process_data

\* Behind the bytes of the first k packages come those of the next.
LEMMA FlattenNext ==
  ASSUME NEW s \in Seq(Seq(Nat)), NEW k \in Nat, k < Len(s)
  PROVE  \E u \in Seq(Nat) :
           FlattenSeq(s) = FlattenSeq(SubSeq(s, 1, k)) \o (s[k + 1] \o u)
<1>1. k + 1 \in 0..Len(s) /\ SubSeq(s, 1, k) \in Seq(Seq(Nat)) /\ s[k + 1] \in Seq(Nat)
  OBVIOUS
<1>2. PICK u \in Seq(Nat) : FlattenSeq(s) = FlattenSeq(SubSeq(s, 1, k + 1)) \o u
  BY <1>1, FlattenPrefix
<1>3. PICK p \in Seq(Nat) : p = s[k + 1]
  BY <1>1
<1>4. PICK d \in Seq(Nat) : d = FlattenSeq(SubSeq(s, 1, k))
  BY <1>1, FlattenType
<1>5. FlattenSeq(SubSeq(s, 1, k + 1)) = d \o p
  BY <1>1, <1>3, <1>4, PrefixStep, FlattenAppend
<1>6. (d \o p) \o u = d \o (p \o u)
  BY ConcatAssoc
<1> QED
  BY <1>2, <1>3, <1>4, <1>5, <1>6

\* What follows the first k packages begins with the next one.
LEMMA NextPackage ==
  ASSUME NEW s \in Seq(Seq(Nat)), NEW k \in Nat, k < Len(s), NEW t \in Seq(Nat),
         FlattenSeq(SubSeq(s, 1, k)) \o t = FlattenSeq(s)
  PROVE  \E u \in Seq(Nat) : t = s[k + 1] \o u
<1>1. SubSeq(s, 1, k) \in Seq(Seq(Nat)) /\ s[k + 1] \in Seq(Nat)
  OBVIOUS
<1>2. PICK u \in Seq(Nat) : FlattenSeq(s) = FlattenSeq(SubSeq(s, 1, k)) \o (s[k + 1] \o u)
  BY FlattenNext
<1>3. PICK v \in Seq(Nat) : v = s[k + 1] \o u
  BY <1>1, ConcatType
<1>4. PICK d \in Seq(Nat) : d = FlattenSeq(SubSeq(s, 1, k))
  BY <1>1, FlattenType
<1>5. d \o t = d \o v
  BY <1>2, <1>3, <1>4
<1>6. t = v
  BY <1>5, ConcatCancel
<1> QED
  BY <1>3, <1>6

\* What has not been parsed, as one sequence.
LEMMA StreamTail ==
  ASSUME TypeInv, Stream
  PROVE  \E t \in ByteSeq : /\ Bytes(delivered) \o t = Bytes(packages)
                            /\ Len(t) >= Len(Rest) /\ \A i \in 1..Len(Rest) : t[i] = Rest[i]
<1>1. PICK d \in ByteSeq : d = Bytes(delivered)
  BY StreamType DEF ByteSeq
<1>2. PICK r \in ByteSeq : r = Rest
  BY StreamType DEF ByteSeq
<1>3. PICK q \in ByteSeq : q = sock
  BY DEF TypeInv, ByteSeq
<1>4. PICK w \in ByteSeq : w = wire
  BY DEF TypeInv, ByteSeq
<1>5. Parts(d, r, q, w) = Cat(d, Cat(r, Cat(q, w)))
  BY PartsTail
<1>6. Parts(d, r, q, w) = Bytes(packages)
  BY <1>1, <1>2, <1>3, <1>4 DEF Stream, Parts, Cat
<1>7. PICK v \in ByteSeq : v = Cat(q, w)
  BY CatType
<1>8. PICK t \in ByteSeq : t = Cat(r, v)
  BY CatType
<1>9. Cat(d, t) = Bytes(packages)
  BY <1>5, <1>6, <1>7, <1>8
<1>10. Len(t) >= Len(r) /\ \A i \in 1..Len(r) : t[i] = r[i]
  <2>1. r \in Seq(Nat) /\ v \in Seq(Nat) /\ t = r \o v
    BY <1>8 DEF ByteSeq, Cat
  <2> QED
    BY <2>1, ConcatProperties
<1> QED
  BY <1>1, <1>2, <1>9, <1>10 DEF Cat

\* A framing handle_package finds the end of the next package: with whole() true
\* the header lies inside what was received, so that the length it looks at is
\* the one the peer wrote, although len includes bytes before readPos.
LEMMA CutIsPackage ==
  ASSUME TypeInv, Stream, handler # "all", IsPrefix(delivered, packages),
         process_data_package
  PROVE  /\ Len(delivered) < Len(packages)
         /\ Cut = packages[Len(delivered) + 1]
<1> USE SizeAssumption
<1>1. PICK k \in Nat : k = Len(delivered)
  BY DEF TypeInv
<1>2. delivered = SubSeq(packages, 1, k) /\ k <= Len(packages)
  <2>1. SubSeq(delivered, 1, Len(delivered)) = delivered
    BY DEF TypeInv
  <2> QED
    BY <1>1, <2>1 DEF IsPrefix
<1>3. PICK n \in Nat : n = pkgLen
  BY PkgLenType
<1>4. n > 0 /\ n <= read_buffer_pos - readPos
  BY <1>3 DEF process_data_package, whole
<1>5. PICK d \in ByteSeq : d = Bytes(delivered)
  BY StreamType DEF ByteSeq
<1>6. PICK r \in ByteSeq : r = Rest
  BY StreamType DEF ByteSeq
<1>7. PICK t \in ByteSeq : /\ d \o t = Bytes(packages)
                            /\ Len(t) >= Len(r) /\ \A i \in 1..Len(r) : t[i] = r[i]
  BY <1>5, <1>6, StreamTail
<1>8. d \in Seq(Nat) /\ r \in Seq(Nat) /\ t \in Seq(Nat)
  BY DEF ByteSeq
<1>9. /\ Len(r) = read_buffer_pos - readPos
      /\ \A i \in 1..(read_buffer_pos - readPos) : r[i] = read_buffer[readPos + i]
  BY <1>6, StreamType
<1>13. n = HeadSize + At(HeadSize)
  <2>1. pkgLen \in {0, HeadSize + At(HeadSize)}
    BY DEF pkgLen, handle_package, TypeInv
  <2> QED
    BY <1>3, <1>4, <2>1
<1>14. At(HeadSize) \in Nat /\ n >= 2
  <2>1. At(HeadSize) \in Nat
    BY AtType DEF HeadSize
  <2> QED
    BY <1>13, <2>1 DEF HeadSize
<1>15. At(2) = t[2]
  <2>1. 2 \in 1..(read_buffer_pos - readPos) /\ readPos + 2 <= kReadBufferSize
    BY <1>4, <1>14 DEF TypeInv
  <2>2. At(2) = read_buffer[readPos + 2]
    BY <2>1 DEF At
  <2>3. r[2] = read_buffer[readPos + 2] /\ t[2] = r[2]
    BY <1>7, <1>9, <2>1
  <2> QED
    BY <2>2, <2>3
<1>16. k < Len(packages)
  <2>1. SUFFICES ASSUME k = Len(packages) PROVE FALSE
    BY <1>2 DEF TypeInv
  <2>2. SubSeq(packages, 1, Len(packages)) = packages
    BY DEF TypeInv
  <2>3. delivered = packages
    BY <1>2, <2>1, <2>2
  <2>4. d \o t = d
    BY <1>5, <1>7, <2>3
  <2>5. Len(d) + Len(t) = Len(d) /\ Len(d) \in Nat /\ Len(t) \in Nat
    BY <1>8, <2>4, ConcatType
  <2>6. Len(r) >= 2
    BY <1>4, <1>9, <1>14 DEF TypeInv
  <2> QED
    BY <1>7, <2>5, <2>6
<1>17. packages[k + 1] \in PackageSet
  BY <1>16 DEF TypeInv
<1>18. PICK p \in ByteSeq : p = packages[k + 1]
  BY <1>17, PackageType DEF ByteSeq
<1>19. PICK u \in ByteSeq : t = p \o u
  <2>1. packages \in Seq(Seq(Nat)) /\ k + 1 \in 0..Len(packages)
    BY <1>16, PackagesType DEF TypeInv
  <2>2. FlattenSeq(SubSeq(packages, 1, k)) \o t = FlattenSeq(packages)
    BY <1>2, <1>5, <1>7 DEF Bytes
  <2> QED
    BY <1>8, <1>16, <1>18, <2>1, <2>2, NextPackage DEF ByteSeq
<1>20. Len(p) >= 2 /\ Len(p) = 2 + p[2]
  BY <1>17, <1>18, PackageType DEF HeadSize
<1>21. \A i \in 1..Len(p) : t[i] = p[i]
  <2>1. p \in Seq(Nat) /\ u \in Seq(Nat)
    BY DEF ByteSeq
  <2> QED
    BY <1>19, <2>1, ConcatProperties
<1>22. Len(p) = n
  BY <1>13, <1>15, <1>20, <1>21 DEF HeadSize
<1>23. PICK c \in ByteSeq : c = Cut
  BY CutType DEF ByteSeq
<1>24. c = p
  <2>1. PICK z : z = Rest'
    OBVIOUS
  <2>2. TypeInv'
    BY TypeStep DEF Next, process_data
  <2>3. z \in Seq(Nat)
    BY <2>1, <2>2, StretchType DEF TypeInv, Rest
  <2>4. r = c \o z
    BY <1>6, <1>23, <2>1, CutOff
  <2>5. Len(c) = n
    BY <1>3, <1>23, CutType
  <2>6. Len(r) >= n /\ \A i \in 1..n : r[i] = c[i]
    <3>1. c \in Seq(Nat)
      BY DEF ByteSeq
    <3> QED
      BY <2>3, <2>4, <2>5, <3>1, ConcatProperties
  <2>7. \A i \in 1..n : c[i] = p[i]
    <3> TAKE i \in 1..n
    <3>1. i \in 1..Len(r) /\ i \in 1..Len(p)
      BY <1>22, <2>6
    <3>2. t[i] = r[i]
      BY <1>7, <3>1
    <3>3. t[i] = p[i]
      BY <1>21, <3>1
    <3>4. r[i] = c[i]
      BY <2>6
    <3> QED
      BY <3>2, <3>3, <3>4
  <2>8. c \in Seq(Nat) /\ p \in Seq(Nat)
    BY DEF ByteSeq
  <2> QED
    BY <1>22, <2>5, <2>7, <2>8, SeqEqual
<1> QED
  BY <1>1, <1>16, <1>18, <1>23, <1>24

\* Every step keeps the packages apart for a handler that frames.
LEMMA OneByOneStep ==
  ASSUME TypeInv, Stream, OneByOne, [Next]_vars
  PROVE  OneByOne'
<1>1. CASE process_data_package
  <2>1. handler' = handler /\ packages' = packages /\ delivered' = Append(delivered, Cut)
    BY <1>1 DEF process_data_package, netVars, Cut
  <2>2. ASSUME handler # "all" PROVE IsPrefix(delivered', packages')
    <3>1. PICK k \in Nat : k = Len(delivered)
      BY DEF TypeInv
    <3>2. IsPrefix(delivered, packages)
      BY <2>2 DEF OneByOne
    <3>3. delivered = SubSeq(packages, 1, k)
      <4>1. SubSeq(delivered, 1, Len(delivered)) = delivered
        BY DEF TypeInv
      <4> QED
        BY <3>1, <3>2, <4>1 DEF IsPrefix
    <3>4. k < Len(packages) /\ Cut = packages[k + 1]
      BY <1>1, <2>2, <3>1, <3>2, CutIsPackage
    <3>5. packages \in Seq(Seq(Nat))
      BY PackagesType
    <3>6. SubSeq(packages, 1, k + 1) = Append(SubSeq(packages, 1, k), packages[k + 1])
      BY <3>4, <3>5, PrefixStep
    <3>7. delivered' = SubSeq(packages, 1, k + 1)
      BY <2>1, <3>3, <3>4, <3>6
    <3>8. /\ Len(SubSeq(packages, 1, k + 1)) = k + 1
          /\ SubSeq(SubSeq(packages, 1, k + 1), 1, k + 1) = SubSeq(packages, 1, k + 1)
      BY <3>4, <3>5
    <3> QED
      <4>1. Len(delivered') = k + 1 /\ k + 1 <= Len(packages)
        BY <3>4, <3>5, <3>7, <3>8
      <4>2. SubSeq(delivered', 1, Len(delivered')) = SubSeq(packages, 1, Len(delivered'))
        BY <3>7, <3>8, <4>1
      <4> QED
        BY <2>1, <4>1, <4>2 DEF IsPrefix
  <2> QED
    BY <2>1, <2>2 DEF OneByOne
<1>2. CASE ~process_data_package
  <2>1. UNCHANGED <<handler, packages, delivered>>
    BY <1>2 DEF Next, Arrive, Fin, process_event, do_read, do_read_data, do_read_none,
       do_read_full, process_data, process_data_oversize, process_data_end, netVars, vars
  <2> QED
    BY <2>1 DEF OneByOne
<1> QED
  BY <1>1, <1>2

LEMMA NextInv == Inv /\ [Next]_vars => Inv'
BY TypeStep, StreamStep, OneByOneStep, DrainedStep DEF Inv

\* Packages come out as they went in: for any packages, any cut of their bytes
\* into segments and any size of read_buffer, no byte is lost, repeated or
\* reordered, and a framing handle_package gets the peer's packages one by one.
THEOREM PackagesAsSent == Spec => []Framing
<1>1. Inv => Framing
  BY DEF Inv, Framing, Stream, OneByOne, Rest
<1> QED
  BY <1>1, InitInv, NextInv, PTL DEF Spec

\* The worker never goes to sleep on half a package with bytes or the peer's FIN
\* left in the socket.
THEOREM NoSleepOnHalfPackage == Spec => []PartialIsDrained
<1>1. Inv => PartialIsDrained
  BY DEF Inv
<1> QED
  BY <1>1, InitInv, NextInv, PTL DEF Spec
=============================================================================
