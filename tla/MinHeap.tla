------------------------------ MODULE MinHeap ------------------------------
(***************************************************************************)
(* MinHeap of utils/min_heap.h, a vector kept as a binary heap by          *)
(* std::push_heap and std::pop_heap, with the node of least key at index   *)
(* 1.  Every operation holds heap_mutex and is one step.  The operators    *)
(* give the vector after the operation; key[n] is the key of node n at the *)
(* time, since a node's key may change while it is in the vector.          *)
(***************************************************************************)
EXTENDS Naturals, Sequences, FiniteSetsExt

\* The indices up to len that are visited from start on, going from k to next[k].
Visited(start, len, next) ==
  {j \in 1..len :
     \A S \in SUBSET (1..len) :
       start \in S /\ (\A k \in S : next[k] \in 1..len => next[k] \in S) => j \in S}

\* Mutant: push_back without push_heap.
heap_append(h, n, key) == Append(h, n)

\* insert: push_back, then push_heap moves the node up past larger keys.
heap_insert(h, n, key) ==
  LET last == Len(h) + 1
      path == Visited(last, last, [i \in 1..last |-> i \div 2])
      dest == Min({p \in path : \A q \in path \ {last} : q >= p => key[h[q]] > key[n]})
  IN  [j \in 1..last |-> IF j = dest THEN n
                         ELSE IF j \in path /\ j > dest THEN h[j \div 2]
                         ELSE h[j]]

\* pop: pop_heap moves the smaller child up from the root to a leaf and then
\* puts the last node in where its key belongs on that path.
heap_pop(h, key) ==
  LET len == Len(h) - 1
      last == h[Len(h)]
      child == [i \in 1..len |->
                  IF 2 * i + 1 <= len /\ key[h[2 * i + 1]] <= key[h[2 * i]]
                    THEN 2 * i + 1 ELSE 2 * i]
      path == Visited(1, len, child)
      dest == Min({p \in path : \A q \in path : q > p => key[h[q]] > key[last]})
  IN  [j \in 1..len |-> IF j = dest THEN last
                        ELSE IF j \in path /\ j < dest THEN h[child[j]]
                        ELSE h[j]]

\* No node has a smaller key than its parent.
IsHeap(h, key) == \A i \in 2..Len(h) : key[h[i \div 2]] <= key[h[i]]
=============================================================================
