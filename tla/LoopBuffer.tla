----------------------------- MODULE LoopBuffer -----------------------------
(***************************************************************************)
(* The ring buffer of utils/loop_buffer.h: producers push under            *)
(* write_mutex (which a NonMutex buffer does not have), one consumer pops, *)
(* or reads and commits, without it.  head and tail are unsigned counters  *)
(* that run freely and wrap at Word; a position in the buffer is the       *)
(* counter modulo BufferSize.  One action is one access to what the other  *)
(* side also uses: reading the counters, one memcpy, one handler call, one *)
(* store to a counter.                                                     *)
(***************************************************************************)
EXTENDS Integers, Sequences, FiniteSets

CONSTANTS
  Producers,   \* threads that push
  Consumer,    \* the thread that pops, reads and commits
  Byte,        \* contents
  BufferSize,  \* a power of two
  Word,        \* number of values of the counters' type
  MaxLen,      \* bound: longest push, read limit and wait
  Mutexed,     \* Mutex is a real mutex, not NonMutex
  Free         \* write_mutex is not held

ASSUME ProducersAssumption == Consumer \notin Producers /\ Free \notin Producers
ASSUME SizeAssumption == /\ BufferSize \in Nat \ {0} /\ MaxLen \in Nat \ {0}
                         /\ Word \in Nat /\ Word > BufferSize /\ Word % BufferSize = 0
ASSUME MutexAssumption == Mutexed \in BOOLEAN

VARIABLES
  head, tail,   \* the counters: head is the consumer's, tail the producers'
  buffer,       \* BufferSize bytes
  write_mutex,  \* the producer that holds it, or Free
  pc,           \* where each thread is
  data,         \* what each producer is pushing
  need,         \* the length each producer waits for
  op,           \* "pop" or "read", whichever the consumer is in
  view,         \* position and length the consumer's call computed
  chunk,        \* what its handler saw
  queue         \* history: bytes pushed and not yet popped or committed

vars == <<head, tail, buffer, write_mutex, pc, data, need, op, view, chunk, queue>>
ringVars == <<head, tail, buffer, queue>>
readVars == <<op, view, chunk>>

Data == UNION {[1..n -> Byte] : n \in 1..MaxLen}
Smaller(a, b) == IF a < b THEN a ELSE b
Goto(t, label) == pc' = [pc EXCEPT ![t] = label]

\* counter += n on an unsigned word, tail - head and the position of a counter.
Advance(counter, n) == (counter + n) % Word
Used == (tail - head) % Word
Position(counter) == counter % BufferSize

Init ==
  /\ head = 0 /\ tail = 0 /\ queue = <<>>
  /\ buffer \in [0..BufferSize - 1 -> Byte]
  /\ write_mutex = Free
  /\ pc = [t \in Producers \cup {Consumer} |-> "idle"]
  /\ data = [p \in Producers |-> <<>>] /\ need = [p \in Producers |-> 0]
  /\ op = "pop" /\ view = [pos |-> 0, len |-> 0] /\ chunk = <<>>

(***************************************************************************)
(* push.  Without room for all of the data it returns 0 and does nothing.  *)
(* The overload with an encrypter stores what the encrypter makes of the   *)
(* bytes before it moves tail; data stands for the bytes stored.           *)
(***************************************************************************)
\* Mutant: push takes no lock.
LockNothing(p) == UNCHANGED write_mutex

Lock(p) == write_mutex = Free /\ write_mutex' = IF Mutexed THEN p ELSE Free

HasRoom(n) == BufferSize - Used >= n

push(p) ==
  /\ pc[p] \in {"idle", "room"} /\ Lock(p)
  /\ \E d \in Data : /\ HasRoom(Len(d))
                     /\ data' = [data EXCEPT ![p] = d]
  /\ Goto(p, "copy")
  /\ UNCHANGED <<ringVars, readVars, need>>

TailSize == BufferSize - Position(tail)

\* The first memcpy: up to the end of the array.
push_copy(p) ==
  /\ pc[p] = "copy"
  /\ buffer' = [i \in DOMAIN buffer |->
       IF i - Position(tail) \in 0..Len(data[p]) - 1
         THEN data[p][i - Position(tail) + 1] ELSE buffer[i]]
  /\ Goto(p, IF Len(data[p]) > TailSize THEN "wrap" ELSE "publish")
  /\ UNCHANGED <<head, tail, queue, readVars, write_mutex, data, need>>

\* The second memcpy: the rest, from the start of the array.
push_wrap(p) ==
  /\ pc[p] = "wrap"
  /\ buffer' = [i \in DOMAIN buffer |->
       IF i < Len(data[p]) - TailSize THEN data[p][i + TailSize + 1] ELSE buffer[i]]
  /\ Goto(p, "publish")
  /\ UNCHANGED <<head, tail, queue, readVars, write_mutex, data, need>>

\* tail += dataLen makes the data visible; the lock_guard ends.
push_publish(p) ==
  /\ pc[p] = "publish"
  /\ tail' = Advance(tail, Len(data[p]))
  /\ queue' = queue \o data[p]
  /\ data' = [data EXCEPT ![p] = <<>>] /\ write_mutex' = Free
  /\ Goto(p, "idle")
  /\ UNCHANGED <<head, buffer, readVars, need>>

(***************************************************************************)
(* wait, on a buffer with a mutex: the predicate is evaluated under        *)
(* write_mutex, which blocking releases.  commit's notify_one wakes one    *)
(* thread that already blocks; one that has evaluated the predicate and    *)
(* not blocked yet misses it.                                              *)
(***************************************************************************)
wait(p) ==
  /\ Mutexed /\ pc[p] = "idle" /\ write_mutex = Free
  /\ \E n \in 1..Smaller(MaxLen, BufferSize) :
       /\ need' = [need EXCEPT ![p] = n]
       /\ IF HasRoom(n) THEN Goto(p, "room") /\ UNCHANGED write_mutex
                        ELSE Goto(p, "block") /\ write_mutex' = p
  /\ UNCHANGED <<ringVars, readVars, data>>

wait_block(p) ==
  /\ pc[p] = "block" /\ Goto(p, "blocked") /\ write_mutex' = Free
  /\ UNCHANGED <<ringVars, readVars, data, need>>

\* Mutant: a woken thread does not look at the predicate again.
wait_wake_blind(p) ==
  /\ pc[p] = "woken" /\ write_mutex = Free
  /\ Goto(p, "room")
  /\ UNCHANGED <<ringVars, readVars, data, need, write_mutex>>

wait_wake(p) ==
  /\ pc[p] = "woken" /\ write_mutex = Free
  /\ IF HasRoom(need[p]) THEN Goto(p, "room") /\ UNCHANGED write_mutex
                         ELSE Goto(p, "block") /\ write_mutex' = p
  /\ UNCHANGED <<ringVars, readVars, data, need>>

\* wait_for gives up, room or not; or the condition variable wakes for nothing.
wait_timeout(p) ==
  /\ pc[p] = "blocked"
  /\ Goto(p, "idle") \/ Goto(p, "woken")
  /\ UNCHANGED <<ringVars, readVars, data, need, write_mutex>>

(***************************************************************************)
(* pop, read and commit.  Both hand out the bytes up to the end of the     *)
(* array at most.                                                          *)
(***************************************************************************)
Contiguous == Smaller(Used, BufferSize - Position(head))

pop == /\ pc[Consumer] = "idle" /\ Used # 0
       /\ view' = [pos |-> Position(head), len |-> Contiguous]
       /\ op' = "pop" /\ Goto(Consumer, "handle")
       /\ UNCHANGED <<ringVars, chunk, write_mutex, data, need>>

read == /\ pc[Consumer] = "idle" /\ Used # 0
        /\ \E limit \in 0..MaxLen :
             view' = [pos |-> Position(head),
                      len |-> IF limit > 0 THEN Smaller(Contiguous, limit) ELSE Contiguous]
        /\ op' = "read" /\ Goto(Consumer, "handle")
        /\ UNCHANGED <<ringVars, chunk, write_mutex, data, need>>

handler == /\ pc[Consumer] = "handle"
           /\ chunk' = [i \in 1..view.len |-> buffer[view.pos + i - 1]]
           /\ Goto(Consumer, "handled")
           /\ UNCHANGED <<ringVars, op, view, write_mutex, data, need>>

\* head += n gives the space back; commit then notifies.
release(n) ==
  /\ pc[Consumer] = "handled"
  /\ head' = Advance(head, n) /\ queue' = SubSeq(queue, n + 1, Len(queue))
  /\ Goto(Consumer, IF op = "read" THEN "notify" ELSE "idle")
  /\ chunk' = <<>>
  /\ UNCHANGED <<tail, buffer, op, view, write_mutex, data, need>>

pop_end == op = "pop" /\ release(view.len)
commit == op = "read" /\ \E n \in 1..view.len : release(n)

notify ==
  /\ pc[Consumer] = "notify"
  /\ LET blocked == {p \in Producers : pc[p] = "blocked"}
     IN  \/ /\ blocked = {} /\ Goto(Consumer, "idle")
         \/ \E p \in blocked : pc' = [pc EXCEPT ![Consumer] = "idle", ![p] = "woken"]
  /\ UNCHANGED <<ringVars, readVars, write_mutex, data, need>>

\* clear takes no lock; it is for a buffer nobody is using.
clear ==
  /\ \A t \in DOMAIN pc : pc[t] = "idle"
  /\ head' = 0 /\ tail' = 0 /\ queue' = <<>>
  /\ UNCHANGED <<buffer, readVars, write_mutex, pc, data, need>>

Produce(p) == \/ push(p) \/ push_copy(p) \/ push_wrap(p) \/ push_publish(p)
              \/ wait(p) \/ wait_block(p) \/ wait_wake(p) \/ wait_timeout(p)
Consume == pop \/ read \/ handler \/ pop_end \/ commit \/ notify

Next == (\E p \in Producers : Produce(p)) \/ Consume \/ clear

Spec == Init /\ [][Next]_vars

(***************************************************************************)
(* Properties.                                                             *)
(***************************************************************************)

\* The ring represents a queue of bytes (push, pop, read, commit): the
\* counters' difference is the number of unread bytes, never more than the array
\* holds, and they lie in it in order from head on, across the end of the array
\* and the wrap of the counters, while a push is half copied as well.  A handler
\* sees the oldest of them: no push that runs between the moment the consumer
\* looked at tail and the handler's return changes what it sees.
Fifo ==
  /\ Len(queue) = Used /\ Used =< BufferSize
  /\ \A i \in 1..Len(queue) : buffer[Position(Advance(head, i - 1))] = queue[i]
  /\ pc[Consumer] = "handled" =>
       chunk # <<>> /\ Len(chunk) =< Len(queue) /\ chunk = SubSeq(queue, 1, Len(chunk))

\* What wait promises: when it returns because its predicate held, the room it
\* waited for is there, and until this producer pushes only another producer's
\* push takes it away (wait's predicate, the wake-ups of notify_one and spurious
\* ones, pop and commit in between).
RoomAfterWait ==
  [][\A p \in Producers :
       /\ pc'[p] = "room" /\ (pc[p] = "room" => HasRoom(need[p]))
       /\ ~\E q \in Producers \ {p} : pc[q] = "publish" /\ pc'[q] = "idle"
       => HasRoom(need[p])']_vars
=============================================================================
