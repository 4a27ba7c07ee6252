---------------------------- MODULE NotifyQueue ----------------------------
(***************************************************************************)
(* NotifyQueue (notify_queue.h): threads push items, one thread calls      *)
(* process.  Items are collected in a set, m_data; process takes the whole *)
(* set over as m_cache under the mutex and hands it out without, so that   *)
(* pushes, the processor's own included, go on meanwhile.  A processor may *)
(* throw; m_cache then keeps its items for the next call.                  *)
(***************************************************************************)
EXTENDS Integers

CONSTANTS
  Items,      \* items, in the order of std::set
  MaxThrows   \* bound: exceptions of the processor

ASSUME ItemsAssumption == Items \subseteq Int
ASSUME ThrowsAssumption == MaxThrows \in Nat

VARIABLES
  m_data,     \* items pushed since the last take-over
  m_cache,    \* items being handed out
  todo,       \* those from the loop's iterator on
  walk,       \* "idle", or "loop" inside process
  owed,       \* history: items pushed and not processed since
  throws

queueVars == <<m_data, m_cache, todo, walk, owed, throws>>

QueueInit == /\ m_data = {} /\ m_cache = {} /\ todo = {} /\ walk = "idle"
             /\ owed = {} /\ throws = 0

push_item(i) == /\ m_data' = m_data \cup {i} /\ owed' = owed \cup {i}
                /\ UNCHANGED <<m_cache, todo, walk, throws>>

\* Mutant: what an exception left in m_cache is dropped.
process_take_all ==
  /\ walk = "idle" /\ walk' = "loop"
  /\ m_cache' = m_data /\ m_data' = {} /\ todo' = m_cache'
  /\ UNCHANGED <<owed, throws>>

\* The locked part of process.
process_take ==
  /\ walk = "idle" /\ walk' = "loop"
  /\ IF m_cache = {} THEN m_cache' = m_data /\ m_data' = {}
                     ELSE UNCHANGED <<m_cache, m_data>>
  /\ todo' = m_cache'
  /\ UNCHANGED <<owed, throws>>

First(i) == i \in todo /\ \A j \in todo : i <= j

\* processor(item)
process_item ==
  /\ walk = "loop"
  /\ \E i \in todo : First(i) /\ todo' = todo \ {i} /\ owed' = owed \ {i}
  /\ UNCHANGED <<m_data, m_cache, walk, throws>>

\* processor(item) throws, and so does process.
process_throw ==
  /\ walk = "loop" /\ todo # {}
  /\ throws < MaxThrows /\ throws' = throws + 1
  /\ walk' = "idle" /\ todo' = {}
  /\ UNCHANGED <<m_data, m_cache, owed>>

\* Mutant: m_data is cleared as well.
process_end_all ==
  /\ walk = "loop" /\ todo = {} /\ walk' = "idle"
  /\ m_cache' = {} /\ m_data' = {}
  /\ UNCHANGED <<todo, owed, throws>>

\* m_cache.clear()
process_end ==
  /\ walk = "loop" /\ todo = {} /\ walk' = "idle"
  /\ m_cache' = {}
  /\ UNCHANGED <<m_data, todo, owed, throws>>

process == process_take \/ process_item \/ process_throw \/ process_end

QueueNext == (\E i \in Items : push_item(i)) \/ process

QueueSpec == QueueInit /\ [][QueueNext]_queueVars

\* The consumer calls process again and again.
QueueFairSpec == QueueSpec /\ WF_queueVars(process_take \/ process_item \/ process_end)

(***************************************************************************)
(* Properties.                                                             *)
(***************************************************************************)

\* Type invariant.
QueueTypeOK == /\ m_data \subseteq Items /\ m_cache \subseteq Items /\ owed \subseteq Items
               /\ todo \subseteq m_cache /\ walk \in {"idle", "loop"} /\ throws \in 0..MaxThrows

\* No push is lost (push against process, and processors that throw): an item
\* that was not processed since it was pushed is in m_data or still to be handed
\* out of m_cache.
NothingLost == owed \subseteq m_data \cup (IF walk = "loop" THEN todo ELSE m_cache)

\* Every push is answered: the item is processed after it, although other
\* threads and the processor push all the time.
PushIsAnswered == \A i \in Items : i \in owed ~> i \notin owed
=============================================================================
