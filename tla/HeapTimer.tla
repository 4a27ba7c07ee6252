----------------------------- MODULE HeapTimer -----------------------------
(***************************************************************************)
(* The timers of utils/heap_timer.h.  The worker runs timer_loop whenever  *)
(* its timer descriptor fires; timer handlers on the worker, and other     *)
(* threads, start, stop and restart timers.  The heap and the map of ids   *)
(* have a mutex each, taken per operation: heap_tree.top(), the test of    *)
(* the node, heap_tree.pop(), the test of stopped and the handler are      *)
(* steps of their own.  Time passes at any point.                          *)
(***************************************************************************)
EXTENDS Integers, Sequences, MinHeap

CONSTANTS
  Deployments,  \* sets of threads other than the worker that use the timers
  Worker,       \* the thread that runs timer_loop
  Intervals,    \* intervals of timers
  MaxNodes,     \* bound: timer nodes ever created
  MaxTime,      \* bound: how far the clock runs
  SharedNodes,  \* bounds of nodes and time when other threads use the timers
  SharedTime,
  Free          \* timer_mutex is not held

Apps == UNION Deployments

ASSUME ThreadsAssumption == Worker \notin Apps /\ Free \notin Apps \cup {Worker}
ASSUME TimesAssumption == /\ Intervals \subseteq Nat \ {0}
                          /\ SharedNodes \in Nat /\ SharedTime \in Nat
                          /\ MaxNodes \in Nat \ {0} /\ MaxTime \in Nat
                          /\ SharedNodes <= MaxNodes

VARIABLES
  now,          \* the clock
  nodes,        \* every TimerNode created so far
  heap,         \* heap_tree, a sequence of indices of nodes
  timer_nodes,  \* the map: timer id -> index of its node, 0 if absent
  timer_index,  \* the next timer id; base_timer_index is 1 here
  timer_mutex,  \* the thread that holds it, or Free
  pc,           \* where each thread is
  new,          \* the node each thread is adding
  cur,          \* the node timer_loop is at
  fired,        \* history: nodes whose handler was called
  ended,        \* history: nodes that stop_timer or restart_timer was called for
  late          \* history: calls of a node's handler that began after that

vars == <<now, nodes, heap, timer_nodes, timer_index, timer_mutex, pc, new, cur,
          fired, ended, late>>
history == <<fired, ended, late>>

\* The threads that use the timers, and whether the worker's handlers are all.
Threads == DOMAIN pc
Alone == Threads = {Worker}

Node(interval, loop) == [timer_id |-> 0, interval |-> interval, loop |-> loop,
                         stopped |-> FALSE, expire_time |-> now + interval]
Expire == [n \in DOMAIN nodes |-> nodes[n].expire_time]
Goto(t, label) == pc' = [pc EXCEPT ![t] = label]
Return(t) == Goto(t, IF t = Worker THEN "handler" ELSE "idle")

\* Mutant: the node is not marked.
StopNothing(n) == UNCHANGED nodes

Stop(n) == nodes' = [nodes EXCEPT ![n].stopped = TRUE]

\* The program starts a first timer before the worker runs.
Init ==
  /\ now = 0
  /\ \E i \in Intervals, l \in BOOLEAN :
       nodes = <<[timer_id |-> 1, interval |-> i, loop |-> l, stopped |-> FALSE,
                  expire_time |-> i]>>
  /\ heap = <<1>> /\ timer_index = 2 /\ timer_mutex = Free
  /\ timer_nodes = [id \in 0..MaxNodes |-> IF id = 1 THEN 1 ELSE 0]
  /\ \E apps \in Deployments : /\ pc = [t \in apps \cup {Worker} |-> "idle"]
                               /\ new = [t \in apps \cup {Worker} |-> 0]
  /\ cur = 0
  /\ fired = {} /\ ended = {} /\ late = [n \in 1..MaxNodes |-> 0]

(***************************************************************************)
(* start_timer, stop_timer and restart_timer, called by other threads or   *)
(* by a timer's handler.                                                   *)
(***************************************************************************)
Caller(t) == IF t = Worker THEN pc[t] = "handler" ELSE pc[t] = "idle"

\* Bound: nodes that are still to be created.
Room == Len(nodes) < (IF Alone THEN MaxNodes ELSE SharedNodes)

\* The node's expire_time is set when it is built, before it is in the heap.
start_timer(t) ==
  /\ Caller(t) /\ Room
  /\ \E i \in Intervals, l \in BOOLEAN : nodes' = Append(nodes, Node(i, l))
  /\ new' = [new EXCEPT ![t] = Len(nodes) + 1]
  /\ Goto(t, "add")
  /\ UNCHANGED <<now, heap, timer_nodes, timer_index, timer_mutex, cur, history>>

add_timer(t) ==
  /\ pc[t] = "add"
  /\ nodes' = [nodes EXCEPT ![new[t]].timer_id = timer_index]
  /\ timer_index' = timer_index + 1
  /\ heap' = heap_insert(heap, new[t], Expire)
  /\ Goto(t, "register")
  /\ UNCHANGED <<now, timer_nodes, timer_mutex, new, cur, history>>

add_timer_register(t) ==
  /\ pc[t] = "register" /\ timer_mutex = Free
  /\ timer_nodes' = [timer_nodes EXCEPT ![nodes[new[t]].timer_id] = new[t]]
  /\ new' = [new EXCEPT ![t] = 0] /\ Return(t)
  /\ UNCHANGED <<now, nodes, heap, timer_index, timer_mutex, cur, history>>

\* A call with an id that is not in the map returns false and changes nothing.
\* Under id 0 is the timer that was restarted last.
stop_timer(t) ==
  /\ Caller(t) /\ timer_mutex = Free
  /\ \E id \in 0..timer_index - 1 :
       /\ timer_nodes[id] # 0 /\ Stop(timer_nodes[id])
       /\ timer_nodes' = [timer_nodes EXCEPT ![id] = 0]
       /\ ended' = ended \cup {timer_nodes[id]}
  /\ UNCHANGED <<now, heap, timer_index, timer_mutex, pc, new, cur, fired, late>>

\* The interval of a restarted timer: 0 keeps the old one.
new_interval(i, old) == IF i > 0 THEN i ELSE nodes[old].interval

\* The node is replaced by a new one.
restart_timer(t) ==
  /\ Caller(t) /\ timer_mutex = Free /\ Room
  /\ \E id \in 0..timer_index - 1, i \in Intervals \cup {0} :
       LET old == timer_nodes[id] IN
         /\ old # 0
         /\ nodes' = Append([nodes EXCEPT ![old].stopped = TRUE],
                            Node(new_interval(i, old), nodes[old].loop))
         /\ timer_nodes' = [timer_nodes EXCEPT ![id] = 0]
         /\ ended' = ended \cup {old}
  /\ new' = [new EXCEPT ![t] = Len(nodes) + 1]
  /\ timer_mutex' = t /\ Goto(t, "reinsert")
  /\ UNCHANGED <<now, heap, timer_index, cur, fired, late>>

\* The new node never gets an id: it goes into the map under id 0.
restart_timer_insert(t) ==
  /\ pc[t] = "reinsert"
  /\ heap' = heap_insert(heap, new[t], Expire)
  /\ timer_nodes' = [timer_nodes EXCEPT ![nodes[new[t]].timer_id] = new[t]]
  /\ new' = [new EXCEPT ![t] = 0] /\ timer_mutex' = Free /\ Return(t)
  /\ UNCHANGED <<now, nodes, timer_index, cur, history>>

(***************************************************************************)
(* timer_loop and handle_timeout.                                          *)
(***************************************************************************)

\* heap_tree.top() and the test of the node it gave; without a node that is
\* due, timer_loop returns.
Due == heap # <<>> /\ nodes[heap[1]].expire_time <= now

timer_loop_top ==
  /\ pc[Worker] \in {"idle", "loop"} /\ Due
  /\ cur' = heap[1] /\ Goto(Worker, "pop")
  /\ UNCHANGED <<now, nodes, heap, timer_nodes, timer_index, timer_mutex, new, history>>

timer_loop_return ==
  /\ pc[Worker] = "loop" /\ ~Due
  /\ cur' = 0 /\ Goto(Worker, "idle")
  /\ UNCHANGED <<now, nodes, heap, timer_nodes, timer_index, timer_mutex, new, history>>

\* heap_tree.pop() removes whatever is on top by now.
timer_loop_pop ==
  /\ pc[Worker] = "pop"
  /\ heap' = heap_pop(heap, Expire)
  /\ Goto(Worker, "check")
  /\ UNCHANGED <<now, nodes, timer_nodes, timer_index, timer_mutex, new, cur, history>>

timer_loop_check ==
  /\ pc[Worker] = "check"
  /\ Goto(Worker, IF nodes[cur].stopped THEN "loop" ELSE "call")
  /\ UNCHANGED <<now, nodes, heap, timer_nodes, timer_index, timer_mutex, new, cur, history>>

handle_timeout ==
  /\ pc[Worker] = "call"
  /\ fired' = fired \cup {cur}
  /\ late' = [late EXCEPT ![cur] = @ + IF cur \in ended THEN 1 ELSE 0]
  /\ Goto(Worker, "handler")
  /\ UNCHANGED <<now, nodes, heap, timer_nodes, timer_index, timer_mutex, new, cur, ended>>

\* Mutant: the periodic timer is not due again.
handle_timeout_true_once ==
  /\ pc[Worker] = "handler" /\ Goto(Worker, "loop")
  /\ UNCHANGED <<now, nodes, heap, timer_nodes, timer_index, timer_mutex, new, cur, history>>

\* The handler returned true: a periodic timer is due again one interval from
\* now, and goes back into the heap.
handle_timeout_true ==
  /\ pc[Worker] = "handler"
  /\ IF nodes[cur].loop /\ ~nodes[cur].stopped
       THEN /\ nodes' = [nodes EXCEPT ![cur].expire_time = now + nodes[cur].interval]
            /\ Goto(Worker, "insert")
       ELSE UNCHANGED nodes /\ Goto(Worker, "loop")
  /\ UNCHANGED <<now, heap, timer_nodes, timer_index, timer_mutex, new, cur, history>>

handle_timeout_insert ==
  /\ pc[Worker] = "insert"
  /\ heap' = heap_insert(heap, cur, Expire)
  /\ Goto(Worker, "loop")
  /\ UNCHANGED <<now, nodes, timer_nodes, timer_index, timer_mutex, new, cur, history>>

\* Mutant: a handler that returns false leaves its id in the map.
handle_timeout_false_kept ==
  /\ pc[Worker] = "handler" /\ timer_mutex = Free
  /\ Stop(cur) /\ Goto(Worker, "loop")
  /\ UNCHANGED <<now, heap, timer_nodes, timer_index, timer_mutex, new, cur, history>>

\* The handler returned false: the timer ends.
handle_timeout_false ==
  /\ pc[Worker] = "handler" /\ timer_mutex = Free
  /\ Stop(cur)
  /\ timer_nodes' = [timer_nodes EXCEPT ![nodes[cur].timer_id] = 0]
  /\ Goto(Worker, "loop")
  /\ UNCHANGED <<now, heap, timer_index, timer_mutex, new, cur, history>>

\* The clock.
Tick == /\ now < (IF Alone THEN MaxTime ELSE SharedTime) /\ now' = now + 1
        /\ UNCHANGED <<nodes, heap, timer_nodes, timer_index, timer_mutex, pc, new, cur,
                       history>>

Use(t) == \/ start_timer(t) \/ add_timer(t) \/ add_timer_register(t)
          \/ stop_timer(t) \/ restart_timer(t) \/ restart_timer_insert(t)

timer_loop == \/ timer_loop_top \/ timer_loop_return \/ timer_loop_pop \/ timer_loop_check
              \/ handle_timeout \/ handle_timeout_true \/ handle_timeout_insert
              \/ handle_timeout_false

Next == (\E t \in Threads : Use(t)) \/ timer_loop \/ Tick

Spec == Init /\ [][Next]_vars

\* The timer descriptor fires again and again and handlers return, so the
\* worker keeps taking steps; other threads finish the calls they began.
Fairness == /\ WF_vars(timer_loop)
            /\ \A t \in Apps \cup {Worker} :
                 WF_vars(t \in Threads /\ (add_timer(t) \/ add_timer_register(t)
                                           \/ restart_timer_insert(t)))

FairSpec == Spec /\ Fairness

(***************************************************************************)
(* Properties.                                                             *)
(***************************************************************************)

\* The number of times n is in the heap, held by timer_loop after its pop, or
\* on its way into the heap.
Places(n) ==
  Cardinality({i \in DOMAIN heap : heap[i] = n})
  + (IF cur = n /\ pc[Worker] \notin {"idle", "loop", "pop"} THEN 1 ELSE 0)
  + Cardinality({t \in Threads : new[t] = n /\ pc[t] \in {"add", "reinsert"}})

\* The heap can be trusted when only handlers use the timers (Alone): a timer
\* that is not stopped, and is periodic or has not fired, is in one place exactly,
\* the heap, the hands of timer_loop or of the call that adds it; and although
\* timer_loop changes expire_time of nodes, none in the heap is due before its parent.
HeapSound ==
  Alone => /\ \A n \in DOMAIN nodes :
                ~nodes[n].stopped /\ (nodes[n].loop \/ n \notin fired) => Places(n) = 1
           /\ IsHeap(heap, Expire)

\* What stop_timer and restart_timer find (Alone): an id leads to its own timer,
\* and to none that stop_timer, restart_timer or a handler that returned false
\* has ended; and as long as a timer that got an id from add_timer is not ended,
\* its id leads to it.  A one-shot timer that has fired and returned true is not
\* ended in this sense: restart_timer still finds it and sets it again.
MapSound ==
  Alone =>
    /\ \A id \in 0..MaxNodes : timer_nodes[id] # 0 =>
         LET n == timer_nodes[id] IN nodes[n].timer_id = id /\ ~nodes[n].stopped
    /\ \A n \in DOMAIN nodes :
         nodes[n].timer_id # 0 /\ ~nodes[n].stopped /\ new[Worker] # n =>
           timer_nodes[nodes[n].timer_id] = n

\* stop_timer and restart_timer are final, whoever calls them: the handler of
\* a stopped timer begins at most once more, in the pass of timer_loop that had
\* tested the node already, however often the node is in the heap.
StopIsFinal == \A n \in 1..MaxNodes : late[n] =< 1

\* A timer that is due is handled or stopped (Alone), the first time and
\* every time a periodic one is due again.
DueFires ==
  \A n \in 1..MaxNodes :
    /\ Alone /\ n \in DOMAIN nodes /\ (nodes[n].loop \/ n \notin fired)
    /\ nodes[n].expire_time <= now
    ~> \/ pc[Worker] = "handler" /\ cur = n
       \/ n \in DOMAIN nodes /\ nodes[n].stopped
=============================================================================
