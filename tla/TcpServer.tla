----------------------------- MODULE TcpServer -----------------------------
(***************************************************************************)
(* The server: a TcpListener that accepts on its listen_worker and spreads *)
(* the connections over tcp_workers (tcp_listener.h), the factory that     *)
(* owns them (tcp_factory.h), and the workers' event loops                 *)
(* (epoll_worker.h), with the descriptor numbers they share.               *)
(*                                                                         *)
(* A connection is used by its worker's callbacks only, or by broadcast    *)
(* when there are no workers besides listen_worker; TcpConnection has the  *)
(* threads of an application.  The epoll sets and the batches that         *)
(* epoll_wait returns hold raw pointers; connection_map is the owner.      *)
(***************************************************************************)
EXTENDS Integers, Sequences, FiniteSets

CONSTANTS
  listen_worker,    \* the thread that accepts
  Deployments,      \* the values of tcp_workers to consider
  Fds,              \* descriptor numbers
  MAX_WAIT_EVENT,   \* events one epoll_wait returns
  MaxClients,       \* bound: clients that connect
  MaxBroadcasts     \* bound: calls of broadcast

Threads(workers) == {listen_worker} \cup {workers[i] : i \in 1..Len(workers)}

ASSUME FdsAssumption == Fds \subseteq Nat \ {0}
ASSUME WorkersAssumption == \A workers \in Deployments :
                              /\ workers \in Seq({workers[i] : i \in DOMAIN workers})
                              /\ \A i \in 1..Len(workers) : workers[i] # listen_worker
ASSUME BoundsAssumption == /\ MAX_WAIT_EVENT \in Nat \ {0} /\ MaxClients \in Nat
                           /\ MaxBroadcasts \in Nat

Cids == 1..MaxClients
Listener == 0     \* the listener as a handler
NoFd == -1

VARIABLES
  tcp_workers,      \* sequence of the threads that serve connections
  clients,          \* clients that connected so far
  backlog,          \* clients in the listen queue
  worker_index,     \* position of the worker that got the last connection
  created,          \* connections created so far; the last one's cid
  connection_map,   \* cids of the connections the factory holds
  status, sd, home, \* conn_status, conn_sd and tcp_worker of each connection
  socket,           \* descriptor |-> the connection it was accepted for, 0 if free
  poll,             \* thread |-> pairs <<descriptor, handler>> of its epoll set
  ready,            \* descriptors with an event not yet reported
  unread, eof,      \* connections with received data, whose client hung up
  batch,            \* thread |-> handlers that epoll_wait returned, not yet called
  pc, cur,          \* where each thread is, and the handler it runs
  accepted_sd,      \* clientFd of the handler of the listener
  tasks,            \* thread |-> cids that posted tasks will remove
  running,          \* thread |-> is_running
  stopping,         \* workers that stop() still has to join, or <<>>
  stop_called,
  failed,           \* connections whose add_event failed
  broadcasts

listenVars == <<tcp_workers, clients, backlog, worker_index, created, accepted_sd>>
connVars == <<status, sd, home, connection_map, failed>>
kernelVars == <<socket, poll, ready, unread, eof>>
stopVars == <<running, stopping, stop_called>>
vars == <<tcp_workers, clients, backlog, worker_index, created, connection_map, status, sd,
          home, socket, poll, ready, unread, eof, batch, pc, cur, accepted_sd, tasks, running, stopping,
          stop_called, failed, broadcasts>>

ThreadSet == Threads(tcp_workers)

\* ::close(f): the number is free, and no epoll set has it any more.
CloseFd(f) == /\ socket' = [socket EXCEPT ![f] = 0]
              /\ poll' = [w \in ThreadSet |-> {e \in poll[w] : e[1] # f}]
              /\ ready' = ready \ {f}

Goto(w, label) == pc' = [pc EXCEPT ![w] = label]

\* start(), after the constructor started the workers: the listening socket is
\* registered, which the model does not show (it is ready while backlog > 0).
Init ==
  /\ tcp_workers \in Deployments
  /\ clients = 0 /\ backlog = 0 /\ worker_index = 0 /\ created = 0
  /\ connection_map = {} /\ failed = {} /\ unread = {} /\ eof = {} /\ ready = {} /\ broadcasts = 0
  /\ status = [c \in Cids |-> "IDLE"] /\ sd = [c \in Cids |-> NoFd]
  /\ home = [c \in Cids |-> listen_worker]
  /\ socket = [f \in Fds |-> 0] /\ accepted_sd = NoFd
  /\ poll = [w \in ThreadSet |-> {}] /\ batch = [w \in ThreadSet |-> {}]
  /\ pc = [w \in ThreadSet |-> "wait"] /\ cur = [w \in ThreadSet |-> Listener]
  /\ tasks = [w \in ThreadSet |-> {}] /\ running = [w \in ThreadSet |-> TRUE]
  /\ stopping = <<>> /\ stop_called = FALSE

(***************************************************************************)
(* The clients.                                                            *)
(***************************************************************************)
Connect == /\ clients < MaxClients
           /\ clients' = clients + 1 /\ backlog' = backlog + 1
           /\ UNCHANGED <<tcp_workers, worker_index, created, accepted_sd, connVars, kernelVars, batch,
                          pc, cur, tasks, stopVars, broadcasts>>

\* Data from the client, or its FIN.
ClientSends(c) ==
  /\ c <= created /\ c \notin eof
  /\ \E f \in Fds : socket[f] = c /\ ready' = ready \cup {f}
  /\ \/ unread' = unread \cup {c} /\ UNCHANGED eof
     \/ eof' = eof \cup {c} /\ UNCHANGED unread
  /\ UNCHANGED <<listenVars, connVars, socket, poll, batch, pc, cur, tasks, stopVars,
                 broadcasts>>

(***************************************************************************)
(* EpollWorker::run                                                        *)
(***************************************************************************)

\* Handlers of w with an event to report.
Pending(w) == {e[2] : e \in {x \in poll[w] : x[1] \in ready}}
                \cup (IF w = listen_worker /\ backlog > 0 THEN {Listener} ELSE {})

\* epoll_wait returns what there is, at most MAX_WAIT_EVENT; the timer's
\* descriptor makes it return with no connection's event.
epoll_wait(w) ==
  /\ pc[w] = "wait" /\ running[w]
  /\ \E b \in SUBSET Pending(w) :
       /\ Cardinality(b) = MAX_WAIT_EVENT \/ b = Pending(w)
       /\ Cardinality(b) <= MAX_WAIT_EVENT
       /\ batch' = [batch EXCEPT ![w] = b]
       /\ ready' = ready \ {e[1] : e \in {x \in poll[w] : x[2] \in b}}
  /\ Goto(w, "batch")
  /\ UNCHANGED <<listenVars, connVars, socket, poll, unread, eof, cur, tasks, stopVars, broadcasts>>

\* The loop's condition.
run_exit(w) ==
  /\ pc[w] = "wait" /\ ~running[w]
  /\ Goto(w, "exit")
  /\ UNCHANGED <<listenVars, connVars, kernelVars, batch, cur, tasks, stopVars, broadcasts>>

\* The next event of the batch.
call_handler(w) ==
  /\ pc[w] = "batch"
  /\ \E h \in batch[w] :
       /\ batch' = [batch EXCEPT ![w] = @ \ {h}] /\ cur' = [cur EXCEPT ![w] = h]
       /\ Goto(w, IF h = Listener THEN "accept" ELSE "event")
  /\ UNCHANGED <<listenVars, connVars, kernelVars, tasks, stopVars, broadcasts>>

\* What a posted task erases from connection_map.
remove_connection(c) == {c}

\* After the batch, the tasks.
run_tasks(w) ==
  /\ pc[w] = "batch" /\ batch[w] = {}
  /\ connection_map' = connection_map \ UNION {remove_connection(c) : c \in tasks[w]}
  /\ tasks' = [tasks EXCEPT ![w] = {}]
  /\ Goto(w, "wait")
  /\ UNCHANGED <<listenVars, status, sd, home, failed, kernelVars, batch, cur, stopVars,
                 broadcasts>>

(***************************************************************************)
(* TcpListener::process_event                                              *)
(***************************************************************************)

\* accept4 fails: there is no descriptor left, or the client has gone.
accept_fail ==
  /\ pc[listen_worker] = "accept"
  /\ backlog' = IF \A f \in Fds : socket[f] # 0 THEN backlog ELSE backlog - 1
  /\ Goto(listen_worker, "batch")
  /\ UNCHANGED <<tcp_workers, clients, worker_index, created, accepted_sd, connVars, kernelVars,
                 batch, cur, tasks, stopVars, broadcasts>>

\* get_worker: the next index, from 0, and the worker there.
get_worker(i) == IF tcp_workers = <<>> THEN listen_worker ELSE tcp_workers[i + 1]
next_index == IF tcp_workers = <<>> THEN worker_index ELSE (worker_index + 1) % Len(tcp_workers)

\* TcpFactory::create: the new connection is in the map before its descriptor and
\* its worker are set.
create(c) == connection_map' = connection_map \cup {c}

\* accept4, create and get_worker.
accept_create ==
  /\ pc[listen_worker] = "accept" /\ backlog > 0
  /\ \E f \in Fds : /\ socket[f] = 0
                    /\ socket' = [socket EXCEPT ![f] = created + 1]
                    /\ accepted_sd' = f
  /\ backlog' = backlog - 1 /\ created' = created + 1
  /\ create(created + 1)
  /\ worker_index' = next_index
  /\ home' = [home EXCEPT ![created + 1] = get_worker(next_index)]
  /\ Goto(listen_worker, "init")
  /\ UNCHANGED <<tcp_workers, clients, status, sd, failed, poll, ready, unread, eof, batch, cur,
                 tasks, stopVars, broadcasts>>

\* Mutant: the descriptor is not stored.
init_nothing ==
  /\ pc[listen_worker] = "init"
  /\ Goto(listen_worker, "add")
  /\ UNCHANGED <<listenVars, connVars, kernelVars, batch, cur, tasks, stopVars, broadcasts>>

init == /\ pc[listen_worker] = "init"
        /\ sd' = [sd EXCEPT ![created] = accepted_sd]
        /\ Goto(listen_worker, "add")
        /\ UNCHANGED <<listenVars, status, home, connection_map, failed, kernelVars, batch,
                       cur, tasks, stopVars, broadcasts>>

\* Mutant: the socket is registered without EPOLLOUT.
add_event_quiet ==
  /\ pc[listen_worker] = "add"
  /\ poll' = [poll EXCEPT ![home[created]] = @ \cup {<<accepted_sd, created>>}]
  /\ Goto(listen_worker, "batch")
  /\ UNCHANGED <<listenVars, connVars, socket, ready, unread, eof, batch, cur, tasks,
                 stopVars, broadcasts>>

\* add_event with EPOLLOUT: the new socket is writable, an event at once.
add_event ==
  /\ pc[listen_worker] = "add"
  /\ poll' = [poll EXCEPT ![home[created]] = @ \cup {<<accepted_sd, created>>}]
  /\ ready' = ready \cup {accepted_sd}
  /\ Goto(listen_worker, "batch")
  /\ UNCHANGED <<listenVars, connVars, socket, unread, eof, batch, cur, tasks, stopVars, broadcasts>>

\* Mutant: the descriptor of a failed EPOLL_CTL_ADD stays open.
add_event_fail_open ==
  /\ pc[listen_worker] = "add"
  /\ failed' = failed \cup {created}
  /\ Goto(listen_worker, "batch")
  /\ UNCHANGED <<listenVars, status, sd, home, connection_map, kernelVars, batch, cur, tasks,
                 stopVars, broadcasts>>

\* EPOLL_CTL_ADD fails: the descriptor is closed, the connection stays.
add_event_fail ==
  /\ pc[listen_worker] = "add"
  /\ CloseFd(accepted_sd)
  /\ failed' = failed \cup {created}
  /\ Goto(listen_worker, "batch")
  /\ UNCHANGED <<listenVars, status, sd, home, connection_map, unread, eof, batch, cur, tasks,
                 stopVars, broadcasts>>

(***************************************************************************)
(* TcpConnection::process_event and do_close                               *)
(***************************************************************************)

\* on_ready, do_read, the callbacks, which may call close(), and the check for
\* CLOSING.  The event may be older than what arrived since, for which there is
\* another event, so that do_read is skipped; it reads once, the data or, if
\* there is none, the end of the stream.
process_event(w) ==
  /\ pc[w] = "event"
  /\ \E reads \in BOOLEAN :
       LET c == cur[w] IN
       /\ reads \/ sd[c] \in ready
       /\ unread' = IF reads THEN unread \ {c} ELSE unread
       /\ \/ /\ status[c] \in {"IDLE", "OPEN"}
             /\ ~(reads /\ c \in eof \ unread)
             /\ status' = [status EXCEPT ![c] = "OPEN"] /\ Goto(w, "batch")
          \/ /\ status[c] # "CLOSED"
             /\ status' = [status EXCEPT ![c] = "CLOSED"] /\ Goto(w, "del")
  /\ UNCHANGED <<listenVars, sd, home, connection_map, failed, socket, poll, ready, eof,
                 batch, cur, tasks, stopVars, broadcasts>>

\* del_event, and EVT_DISCONNECT.
do_close_del(w) ==
  /\ pc[w] = "del"
  /\ poll' = [poll EXCEPT ![w] = {e \in @ : e[1] # sd[cur[w]]}]
  /\ Goto(w, "close")
  /\ UNCHANGED <<listenVars, connVars, socket, ready, unread, eof, batch, cur, tasks,
                 stopVars, broadcasts>>

\* Mutant: the connection is removed at once.
do_close_fd_remove(w) ==
  /\ pc[w] = "close"
  /\ connection_map' = connection_map \ {cur[w]}
  /\ CloseFd(sd[cur[w]])
  /\ Goto(w, "post")
  /\ UNCHANGED <<listenVars, status, sd, home, failed, unread, eof, batch, cur, tasks,
                 stopVars, broadcasts>>

do_close_fd(w) ==
  /\ pc[w] = "close"
  /\ CloseFd(sd[cur[w]])
  /\ Goto(w, "post")
  /\ UNCHANGED <<listenVars, connVars, unread, eof, batch, cur, tasks, stopVars, broadcasts>>

\* Mutant: the removal is lost.
do_close_post_lost(w) ==
  /\ pc[w] = "post"
  /\ sd' = [sd EXCEPT ![cur[w]] = NoFd]
  /\ Goto(w, "batch")
  /\ UNCHANGED <<listenVars, status, home, connection_map, failed, kernelVars, batch, cur,
                 tasks, stopVars, broadcasts>>

\* conn_sd = -1, and the removal is posted.
do_close_post(w) ==
  /\ pc[w] = "post"
  /\ sd' = [sd EXCEPT ![cur[w]] = NoFd]
  /\ tasks' = [tasks EXCEPT ![w] = @ \cup {cur[w]}]
  /\ Goto(w, "batch")
  /\ UNCHANGED <<listenVars, status, home, connection_map, failed, kernelVars, batch, cur,
                 stopVars, broadcasts>>

(***************************************************************************)
(* broadcast, called from a timer of the listener: msend on every open     *)
(* connection.  A send that fails calls close(), whose notify_send makes   *)
(* an event.  It walks connection_map without its lock, so it is only      *)
(* considered when the thread that calls it is the only one.               *)
(***************************************************************************)
broadcast ==
  /\ tcp_workers = <<>>
  /\ broadcasts < MaxBroadcasts /\ broadcasts' = broadcasts + 1
  /\ pc[listen_worker] = "batch"
  /\ \E broken \in SUBSET {c \in connection_map : status[c] = "OPEN"} :
       /\ status' = [c \in Cids |-> IF c \in broken THEN "CLOSING" ELSE status[c]]
       /\ ready' = ready \cup {sd[c] : c \in broken}
  /\ UNCHANGED <<listenVars, sd, home, connection_map, failed, socket, poll, unread, eof, batch, pc,
                 cur, tasks, stopVars>>

(***************************************************************************)
(* stop: is_running of the listener is never set, so the listening socket  *)
(* stays; each worker is told to stop and joined before the next.          *)
(***************************************************************************)
StopOrder == <<listen_worker>> \o tcp_workers

stop ==
  /\ ~stop_called /\ stop_called' = TRUE
  /\ stopping' = StopOrder /\ running' = [running EXCEPT ![Head(StopOrder)] = FALSE]
  /\ UNCHANGED <<listenVars, connVars, kernelVars, batch, pc, cur, tasks, broadcasts>>

\* Mutant: the next worker is joined without being told to stop.
join_only ==
  /\ stopping # <<>> /\ pc[Head(stopping)] = "exit"
  /\ stopping' = Tail(stopping)
  /\ UNCHANGED <<listenVars, connVars, kernelVars, batch, pc, cur, tasks, running,
                 stop_called, broadcasts>>

join ==
  /\ stopping # <<>> /\ pc[Head(stopping)] = "exit"
  /\ stopping' = Tail(stopping)
  /\ running' = IF Tail(stopping) = <<>> THEN running
                ELSE [running EXCEPT ![Head(Tail(stopping))] = FALSE]
  /\ UNCHANGED <<listenVars, connVars, kernelVars, batch, pc, cur, tasks, stop_called,
                 broadcasts>>

-----------------------------------------------------------------------------
Accept == accept_fail \/ accept_create \/ init \/ add_event \/ add_event_fail
Loop(w) == epoll_wait(w) \/ run_exit(w) \/ call_handler(w) \/ run_tasks(w)
Event(w) == process_event(w) \/ do_close_del(w) \/ do_close_fd(w) \/ do_close_post(w)

Next == \/ Connect \/ (\E c \in Cids : ClientSends(c))
        \/ Accept \/ (\E w \in ThreadSet : Loop(w) \/ Event(w))
        \/ broadcast \/ stop \/ join

Spec == Init /\ [][Next]_vars

(***************************************************************************)
(* Fairness: every thread runs; epoll_wait always returns since the        *)
(* timer's descriptor fires periodically.                                  *)
(***************************************************************************)
FairSpec == /\ Spec /\ WF_vars(join)
            /\ \A w \in UNION {Threads(workers) : workers \in Deployments} :
                 WF_vars(w \in ThreadSet /\ (Loop(w) \/ Event(w) \/ (w = listen_worker /\ Accept)))

(***************************************************************************)
(* Properties.                                                             *)
(***************************************************************************)

Registered(c) == \E w \in ThreadSet : <<sd[c], c>> \in poll[w]
Accepting(c) == c = created /\ pc[listen_worker] \in {"init", "add"}
Closing(c, labels) == \E w \in ThreadSet : cur[w] = c /\ pc[w] \in labels

\* Raw handler pointers stay valid (EpollWorker::run, do_close's post_task): a
\* connection that an epoll set or a batch refers to, or whose process_event or
\* do_close is running, is still in connection_map, which keeps it alive.
HandlerAlive ==
  /\ \A w \in ThreadSet : (batch[w] \ {Listener}) \cup {e[2] : e \in poll[w]} \subseteq connection_map
  /\ \A c \in Cids : Closing(c, {"event", "del", "close", "post"}) => c \in connection_map

\* Numbers that are used again never mix connections up (process_event of the
\* listener against do_close on another thread): an epoll entry's descriptor is
\* the socket accepted for its handler, the handler's conn_sd, and in the epoll
\* set of the handler's worker.
EntryMatches ==
  \A w \in ThreadSet : \A e \in poll[w] :
    socket[e[1]] = e[2] /\ sd[e[2]] = e[1] /\ home[e[2]] = w

\* Nothing leaks, on the error paths either (add_event, do_close): an open
\* socket is registered, or being accepted or closed; a connection in
\* connection_map has such a socket, or its removal is posted, or its add_event
\* failed (those stay in the map for good).
Accounted ==
  /\ \A f \in Fds : socket[f] # 0 =>
       Registered(socket[f]) \/ Accepting(socket[f]) \/ Closing(socket[f], {"close"})
  /\ \A c \in connection_map :
       \/ Registered(c) \/ Accepting(c) \/ Closing(c, {"close", "post"}) \/ c \in failed
       \/ \E w \in ThreadSet : c \in tasks[w]

\* A client that hangs up is noticed (do_read, do_close, the tasks): the
\* connection leaves connection_map, if its end of stream is not read together
\* with data and the server is not stopped.
FinNoticed ==
  \A c \in Cids :
    (c \in eof \ unread /\ \E f \in ready : socket[f] = c)
      ~> (c \notin connection_map \/ c \in failed \/ stop_called)

\* Every connection that was accepted gets an event, and so EVT_CONNECT, although
\* its client may stay silent (add_event, on_ready).
EveryoneOpens ==
  \A c \in Cids : c \in connection_map ~> (status[c] # "IDLE" \/ c \in failed \/ stop_called)

\* stop() returns, with every worker out of its loop.
StopCompletes ==
  stop_called ~> (stopping = <<>> /\ \A w \in ThreadSet : pc[w] = "exit")
=============================================================================
