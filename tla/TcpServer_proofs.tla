-------------------------- MODULE TcpServer_proofs --------------------------
(***************************************************************************)
(* Proofs about TcpServer for any number of workers, descriptors, clients  *)
(* and broadcasts, and any size of a batch.                                *)
(***************************************************************************)
EXTENDS TcpServer, TLAPS

Labels == {"wait", "batch", "exit", "accept", "init", "add", "event", "del", "close", "post"}

\* The labels at which a thread is in process_event or do_close of cur.
Busy == {"event", "del", "close", "post"}

TypeOK ==
  /\ tcp_workers \in Deployments /\ worker_index \in Nat
  /\ clients \in 0..MaxClients /\ backlog \in Int /\ created \in Nat
  /\ connection_map \subseteq Cids
  /\ status \in [Cids -> {"IDLE", "OPEN", "CLOSING", "CLOSED"}]
  /\ sd \in [Cids -> Fds \cup {NoFd}] /\ home \in [Cids -> ThreadSet]
  /\ socket \in [Fds -> Cids \cup {0}]
  /\ poll \in [ThreadSet -> SUBSET (Fds \X Cids)]
  /\ batch \in [ThreadSet -> SUBSET (Cids \cup {Listener})]
  /\ pc \in [ThreadSet -> Labels] /\ cur \in [ThreadSet -> Cids \cup {Listener}]
  /\ tasks \in [ThreadSet -> SUBSET Cids]

\* A descriptor's number is in an epoll set.
Reg(w, c) == <<sd[c], c>> \in poll[w]

\* Only connections that were created have left their first state.
CountInv ==
  /\ created + backlog <= clients
  /\ \A c \in Cids : c > created => status[c] = "IDLE" /\ c \notin connection_map

\* A connection has one socket at most.
SocketInv ==
  /\ \A f \in Fds : socket[f] <= created
  /\ \A f, g \in Fds : socket[f] = socket[g] /\ socket[f] # 0 => f = g

\* An entry belongs to a connection that is held, and that is not closed except
\* between the assignment of CLOSED and del_event.
EntryInv ==
  \A w \in ThreadSet, f \in Fds, c \in Cids : <<f, c>> \in poll[w] =>
    /\ socket[f] = c /\ sd[c] = f /\ home[c] = w /\ c \in connection_map
    /\ status[c] = "CLOSED" => cur[w] = c /\ pc[w] = "del"
    /\ ~Accepting(c)

\* A batch refers to connections of the epoll set other than the one at work.
BatchInv ==
  \A w \in ThreadSet : \A c \in batch[w] \cap Cids :
    Reg(w, c) /\ ~(cur[w] = c /\ pc[w] \in Busy)

\* What do_close has done so far to the connection it is called for.
BusyInv ==
  \A w \in ThreadSet : LET c == cur[w] IN
    /\ pc[w] \in Busy => c \in connection_map /\ home[c] = w
    /\ pc[w] \in {"event", "del"} => Reg(w, c)
    /\ pc[w] \in {"del", "close", "post"} => status[c] = "CLOSED"
    /\ pc[w] = "close" => sd[c] \in Fds /\ socket[sd[c]] = c /\ ~Reg(w, c)
    /\ pc[w] = "post" => \A f \in Fds : socket[f] # c

\* A task removes a connection whose socket is closed and that nobody works at.
TaskInv ==
  \A w \in ThreadSet : \A c \in tasks[w] :
    /\ status[c] = "CLOSED" /\ home[c] = w
    /\ \A f \in Fds : socket[f] # c
    /\ ~(cur[w] = c /\ pc[w] = "post")

\* The connection that is being accepted has its socket and is in nobody's hands.
AcceptInv ==
  /\ pc[listen_worker] \in {"init", "add"} =>
       /\ created \in connection_map /\ status[created] = "IDLE"
       /\ accepted_sd \in Fds /\ socket[accepted_sd] = created
  /\ pc[listen_worker] = "add" => sd[created] = accepted_sd

\* Accounted, with the connection of a socket named.
AccountInv ==
  /\ \A f \in Fds, d \in Cids : socket[f] = d =>
       Registered(d) \/ Accepting(d) \/ Closing(d, {"close"})
  /\ \A c \in connection_map :
       \/ Registered(c) \/ Accepting(c) \/ Closing(c, {"close", "post"}) \/ c \in failed
       \/ \E w \in ThreadSet : c \in tasks[w]

Inv == /\ TypeOK /\ CountInv /\ SocketInv /\ EntryInv /\ BatchInv /\ BusyInv /\ TaskInv
       /\ AcceptInv /\ AccountInv

-----------------------------------------------------------------------------
LEMMA ConstFacts ==
  /\ MaxClients \in Nat /\ Cids \subseteq Nat /\ Listener \notin Cids /\ 0 \notin Cids
  /\ \A n \in Nat : 1 <= n /\ n <= MaxClients => n \in Cids
  /\ NoFd \notin Fds
BY BoundsAssumption, FdsAssumption DEF Cids, Listener, NoFd

\* get_worker gives a thread of the deployment.
LEMMA WorkerFacts ==
  ASSUME TypeOK
  PROVE  /\ listen_worker \in ThreadSet
         /\ next_index \in Nat /\ get_worker(next_index) \in ThreadSet
<1>1. tcp_workers \in Seq({tcp_workers[i] : i \in DOMAIN tcp_workers})
  BY WorkersAssumption DEF TypeOK
<1>2. CASE tcp_workers = <<>>
  BY <1>2 DEF TypeOK, ThreadSet, Threads, next_index, get_worker
<1>3. CASE tcp_workers # <<>>
  <2>1. Len(tcp_workers) \in Nat /\ Len(tcp_workers) > 0
    BY <1>1, <1>3
  <2>2. next_index \in 0..Len(tcp_workers) - 1
    BY <1>3, <2>1 DEF TypeOK, next_index
  <2>3. next_index + 1 \in 1..Len(tcp_workers)
    BY <2>1, <2>2
  <2> QED
    BY <1>3, <2>1, <2>2, <2>3 DEF ThreadSet, Threads, get_worker
<1> QED
  BY <1>2, <1>3

\* What an entry says of its connection.
LEMMA RegFacts ==
  ASSUME Inv, NEW w \in ThreadSet, NEW c \in Cids, Reg(w, c)
  PROVE  /\ sd[c] \in Fds /\ socket[sd[c]] = c /\ home[c] = w /\ c \in connection_map
         /\ status[c] = "CLOSED" => cur[w] = c /\ pc[w] = "del"
         /\ ~Accepting(c) /\ c <= created
<1>1. <<sd[c], c>> \in Fds \X Cids
  BY DEF Inv, TypeOK, Reg
<1>2. sd[c] \in Fds
  BY <1>1
<1> QED
  BY <1>2 DEF Inv, EntryInv, SocketInv, Reg

\* What being at work says of the connection.
LEMMA BusyFacts ==
  ASSUME Inv, NEW w \in ThreadSet, pc[w] \in Busy
  PROVE  /\ cur[w] \in Cids /\ cur[w] \in connection_map /\ home[cur[w]] = w
         /\ cur[w] <= created /\ ~Accepting(cur[w])
<1>1. cur[w] \in Cids /\ cur[w] \in connection_map /\ home[cur[w]] = w
  BY DEF Inv, BusyInv, TypeOK
<1>2. cur[w] <= created
  <2>1. cur[w] \in Nat /\ created \in Nat /\ ~(cur[w] > created)
    BY <1>1, ConstFacts DEF Inv, CountInv, TypeOK
  <2> QED
    BY <2>1
<1>3. CASE pc[w] \in {"event", "del"}
  BY <1>1, <1>2, <1>3, RegFacts DEF Inv, BusyInv
<1>4. CASE pc[w] \in {"close", "post"}
  BY <1>1, <1>2, <1>4 DEF Inv, BusyInv, AcceptInv, Accepting
<1> QED
  BY <1>1, <1>2, <1>3, <1>4 DEF Busy

LEMMA InitialInv == Init => Inv
BY ConstFacts, BoundsAssumption DEF Init, Inv, TypeOK, CountInv, SocketInv, EntryInv, BatchInv,
   BusyInv, TaskInv, AcceptInv, AccountInv, Labels, Busy, Threads, ThreadSet, Listener

LEMMA ConnectInv ==
  ASSUME Inv, Connect
  PROVE  Inv'
<1> USE DEF Inv, Connect, connVars, kernelVars, stopVars
<1>0. ThreadSet' = ThreadSet
  BY DEF ThreadSet
<1>1. TypeOK'
  BY <1>0, BoundsAssumption DEF TypeOK
<1>2. CountInv'
  BY <1>0 DEF CountInv, TypeOK
<1>3. SocketInv'
  BY <1>0 DEF SocketInv, TypeOK
<1>4. EntryInv'
  BY <1>0 DEF EntryInv, TypeOK, Accepting
<1>5. BatchInv'
  BY <1>0 DEF BatchInv, TypeOK, Reg, Busy
<1>6. BusyInv'
  <2>1. UNCHANGED <<pc, cur, connection_map, home, poll, status, sd, socket>>
    OBVIOUS
  <2> HIDE DEF Connect
  <2> QED
    BY <1>0, <2>1 DEF BusyInv, Reg
<1>7. TaskInv'
  BY <1>0 DEF TaskInv, TypeOK
<1>8. AcceptInv'
  BY <1>0 DEF AcceptInv, TypeOK
<1>9. AccountInv'
  BY <1>0 DEF AccountInv, TypeOK, Registered, Accepting, Closing
<1> QED
  BY <1>1, <1>2, <1>3, <1>4, <1>5, <1>6, <1>7, <1>8, <1>9

LEMMA ClientSendsInv ==
  ASSUME Inv, NEW c \in Cids, ClientSends(c)
  PROVE  Inv'
<1> USE DEF Inv, ClientSends, listenVars, connVars, stopVars
<1>0. ThreadSet' = ThreadSet
  BY DEF ThreadSet
<1>1. TypeOK'
  BY <1>0 DEF TypeOK, Labels, Cids
<1>2. CountInv'
  BY <1>0 DEF CountInv, TypeOK
<1>3. SocketInv'
  BY <1>0 DEF SocketInv, TypeOK
<1>4. EntryInv'
  BY <1>0 DEF EntryInv, TypeOK, Accepting
<1>5. BatchInv'
  BY <1>0 DEF BatchInv, TypeOK, Reg, Busy
<1>6. BusyInv'
  <2>1. UNCHANGED <<pc, cur, connection_map, home, poll, status, sd, socket>>
    OBVIOUS
  <2> HIDE DEF ClientSends
  <2> QED
    BY <1>0, <2>1 DEF BusyInv, Reg
<1>7. TaskInv'
  BY <1>0 DEF TaskInv, TypeOK
<1>8. AcceptInv'
  BY <1>0 DEF AcceptInv, TypeOK
<1>9. AccountInv'
  BY <1>0 DEF AccountInv, TypeOK, Registered, Accepting, Closing
<1> QED
  BY <1>1, <1>2, <1>3, <1>4, <1>5, <1>6, <1>7, <1>8, <1>9

LEMMA EpollWaitInv ==
  ASSUME Inv, NEW w \in ThreadSet, epoll_wait(w)
  PROVE  Inv'
<1> USE DEF Inv, epoll_wait, Goto, Pending, listenVars, connVars, stopVars
<1>0. ThreadSet' = ThreadSet
  BY DEF ThreadSet
<1>1. TypeOK'
  BY <1>0 DEF TypeOK, Labels, Cids
<1>2. CountInv'
  BY <1>0 DEF CountInv, TypeOK
<1>3. SocketInv'
  BY <1>0 DEF SocketInv, TypeOK
<1>4. EntryInv'
  BY <1>0 DEF EntryInv, TypeOK, Accepting
<1>5. BatchInv'
  <2>1. PICK b \in SUBSET Pending(w) : batch' = [batch EXCEPT ![w] = b]
    OBVIOUS
  <2>2. ASSUME NEW c \in b \cap Cids PROVE Reg(w, c)
    <3>1. PICK e \in poll[w] : e[2] = c
      BY <2>1, <2>2, ConstFacts DEF Pending, Listener
    <3>2. e = <<e[1], c>> /\ e[1] \in Fds
      BY <3>1 DEF TypeOK
    <3> QED
      BY <3>1, <3>2 DEF EntryInv, Reg
  <2> QED
    BY <1>0, <2>1, <2>2 DEF TypeOK, BatchInv, Reg, Busy
<1>6. BusyInv'
  BY <1>0 DEF BusyInv, TypeOK, Reg, Busy
<1>7. TaskInv'
  BY <1>0 DEF TaskInv, TypeOK
<1>8. AcceptInv'
  BY <1>0 DEF AcceptInv, TypeOK
<1>9. AccountInv'
  BY <1>0 DEF AccountInv, TypeOK, Registered, Accepting, Closing
<1> QED
  BY <1>1, <1>2, <1>3, <1>4, <1>5, <1>6, <1>7, <1>8, <1>9

LEMMA RunExitInv ==
  ASSUME Inv, NEW w \in ThreadSet, run_exit(w)
  PROVE  Inv'
<1> USE DEF Inv, run_exit, Goto, listenVars, connVars, kernelVars, stopVars
<1>0. ThreadSet' = ThreadSet
  BY DEF ThreadSet
<1>1. TypeOK'
  BY <1>0 DEF TypeOK, Labels, Cids
<1>2. CountInv'
  BY <1>0 DEF CountInv, TypeOK
<1>3. SocketInv'
  BY <1>0 DEF SocketInv, TypeOK
<1>4. EntryInv'
  BY <1>0 DEF EntryInv, TypeOK, Accepting
<1>5. BatchInv'
  BY <1>0 DEF BatchInv, TypeOK, Reg, Busy
<1>6. BusyInv'
  <2>1. \A v \in ThreadSet : pc'[v] = pc[v] \/ pc'[v] = "exit"
    BY <1>0 DEF TypeOK
  <2>2. UNCHANGED <<cur, connection_map, home, poll, status, sd, socket>>
    BY DEF listenVars, connVars, kernelVars
  <2> HIDE DEF run_exit
  <2> QED
    BY <1>0, <2>1, <2>2 DEF BusyInv, Reg, Busy
<1>7. TaskInv'
  BY <1>0 DEF TaskInv, TypeOK
<1>8. AcceptInv'
  BY <1>0 DEF AcceptInv, TypeOK
<1>9. AccountInv'
  BY <1>0 DEF AccountInv, TypeOK, Registered, Accepting, Closing
<1> QED
  BY <1>1, <1>2, <1>3, <1>4, <1>5, <1>6, <1>7, <1>8, <1>9

LEMMA CallHandlerInv ==
  ASSUME Inv, NEW w \in ThreadSet, call_handler(w)
  PROVE  Inv'
<1> USE DEF Inv, call_handler, Goto, listenVars, connVars, kernelVars, stopVars
<1>0. ThreadSet' = ThreadSet
  BY DEF ThreadSet
<1>1. TypeOK'
  BY <1>0 DEF TypeOK, Labels, Cids
<1>2. CountInv'
  BY <1>0 DEF CountInv, TypeOK
<1>3. SocketInv'
  BY <1>0 DEF SocketInv, TypeOK
<1>4. EntryInv'
  BY <1>0 DEF EntryInv, TypeOK, Accepting
<1>5. BatchInv'
  BY <1>0 DEF BatchInv, TypeOK, Reg, Busy
<1>6. BusyInv'
  <2>1. PICK h \in batch[w] : /\ cur' = [cur EXCEPT ![w] = h]
                               /\ pc' = [pc EXCEPT ![w] = IF h = Listener THEN "accept" ELSE "event"]
    OBVIOUS
  <2>2. h # Listener => h \in Cids /\ Reg(w, h)
    BY DEF TypeOK, BatchInv
  <2>3. h # Listener => home[h] = w /\ h \in connection_map
    BY <2>2, RegFacts
  <2> QED
    BY <1>0, <2>1, <2>2, <2>3, SMTT(20) DEF TypeOK, BusyInv, Reg, Busy
<1>7. TaskInv'
  BY <1>0 DEF TaskInv, TypeOK
<1>8. AcceptInv'
  BY <1>0 DEF AcceptInv, TypeOK
<1>9. AccountInv'
  BY <1>0 DEF AccountInv, TypeOK, Registered, Accepting, Closing
<1> QED
  BY <1>1, <1>2, <1>3, <1>4, <1>5, <1>6, <1>7, <1>8, <1>9

LEMMA RunTasksInv ==
  ASSUME Inv, NEW w \in ThreadSet, run_tasks(w)
  PROVE  Inv'
<1> USE DEF Inv, run_tasks, Goto, remove_connection, listenVars, kernelVars, stopVars
<1>0. ThreadSet' = ThreadSet
  BY DEF ThreadSet
<1>01. /\ connection_map' = connection_map \ tasks[w]
       /\ pc' = [pc EXCEPT ![w] = "wait"]
  OBVIOUS
<1>02. \A v \in ThreadSet : v # w /\ pc[v] \in Busy => cur[v] \notin tasks[w]
  BY BusyFacts DEF TaskInv
<1>1. TypeOK'
  BY <1>0 DEF TypeOK, Labels, Cids
<1>2. CountInv'
  BY <1>0 DEF CountInv, TypeOK
<1>3. SocketInv'
  BY <1>0 DEF SocketInv, TypeOK
<1>4. EntryInv'
  BY <1>0, <1>01 DEF EntryInv, TaskInv, TypeOK, Accepting
<1>5. BatchInv'
  BY <1>0 DEF BatchInv, TypeOK, Reg, Busy
<1>6. BusyInv'
  <2>1. pc' = [pc EXCEPT ![w] = "wait"] /\ UNCHANGED <<cur, sd, status, home, socket, poll>>
    OBVIOUS
  <2>2. \A v \in ThreadSet : pc'[v] \in Busy => v # w /\ pc'[v] = pc[v]
    BY <2>1 DEF TypeOK, Busy
  <2> HIDE DEF run_tasks
  <2> QED
    BY <1>0, <1>01, <1>02, <2>1, <2>2 DEF BusyInv, Reg, Busy
<1>7. TaskInv'
  BY <1>0 DEF TaskInv, TypeOK
<1>8. AcceptInv'
  BY <1>0, <1>01 DEF AcceptInv, TaskInv, TypeOK
<1>9. AccountInv'
  BY <1>0 DEF AccountInv, TypeOK, Registered, Accepting, Closing
<1> QED
  BY <1>1, <1>2, <1>3, <1>4, <1>5, <1>6, <1>7, <1>8, <1>9

LEMMA AcceptFailInv ==
  ASSUME Inv, accept_fail
  PROVE  Inv'
<1> USE DEF Inv, accept_fail, Goto, connVars, kernelVars, stopVars
<1>0. ThreadSet' = ThreadSet
  BY DEF ThreadSet
<1>1. TypeOK'
  <2>1. backlog' \in Int
    BY DEF TypeOK
  <2>2. pc' \in [ThreadSet -> Labels]
    BY DEF TypeOK, Labels
  <2> QED
    BY <1>0, <2>1, <2>2 DEF TypeOK
<1>2. CountInv'
  BY <1>0 DEF CountInv, TypeOK
<1>3. SocketInv'
  BY <1>0 DEF SocketInv, TypeOK
<1>4. EntryInv'
  BY <1>0 DEF EntryInv, TypeOK, Accepting
<1>5. BatchInv'
  BY <1>0 DEF BatchInv, TypeOK, Reg, Busy
<1>6. BusyInv'
  BY <1>0 DEF BusyInv, TypeOK, Reg, Busy
<1>7. TaskInv'
  BY <1>0 DEF TaskInv, TypeOK
<1>8. AcceptInv'
  BY <1>0 DEF AcceptInv, TypeOK
<1>9. AccountInv'
  BY <1>0 DEF AccountInv, TypeOK, Registered, Accepting, Closing
<1> QED
  BY <1>1, <1>2, <1>3, <1>4, <1>5, <1>6, <1>7, <1>8, <1>9

LEMMA AcceptCreateInv ==
  ASSUME Inv, accept_create
  PROVE  Inv'
<1> USE DEF Inv, accept_create, Goto, create, stopVars
<1>0. ThreadSet' = ThreadSet
  BY DEF ThreadSet
<1>00. PICK n : n = created + 1
  OBVIOUS
<1> USE <1>00
<1>01. PICK f \in Fds : /\ socket[f] = 0 /\ accepted_sd' = f
                       /\ socket' = [socket EXCEPT ![f] = n]
  OBVIOUS
<1>02. n \in Cids /\ n \notin connection_map /\ status[n] = "IDLE" /\ n # 0
  BY ConstFacts DEF CountInv, TypeOK
<1>03. /\ \A c \in connection_map : c # n
       /\ \A g \in Fds : socket[g] # n
       /\ \A v \in ThreadSet, g \in Fds : <<g, n>> \notin poll[v]
  BY <1>02 DEF SocketInv, TypeOK, EntryInv
<1>04. /\ socket'[f] = n /\ \A g \in Fds : g # f => socket'[g] = socket[g]
       /\ socket' \in [Fds -> Cids \cup {0}]
  BY <1>01, <1>02 DEF TypeOK
<1>05. /\ \A c \in Cids : c # n => home'[c] = home[c]
       /\ home' \in [Cids -> ThreadSet]
  BY <1>02, WorkerFacts DEF TypeOK
<1>06. /\ pc[listen_worker] = "accept" /\ pc'[listen_worker] = "init"
       /\ \A v \in ThreadSet : v # listen_worker => pc'[v] = pc[v]
       /\ pc' \in [ThreadSet -> Labels] /\ listen_worker \in ThreadSet
  BY WorkerFacts DEF TypeOK, Labels
<1>07. /\ created' = n /\ connection_map' = connection_map \cup {n} /\ backlog' = backlog - 1
       /\ worker_index' = next_index
       /\ UNCHANGED <<tcp_workers, clients, status, sd, failed, poll, batch, cur, tasks>>
  OBVIOUS
<1> HIDE DEF accept_create
<1>1. TypeOK'
  BY <1>0, <1>02, <1>04, <1>05, <1>06, <1>07, ConstFacts, WorkerFacts DEF TypeOK
<1>2. CountInv'
  BY <1>07, <1>02, ConstFacts DEF CountInv, TypeOK
<1>3. SocketInv'
  <2>1. \A g \in Fds : socket[g] \in Nat
    <3>1. Cids \cup {0} \subseteq Nat /\ socket \in [Fds -> Cids \cup {0}]
      BY ConstFacts DEF TypeOK
    <3> QED
      BY <3>1
  <2>2. \A g \in Fds : socket'[g] <= created'
    BY <1>04, <1>07, <2>1 DEF SocketInv, TypeOK
  <2>3. \A g, h \in Fds : socket'[g] = socket'[h] /\ socket'[g] # 0 => g = h
    BY <1>03, <1>04 DEF SocketInv
  <2> QED
    BY <2>2, <2>3 DEF SocketInv
<1>4. EntryInv'
  <2> SUFFICES ASSUME NEW w \in ThreadSet, NEW g \in Fds, NEW c \in Cids, <<g, c>> \in poll[w]
               PROVE  /\ socket'[g] = c /\ sd[c] = g /\ home'[c] = w /\ c \in connection_map'
                      /\ status[c] = "CLOSED" => cur[w] = c /\ pc'[w] = "del"
                      /\ c # n
    BY <1>0, <1>07 DEF EntryInv, Accepting
  <2>1. c # n /\ c # 0 /\ socket[g] = c
    BY <1>03, ConstFacts DEF EntryInv, Listener
  <2>2. g # f
    BY <1>01, <2>1
  <2> QED
    BY <1>04, <1>05, <1>06, <1>07, <2>1, <2>2 DEF EntryInv
<1>5. BatchInv'
  BY <1>0, <1>06, <1>07 DEF BatchInv, Reg, Busy
<1>6. BusyInv'
  <2>1. \A v \in ThreadSet : pc'[v] \in Busy => v # listen_worker /\ pc[v] = pc'[v]
    BY <1>06 DEF Busy
  <2>2. \A v \in ThreadSet : pc[v] \in Busy => cur[v] \in Cids /\ cur[v] # n /\ cur[v] # 0
    BY <1>03, BusyFacts, ConstFacts DEF Listener
  <2>3. \A v \in ThreadSet : pc[v] = "close" => sd[cur[v]] # f
    BY <1>01, <2>2 DEF BusyInv, Busy
  <2> QED
    BY <1>0, <1>04, <1>05, <1>07, <2>1, <2>2, <2>3 DEF BusyInv, Reg, Busy
<1>7. TaskInv'
  <2>1. \A v \in ThreadSet : \A c \in tasks[v] : c \in Cids /\ c # n
    BY <1>02 DEF TaskInv, TypeOK
  <2> QED
    BY <1>0, <1>04, <1>05, <1>06, <1>07, <2>1 DEF TaskInv
<1>8. AcceptInv'
  BY <1>01, <1>02, <1>04, <1>06, <1>07 DEF AcceptInv
<1>9. AccountInv'
  <2>1. \A c : Registered(c)' = Registered(c)
    BY <1>0, <1>07 DEF Registered
  <2>2. \A c : ~Accepting(c) /\ (Closing(c, {"close"}) => Closing(c, {"close"})')
               /\ (Closing(c, {"close", "post"}) => Closing(c, {"close", "post"})')
    BY <1>0, <1>06, <1>07 DEF Accepting, Closing
  <2>3. Accepting(n)'
    BY <1>06, <1>07 DEF Accepting
  <2>4. \A g \in Fds, d \in Cids : socket'[g] = d =>
          Registered(d)' \/ Accepting(d)' \/ Closing(d, {"close"})'
    BY <1>04, <2>1, <2>2, <2>3 DEF AccountInv
  <2>5. \A c \in connection_map' :
          \/ Registered(c)' \/ Accepting(c)' \/ Closing(c, {"close", "post"})' \/ c \in failed'
          \/ \E w \in ThreadSet' : c \in tasks'[w]
    BY <1>0, <1>07, <2>1, <2>2, <2>3 DEF AccountInv
  <2> QED
    BY <2>4, <2>5 DEF AccountInv
<1> QED
  BY <1>1, <1>2, <1>3, <1>4, <1>5, <1>6, <1>7, <1>8, <1>9

LEMMA InitInv ==
  ASSUME Inv, init
  PROVE  Inv'
<1> USE DEF Inv, init, Goto, listenVars, kernelVars, stopVars
<1>0. ThreadSet' = ThreadSet
  BY DEF ThreadSet
<1>01. /\ created \in Cids /\ created \in connection_map /\ created # 0 /\ accepted_sd \in Fds
       /\ socket[accepted_sd] = created /\ status[created] = "IDLE" /\ Accepting(created)
  BY ConstFacts DEF AcceptInv, TypeOK, Accepting, Listener
<1>02. /\ \A v \in ThreadSet : ~Reg(v, created)
       /\ \A v \in ThreadSet, f \in Fds : <<f, created>> \notin poll[v]
  BY <1>01, RegFacts DEF EntryInv
<1>03. \A v \in ThreadSet : pc[v] \in Busy => cur[v] # created /\ cur[v] \in Cids
  BY <1>01, BusyFacts
<1>04. /\ listen_worker \in ThreadSet
       /\ \A v \in ThreadSet : v # listen_worker => pc'[v] = pc[v]
       /\ pc' \in [ThreadSet -> Labels]
  BY WorkerFacts DEF TypeOK, Labels
<1>05. /\ sd' \in [Cids -> Fds \cup {NoFd}] /\ sd'[created] = accepted_sd
       /\ \A c \in Cids : c # created => sd'[c] = sd[c]
  BY <1>01 DEF TypeOK
<1>06. pc[listen_worker] = "init" /\ pc'[listen_worker] = "add"
  BY <1>04 DEF TypeOK
<1>1. TypeOK'
  BY <1>0, <1>04, <1>05 DEF TypeOK
<1>2. CountInv'
  BY <1>0 DEF CountInv, TypeOK
<1>3. SocketInv'
  BY <1>0 DEF SocketInv, TypeOK
<1>4. EntryInv'
  BY <1>0 DEF EntryInv, TypeOK, Accepting
<1>5. BatchInv'
  <2>1. \A v \in ThreadSet : \A c \in batch[v] \cap Cids : c # created /\ Reg(v, c)
    BY <1>02 DEF BatchInv
  <2> QED
    BY <1>0, <1>04, <1>05, <1>06, <2>1 DEF BatchInv, Reg, Busy
<1>6. BusyInv'
  <2>1. \A v \in ThreadSet : pc'[v] \in Busy => v # listen_worker /\ pc[v] = pc'[v]
    BY <1>04, <1>06 DEF Busy
  <2> QED
    BY <1>0, <1>03, <1>05, <2>1 DEF BusyInv, Reg, Busy
<1>7. TaskInv'
  BY <1>0 DEF TaskInv, TypeOK
<1>8. AcceptInv'
  BY <1>0 DEF AcceptInv, TypeOK
<1>9. AccountInv'
  BY <1>0 DEF AccountInv, TypeOK, Registered, Accepting, Closing
<1> QED
  BY <1>1, <1>2, <1>3, <1>4, <1>5, <1>6, <1>7, <1>8, <1>9

LEMMA AddEventInv ==
  ASSUME Inv, add_event
  PROVE  Inv'
<1> USE DEF Inv, add_event, Goto, listenVars, connVars, stopVars
<1>0. ThreadSet' = ThreadSet
  BY DEF ThreadSet
<1>01. /\ created \in Cids /\ created \in connection_map /\ created # 0 /\ accepted_sd \in Fds
       /\ socket[accepted_sd] = created /\ status[created] = "IDLE" /\ Accepting(created)
  BY ConstFacts DEF AcceptInv, TypeOK, Accepting, Listener
<1>02. /\ \A v \in ThreadSet : ~Reg(v, created)
       /\ \A v \in ThreadSet, f \in Fds : <<f, created>> \notin poll[v]
  BY <1>01, RegFacts DEF EntryInv
<1>03. \A v \in ThreadSet : pc[v] \in Busy => cur[v] # created /\ cur[v] \in Cids
  BY <1>01, BusyFacts
<1>04. /\ listen_worker \in ThreadSet
       /\ \A v \in ThreadSet : v # listen_worker => pc'[v] = pc[v]
       /\ pc' \in [ThreadSet -> Labels]
  BY WorkerFacts DEF TypeOK, Labels
<1>05. /\ sd[created] = accepted_sd /\ home[created] \in ThreadSet
       /\ pc[listen_worker] = "add" /\ pc'[listen_worker] = "batch"
  BY <1>01, <1>04 DEF AcceptInv, TypeOK
<1>06. \A v \in ThreadSet, f \in Fds, c \in Cids : <<f, c>> \in poll'[v] <=>
         <<f, c>> \in poll[v] \/ (f = accepted_sd /\ c = created /\ v = home[created])
  BY <1>05 DEF TypeOK
<1>07. poll' \in [ThreadSet -> SUBSET (Fds \X Cids)]
  BY <1>01, <1>05 DEF TypeOK
<1>08. UNCHANGED <<tcp_workers, clients, backlog, worker_index, created, accepted_sd, connection_map,
                   status, sd, home, failed, socket, batch, cur, tasks>>
  OBVIOUS
<1>09. \A v \in ThreadSet, c \in Cids : Reg(v, c) => Reg(v, c)'
  BY <1>05, <1>08 DEF Reg, TypeOK
<1> HIDE DEF add_event
<1>1. TypeOK'
  BY <1>0, <1>04, <1>07, <1>08 DEF TypeOK
<1>2. CountInv'
  BY <1>08 DEF CountInv
<1>3. SocketInv'
  BY <1>08 DEF SocketInv
<1>4. EntryInv'
  BY <1>0, <1>01, <1>04, <1>05, <1>06, <1>08 DEF EntryInv, Accepting
<1>5. BatchInv'
  BY <1>0, <1>04, <1>05, <1>08, <1>09 DEF BatchInv, Busy
<1>6. BusyInv'
  <2>1. \A v \in ThreadSet : pc'[v] \in Busy => v # listen_worker /\ pc[v] = pc'[v]
    BY <1>04, <1>05 DEF Busy
  <2>2. \A v \in ThreadSet : pc[v] = "close" => ~Reg(v, cur[v])'
    BY <1>03, <1>06, <1>08 DEF BusyInv, Reg, Busy
  <2> QED
    BY <1>0, <1>03, <1>08, <1>09, <2>1, <2>2 DEF BusyInv, Busy
<1>7. TaskInv'
  BY <1>0, <1>04, <1>05, <1>08 DEF TaskInv
<1>8. AcceptInv'
  BY <1>05, <1>08 DEF AcceptInv
<1>9. AccountInv'
  <2>1. \A c \in Cids : Registered(c) => Registered(c)'
    BY <1>0, <1>09 DEF Registered, Reg
  <2>2. \A c : /\ Accepting(c) => c = created
               /\ Closing(c, {"close"}) => Closing(c, {"close"})'
               /\ Closing(c, {"close", "post"}) => Closing(c, {"close", "post"})'
    BY <1>0, <1>04, <1>05, <1>08 DEF Accepting, Closing
  <2>3. Registered(created)'
    BY <1>0, <1>01, <1>05, <1>06, <1>08 DEF Registered
  <2>4. \A g \in Fds : socket[g] \in Cids \cup {0}
    BY DEF TypeOK
  <2>5. \A g \in Fds, d \in Cids : socket'[g] = d =>
          Registered(d)' \/ Accepting(d)' \/ Closing(d, {"close"})'
    BY <1>08, <2>1, <2>2, <2>3, <2>4 DEF AccountInv
  <2>6. \A c \in connection_map' :
          \/ Registered(c)' \/ Accepting(c)' \/ Closing(c, {"close", "post"})' \/ c \in failed'
          \/ \E w \in ThreadSet' : c \in tasks'[w]
    BY <1>0, <1>08, <2>1, <2>2, <2>3 DEF AccountInv, TypeOK
  <2> QED
    BY <2>5, <2>6 DEF AccountInv
<1> QED
  BY <1>1, <1>2, <1>3, <1>4, <1>5, <1>6, <1>7, <1>8, <1>9

LEMMA AddEventFailInv ==
  ASSUME Inv, add_event_fail
  PROVE  Inv'
<1> USE DEF Inv, add_event_fail, Goto, CloseFd, listenVars, stopVars
<1>0. ThreadSet' = ThreadSet
  BY DEF ThreadSet
<1>01. /\ created \in Cids /\ created \in connection_map /\ created # 0 /\ accepted_sd \in Fds
       /\ socket[accepted_sd] = created /\ status[created] = "IDLE" /\ Accepting(created)
  BY ConstFacts DEF AcceptInv, TypeOK, Accepting, Listener
<1>02. /\ \A v \in ThreadSet : ~Reg(v, created)
       /\ \A v \in ThreadSet, f \in Fds : <<f, created>> \notin poll[v]
  BY <1>01, RegFacts DEF EntryInv
<1>03. \A v \in ThreadSet : pc[v] \in Busy => cur[v] # created /\ cur[v] \in Cids
  BY <1>01, BusyFacts
<1>04. /\ listen_worker \in ThreadSet
       /\ \A v \in ThreadSet : v # listen_worker => pc'[v] = pc[v]
       /\ pc' \in [ThreadSet -> Labels]
  BY WorkerFacts DEF TypeOK, Labels
<1>05. pc[listen_worker] = "add" /\ pc'[listen_worker] = "batch"
  BY <1>04 DEF TypeOK
<1>06. /\ socket'[accepted_sd] = 0 /\ \A g \in Fds : g # accepted_sd => socket'[g] = socket[g]
       /\ socket' \in [Fds -> Cids \cup {0}]
  BY <1>01 DEF TypeOK
<1>07. \A v \in ThreadSet : \A e \in poll[v] : e[1] # accepted_sd
  <2> SUFFICES ASSUME NEW v \in ThreadSet, NEW e \in poll[v], e[1] = accepted_sd PROVE FALSE
    OBVIOUS
  <2>1. e = <<e[1], e[2]>> /\ e[2] \in Cids
    BY DEF TypeOK
  <2>2. socket[accepted_sd] = e[2]
    BY <1>01, <2>1 DEF EntryInv
  <2> QED
    BY <1>01, <1>02, <2>1, <2>2
<1>08. poll' = poll
  BY <1>07 DEF TypeOK
<1>09. /\ UNCHANGED <<tcp_workers, clients, backlog, worker_index, created, accepted_sd,
                      connection_map, status, sd, home, batch, cur, tasks>>
       /\ failed' = failed \cup {created}
  OBVIOUS
<1>10. \A g \in Fds : socket[g] = created => g = accepted_sd
  BY <1>01 DEF SocketInv
<1> HIDE DEF add_event_fail
<1>1. TypeOK'
  BY <1>0, <1>04, <1>06, <1>08, <1>09 DEF TypeOK
<1>2. CountInv'
  BY <1>09 DEF CountInv
<1>3. SocketInv'
  BY <1>01, <1>06, <1>09, ConstFacts DEF SocketInv, TypeOK
<1>4. EntryInv'
  BY <1>0, <1>01, <1>02, <1>04, <1>05, <1>06, <1>08, <1>09 DEF EntryInv, Accepting
<1>5. BatchInv'
  BY <1>0, <1>04, <1>05, <1>08, <1>09 DEF BatchInv, Reg, Busy
<1>6. BusyInv'
  <2>1. \A v \in ThreadSet : pc'[v] \in Busy => v # listen_worker /\ pc[v] = pc'[v]
    BY <1>04, <1>05 DEF Busy
  <2>2. \A v \in ThreadSet : pc[v] = "close" => sd[cur[v]] # accepted_sd
    BY <1>01, <1>03 DEF BusyInv, Busy
  <2>3. \A v \in ThreadSet : pc[v] \in Busy => cur[v] # 0
    BY <1>03, ConstFacts DEF Listener
  <2> QED
    BY <1>0, <1>03, <1>06, <1>08, <1>09, <2>1, <2>2, <2>3 DEF BusyInv, Reg, Busy
<1>7. TaskInv'
  <2>1. \A v \in ThreadSet : \A c \in tasks[v] : c # 0
    BY ConstFacts DEF TypeOK, Listener
  <2> QED
    BY <1>0, <1>04, <1>05, <1>06, <1>09, <2>1 DEF TaskInv
<1>8. AcceptInv'
  BY <1>05 DEF AcceptInv
<1>9. AccountInv'
  <2>1. \A c : Registered(c) = Registered(c)'
    BY <1>0, <1>08, <1>09 DEF Registered
  <2>2. \A c : /\ Accepting(c) => c = created
               /\ Closing(c, {"close"}) => Closing(c, {"close"})'
               /\ Closing(c, {"close", "post"}) => Closing(c, {"close", "post"})'
    BY <1>0, <1>04, <1>05, <1>09 DEF Accepting, Closing
  <2>3. \A g \in Fds, d \in Cids : socket'[g] = d =>
          Registered(d)' \/ Accepting(d)' \/ Closing(d, {"close"})'
    BY <1>06, <1>10, <2>1, <2>2, ConstFacts DEF AccountInv
  <2>4. \A c \in connection_map' :
          \/ Registered(c)' \/ Accepting(c)' \/ Closing(c, {"close", "post"})' \/ c \in failed'
          \/ \E w \in ThreadSet' : c \in tasks'[w]
    BY <1>0, <1>09, <2>1, <2>2 DEF AccountInv
  <2> QED
    BY <2>3, <2>4 DEF AccountInv
<1> QED
  BY <1>1, <1>2, <1>3, <1>4, <1>5, <1>6, <1>7, <1>8, <1>9

LEMMA ProcessEventInv ==
  ASSUME Inv, NEW w \in ThreadSet, process_event(w)
  PROVE  Inv'
<1> USE DEF Inv, process_event, Goto, listenVars, stopVars
<1>0. ThreadSet' = ThreadSet
  BY DEF ThreadSet
<1>00. PICK c : c = cur[w]
  OBVIOUS
<1> USE <1>00
<1>01. /\ c \in Cids /\ c \in connection_map /\ home[c] = w /\ c <= created /\ ~Accepting(c)
       /\ c # 0 /\ pc[w] = "event"
  BY BusyFacts, ConstFacts DEF Busy, Listener
<1>02. \A v \in ThreadSet : v # w /\ pc[v] \in Busy => cur[v] # c
  BY <1>01, BusyFacts
<1>03. /\ listen_worker \in ThreadSet
       /\ pc[listen_worker] \in {"init", "add"} \/ pc'[listen_worker] \in {"init", "add"}
            => pc'[listen_worker] = pc[listen_worker]
       /\ \A v \in ThreadSet : v # w => pc'[v] = pc[v]
       /\ pc'[w] \in {"batch", "del"}
  BY <1>01, WorkerFacts DEF TypeOK
<1>04. /\ \A d \in Cids : d # c => status'[d] = status[d]
       /\ \/ status'[c] = "OPEN" /\ pc'[w] = "batch"
          \/ status'[c] = "CLOSED" /\ pc'[w] = "del"
  BY <1>01 DEF TypeOK
<1>05. UNCHANGED <<created, accepted_sd, clients, backlog, sd, home, connection_map, failed, socket,
                   poll, batch, cur, tasks>>
  OBVIOUS
<1>1. TypeOK'
  <2>1. status' \in [Cids -> {"IDLE", "OPEN", "CLOSING", "CLOSED"}]
    BY DEF TypeOK
  <2>2. pc' \in [ThreadSet -> Labels]
    BY DEF TypeOK, Labels
  <2> QED
    BY <1>0, <2>1, <2>2 DEF TypeOK
<1>2. CountInv'
  BY <1>01, <1>04, <1>05, ConstFacts DEF CountInv, TypeOK
<1>3. SocketInv'
  BY <1>0 DEF SocketInv, TypeOK
<1>4. EntryInv'
  <2> HIDE DEF process_event
  <2>1. \A d : Accepting(d)' <=> Accepting(d)
    BY <1>03, <1>05 DEF Accepting
  <2>2. \A f \in Fds, d \in Cids :
          <<f, d>> \in poll[w] /\ status'[d] = "CLOSED" => d = c /\ pc'[w] = "del"
    BY <1>01, <1>04 DEF EntryInv
  <2>3. \A v \in ThreadSet, f \in Fds : <<f, c>> \in poll[v] => v = w
    BY <1>01 DEF EntryInv
  <2> QED
    BY <1>0, <1>03, <1>04, <1>05, <2>1, <2>2, <2>3 DEF EntryInv
<1>5. BatchInv'
  BY <1>0 DEF BatchInv, TypeOK, Reg, Busy
<1>6. BusyInv'
  <2>1. \A v \in ThreadSet : pc[v] \in Busy => cur[v] \in Cids
    BY BusyFacts
  <2>2. Reg(w, c)
    BY <1>01 DEF BusyInv
  <2>3. \A v \in ThreadSet : v # w /\ pc[v] \in Busy => status'[cur[v]] = status[cur[v]]
    BY <1>02, <1>04, <2>1
  <2> HIDE DEF process_event
  <2> QED
    BY <1>0, <1>01, <1>03, <1>04, <1>05, <2>2, <2>3 DEF BusyInv, Reg, Busy
<1>7. TaskInv'
  BY <1>0 DEF TaskInv, TypeOK
<1>8. AcceptInv'
  <2> HIDE DEF process_event
  <2>1. pc[listen_worker] \in {"init", "add"} => created # c /\ created \in Cids
    BY <1>01 DEF Accepting, AcceptInv, TypeOK
  <2> QED
    BY <1>03, <1>04, <1>05, <2>1 DEF AcceptInv
<1>9. AccountInv'
  <2> HIDE DEF process_event
  <2>1. \A d : Accepting(d)' <=> Accepting(d)
    BY <1>03, <1>05 DEF Accepting
  <2>2. \A d : Registered(d)' <=> Registered(d)
    BY <1>0, <1>05 DEF Registered
  <2>3. \A d : /\ Closing(d, {"close"}) => Closing(d, {"close"})'
               /\ Closing(d, {"close", "post"}) => Closing(d, {"close", "post"})'
    BY <1>0, <1>01, <1>03, <1>05 DEF Closing
  <2>4. \A g \in Fds, d \in Cids : socket'[g] = d =>
          Registered(d)' \/ Accepting(d)' \/ Closing(d, {"close"})'
    BY <1>05, <2>1, <2>2, <2>3 DEF AccountInv
  <2>5. \A d \in connection_map' :
          \/ Registered(d)' \/ Accepting(d)' \/ Closing(d, {"close", "post"})' \/ d \in failed'
          \/ \E v \in ThreadSet' : d \in tasks'[v]
    BY <1>0, <1>05, <2>1, <2>2, <2>3 DEF AccountInv, TypeOK
  <2> QED
    BY <2>4, <2>5 DEF AccountInv
<1> QED
  BY <1>1, <1>2, <1>3, <1>4, <1>5, <1>6, <1>7, <1>8, <1>9

LEMMA DoCloseDelInv ==
  ASSUME Inv, NEW w \in ThreadSet, do_close_del(w)
  PROVE  Inv'
<1> USE DEF Inv, do_close_del, Goto, listenVars, connVars, stopVars
<1>0. ThreadSet' = ThreadSet
  BY DEF ThreadSet
<1>00. PICK c : c = cur[w]
  OBVIOUS
<1> USE <1>00
<1>01. /\ c \in Cids /\ c \in connection_map /\ home[c] = w /\ c <= created /\ ~Accepting(c)
       /\ c # 0 /\ pc[w] = "del"
  BY BusyFacts, ConstFacts DEF Busy, Listener
<1>02. \A v \in ThreadSet : v # w /\ pc[v] \in Busy => cur[v] # c
  BY <1>01, BusyFacts
<1>03. /\ listen_worker \in ThreadSet
       /\ pc[listen_worker] \in {"init", "add"} \/ pc'[listen_worker] \in {"init", "add"}
            => pc'[listen_worker] = pc[listen_worker]
       /\ \A v \in ThreadSet : v # w => pc'[v] = pc[v]
       /\ pc'[w] = "close"
  BY <1>01, WorkerFacts DEF TypeOK
<1>04. \A v \in ThreadSet, f \in Fds, d \in Cids :
         <<f, d>> \in poll'[v] <=> <<f, d>> \in poll[v] /\ d # c
  <2>1. sd[c] \in Fds /\ <<sd[c], c>> \in poll[w]
    BY <1>01, RegFacts DEF BusyInv, Reg
  <2>2. \A f \in Fds, d \in Cids : <<f, d>> \in poll[w] => (f = sd[c] <=> d = c)
    BY <1>01, <2>1 DEF EntryInv
  <2>3. \A v \in ThreadSet, f \in Fds : <<f, c>> \in poll[v] => v = w
    BY <1>01 DEF EntryInv
  <2> QED
    BY <1>01, <2>2, <2>3 DEF TypeOK
<1>05. UNCHANGED <<created, accepted_sd, clients, backlog, sd, home, connection_map, failed, socket,
                   status, batch, cur, tasks>>
  OBVIOUS
<1>06. \A v \in ThreadSet, d \in Cids : Reg(v, d)' <=> Reg(v, d) /\ d # c
  <2>1. \A v \in ThreadSet, d \in Cids : Reg(v, d)' \/ Reg(v, d) => sd[d] \in Fds
    BY <1>05 DEF TypeOK, Reg
  <2> QED
    BY <1>04, <1>05, <2>1 DEF Reg
<1>1. TypeOK'
  BY <1>0 DEF TypeOK, Labels, Cids
<1>2. CountInv'
  BY <1>0 DEF CountInv, TypeOK
<1>3. SocketInv'
  BY <1>0 DEF SocketInv, TypeOK
<1>4. EntryInv'
  BY <1>0 DEF EntryInv, TypeOK, Accepting
<1>5. BatchInv'
  <2> HIDE DEF do_close_del
  <2>1. \A v \in ThreadSet : c \notin batch[v]
    <3>1. \A v \in ThreadSet : c \in batch[v] => Reg(v, c)
      BY <1>01 DEF BatchInv
    <3> QED
      BY <1>01, <3>1, RegFacts DEF BatchInv, Busy
  <2> QED
    BY <1>0, <1>03, <1>05, <1>06, <2>1 DEF BatchInv, Busy
<1>6. BusyInv'
  <2> HIDE DEF do_close_del
  <2>1. sd[c] \in Fds /\ socket[sd[c]] = c /\ status[c] = "CLOSED"
    BY <1>01, RegFacts DEF BusyInv
  <2>2. \A v \in ThreadSet : v # w /\ pc[v] \in Busy => cur[v] \in Cids
    BY BusyFacts
  <2>3. \A v \in ThreadSet : v # w /\ pc[v] \in Busy => (Reg(v, cur[v])' <=> Reg(v, cur[v]))
    BY <1>02, <1>05, <1>06, <2>2 DEF Reg
  <2>4. ~Reg(w, c)'
    BY <1>01, <1>06
  <2> QED
    BY <1>0, <1>01, <1>03, <1>05, <2>1, <2>3, <2>4 DEF BusyInv, Busy
<1>7. TaskInv'
  BY <1>0 DEF TaskInv, TypeOK
<1>8. AcceptInv'
  BY <1>0 DEF AcceptInv, TypeOK
<1>9. AccountInv'
  <2> HIDE DEF do_close_del
  <2>1. \A d : Accepting(d)' <=> Accepting(d)
    BY <1>03, <1>05 DEF Accepting
  <2>2. \A d \in Cids : Registered(d) /\ d # c => Registered(d)'
    BY <1>0, <1>06 DEF Registered, Reg
  <2>3. \A d : /\ Closing(d, {"close"}) \/ d = c => Closing(d, {"close"})'
               /\ Closing(d, {"close", "post"}) \/ d = c => Closing(d, {"close", "post"})'
    BY <1>0, <1>01, <1>03, <1>05 DEF Closing
  <2>6. \A g \in Fds : socket[g] \in Cids \cup {0}
    BY DEF TypeOK
  <2>4. \A g \in Fds, d \in Cids : socket'[g] = d =>
          Registered(d)' \/ Accepting(d)' \/ Closing(d, {"close"})'
    BY <1>05, <2>1, <2>2, <2>3, <2>6 DEF AccountInv
  <2>5. \A d \in connection_map' :
          \/ Registered(d)' \/ Accepting(d)' \/ Closing(d, {"close", "post"})' \/ d \in failed'
          \/ \E v \in ThreadSet' : d \in tasks'[v]
    BY <1>0, <1>05, <2>1, <2>2, <2>3 DEF AccountInv, TypeOK
  <2> QED
    BY <2>4, <2>5 DEF AccountInv
<1> QED
  BY <1>1, <1>2, <1>3, <1>4, <1>5, <1>6, <1>7, <1>8, <1>9

LEMMA DoCloseFdInv ==
  ASSUME Inv, NEW w \in ThreadSet, do_close_fd(w)
  PROVE  Inv'
<1> USE DEF Inv, do_close_fd, Goto, CloseFd, listenVars, connVars, stopVars
<1>0. ThreadSet' = ThreadSet
  BY DEF ThreadSet
<1>00. PICK c : c = cur[w]
  OBVIOUS
<1> USE <1>00
<1>01. /\ c \in Cids /\ c \in connection_map /\ home[c] = w /\ c <= created /\ ~Accepting(c)
       /\ c # 0 /\ pc[w] = "close"
  BY BusyFacts, ConstFacts DEF Busy, Listener
<1>02. \A v \in ThreadSet : v # w /\ pc[v] \in Busy => cur[v] # c
  BY <1>01, BusyFacts
<1>03. /\ listen_worker \in ThreadSet
       /\ pc[listen_worker] \in {"init", "add"} \/ pc'[listen_worker] \in {"init", "add"}
            => pc'[listen_worker] = pc[listen_worker]
       /\ \A v \in ThreadSet : v # w => pc'[v] = pc[v]
       /\ pc'[w] = "post"
  BY <1>01, WorkerFacts DEF TypeOK
<1>04. sd[c] \in Fds /\ socket[sd[c]] = c /\ ~Reg(w, c) /\ status[c] = "CLOSED"
  BY <1>01 DEF BusyInv
<1>05. /\ UNCHANGED <<created, accepted_sd, clients, backlog, sd, home, connection_map, failed,
                      status, batch, cur, tasks>>
       /\ poll' = [v \in ThreadSet |-> {e \in poll[v] : e[1] # sd[c]}]
       /\ socket' = [socket EXCEPT ![sd[c]] = 0]
  OBVIOUS
<1>06. poll' = poll
  <2>1. ASSUME NEW v \in ThreadSet, NEW e \in poll[v], e[1] = sd[c] PROVE FALSE
    <3>1. e = <<sd[c], e[2]>> /\ e[2] \in Cids
      BY <2>1 DEF TypeOK
    <3>2. e[2] = c /\ v = w
      BY <1>01, <1>04, <3>1 DEF EntryInv
    <3> QED
      BY <1>04, <3>1, <3>2 DEF Reg
  <2> QED
    BY <1>05, <2>1 DEF TypeOK
<1>07. /\ socket'[sd[c]] = 0 /\ \A g \in Fds : g # sd[c] => socket'[g] = socket[g]
       /\ \A g \in Fds : socket'[g] # c
  BY <1>01, <1>04, <1>05 DEF TypeOK, SocketInv
<1>1. TypeOK'
  BY <1>0 DEF TypeOK, Labels, Cids
<1>2. CountInv'
  BY <1>0 DEF CountInv, TypeOK
<1>3. SocketInv'
  BY <1>0 DEF SocketInv, TypeOK
<1>4. EntryInv'
  BY <1>0 DEF EntryInv, TypeOK, Accepting
<1>5. BatchInv'
  BY <1>0, <1>03, <1>05, <1>06 DEF BatchInv, Reg, Busy
<1>6. BusyInv'
  <2> HIDE DEF do_close_fd, CloseFd
  <2>1. \A v \in ThreadSet : v # w /\ pc[v] \in Busy => cur[v] \in Cids /\ cur[v] # c /\ cur[v] # 0
    BY <1>02, BusyFacts, ConstFacts DEF Listener
  <2>2. \A v \in ThreadSet : v # w /\ pc[v] = "close" => sd[cur[v]] # sd[c]
    BY <1>04, <2>1 DEF BusyInv, Busy
  <2> QED
    BY <1>0, <1>01, <1>03, <1>04, <1>05, <1>06, <1>07, <2>1, <2>2 DEF BusyInv, Reg, Busy
<1>7. TaskInv'
  <2> HIDE DEF do_close_fd, CloseFd
  <2>1. \A v \in ThreadSet : \A d \in tasks[v] : d # 0 /\ d # c
    <3> SUFFICES ASSUME NEW v \in ThreadSet, NEW d \in tasks[v] PROVE d # 0 /\ d # c
      OBVIOUS
    <3>1. d \in Cids
      BY DEF TypeOK
    <3>2. \A f \in Fds : socket[f] # d
      BY DEF TaskInv
    <3> QED
      BY <1>04, <3>1, <3>2, ConstFacts
  <2> QED
    BY <1>0, <1>03, <1>05, <1>07, <2>1 DEF TaskInv
<1>8. AcceptInv'
  <2> HIDE DEF do_close_fd, CloseFd
  <2>1. pc[listen_worker] \in {"init", "add"} => accepted_sd # sd[c]
    BY <1>01, <1>04 DEF AcceptInv, Accepting
  <2> QED
    BY <1>03, <1>05, <1>07, <2>1 DEF AcceptInv
<1>9. AccountInv'
  <2> HIDE DEF do_close_fd, CloseFd
  <2>1. \A d : Accepting(d)' <=> Accepting(d)
    BY <1>03, <1>05 DEF Accepting
  <2>2. \A d : Registered(d)' <=> Registered(d)
    BY <1>0, <1>05, <1>06 DEF Registered
  <2>3. \A d : /\ Closing(d, {"close"}) /\ d # c => Closing(d, {"close"})'
               /\ Closing(d, {"close", "post"}) => Closing(d, {"close", "post"})'
    BY <1>0, <1>01, <1>03, <1>05 DEF Closing
  <2>4. \A g \in Fds, d \in Cids : socket'[g] = d =>
          Registered(d)' \/ Accepting(d)' \/ Closing(d, {"close"})'
    BY <1>05, <2>1, <2>2, <2>3, <1>07, ConstFacts DEF AccountInv
  <2>5. \A d \in connection_map' :
          \/ Registered(d)' \/ Accepting(d)' \/ Closing(d, {"close", "post"})' \/ d \in failed'
          \/ \E v \in ThreadSet' : d \in tasks'[v]
    BY <1>0, <1>05, <2>1, <2>2, <2>3 DEF AccountInv, TypeOK
  <2> QED
    BY <2>4, <2>5 DEF AccountInv
<1> QED
  BY <1>1, <1>2, <1>3, <1>4, <1>5, <1>6, <1>7, <1>8, <1>9

LEMMA DoClosePostInv ==
  ASSUME Inv, NEW w \in ThreadSet, do_close_post(w)
  PROVE  Inv'
<1> USE DEF Inv, do_close_post, Goto, listenVars, kernelVars, stopVars
<1>0. ThreadSet' = ThreadSet
  BY DEF ThreadSet
<1>00. PICK c : c = cur[w]
  OBVIOUS
<1> USE <1>00
<1>01. /\ c \in Cids /\ c \in connection_map /\ home[c] = w /\ c <= created /\ ~Accepting(c)
       /\ c # 0 /\ pc[w] = "post"
  BY BusyFacts, ConstFacts DEF Busy, Listener
<1>02. \A v \in ThreadSet : v # w /\ pc[v] \in Busy => cur[v] # c
  BY <1>01, BusyFacts
<1>03. /\ listen_worker \in ThreadSet
       /\ pc[listen_worker] \in {"init", "add"} \/ pc'[listen_worker] \in {"init", "add"}
            => pc'[listen_worker] = pc[listen_worker]
       /\ \A v \in ThreadSet : v # w => pc'[v] = pc[v]
       /\ pc'[w] = "batch"
  BY <1>01, WorkerFacts DEF TypeOK
<1>04. status[c] = "CLOSED" /\ \A f \in Fds : socket[f] # c
  BY <1>01 DEF BusyInv
<1>05. UNCHANGED <<created, accepted_sd, clients, backlog, poll, home, connection_map, failed, socket,
                   status, batch, cur>>
  OBVIOUS
<1>06. \A v \in ThreadSet, f \in Fds : <<f, c>> \notin poll[v]
  BY <1>01, <1>04 DEF EntryInv
<1>07. /\ sd' \in [Cids -> Fds \cup {NoFd}]
       /\ \A d \in Cids : d # c => sd'[d] = sd[d]
  BY <1>01 DEF TypeOK
<1>08. /\ tasks' \in [ThreadSet -> SUBSET Cids]
       /\ tasks'[w] = tasks[w] \cup {c} /\ \A v \in ThreadSet : v # w => tasks'[v] = tasks[v]
  BY <1>01 DEF TypeOK
<1>09. \A v \in ThreadSet, d \in Cids : d # c => (Reg(v, d)' <=> Reg(v, d))
  BY <1>05, <1>07 DEF Reg
<1>10. \A v \in ThreadSet : ~Reg(v, c)
  BY <1>01, <1>04, RegFacts
<1>1. TypeOK'
  BY <1>0, <1>07, <1>08 DEF TypeOK, Labels
<1>2. CountInv'
  BY <1>0 DEF CountInv, TypeOK
<1>3. SocketInv'
  BY <1>0 DEF SocketInv, TypeOK
<1>4. EntryInv'
  <2> HIDE DEF do_close_post
  <2>1. \A d : Accepting(d)' <=> Accepting(d)
    BY <1>03, <1>05 DEF Accepting
  <2>2. \A f \in Fds, d \in Cids : <<f, d>> \in poll[w] => status[d] # "CLOSED"
    BY <1>01 DEF EntryInv
  <2> QED
    BY <1>0, <1>03, <1>05, <1>06, <1>07, <2>1, <2>2 DEF EntryInv
<1>5. BatchInv'
  <2> HIDE DEF do_close_post
  <2>1. \A v \in ThreadSet : \A d \in batch[v] \cap Cids : d # c
    BY <1>10 DEF BatchInv
  <2> QED
    BY <1>0, <1>03, <1>05, <1>09, <2>1 DEF BatchInv, Busy
<1>6. BusyInv'
  <2> HIDE DEF do_close_post
  <2>1. \A v \in ThreadSet : v # w /\ pc[v] \in Busy => cur[v] \in Cids /\ cur[v] # c
    BY <1>02, BusyFacts
  <2>2. \A v \in ThreadSet : v # w /\ pc[v] \in Busy =>
          sd'[cur[v]] = sd[cur[v]] /\ (Reg(v, cur[v])' <=> Reg(v, cur[v]))
    BY <1>05, <1>07, <1>09, <2>1 DEF Reg
  <2> QED
    BY <1>0, <1>03, <1>05, <2>2 DEF BusyInv, Busy
<1>7. TaskInv'
  <2> HIDE DEF do_close_post
  <2> QED
    BY <1>0, <1>01, <1>03, <1>04, <1>05, <1>08 DEF TaskInv
<1>8. AcceptInv'
  <2> HIDE DEF do_close_post
  <2>1. pc[listen_worker] \in {"init", "add"} => created # c /\ created \in Cids
    BY <1>01 DEF Accepting, AcceptInv, TypeOK
  <2> QED
    BY <1>03, <1>05, <1>07, <2>1 DEF AcceptInv
<1>9. AccountInv'
  <2> HIDE DEF do_close_post
  <2>1. \A d : Accepting(d)' <=> Accepting(d)
    BY <1>03, <1>05 DEF Accepting
  <2>2. \A d \in Cids : d # c => (Registered(d)' <=> Registered(d))
    BY <1>0, <1>09 DEF Registered, Reg
  <2>3. \A d : /\ Closing(d, {"close"}) => Closing(d, {"close"})'
               /\ Closing(d, {"close", "post"}) /\ d # c => Closing(d, {"close", "post"})'
    BY <1>0, <1>01, <1>03, <1>05 DEF Closing
  <2>6. \A g \in Fds : socket[g] \in Cids \cup {0}
    BY DEF TypeOK
  <2>4. \A g \in Fds, d \in Cids : socket'[g] = d =>
          Registered(d)' \/ Accepting(d)' \/ Closing(d, {"close"})'
    BY <1>05, <2>1, <2>2, <2>3, <1>04, <2>6 DEF AccountInv
  <2>5. \A d \in connection_map' :
          \/ Registered(d)' \/ Accepting(d)' \/ Closing(d, {"close", "post"})' \/ d \in failed'
          \/ \E v \in ThreadSet' : d \in tasks'[v]
    BY <1>0, <1>05, <2>1, <2>2, <2>3, <1>08 DEF AccountInv, TypeOK
  <2> QED
    BY <2>4, <2>5 DEF AccountInv
<1> QED
  BY <1>1, <1>2, <1>3, <1>4, <1>5, <1>6, <1>7, <1>8, <1>9

LEMMA BroadcastInv ==
  ASSUME Inv, broadcast
  PROVE  Inv'
<1> USE DEF Inv, broadcast, listenVars, stopVars
<1>0. ThreadSet' = ThreadSet
  BY DEF ThreadSet
<1>01. \A c \in Cids : (status'[c] = "CLOSED" <=> status[c] = "CLOSED")
  BY DEF TypeOK
<1>02. UNCHANGED <<connection_map, home, sd, socket, poll, pc, cur>>
  OBVIOUS
<1>1. TypeOK'
  BY <1>0 DEF TypeOK, Labels, Cids
<1>2. CountInv'
  BY <1>0 DEF CountInv, TypeOK
<1>3. SocketInv'
  BY <1>0 DEF SocketInv, TypeOK
<1>4. EntryInv'
  BY <1>0 DEF EntryInv, TypeOK, Accepting
<1>5. BatchInv'
  BY <1>0 DEF BatchInv, TypeOK, Reg, Busy
<1>6. BusyInv'
  <2>1. \A v \in ThreadSet : pc[v] \in Busy => cur[v] \in Cids
    BY BusyFacts
  <2> HIDE DEF broadcast
  <2> QED
    BY <1>0, <1>01, <1>02, <2>1 DEF BusyInv, Reg, Busy
<1>7. TaskInv'
  BY <1>0 DEF TaskInv, TypeOK
<1>8. AcceptInv'
  BY <1>0 DEF AcceptInv, TypeOK
<1>9. AccountInv'
  BY <1>0 DEF AccountInv, TypeOK, Registered, Accepting, Closing
<1> QED
  BY <1>1, <1>2, <1>3, <1>4, <1>5, <1>6, <1>7, <1>8, <1>9

LEMMA StopInv ==
  ASSUME Inv, stop
  PROVE  Inv'
<1> USE DEF Inv, stop, listenVars, connVars, kernelVars
<1>0. ThreadSet' = ThreadSet
  BY DEF ThreadSet
<1>1. TypeOK'
  BY <1>0 DEF TypeOK, Labels, Cids
<1>2. CountInv'
  BY <1>0 DEF CountInv, TypeOK
<1>3. SocketInv'
  BY <1>0 DEF SocketInv, TypeOK
<1>4. EntryInv'
  BY <1>0 DEF EntryInv, TypeOK, Accepting
<1>5. BatchInv'
  BY <1>0 DEF BatchInv, TypeOK, Reg, Busy
<1>6. BusyInv'
  BY <1>0 DEF BusyInv, TypeOK, Reg, Busy
<1>7. TaskInv'
  BY <1>0 DEF TaskInv, TypeOK
<1>8. AcceptInv'
  BY <1>0 DEF AcceptInv, TypeOK
<1>9. AccountInv'
  BY <1>0 DEF AccountInv, TypeOK, Registered, Accepting, Closing
<1> QED
  BY <1>1, <1>2, <1>3, <1>4, <1>5, <1>6, <1>7, <1>8, <1>9

LEMMA JoinInv ==
  ASSUME Inv, join
  PROVE  Inv'
<1> USE DEF Inv, join, listenVars, connVars, kernelVars
<1>0. ThreadSet' = ThreadSet
  BY DEF ThreadSet
<1>1. TypeOK'
  BY <1>0 DEF TypeOK, Labels, Cids
<1>2. CountInv'
  BY <1>0 DEF CountInv, TypeOK
<1>3. SocketInv'
  BY <1>0 DEF SocketInv, TypeOK
<1>4. EntryInv'
  BY <1>0 DEF EntryInv, TypeOK, Accepting
<1>5. BatchInv'
  BY <1>0 DEF BatchInv, TypeOK, Reg, Busy
<1>6. BusyInv'
  BY <1>0 DEF BusyInv, TypeOK, Reg, Busy
<1>7. TaskInv'
  BY <1>0 DEF TaskInv, TypeOK
<1>8. AcceptInv'
  BY <1>0 DEF AcceptInv, TypeOK
<1>9. AccountInv'
  <2>1. UNCHANGED <<socket, poll, sd, created, pc, cur, connection_map, failed, tasks>>
    OBVIOUS
  <2> HIDE DEF join
  <2> QED
    BY <1>0, <2>1 DEF AccountInv, Registered, Accepting, Closing
<1> QED
  BY <1>1, <1>2, <1>3, <1>4, <1>5, <1>6, <1>7, <1>8, <1>9
LEMMA StutterInv ==
  ASSUME Inv, UNCHANGED vars
  PROVE  Inv'
<1> USE DEF Inv, vars
<1>0. ThreadSet' = ThreadSet
  BY DEF ThreadSet
<1>1. TypeOK' /\ CountInv' /\ SocketInv' /\ AcceptInv'
  BY <1>0 DEF TypeOK, CountInv, SocketInv, AcceptInv
<1>2. EntryInv'
  BY <1>0 DEF EntryInv, Accepting
<1>3. BatchInv' /\ BusyInv' /\ TaskInv'
  BY <1>0 DEF BatchInv, BusyInv, TaskInv, Reg
<1>4. AccountInv'
  BY <1>0 DEF AccountInv, Registered, Accepting, Closing
<1> QED
  BY <1>1, <1>2, <1>3, <1>4

LEMMA NextInv == Inv /\ [Next]_vars => Inv'
<1> SUFFICES ASSUME Inv, [Next]_vars PROVE Inv'
  OBVIOUS
<1>1. CASE UNCHANGED vars
  BY <1>1, StutterInv
<1>2. CASE Accept
  BY <1>2, AcceptFailInv, AcceptCreateInv, InitInv, AddEventInv, AddEventFailInv DEF Accept
<1>3. ASSUME NEW w \in ThreadSet, Loop(w) PROVE Inv'
  BY <1>3, EpollWaitInv, RunExitInv, CallHandlerInv, RunTasksInv DEF Loop
<1>4. ASSUME NEW w \in ThreadSet, Event(w) PROVE Inv'
  BY <1>4, ProcessEventInv, DoCloseDelInv, DoCloseFdInv, DoClosePostInv DEF Event
<1> QED
  BY <1>1, <1>2, <1>3, <1>4, ConnectInv, ClientSendsInv, BroadcastInv, StopInv, JoinInv DEF Next

LEMMA InvAlive == Inv => HandlerAlive
<1> SUFFICES ASSUME Inv PROVE HandlerAlive
  OBVIOUS
<1>1. ASSUME NEW w \in ThreadSet, NEW h \in batch[w] \ {Listener} PROVE h \in connection_map
  <2>1. h \in Cids /\ Reg(w, h)
    BY DEF Inv, TypeOK, BatchInv
  <2> QED
    BY <2>1, RegFacts
<1>2. ASSUME NEW w \in ThreadSet, NEW e \in poll[w] PROVE e[2] \in connection_map
  <2>1. e = <<e[1], e[2]>> /\ e[1] \in Fds /\ e[2] \in Cids
    BY DEF Inv, TypeOK
  <2> QED
    BY <2>1 DEF Inv, EntryInv
<1>3. ASSUME NEW c \in Cids, Closing(c, {"event", "del", "close", "post"}) PROVE c \in connection_map
  BY <1>3, BusyFacts DEF Closing, Busy
<1> QED
  BY <1>1, <1>2, <1>3 DEF HandlerAlive

LEMMA InvMatches == Inv => EntryMatches
<1> SUFFICES ASSUME Inv, NEW w \in ThreadSet, NEW e \in poll[w]
             PROVE  socket[e[1]] = e[2] /\ sd[e[2]] = e[1] /\ home[e[2]] = w
  BY DEF EntryMatches
<1>1. e = <<e[1], e[2]>> /\ e[1] \in Fds /\ e[2] \in Cids
  BY DEF Inv, TypeOK
<1> QED
  BY <1>1 DEF Inv, EntryInv

LEMMA InvAccounted == Inv => Accounted
<1> SUFFICES ASSUME Inv PROVE Accounted
  OBVIOUS
<1>1. \A f \in Fds : socket[f] # 0 => socket[f] \in Cids
  BY DEF Inv, TypeOK
<1> QED
  BY <1>1 DEF Inv, AccountInv, Accounted

\* The raw handler pointers that EpollWorker::run uses, in its epoll set and in
\* the batch it is at, and the connection whose process_event or do_close runs,
\* are held by connection_map: do_close's removal waits, as a task, until the
\* batch is over, and nobody but the connection's own worker posts it.
THEOREM ServerHandlerAlive == Spec => []HandlerAlive
<1>1. Init => Inv
  BY InitialInv
<1>2. Inv /\ [Next]_vars => Inv'
  BY NextInv
<1>3. Inv => HandlerAlive
  BY InvAlive
<1> QED
  BY <1>1, <1>2, <1>3, PTL DEF Spec

\* A descriptor number that accept4 hands out again is never confused with the
\* connection that had it before: every epoll entry is of the socket, the
\* conn_sd and the tcp_worker of its handler.
THEOREM ServerEntryMatches == Spec => []EntryMatches
<1>1. Init => Inv
  BY InitialInv
<1>2. Inv /\ [Next]_vars => Inv'
  BY NextInv
<1>3. Inv => EntryMatches
  BY InvMatches
<1> QED
  BY <1>1, <1>2, <1>3, PTL DEF Spec

\* No socket and no connection is forgotten: an open one is registered, or being
\* accepted or closed; a connection in connection_map is one of these, or its
\* removal is posted, or its add_event failed.
THEOREM ServerAccounted == Spec => []Accounted
<1>1. Init => Inv
  BY InitialInv
<1>2. Inv /\ [Next]_vars => Inv'
  BY NextInv
<1>3. Inv => Accounted
  BY InvAccounted
<1> QED
  BY <1>1, <1>2, <1>3, PTL DEF Spec
=============================================================================
