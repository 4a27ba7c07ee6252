--------------------------- MODULE TcpConnection ---------------------------
(***************************************************************************)
(* One established connection of the library (tcp_connection.h), its       *)
(* EpollWorker thread (epoll_worker.h) and application threads that call   *)
(* msend and close on it.                                                  *)
(*                                                                         *)
(* The threads share conn_status and conn_sd without a lock, send_buffer   *)
(* under write_mutex, and the kernel: the descriptor table, the epoll set  *)
(* and the socket.  One action is one access to what they share; a stretch *)
(* of code under write_mutex that touches only send_buffer and one system  *)
(* call is one action.  Nothing reconnects here (need_reconnect is false). *)
(*                                                                         *)
(* epoll_events is not a variable: EPOLLOUT is its only bit that changes,  *)
(* each use sets or clears that bit just before it passes the value to     *)
(* mod_event, and the build (-O2 in CMakeLists.txt) passes the register it *)
(* has computed the value in.  So a thread's mod_event gets its own bit,   *)
(* also when another thread writes epoll_events in between, and only the   *)
(* mask that the kernel holds (reg_out) can be observed.                   *)
(***************************************************************************)
EXTENDS Integers, Sequences, SequencesExt

CONSTANTS
  Apps,         \* application threads
  Worker,       \* the thread that runs EpollWorker::run
  Byte,         \* contents of messages
  Packets,      \* argument lists of msend, [first |-> bytes, rest |-> bytes]
  SockCap,      \* bytes the kernel's send buffer of the socket holds
  MaxSends,     \* bound: calls of msend that find the connection open
  MaxArrivals,  \* bound: segments with data that arrive
  Free          \* write_mutex is not held

ASSUME ThreadsAssumption == Worker \notin Apps /\ Free \notin Apps \cup {Worker}
ASSUME PacketsAssumption == Packets \subseteq [first : Seq(Byte), rest : Seq(Byte)]
ASSUME BoundsAssumption  == /\ SockCap \in Nat \ {0}
                            /\ MaxSends \in Nat
                            /\ MaxArrivals \in Nat

Threads == Apps \cup {Worker}

VARIABLES
  conn_status,  \* IDLE, OPEN, CLOSING or CLOSED
  conn_sd,      \* Sd, or -1 once do_close is done with it
  send_buffer,  \* bytes pushed and not yet taken by the kernel
  write_mutex,  \* the thread that holds it, or Free
  in_map,       \* the factory's connection_map holds the connection
  tasks,        \* the worker's task list holds its removal
  pc,           \* where each thread is
  resume,       \* where the worker returns to from msend, do_send or close
  evts,         \* the events process_event was called with
  fd,           \* what Sd names in the process: "own" socket, "free", "other"
  reg,          \* the epoll entry with this handler: "none", on "own", on "other"
  reg_out,      \* EPOLLOUT is in that entry's mask
  queued,       \* that entry is on epoll's ready list
  unread,       \* received data waits in the socket
  peer,         \* "up", "eof" after FIN, "reset" after RST
  inflight,     \* bytes in the kernel's send buffer
  pushed,       \* history: every byte msend ever appended
  accepted,     \* history: every byte the connection's own socket took
  sends,        \* number of msend calls, bounded by MaxSends
  arrivals,     \* number of data segments received, bounded by MaxArrivals
  disconnects   \* number of EVT_DISCONNECT callbacks

connVars   == <<conn_status, conn_sd>>
mapVars    == <<in_map, tasks>>
bufVars    == <<send_buffer, pushed, accepted>>
pollVars   == <<reg, reg_out, queued>>
sockVars   == <<unread, peer, inflight>>
countVars  == <<sends, arrivals, disconnects>>
vars == <<conn_status, conn_sd, send_buffer, write_mutex, in_map, tasks, pc,
          resume, evts, fd, reg, reg_out, queued, unread, peer, inflight,
          pushed, accepted, sends, arrivals, disconnects>>

Sd == 1
Statuses == {"IDLE", "OPEN", "CLOSING", "CLOSED"}
Events == {"IN", "OUT", "ERR"}

\* Labels of msend, do_send and close, which every thread runs.
CallLabels == {"push", "send", "arm", "c_chk", "c_set", "c_mod", "bad"}
\* Labels of EpollWorker::run, process_event and do_close.
LoopLabels == {"wait", "ready", "r_set", "cb_connect", "in", "cb_data", "out",
               "err", "fin", "d_del", "d_close", "d_sd", "run"}
ResumeLabels == {"wait", "cb_connect", "cb_data", "out", "err", "fin"}
Labels == {"idle"} \cup CallLabels \cup LoopLabels

(***************************************************************************)
(* The kernel.  Epoll is edge triggered: an entry is put on the ready list *)
(* when something happens or when EPOLL_CTL_MOD finds it ready, and        *)
(* epoll_wait reports whatever is ready and in the mask at that time.      *)
(***************************************************************************)
Writable == inflight < SockCap \/ peer = "reset"
Readable == unread \/ peer # "up"

Ready(out) == {e \in Events : \/ e = "IN" /\ Readable
                              \/ e = "OUT" /\ out /\ Writable
                              \/ e = "ERR" /\ peer = "reset"}

\* ::close(Sd): the number is free again, and a socket that is closed leaves
\* the epoll set.
CloseFd == /\ fd' = "free"
           /\ reg' = IF reg = fd THEN "none" ELSE reg
           /\ queued' = (queued /\ reg # fd)
           /\ UNCHANGED reg_out

(***************************************************************************)
(* Thread control.                                                         *)
(***************************************************************************)
Goto(t, label) == pc' = [pc EXCEPT ![t] = label]

\* Return from msend, do_send or close, giving up write_mutex if held.
Return(t) == /\ Goto(t, IF t = Worker THEN resume ELSE "idle")
             /\ write_mutex' = IF write_mutex = t THEN Free ELSE write_mutex

Init ==
  /\ conn_status = "IDLE" /\ conn_sd = Sd
  /\ send_buffer = <<>> /\ write_mutex = Free
  /\ in_map = TRUE /\ tasks = FALSE
  /\ pc = [t \in Threads |-> IF t = Worker THEN "wait" ELSE "idle"]
  /\ resume = "wait" /\ evts = {}
  /\ fd = "own" /\ reg = "own" /\ reg_out = TRUE /\ queued = TRUE
  /\ unread = FALSE /\ peer = "up" /\ inflight = 0
  /\ pushed = <<>> /\ accepted = <<>>
  /\ sends = 0 /\ arrivals = 0 /\ disconnects = 0

(***************************************************************************)
(* msend                                                                   *)
(***************************************************************************)

\* The bytes mpush appends to the buffer.  It stops as soon as the buffer's
\* size after an append is 0, which can only happen at the first argument.
mpush(buffer, p) == IF buffer \o p.first = <<>> THEN <<>> ELSE p.first \o p.rest

\* msend up to the lock: the unlocked is_open().  A call that finds the
\* connection not open returns -1 and changes nothing.
msend(t) ==
  /\ \/ t \in Apps /\ pc[t] = "idle" /\ UNCHANGED resume
     \/ /\ t = Worker /\ pc[t] \in {"cb_connect", "cb_data"}
        /\ resume' = pc[t]
  /\ conn_sd > 0 /\ conn_status = "OPEN"
  /\ sends < MaxSends /\ sends' = sends + 1
  /\ Goto(t, "push")
  /\ UNCHANGED <<connVars, mapVars, bufVars, pollVars, sockVars, write_mutex,
                 evts, fd, arrivals, disconnects>>

\* The locked part of msend: only the thread that found the buffer empty
\* goes on to do_send.
msend_push(t) ==
  /\ pc[t] = "push" /\ write_mutex = Free
  /\ \E p \in Packets :
       /\ send_buffer' = send_buffer \o mpush(send_buffer, p)
       /\ pushed' = pushed \o mpush(send_buffer, p)
  /\ IF send_buffer = <<>> THEN Goto(t, "send") /\ UNCHANGED write_mutex
                           ELSE Return(t)
  /\ UNCHANGED <<connVars, mapVars, accepted, pollVars, sockVars, countVars,
                 resume, evts, fd>>

(***************************************************************************)
(* mod_event.  EPOLL_CTL_MOD fails on a descriptor that is not in the      *)
(* epoll set; mod_event then closes it (label "bad").  A descriptor number *)
(* that now belongs to another connection of the same worker gets this     *)
(* connection as its handler.                                              *)
(***************************************************************************)
mod_event(t, out) ==
  \/ /\ conn_sd <= 0
     /\ Return(t)
     /\ UNCHANGED pollVars
  \/ /\ conn_sd > 0 /\ fd = "own" /\ reg = "own"
     /\ reg_out' = out
     /\ queued' = (queued \/ Ready(out) # {})
     /\ Return(t)
     /\ UNCHANGED reg
  \/ /\ conn_sd > 0 /\ fd = "other"
     /\ reg' = "other" /\ reg_out' = out
     /\ Return(t)
     /\ UNCHANGED queued
  \/ /\ conn_sd > 0 /\ ~(fd = "own" /\ reg = "own")
     /\ Goto(t, "bad")
     /\ UNCHANGED <<pollVars, write_mutex>>

\* ::close(sd) after a failed EPOLL_CTL_MOD.
mod_event_close(t) ==
  /\ pc[t] = "bad"
  /\ CloseFd
  /\ Return(t)
  /\ UNCHANGED <<connVars, mapVars, bufVars, sockVars, countVars, resume, evts>>

(***************************************************************************)
(* do_send.  Each alternative is one round of it under write_mutex; a      *)
(* partial send releases the mutex and starts over.                        *)
(***************************************************************************)
do_send_lock(t) == pc[t] = "send" /\ write_mutex = Free

\* Nothing to send: drop EPOLLOUT from the mask.
do_send_empty(t) ==
  /\ do_send_lock(t) /\ send_buffer = <<>>
  /\ mod_event(t, FALSE)
  /\ UNCHANGED <<connVars, mapVars, bufVars, sockVars, countVars, resume, evts, fd>>

\* Mutants: the erase is off by one, or a partial send empties the buffer.
unsent_repeats(n) == SubSeq(send_buffer, n, Len(send_buffer))
unsent_dropped(n) == <<>>

\* What is left of send_buffer after its first n bytes went out.
unsent(n) == SubSeq(send_buffer, n + 1, Len(send_buffer))

\* ::send takes n bytes.  Sd names the connection's socket or, once it was
\* closed and the number used again, somebody else's.
do_send_some(t) ==
  /\ do_send_lock(t) /\ send_buffer # <<>> /\ conn_sd > 0
  /\ \E n \in 1..Len(send_buffer) :
       /\ \/ /\ fd = "own" /\ peer # "reset" /\ n <= SockCap - inflight
             /\ accepted' = accepted \o SubSeq(send_buffer, 1, n)
             /\ inflight' = inflight + n
          \/ fd = "other" /\ UNCHANGED <<accepted, inflight>>
       /\ send_buffer' = unsent(n)
       /\ IF n < Len(send_buffer) THEN UNCHANGED <<pc, write_mutex>> ELSE Return(t)
  /\ UNCHANGED <<connVars, mapVars, pushed, pollVars, unread, peer, countVars,
                 resume, evts, fd>>

\* EAGAIN: go on to add EPOLLOUT to the mask, keeping the mutex.
do_send_again(t) ==
  /\ do_send_lock(t) /\ send_buffer # <<>> /\ conn_sd > 0
  /\ \/ fd = "own" /\ peer # "reset" /\ inflight = SockCap
     \/ fd = "other"
  /\ write_mutex' = t /\ Goto(t, "arm")
  /\ UNCHANGED <<connVars, mapVars, bufVars, pollVars, sockVars, countVars,
                 resume, evts, fd>>

\* Mutant: EPOLLOUT is cleared instead of set.
do_send_disarm(t) ==
  /\ pc[t] = "arm"
  /\ mod_event(t, FALSE)
  /\ UNCHANGED <<connVars, mapVars, bufVars, sockVars, countVars, resume, evts, fd>>

do_send_arm(t) ==
  /\ pc[t] = "arm"
  /\ mod_event(t, TRUE)
  /\ UNCHANGED <<connVars, mapVars, bufVars, sockVars, countVars, resume, evts, fd>>

\* Any other error, EBADF included: close(), keeping the mutex.
do_send_fail(t) ==
  /\ do_send_lock(t) /\ send_buffer # <<>>
  /\ conn_sd <= 0 \/ fd # "own" \/ peer = "reset"
  /\ write_mutex' = t /\ Goto(t, "c_chk")
  /\ UNCHANGED <<connVars, mapVars, bufVars, pollVars, sockVars, countVars,
                 resume, evts, fd>>

do_send(t) == \/ do_send_empty(t) \/ do_send_some(t) \/ do_send_again(t)
              \/ do_send_arm(t) \/ do_send_fail(t)

(***************************************************************************)
(* close: an unlocked test and set of conn_status, then notify_send, which *)
(* adds EPOLLOUT to the mask so that the worker wakes up.                  *)
(***************************************************************************)

\* An application thread or a callback calls close().  Calls that find the
\* connection closing already change nothing and are left out.
close_call(t) ==
  /\ \/ t \in Apps /\ pc[t] = "idle" /\ UNCHANGED resume
     \/ /\ t = Worker /\ pc[t] \in {"cb_connect", "cb_data"}
        /\ resume' = pc[t]
  /\ conn_status \in {"IDLE", "OPEN"}
  /\ Goto(t, "c_chk")
  /\ UNCHANGED <<connVars, mapVars, bufVars, pollVars, sockVars, countVars,
                 write_mutex, evts, fd>>

close_check(t) ==
  /\ pc[t] = "c_chk"
  /\ IF conn_status \in {"IDLE", "OPEN"}
       THEN Goto(t, "c_set") /\ UNCHANGED write_mutex
       ELSE Return(t)
  /\ UNCHANGED <<connVars, mapVars, bufVars, pollVars, sockVars, countVars,
                 resume, evts, fd>>

close_set(t) ==
  /\ pc[t] = "c_set"
  /\ conn_status' = "CLOSING"
  /\ Goto(t, "c_mod")
  /\ UNCHANGED <<conn_sd, mapVars, bufVars, pollVars, sockVars, countVars,
                 write_mutex, resume, evts, fd>>

\* Mutant: the worker is notified without EPOLLOUT in the mask.
notify_send_disarm(t) ==
  /\ pc[t] = "c_mod"
  /\ mod_event(t, FALSE)
  /\ UNCHANGED <<connVars, mapVars, bufVars, sockVars, countVars, resume, evts, fd>>

notify_send(t) ==
  /\ pc[t] = "c_mod"
  /\ mod_event(t, TRUE)
  /\ UNCHANGED <<connVars, mapVars, bufVars, sockVars, countVars, resume, evts, fd>>

close(t) == close_check(t) \/ close_set(t) \/ notify_send(t)

(***************************************************************************)
(* The worker: epoll_wait, process_event stage by stage, do_close, tasks.  *)
(***************************************************************************)
epoll_wait ==
  /\ pc[Worker] = "wait"
  /\ \/ /\ reg = "own" /\ queued
        /\ queued' = FALSE
        /\ evts' = Ready(reg_out)
        /\ IF evts' = {} THEN UNCHANGED pc ELSE Goto(Worker, "ready")
     \/ /\ reg = "other"      \* events of the socket that took the number over
        /\ evts' \in SUBSET Events \ {{}}
        /\ Goto(Worker, "ready")
        /\ UNCHANGED queued
  /\ UNCHANGED <<connVars, mapVars, bufVars, reg, reg_out, sockVars, countVars,
                 write_mutex, resume, fd>>

\* The parts of process_event that touch nothing but the worker's own state.
WorkerGoto(label) ==
  /\ Goto(Worker, label)
  /\ UNCHANGED <<connVars, mapVars, bufVars, pollVars, sockVars, countVars,
                 write_mutex, evts, fd>>

\* Mutant: every event opens the connection.
on_ready_always ==
  /\ pc[Worker] = "ready" /\ UNCHANGED resume
  /\ WorkerGoto("r_set")

on_ready_check ==
  /\ pc[Worker] = "ready" /\ UNCHANGED resume
  /\ WorkerGoto(IF conn_status = "IDLE" THEN "r_set" ELSE "in")

\* on_ready: EVT_CONNECT is the callback that follows.
on_ready ==
  /\ pc[Worker] = "r_set"
  /\ conn_status' = "OPEN"
  /\ Goto(Worker, "cb_connect")
  /\ UNCHANGED <<conn_sd, mapVars, bufVars, pollVars, sockVars, countVars,
                 write_mutex, resume, evts, fd>>

\* handle_event(EVT_CONNECT) and handle_data may call msend and close; then
\* they return.
callback_end ==
  /\ pc[Worker] \in {"cb_connect", "cb_data"} /\ UNCHANGED resume
  /\ WorkerGoto(IF pc[Worker] = "cb_connect" THEN "in" ELSE "out")

\* do_read with a handle_package that takes everything: data once, EOF and
\* errors close, EAGAIN does nothing.
do_read_skip ==
  /\ pc[Worker] = "in" /\ UNCHANGED resume
  /\ \/ "IN" \notin evts
     \/ conn_sd > 0 /\ fd = "own" /\ ~Readable
     \/ conn_sd > 0 /\ fd = "other"
  /\ WorkerGoto("out")

do_read_data ==
  /\ pc[Worker] = "in" /\ "IN" \in evts /\ conn_sd > 0
  /\ \/ fd = "own" /\ unread /\ unread' = FALSE
     \/ fd = "other" /\ UNCHANGED unread
  /\ Goto(Worker, "cb_data")
  /\ UNCHANGED <<connVars, mapVars, bufVars, pollVars, peer, inflight, countVars,
                 write_mutex, resume, evts, fd>>

do_read_close ==
  /\ pc[Worker] = "in" /\ "IN" \in evts
  /\ conn_sd <= 0 \/ fd # "own" \/ (~unread /\ peer # "up")
  /\ resume' = "out"
  /\ WorkerGoto("c_chk")

\* The EPOLLOUT and EPOLLERR stages.
process_out ==
  /\ pc[Worker] = "out" /\ resume' = "err"
  /\ WorkerGoto(IF "OUT" \in evts THEN "send" ELSE "err")

process_err ==
  /\ pc[Worker] = "err" /\ resume' = "fin"
  /\ WorkerGoto(IF "ERR" \in evts THEN "c_chk" ELSE "fin")

\* The check of the closing state that ends process_event, and do_close.
process_end ==
  /\ pc[Worker] = "fin" /\ conn_status # "CLOSING" /\ UNCHANGED resume
  /\ WorkerGoto("run")

do_close ==
  /\ pc[Worker] = "fin" /\ conn_status = "CLOSING"
  /\ conn_status' = "CLOSED"
  /\ Goto(Worker, "d_del")
  /\ UNCHANGED <<conn_sd, mapVars, bufVars, pollVars, sockVars, countVars,
                 write_mutex, resume, evts, fd>>

\* del_event, then handle_event(EVT_DISCONNECT).
do_close_del ==
  /\ pc[Worker] = "d_del"
  /\ IF conn_sd > 0 /\ reg = fd
       THEN reg' = "none" /\ queued' = FALSE
       ELSE UNCHANGED <<reg, queued>>
  /\ disconnects' = disconnects + 1
  /\ Goto(Worker, "d_close")
  /\ UNCHANGED <<connVars, mapVars, bufVars, reg_out, sockVars, sends, arrivals,
                 write_mutex, resume, evts, fd>>

do_close_fd ==
  /\ pc[Worker] = "d_close"
  /\ IF conn_sd > 0 THEN CloseFd ELSE UNCHANGED <<fd, pollVars>>
  /\ Goto(Worker, "d_sd")
  /\ UNCHANGED <<connVars, mapVars, bufVars, sockVars, countVars, write_mutex,
                 resume, evts>>

\* Mutant: conn_sd is not reset.
closed_sd_kept == conn_sd

\* The value do_close leaves in conn_sd.
closed_sd == -1

\* conn_sd = -1 and post_task of the removal from the factory.
do_close_post ==
  /\ pc[Worker] = "d_sd"
  /\ conn_sd' = closed_sd /\ tasks' = TRUE
  /\ Goto(Worker, "run")
  /\ UNCHANGED <<conn_status, in_map, bufVars, pollVars, sockVars, countVars,
                 write_mutex, resume, evts, fd>>

\* The tasks that end a round of EpollWorker::run.
run_tasks ==
  /\ pc[Worker] = "run"
  /\ tasks' = FALSE /\ in_map' = (in_map /\ ~tasks)
  /\ Goto(Worker, "wait")
  /\ UNCHANGED <<connVars, bufVars, pollVars, sockVars, countVars, write_mutex,
                 resume, evts, fd>>

(***************************************************************************)
(* The other end, and the rest of the process.                             *)
(***************************************************************************)
Wake == queued' = (queued \/ reg = "own")

\* The peer reads a byte; room in a full buffer is an edge for EPOLLOUT.
PeerRecv ==
  /\ fd = "own" /\ peer # "reset" /\ inflight > 0
  /\ inflight' = inflight - 1
  /\ IF inflight = SockCap /\ reg_out THEN Wake ELSE UNCHANGED queued
  /\ UNCHANGED <<connVars, mapVars, bufVars, reg, reg_out, unread, peer, countVars,
                 write_mutex, pc, resume, evts, fd>>

PeerSend ==
  /\ fd = "own" /\ peer = "up" /\ arrivals < MaxArrivals
  /\ unread' = TRUE /\ arrivals' = arrivals + 1
  /\ Wake
  /\ UNCHANGED <<connVars, mapVars, bufVars, reg, reg_out, peer, inflight, sends,
                 disconnects, write_mutex, pc, resume, evts, fd>>

PeerClose ==
  /\ fd = "own" /\ peer # "reset"
  /\ \/ peer = "up" /\ peer' = "eof" /\ UNCHANGED inflight
     \/ peer' = "reset" /\ inflight' = 0
  /\ Wake
  /\ UNCHANGED <<connVars, mapVars, bufVars, reg, reg_out, unread, countVars,
                 write_mutex, pc, resume, evts, fd>>

\* Another thread of the process opens a descriptor and gets the number.
ReuseFd ==
  /\ fd = "free" /\ fd' = "other"
  /\ UNCHANGED <<connVars, mapVars, bufVars, pollVars, sockVars, countVars,
                 write_mutex, pc, resume, evts>>

-----------------------------------------------------------------------------
Call(t) == \/ msend(t) \/ msend_push(t) \/ mod_event_close(t) \/ do_send(t)
           \/ close_call(t) \/ close(t)

\* What a thread does once it is inside msend or close; whether it calls them
\* again is its own choice.
Continue(t) == pc[t] \in CallLabels /\ Call(t)

Loop == \/ epoll_wait \/ on_ready_check \/ on_ready \/ callback_end
        \/ do_read_skip \/ do_read_data \/ do_read_close
        \/ process_out \/ process_err \/ process_end
        \/ do_close \/ do_close_del \/ do_close_fd \/ do_close_post \/ run_tasks

Env == PeerRecv \/ PeerSend \/ PeerClose \/ ReuseFd

Next == (\E t \in Threads : Call(t)) \/ Loop \/ Env

Spec == Init /\ [][Next]_vars

(***************************************************************************)
(* The same with the choice of who uses the connection: the application's  *)
(* threads as well, or the worker's callbacks alone.                       *)
(***************************************************************************)
VARIABLE alone

UseInit == Init /\ alone \in BOOLEAN
UseNext == /\ \/ \E t \in IF alone THEN {Worker} ELSE Threads : Call(t)
              \/ Loop
              \/ Env
           /\ UNCHANGED alone
UseSpec == UseInit /\ [][UseNext]_<<vars, alone>>

(***************************************************************************)
(* Fairness: the scheduler runs every thread that is not blocked, and the  *)
(* peer goes on reading until it resets the connection.                    *)
(***************************************************************************)
Fairness == /\ \A t \in Apps : WF_vars(Continue(t))
            /\ WF_vars(Continue(Worker) \/ Loop)
            /\ WF_vars(PeerRecv)

FairSpec == Spec /\ Fairness
(***************************************************************************)
(* Properties.                                                             *)
(***************************************************************************)

ConnType ==
  /\ conn_status \in Statuses /\ conn_sd \in {Sd, -1}
  /\ in_map \in BOOLEAN /\ tasks \in BOOLEAN
ControlType ==
  /\ pc \in [Threads -> Labels] /\ resume \in ResumeLabels
  /\ write_mutex \in Threads \cup {Free} /\ evts \in SUBSET Events
KernelType ==
  /\ fd \in {"own", "free", "other"} /\ reg \in {"none", "own", "other"}
  /\ reg_out \in BOOLEAN /\ queued \in BOOLEAN /\ unread \in BOOLEAN
  /\ peer \in {"up", "eof", "reset"} /\ inflight \in 0..SockCap
DataType ==
  /\ send_buffer \in Seq(Byte) /\ pushed \in Seq(Byte) /\ accepted \in Seq(Byte)
  /\ sends \in 0..MaxSends /\ arrivals \in 0..MaxArrivals /\ disconnects \in Nat

\* Type invariant of the connection, the threads and the kernel's view of it.
TypeOK == ConnType /\ ControlType /\ KernelType /\ DataType

\* The byte stream is never torn (msend, mpush, do_send).  Whatever threads
\* send concurrently and however the kernel splits what it takes, the bytes
\* the connection's own socket took are the first bytes that msend appended,
\* and as long as the socket exists send_buffer holds exactly the others: none
\* is lost, repeated or reordered.
StreamIntegrity ==
  /\ IsPrefix(accepted, pushed)
  /\ fd = "own" => accepted \o send_buffer = pushed

\* The worker was told to send and has not reached that stage of
\* process_event yet.
WorkerWillSend ==
  /\ "OUT" \in evts
  /\ LET at == IF pc[Worker] \in CallLabels THEN resume ELSE pc[Worker]
     IN  at \in {"ready", "r_set", "cb_connect", "in", "cb_data", "out"}

\* A buffer with data is never left without somebody to send it (msend's
\* isWriting hand-over, do_send's disarming and arming of EPOLLOUT): while the
\* connection is open, a thread is on its way to ::send, to arm EPOLLOUT or to
\* close the connection, or EPOLLOUT is armed and, if the socket has room, an
\* event that leads to do_send is pending.
NoLostWakeup ==
  conn_status = "OPEN" /\ send_buffer # <<>> =>
    \/ \E t \in Threads : pc[t] \in {"send", "arm", "c_chk", "c_set"}
    \/ reg_out /\ (Writable => queued \/ WorkerWillSend)

\* A connection that calls itself open (is_open) has its socket: conn_sd names
\* it and the worker's epoll set still holds it, whatever close, do_close and a
\* failing mod_event do in the meantime.
OpenOwnsSocket ==
  conn_status = "OPEN" => conn_sd = Sd /\ fd = "own" /\ reg = "own"

\* A connection never comes back (on_ready against close and do_close): once
\* EVT_DISCONNECT was delivered it does not open again, and the factory lets go
\* of it only after EVT_DISCONNECT and after conn_sd was given up.
NeverReopened ==
  [][/\ conn_status' = "OPEN" /\ conn_status # "OPEN" => disconnects = 0
     /\ in_map /\ ~in_map' => disconnects > 0 /\ conn_sd = -1]_vars

\* conn_sd names the connection's socket except between ::close and conn_sd = -1 of
\* do_close, the number is never registered or closed again, and EVT_DISCONNECT is
\* delivered at most once.
DescriptorSafe ==
  /\ conn_sd = Sd => fd = "own" \/ pc[Worker] = "d_sd"
  /\ reg # "other"
  /\ \A t \in Threads : pc[t] # "bad"
  /\ disconnects =< 1

\* When only the worker's own callbacks use the connection, nobody touches a descriptor
\* that is not the connection's, from accept to the end of do_close.
AloneSafe == alone => DescriptorSafe

\* What was accepted by msend leaves send_buffer, unless the connection stops
\* being open: EPOLLOUT's edge and the hand-over between threads never strand
\* data as long as the peer reads.
SendCompletes ==
  conn_status = "OPEN" /\ send_buffer # <<>> ~> send_buffer = <<>> \/ conn_status # "OPEN"

\* close() takes effect: the worker is woken up and runs do_close, unless
\* on_ready overwrites the request of a thread that closed the connection
\* before its first event.  Checked for one application thread: of two, one can
\* disarm the EPOLLOUT that the other's close() has armed, and that close() then
\* waits for the socket's next event.
CloseCompletes ==
  conn_status = "CLOSING" ~> disconnects > 0 \/ conn_status = "OPEN"

\* The connection implements the byte stream of TcpStream: the socket takes
\* the bytes of msend in the order of the pushes (msend, do_send), and nothing
\* once its descriptor is closed (do_close, mod_event).
Stream == INSTANCE TcpStream WITH live <- (fd = "own")
ByteStream == Stream!StreamSpec
=============================================================================
