---------------------------- MODULE TcpReconnect ----------------------------
(***************************************************************************)
(* An outgoing connection: TcpConnector::connect (tcp_connector.h),        *)
(* do_connect, enable_reconnect's timer and the branch of do_close that    *)
(* keeps the connection for the next attempt (tcp_connection.h).  The      *)
(* application's thread connects, turns the timer on, sends and may call   *)
(* close(); the worker runs the timer and the events.  send_buffer is a    *)
(* member of the connection: what is in it when a socket ends is sent on   *)
(* the next one.  conn_sd is the new socket from the call of socket() on,  *)
(* before ::connect returns and before add_event: another thread can reach *)
(* it there, and mod_event closes a descriptor that is not registered.     *)
(*                                                                         *)
(* Each call of socket() gives a new number, so that a number tells which  *)
(* attempt a descriptor belongs to.  The kernel gives the number of a      *)
(* closed socket away again: that a conn_sd kept after a failed attempt    *)
(* may by then be the number of somebody else's socket is outside this     *)
(* module.                                                                 *)
(***************************************************************************)
EXTENDS Integers, FiniteSets

CONSTANTS
  Reconnect,      \* values of the connector's need_reconnect
  Enable,         \* whether the program calls enable_reconnect
  Hosts,          \* whether inet_pton accepts remote_host
  MaxAttempts,    \* bound: calls of do_connect
  MaxEarly,       \* bound: times the timer fires with events not handled yet
  MaxFails,       \* bound: attempts that fail
  MaxLosses,      \* bound: connections that the network or the server ends
  MaxSends,       \* bound: calls of msend
  MaxBlocks,      \* bound: calls of ::send that find the socket full
  MaxCloses       \* bound: calls of close()

ASSUME FlagsAssumption == /\ Reconnect \subseteq BOOLEAN /\ Enable \subseteq BOOLEAN
                          /\ Hosts \subseteq BOOLEAN
ASSUME BoundsAssumption == /\ MaxAttempts \in Nat /\ MaxEarly \in Nat
                           /\ MaxFails \in Nat /\ MaxLosses \in Nat /\ MaxCloses \in Nat
                           /\ MaxSends \in Nat /\ MaxBlocks \in Nat

VARIABLES
  app,            \* where the application's thread is
  worker,         \* where the worker's thread is
  connecting,     \* the step do_connect is at, on either thread, or "no"
  conn_status, conn_sd, need_reconnect,
  host_ok,        \* remote_host is a numeric address
  pending,        \* send_buffer is not empty
  in_map,         \* the factory's connection_map holds the connection
  timer,          \* enable_reconnect's timer runs
  attempts,       \* sockets created so far
  open,           \* those that are open
  reg,            \* those in the epoll set, with the connection as handler
  out,            \* those whose mask has EPOLLOUT
  queued,         \* those with an event
  lost,           \* those that the other side has ended
  gone,           \* those that EVT_DISCONNECT was delivered for
  early, fails, losses, closes, sends, blocks

connVars == <<conn_status, conn_sd, need_reconnect, host_ok, in_map, timer, pending>>
sockVars == <<attempts, open, reg, out, queued, lost>>
counts == <<early, fails, losses, closes, sends, blocks>>
vars == <<app, worker, connecting, conn_status, conn_sd, need_reconnect, host_ok, in_map, timer,
          pending, attempts, open, reg, out, queued, lost, gone, early, fails, losses, closes,
          sends, blocks>>

\* connect() has created the connection and init left conn_sd alone.
Init == /\ app = "connect" /\ worker = "wait" /\ connecting = "no"
        /\ conn_status = "IDLE" /\ conn_sd = -1 /\ need_reconnect \in Reconnect
        /\ host_ok \in Hosts /\ in_map = TRUE /\ timer = FALSE
        /\ pending = FALSE
        /\ attempts = 0 /\ open = {} /\ reg = {} /\ out = {} /\ queued = {} /\ lost = {} /\ gone = {}
        /\ early = 0 /\ fails = 0 /\ losses = 0 /\ closes = 0
        /\ sends = 0 /\ blocks = 0

\* ::close(f), after which no epoll set has f.
CloseFd(f) == /\ open' = open \ {f} /\ reg' = reg \ {f}
              /\ out' = out \ {f} /\ queued' = queued \ {f}

is_open == conn_sd > 0 /\ conn_status = "OPEN"

(***************************************************************************)
(* do_connect, of TcpConnector::connect or of the timer.                   *)
(***************************************************************************)
Fails == fails < MaxFails /\ fails' = fails + 1

\* socket(), which may fail; if inet_pton refuses the address, do_connect
\* returns and the socket stays open.
do_connect ==
  /\ attempts < MaxAttempts /\ attempts' = attempts + 1
  /\ \/ /\ conn_sd' = attempts + 1 /\ open' = open \cup {attempts + 1}
        /\ UNCHANGED fails
     \/ conn_sd' = -1 /\ Fails /\ UNCHANGED open
  /\ connecting' = IF host_ok THEN "connect" ELSE "no"
  /\ UNCHANGED <<conn_status, need_reconnect, host_ok, in_map, pending, reg, out, queued, lost,
                 gone, losses, closes, sends, blocks>>

\* ::connect.  If it fails, because of the network or because somebody has
\* closed conn_sd, the socket is closed and conn_sd keeps its number.
do_connect_connect ==
  /\ connecting = "connect"
  /\ \/ conn_sd \in open /\ connecting' = "add" /\ UNCHANGED <<open, fails>>
     \/ /\ (conn_sd \notin open /\ UNCHANGED fails) \/ Fails
        /\ open' = open \ {conn_sd} /\ connecting' = "no"
  /\ UNCHANGED <<app, worker, connVars, attempts, reg, out, queued, lost, gone, early, losses,
                 closes, sends, blocks>>

\* add_event asks for EPOLLOUT, an event at once; it closes the socket if
\* epoll_ctl refuses it.
do_connect_add ==
  /\ connecting = "add" /\ connecting' = "no"
  /\ \/ /\ reg' = reg \cup ({conn_sd} \cap open) /\ out' = out \cup ({conn_sd} \cap open)
        /\ queued' = queued \cup ({conn_sd} \cap open) /\ UNCHANGED <<open, fails>>
     \/ Fails /\ open' = open \ {conn_sd} /\ UNCHANGED <<reg, out, queued>>
  /\ UNCHANGED <<app, worker, connVars, attempts, lost, gone, early, losses, closes, sends, blocks>>

(***************************************************************************)
(* What mod_event, close(), do_read and do_send do to the connection and   *)
(* the kernel, as a record; the last two give the set of their outcomes.   *)
(***************************************************************************)
Conn == [status |-> conn_status, pending |-> pending, blocks |-> blocks,
         open |-> open, out |-> out, queued |-> queued]

\* EPOLL_CTL_MOD gives an event at once if something is ready.  It fails for a
\* descriptor that is not registered, which mod_event then closes.
mod_event(c, with_out) ==
  IF conn_sd \notin reg THEN [c EXCEPT !.open = @ \ {conn_sd}]
  ELSE [c EXCEPT !.out = IF with_out THEN @ \cup {conn_sd} ELSE @ \ {conn_sd},
                 !.queued = IF with_out \/ conn_sd \in lost THEN @ \cup {conn_sd} ELSE @]

close(c) == IF c.status \in {"IDLE", "OPEN"}
            THEN mod_event([c EXCEPT !.status = "CLOSING"], TRUE) ELSE c

\* An event that is older than the end of the connection finds nothing to read.
do_read(c) == {x \in {c} : conn_sd \notin lost \ c.queued}
                \cup {x \in {close(c)} : conn_sd \notin c.open \ lost}

\* ::send fails on a socket that is closed, not connected yet, or perhaps lost.
CanSend(c) == conn_sd \in c.open /\ connecting # "connect"

\* Mutant: nobody asks for EPOLLOUT.
do_send_full_unarmed(c) == IF CanSend(c) /\ c.blocks < MaxBlocks
                           THEN {[c EXCEPT !.blocks = @ + 1]} ELSE {}

\* A socket that is full: the rest waits for EPOLLOUT, which comes when the peer reads.
do_send_full(c) == IF CanSend(c) /\ c.blocks < MaxBlocks
                   THEN {mod_event([c EXCEPT !.blocks = @ + 1], TRUE)} ELSE {}

do_send(c) ==
  IF ~c.pending THEN {mod_event(c, FALSE)}
  ELSE {x \in {[c EXCEPT !.pending = FALSE]} : CanSend(c)}
         \cup do_send_full(c)
         \cup {x \in {close(c)} : ~CanSend(c) \/ conn_sd \in lost}

Become(c) == /\ pending' = c.pending /\ blocks' = c.blocks
             /\ open' = c.open /\ out' = c.out /\ queued' = c.queued

(***************************************************************************)
(* The application's thread.                                               *)
(***************************************************************************)
connect == /\ app = "connect" /\ do_connect
           /\ app' = "enable"
           /\ UNCHANGED <<worker, timer, early>>

\* Only a program that wants it calls enable_reconnect.
enable_reconnect ==
  /\ app = "enable" /\ connecting = "no" /\ app' = "use"
  /\ timer' \in Enable /\ need_reconnect' = (need_reconnect \/ timer')
  /\ UNCHANGED <<worker, connecting, conn_status, conn_sd, host_ok, in_map, pending, sockVars, gone, counts>>

\* msend: is_open, the append, and do_send if there was nothing in the buffer.
msend ==
  /\ app = "use" /\ sends < MaxSends /\ sends' = sends + 1
  /\ is_open /\ app' = "push"
  /\ UNCHANGED <<worker, connecting, connVars, sockVars, gone, early, fails, losses, closes, blocks>>

msend_push ==
  /\ app = "push" /\ app' = IF pending THEN "use" ELSE "send"
  /\ pending' = TRUE
  /\ UNCHANGED <<worker, connecting, conn_status, conn_sd, need_reconnect, host_ok, in_map, timer, sockVars,
                 gone, counts>>

msend_send ==
  /\ app = "send" /\ app' = "use"
  /\ \E c \in do_send(Conn) : conn_status' = c.status /\ Become(c)
  /\ UNCHANGED <<worker, connecting, conn_sd, need_reconnect, host_ok, in_map, timer, attempts, reg, lost,
                 gone, early, fails, losses, closes, sends>>

\* close(): the test, the assignment, and notify_send.
close_check ==
  /\ app = "use" /\ closes < MaxCloses /\ closes' = closes + 1
  /\ conn_status \in {"IDLE", "OPEN"}
  /\ app' = "c_set"
  /\ UNCHANGED <<worker, connecting, connVars, sockVars, gone, early, fails, losses, sends, blocks>>

close_set ==
  /\ app = "c_set" /\ app' = "c_mod"
  /\ conn_status' = "CLOSING"
  /\ UNCHANGED <<worker, connecting, conn_sd, need_reconnect, host_ok, in_map, timer, pending, sockVars, gone,
                 counts>>

notify_send ==
  /\ app = "c_mod" /\ app' = "use"
  /\ Become(mod_event(Conn, TRUE))
  /\ UNCHANGED <<worker, connecting, conn_status, conn_sd, need_reconnect, host_ok, in_map, timer, attempts,
                 reg, lost, gone, early, fails, losses, closes, sends>>

(***************************************************************************)
(* The worker.                                                             *)
(***************************************************************************)

\* Mutant: a connection that was opened once is not tried again.
timer_once == conn_sd <= 0

\* The timer's condition.
timer_tries == ~is_open

\* The handler of enable_reconnect's timer.
reconnect_timer ==
  /\ worker = "wait" /\ connecting = "no" /\ timer
  /\ \/ queued = {} /\ app # "c_mod" /\ UNCHANGED early
     \/ early < MaxEarly /\ early' = early + 1
  /\ timer_tries /\ do_connect
  /\ UNCHANGED <<app, worker, timer>>

\* An event of a registered socket: on_ready, do_read and, with EPOLLOUT, do_send, all
\* on conn_sd, and the check for CLOSING with which do_close begins.
process_event ==
  /\ worker = "wait" /\ connecting = "no"
  /\ \E f \in queued :
       LET ready == [Conn EXCEPT !.status = IF @ = "IDLE" THEN "OPEN" ELSE @,
                                 !.queued = @ \ {f}]
       IN  \E read \in do_read(ready) :
           \E c \in IF f \in out THEN do_send(read) ELSE {read} :
             /\ Become(c)
             /\ IF c.status = "CLOSING" THEN conn_status' = "CLOSED" /\ worker' = "del"
                                        ELSE conn_status' = c.status /\ UNCHANGED worker
  /\ UNCHANGED <<app, connecting, conn_sd, need_reconnect, host_ok, in_map, timer, attempts, reg, lost,
                 gone, early, fails, losses, closes, sends>>

\* Mutant: del_event is left out for a connection that will reconnect.
do_close_registered ==
  /\ worker = "del" /\ worker' = "end"
  /\ gone' = gone \cup {conn_sd}
  /\ UNCHANGED <<app, connecting, connVars, sockVars, counts>>

\* del_event and EVT_DISCONNECT.
do_close_del ==
  /\ worker = "del" /\ worker' = "end"
  /\ reg' = reg \ {conn_sd} /\ out' = out \ {conn_sd} /\ queued' = queued \ {conn_sd}
  /\ gone' = gone \cup {conn_sd}
  /\ UNCHANGED <<app, connecting, connVars, attempts, open, lost, counts>>

\* need_reconnect: back to IDLE, with the socket and its number kept.
do_close_idle ==
  /\ worker = "end" /\ need_reconnect /\ worker' = "wait"
  /\ conn_status' = "IDLE"
  /\ UNCHANGED <<app, connecting, conn_sd, need_reconnect, host_ok, in_map, timer, pending, sockVars, gone,
                 counts>>

\* Mutant: the socket stays open.
do_close_end_open ==
  /\ worker = "end" /\ ~need_reconnect /\ worker' = "wait"
  /\ conn_sd' = -1 /\ in_map' = FALSE
  /\ UNCHANGED <<app, connecting, conn_status, need_reconnect, host_ok, timer, pending, sockVars, gone, counts>>

\* Otherwise the socket is closed and the factory forgets the connection.
do_close_end ==
  /\ worker = "end" /\ ~need_reconnect /\ worker' = "wait"
  /\ CloseFd(conn_sd) /\ conn_sd' = -1 /\ in_map' = FALSE
  /\ UNCHANGED <<app, connecting, conn_status, need_reconnect, host_ok, timer, pending, attempts, lost, gone,
                 counts>>

\* The server or the network ends a connection.
Lose ==
  /\ losses < MaxLosses /\ losses' = losses + 1
  /\ \E f \in open \ lost : lost' = lost \cup {f} /\ queued' = queued \cup ({f} \cap reg)
  /\ UNCHANGED <<app, worker, connecting, connVars, attempts, open, reg, out, gone, early, fails, closes, sends,
                 blocks>>

-----------------------------------------------------------------------------
Worker == process_event \/ reconnect_timer \/ do_close_del \/ do_close_idle \/ do_close_end
App == connect \/ enable_reconnect \/ msend \/ msend_push \/ msend_send \/ close_check \/ close_set \/ notify_send

Connecting == do_connect_connect \/ do_connect_add

Next == Worker \/ App \/ Connecting \/ Lose

Spec == Init /\ [][Next]_vars

(***************************************************************************)
(* Fairness: both threads run, the timer fires, and attempts that are      *)
(* repeated succeed (they fail at most MaxFails times).                    *)
(***************************************************************************)
FairSpec == /\ Spec
            /\ WF_vars(process_event \/ do_close_del \/ do_close_idle \/ do_close_end)
            /\ WF_vars(reconnect_timer) /\ WF_vars(Connecting)
            /\ WF_vars(connect \/ enable_reconnect \/ msend_push \/ msend_send \/ close_set
                       \/ notify_send)

(***************************************************************************)
(* Properties.                                                             *)
(***************************************************************************)

\* The connection is on one socket at a time (do_connect, the timer, do_close),
\* if events were always handled before the timer came round again: only conn_sd is
\* registered, and a socket that is still open but not conn_sd had its
\* EVT_DISCONNECT.  (It is never closed: every disconnect leaves one behind.  And
\* enable_reconnect on a connection that do_close has already given up connects
\* over and over without ever opening; an address that inet_pton refuses leaves
\* one more socket open with every attempt.)
OneSocket ==
  host_ok /\ in_map /\ early = 0 =>
    /\ reg \subseteq {conn_sd}
    /\ \A f \in open : f = conn_sd \/ f \in gone

\* enable_reconnect keeps its promise: the connection opens again after every
\* failure, loss and close(), whenever they come to an end, unless do_close had
\* given the connection up before.
Reconnects == timer /\ host_ok /\ in_map ~> conn_status = "OPEN"

\* What is left in send_buffer when a connection ends is not forgotten: with
\* enable_reconnect it is sent on one of the next, although msend finds the buffer
\* not empty and leaves it to an EPOLLOUT that the lost socket can no longer have.
\* (The new connection begins with the rest of the old one's data, which may be the
\* middle of a message.)  Only if the timer never found events unhandled, as in
\* OneSocket: an event of the socket before conn_sd opens the connection on a
\* conn_sd that is not registered, and no EPOLLOUT comes.
LeftIsSent == timer /\ host_ok /\ in_map /\ pending ~> ~pending \/ early > 0

\* Without need_reconnect a connection that ended is gone for good (do_close,
\* close() racing it): when the factory forgets it no socket is left open, and
\* it neither opens nor connects again.
EndsForGood ==
  [][~need_reconnect' =>
       /\ in_map /\ ~in_map' => open' = {}
       /\ gone # {} => attempts' = attempts /\ (conn_status' = "OPEN" => conn_status = "OPEN")]_vars
=============================================================================
