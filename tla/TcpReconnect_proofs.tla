------------------------ MODULE TcpReconnect_proofs ------------------------
(***************************************************************************)
(* Proofs about TcpReconnect for any number of attempts, failures, losses, *)
(* sends and calls of close().                                             *)
(***************************************************************************)
EXTENDS TcpReconnect, TLAPS

Statuses == {"IDLE", "OPEN", "CLOSING", "CLOSED"}

TypeOK ==
  /\ worker \in {"wait", "del", "end"} /\ conn_status \in Statuses
  /\ connecting \in {"no", "connect", "add"}
  /\ need_reconnect \in BOOLEAN /\ host_ok \in BOOLEAN /\ in_map \in BOOLEAN /\ timer \in BOOLEAN
  /\ attempts \in Nat /\ conn_sd \in Int /\ early \in Nat
  /\ open \subseteq 1..attempts /\ reg \subseteq 1..attempts /\ out \subseteq 1..attempts
  /\ pending \in BOOLEAN /\ blocks \in Nat

\* Events come from registered sockets; connect() is called once, first.
QueueInv ==
  /\ queued \subseteq reg
  /\ app = "connect" => open = {} /\ reg = {} /\ gone = {} /\ worker = "wait" /\ ~timer

\* do_connect runs on the worker, which does nothing else then, or on the
\* application's thread before that uses the connection.
ConnectInv == connecting # "no" => worker = "wait" /\ app # "connect"

\* del_event comes before do_close's end, and CLOSED lasts until there.
CloseInv ==
  /\ worker = "end" => conn_sd \notin reg
  /\ in_map /\ conn_status = "CLOSED" => worker # "wait"

\* As long as events are handled before the timer fires, a registered socket that
\* is not open yet, or no more, has an event to come, or close() will make one:
\* the timer, which waits for those, finds nothing registered.  Until do_connect is
\* at its end only the new socket may be open without being registered.
TurnInv ==
  host_ok /\ in_map /\ early = 0 =>
    /\ reg \subseteq {conn_sd} /\ open \subseteq reg \cup gone \cup {conn_sd}
    /\ IF connecting = "no" THEN open \subseteq reg \cup gone ELSE reg = {}
    /\ worker = "wait" /\ conn_status # "OPEN" /\ reg # {} => queued # {} \/ app = "c_mod"

\* Without need_reconnect there is one attempt, and nothing is registered once
\* the connection was closed.
OnceInv ==
  ~need_reconnect =>
    /\ ~timer /\ open \subseteq {conn_sd} /\ reg \subseteq {conn_sd}
    /\ gone # {} => reg = {} /\ connecting = "no"

Inv == TypeOK /\ QueueInv /\ ConnectInv /\ CloseInv /\ TurnInv /\ OnceInv

-----------------------------------------------------------------------------
Conns == [status : Statuses, pending : BOOLEAN, blocks : Nat,
          open : SUBSET (1..attempts), out : SUBSET (1..attempts), queued : SUBSET (1..attempts)]

\* What mod_event, close(), do_read and do_send may make of c: sockets are closed,
\* events of the registered conn_sd are added, and a status that close() changes
\* comes with such an event.
Leads(c, x) ==
  /\ x.status \in Statuses /\ x.open \subseteq c.open
  /\ c.queued \subseteq x.queued /\ x.queued \subseteq c.queued \cup ({conn_sd} \cap reg)
  /\ \/ x.status = c.status
     \/ /\ c.status \in {"IDLE", "OPEN"} /\ x.status = "CLOSING"
        /\ conn_sd \in reg => conn_sd \in x.queued

LEMMA ModEvent ==
  ASSUME TypeOK, NEW c \in Conns, NEW b \in BOOLEAN
  PROVE  LET x == mod_event(c, b) IN
         /\ x \in Conns /\ Leads(c, x) /\ x.status = c.status /\ x.pending = c.pending
         /\ b /\ conn_sd \in reg => conn_sd \in x.queued
BY DEF TypeOK, mod_event, Conns, Leads

LEMMA Close ==
  ASSUME TypeOK, NEW c \in Conns
  PROVE  close(c) \in Conns /\ Leads(c, close(c))
<1>1. CASE c.status \in {"IDLE", "OPEN"}
  <2> DEFINE d == [c EXCEPT !.status = "CLOSING"]
  <2>1. d \in Conns /\ d.status = "CLOSING" /\ d.open = c.open /\ d.queued = c.queued
    BY DEF Conns, Statuses
  <2>2. close(c) = mod_event(d, TRUE)
    BY <1>1 DEF close
  <2> HIDE DEF d
  <2> QED
    BY <1>1, <2>1, <2>2, ModEvent DEF Leads
<1>2. CASE c.status \notin {"IDLE", "OPEN"}
  BY <1>2 DEF close, Leads, Conns
<1> QED
  BY <1>1, <1>2

LEMMA Read ==
  ASSUME TypeOK, NEW c \in Conns, NEW x \in do_read(c)
  PROVE  x \in Conns /\ Leads(c, x)
<1>1. x = c \/ x = close(c)
  BY DEF do_read
<1>2. Leads(c, c)
  BY DEF Leads, Conns
<1> QED
  BY <1>1, <1>2, Close

LEMMA Send ==
  ASSUME TypeOK, NEW c \in Conns, NEW x \in do_send(c)
  PROVE  x \in Conns /\ Leads(c, x)
<1> DEFINE full == [c EXCEPT !.blocks = @ + 1]
           sent == [c EXCEPT !.pending = FALSE]
<1>1. full \in Conns /\ full.status = c.status /\ full.open = c.open /\ full.queued = c.queued
  BY DEF Conns
<1>6. sent \in Conns /\ sent.status = c.status /\ sent.open = c.open /\ sent.queued = c.queued
  BY DEF Conns
<1>2. x \in {mod_event(c, FALSE), sent, mod_event(full, TRUE), close(c)}
  BY DEF do_send, do_send_full, CanSend
<1> HIDE DEF full, sent
<1>3. Leads(c, sent)
  BY <1>6 DEF Leads, Conns
<1>4. mod_event(full, TRUE) \in Conns /\ Leads(c, mod_event(full, TRUE))
  <2>1. mod_event(full, TRUE) \in Conns /\ Leads(full, mod_event(full, TRUE))
    BY <1>1, ModEvent
  <2> QED
    BY <1>1, <2>1 DEF Leads
<1>5. mod_event(c, FALSE) \in Conns /\ Leads(c, mod_event(c, FALSE))
  BY ModEvent
<1> QED
  BY <1>1, <1>2, <1>3, <1>4, <1>5, <1>6, Close

LEMMA LeadsOn ==
  ASSUME NEW c, NEW x, NEW y, Leads(c, x), Leads(x, y)
  PROVE  Leads(c, y)
BY DEF Leads

-----------------------------------------------------------------------------
LEMMA InitialInv == Init => Inv
<1> SUFFICES ASSUME Init PROVE Inv
  OBVIOUS
<1>1. /\ need_reconnect \in BOOLEAN /\ host_ok \in BOOLEAN /\ in_map \in BOOLEAN
      /\ timer \in BOOLEAN /\ pending \in BOOLEAN
  BY FlagsAssumption DEF Init
<1>2. attempts \in Nat /\ conn_sd \in Int /\ early \in Nat /\ blocks \in Nat
  BY DEF Init
<1>4. TypeOK
  BY <1>1, <1>2 DEF Init, TypeOK, Statuses
<1>3. QueueInv /\ ConnectInv /\ CloseInv /\ TurnInv /\ OnceInv
  BY DEF Init, QueueInv, ConnectInv, CloseInv, TurnInv, OnceInv
<1> QED
  BY <1>3, <1>4 DEF Inv

\* do_connect when nothing is registered and what is open has been told of.
LEMMA Attempt ==
  ASSUME Inv, do_connect, worker' = worker, worker = "wait", connecting = "no",
         early' \in Nat, timer' = timer,
         app' # "connect", app = "connect" \/ app' = app,
         host_ok /\ in_map /\ early' = 0 => early = 0 /\ reg = {},
         ~need_reconnect => open = {} /\ reg = {} /\ gone = {}
  PROVE  Inv'
<1> USE DEF Inv, do_connect
<1>0. PICK n \in Nat : n = attempts + 1 /\ attempts' = n /\ 1..attempts \subseteq 1..n /\ n \in 1..n
  BY DEF TypeOK
<1>01. /\ conn_sd' \in {n, -1} /\ open' \subseteq open \cup ({n} \cap {conn_sd'})
       /\ UNCHANGED <<reg, out, queued, gone, host_ok, in_map, need_reconnect>>
       /\ connecting' \in {"no", "connect"} /\ (host_ok => connecting' = "connect")
  BY <1>0
<1>1. TypeOK'
  <2>1. conn_sd' \in Int /\ n \in Nat
    BY <1>0, <1>01
  <2>2. open' \subseteq 1..n /\ reg' \subseteq 1..n /\ out' \subseteq 1..n
    BY <1>0, <1>01 DEF TypeOK
  <2> QED
    BY <1>0, <1>01, <2>1, <2>2 DEF TypeOK
<1>2. QueueInv' /\ ConnectInv'
  BY <1>01 DEF QueueInv, ConnectInv
<1>3. CloseInv'
  BY DEF CloseInv
<1>4. TurnInv'
  BY <1>01 DEF TurnInv
<1>5. OnceInv'
  BY <1>01 DEF OnceInv
<1> QED
  BY <1>1, <1>2, <1>3, <1>4, <1>5

LEMMA Connect ==
  ASSUME Inv, connect
  PROVE  Inv'
<1>1. open = {} /\ reg = {} /\ gone = {} /\ worker = "wait" /\ connecting = "no"
  BY DEF Inv, QueueInv, ConnectInv, connect
<1>2. early' = early /\ early \in Nat /\ timer' = timer
  BY DEF Inv, TypeOK, connect
<1> QED
  BY <1>1, <1>2, Attempt DEF connect

\* The timer: it runs only with need_reconnect, and waits for events.
LEMMA Timer ==
  ASSUME Inv, reconnect_timer
  PROVE  Inv'
<1> USE DEF reconnect_timer, timer_tries
<1>1. need_reconnect
  BY DEF Inv, OnceInv, TypeOK
<1>2. ASSUME host_ok, in_map, early' = 0 PROVE early = 0 /\ reg = {}
  <2>1. early = 0 /\ queued = {} /\ app # "c_mod"
    BY <1>2 DEF Inv, TypeOK
  <2>2. reg \subseteq {conn_sd} /\ conn_sd \in Int /\ \A f \in reg : f > 0
    BY <1>2, <2>1 DEF Inv, TypeOK, TurnInv
  <2>3. reg # {} => conn_sd > 0
    BY <2>2
  <2> QED
    BY <1>2, <2>1, <2>3 DEF Inv, TurnInv, is_open
<1>3. early' \in Nat
  BY DEF Inv, TypeOK
<1>4. app # "connect"
  BY DEF Inv, QueueInv
<1>5. /\ do_connect /\ worker' = worker /\ worker = "wait" /\ connecting = "no"
      /\ timer' = timer /\ app' = app
  OBVIOUS
<1> QED
  BY <1>1, <1>2, <1>3, <1>4, <1>5, Attempt

\* The rest of do_connect.  Whoever has closed the new socket, it is not
\* registered then; one that is, has its first event to come.
LEMMA Connected ==
  ASSUME Inv, Connecting
  PROVE  Inv'
<1> USE DEF Inv, Connecting, do_connect_connect, do_connect_add, connVars
<1>1. TypeOK'
  <2>1. reg' \subseteq reg \cup open /\ out' \subseteq out \cup open /\ open' \subseteq open
    OBVIOUS
  <2>2. connecting' \in {"no", "connect", "add"}
    OBVIOUS
  <2> QED
    BY <2>1, <2>2 DEF TypeOK
<1>2. QueueInv' /\ ConnectInv' /\ CloseInv'
  BY DEF QueueInv, ConnectInv, CloseInv
<1>3. TurnInv'
  BY DEF TurnInv
<1>4. OnceInv'
  BY DEF OnceInv
<1> QED
  BY <1>1, <1>2, <1>3, <1>4

\* The steps of the application that leave sockets and events alone.
LEMMA Quiet ==
  ASSUME Inv, enable_reconnect \/ msend \/ msend_push \/ close_check \/ close_set
  PROVE  Inv'
<1> USE DEF Inv, enable_reconnect, msend, msend_push, close_check, close_set, connVars, sockVars, counts
<1>1. TypeOK'
  BY FlagsAssumption DEF TypeOK, Statuses
<1>2. QueueInv' /\ ConnectInv'
  BY DEF QueueInv, ConnectInv
<1>3. CloseInv'
  BY DEF CloseInv
<1>4. TurnInv'
  BY DEF TurnInv
<1>5. OnceInv'
  BY DEF OnceInv, TypeOK
<1> QED
  BY <1>1, <1>2, <1>3, <1>4, <1>5

LEMMA ConnFacts ==
  ASSUME TypeOK, QueueInv
  PROVE  Conn \in Conns /\ Conn.status = conn_status /\ Conn.open = open /\ Conn.queued = queued
BY DEF Conn, Conns, TypeOK, QueueInv

\* The application's do_send and notify_send: what closes leaves an event.
LEMMA Sends ==
  ASSUME Inv, msend_send \/ notify_send
  PROVE  Inv'
<1> USE DEF Inv
<1>1. PICK x \in Conns : /\ Leads(Conn, x) /\ conn_status' = x.status /\ Become(x)
                         /\ app = "c_mod" => conn_sd \notin reg \/ conn_sd \in x.queued
  <2>1. CASE msend_send
    <3>1. PICK x \in do_send(Conn) : conn_status' = x.status /\ Become(x)
      BY <2>1 DEF msend_send
    <3>2. x \in Conns /\ Leads(Conn, x)
      BY ConnFacts, Send
    <3> QED
      BY <2>1, <3>1, <3>2 DEF msend_send
  <2>2. CASE notify_send
    <3> DEFINE y == mod_event(Conn, TRUE)
    <3>1. y \in Conns /\ Leads(Conn, y) /\ y.status = conn_status
            /\ (conn_sd \in reg => conn_sd \in y.queued)
      BY ConnFacts, ModEvent
    <3>2. Become(y) /\ conn_status' = conn_status
      BY <2>2 DEF notify_send
    <3> QED
      BY <3>1, <3>2
  <2> QED
    BY <2>1, <2>2
<1>2. /\ UNCHANGED <<worker, connecting, conn_sd, need_reconnect, host_ok, in_map, timer, attempts, reg, gone,
                     early>>
      /\ app' = "use" /\ app # "connect"
  BY DEF msend_send, notify_send
<1>3. /\ x.status = conn_status
         \/ (conn_status \in {"IDLE", "OPEN"} /\ x.status = "CLOSING"
               /\ (conn_sd \in reg => conn_sd \in x.queued))
      /\ open' \subseteq open /\ queued \subseteq queued'
      /\ queued' \subseteq queued \cup ({conn_sd} \cap reg)
      /\ queued' = x.queued
  BY <1>1, ConnFacts DEF Leads, Become
<1>4. TypeOK'
  BY <1>1, <1>2 DEF TypeOK, Conns, Become
<1>5. QueueInv' /\ ConnectInv' /\ CloseInv' /\ OnceInv'
  BY <1>1, <1>2, <1>3 DEF QueueInv, ConnectInv, CloseInv, OnceInv
<1>6. TurnInv'
  BY <1>1, <1>2, <1>3 DEF TurnInv
<1> QED
  BY <1>4, <1>5, <1>6

LEMMA ProcessEvent ==
  ASSUME Inv, process_event
  PROVE  Inv'
<1> USE DEF Inv
<1>1. PICK f \in queued :
        \E read \in do_read([Conn EXCEPT !.status = IF @ = "IDLE" THEN "OPEN" ELSE @,
                                         !.queued = @ \ {f}]) :
        \E c \in IF f \in out THEN do_send(read) ELSE {read} :
             /\ Become(c)
             /\ IF c.status = "CLOSING" THEN conn_status' = "CLOSED" /\ worker' = "del"
                                        ELSE conn_status' = c.status /\ UNCHANGED worker
  BY DEF process_event
<1> DEFINE r == [Conn EXCEPT !.status = IF @ = "IDLE" THEN "OPEN" ELSE @, !.queued = @ \ {f}]
<1>2. /\ r \in Conns /\ r.open = open /\ r.queued = queued \ {f}
      /\ r.status = IF conn_status = "IDLE" THEN "OPEN" ELSE conn_status
  BY ConnFacts DEF Conns, Statuses
<1> HIDE DEF r
<1>3. PICK x \in Conns :
        /\ Leads(r, x) /\ Become(x)
        /\ IF x.status = "CLOSING" THEN conn_status' = "CLOSED" /\ worker' = "del"
                                   ELSE conn_status' = x.status /\ worker' = worker
  <2>1. PICK read \in do_read(r) : \E c \in IF f \in out THEN do_send(read) ELSE {read} :
             /\ Become(c)
             /\ IF c.status = "CLOSING" THEN conn_status' = "CLOSED" /\ worker' = "del"
                                        ELSE conn_status' = c.status /\ UNCHANGED worker
    BY <1>1 DEF r
  <2>2. PICK c \in IF f \in out THEN do_send(read) ELSE {read} :
             /\ Become(c)
             /\ IF c.status = "CLOSING" THEN conn_status' = "CLOSED" /\ worker' = "del"
                                        ELSE conn_status' = c.status /\ UNCHANGED worker
    BY <2>1
  <2>3. read \in Conns /\ Leads(r, read)
    BY <1>2, <2>1, Read
  <2>4. c \in Conns /\ (c = read \/ Leads(read, c))
    BY <2>2, <2>3, Send
  <2>5. Leads(r, c)
    BY <2>3, <2>4, LeadsOn
  <2> QED
    BY <2>2, <2>4, <2>5
<1>4. /\ UNCHANGED <<app, connecting, conn_sd, need_reconnect, host_ok, in_map, timer, attempts,
                     reg, gone, early>>
      /\ worker = "wait" /\ connecting = "no"
  BY DEF process_event
<1>5. /\ x.status \in Statuses /\ (x.status = r.status \/ x.status = "CLOSING")
      /\ open' \subseteq open /\ queued' \subseteq queued \cup ({conn_sd} \cap reg)
  BY <1>2, <1>3 DEF Leads, Become
<1>6. TypeOK'
  BY <1>3, <1>4, <1>5 DEF TypeOK, Conns, Become, Statuses
<1>7. QueueInv' /\ ConnectInv' /\ CloseInv' /\ OnceInv'
  BY <1>1, <1>2, <1>3, <1>4, <1>5 DEF QueueInv, ConnectInv, CloseInv, OnceInv
<1>8. TurnInv'
  BY <1>2, <1>3, <1>4, <1>5 DEF TurnInv, CloseInv, Statuses
<1> QED
  BY <1>6, <1>7, <1>8

LEMMA DoClose ==
  ASSUME Inv, do_close_del \/ do_close_idle \/ do_close_end \/ Lose
  PROVE  Inv'
<1> USE DEF Inv, do_close_del, do_close_idle, do_close_end, Lose, CloseFd, connVars, sockVars, counts
<1>1. TypeOK'
  <2>1. /\ in_map' \in BOOLEAN
        /\ UNCHANGED <<connecting, need_reconnect, host_ok, timer, pending, attempts, early, blocks>>
    BY DEF TypeOK
  <2>2. conn_sd' \in Int /\ conn_status' \in Statuses /\ worker' \in {"wait", "del", "end"}
    BY DEF TypeOK, Statuses
  <2>3. open' \subseteq open /\ reg' \subseteq reg /\ out' \subseteq out
    OBVIOUS
  <2> HIDE DEF do_close_del, do_close_idle, do_close_end, Lose
  <2> QED
    BY <2>1, <2>2, <2>3 DEF TypeOK
<1>2. QueueInv' /\ ConnectInv'
  BY DEF QueueInv, ConnectInv
<1>3. CloseInv'
  BY DEF CloseInv
<1>4. TurnInv'
  BY DEF TurnInv, CloseInv, ConnectInv
<1>5. OnceInv'
  BY DEF OnceInv, ConnectInv
<1> QED
  BY <1>1, <1>2, <1>3, <1>4, <1>5

LEMMA NextInv == Inv /\ [Next]_vars => Inv'
<1> SUFFICES ASSUME Inv, [Next]_vars PROVE Inv'
  OBVIOUS
<1>1. CASE UNCHANGED vars
  BY <1>1 DEF vars, Inv, TypeOK, QueueInv, ConnectInv, CloseInv, TurnInv, OnceInv
<1>2. CASE Worker
  BY <1>2, ProcessEvent, Timer, DoClose DEF Worker
<1>3. CASE App
  BY <1>3, Connect, Quiet, Sends DEF App
<1> QED
  BY <1>1, <1>2, <1>3, Connected, DoClose DEF Next

-----------------------------------------------------------------------------
\* A connection that reconnects is on one socket at a time, if its events are
\* handled before enable_reconnect's timer fires again: do_connect never gives it a
\* second socket while the first is registered, and a socket it left behind has
\* had its EVT_DISCONNECT.
THEOREM ReconnectOneSocket == Spec => []OneSocket
<1>1. Init => Inv
  BY InitialInv
<1>2. Inv /\ [Next]_vars => Inv'
  BY NextInv
<1>3. Inv => OneSocket
  BY DEF Inv, TurnInv, OneSocket
<1> QED
  BY <1>1, <1>2, <1>3, PTL DEF Spec

\* A step after a connection without need_reconnect was closed.
LEMMA EndStep ==
  ASSUME Inv, [Next]_vars, ~need_reconnect'
  PROVE  /\ in_map /\ ~in_map' => open' = {}
         /\ gone # {} => attempts' = attempts /\ (conn_status' = "OPEN" => conn_status = "OPEN")
<1>1. ~need_reconnect /\ ~timer
  <2>1. ~need_reconnect
    BY DEF Next, Worker, App, Connecting, vars, connVars, connect, do_connect, do_connect_connect, do_connect_add, reconnect_timer, process_event,
       do_close_del, do_close_idle, do_close_end, Lose, enable_reconnect, msend, msend_push,
       msend_send, close_check, close_set, notify_send
  <2> QED
    BY <2>1 DEF Inv, OnceInv
<1>2. ~connect \/ gone = {}
  BY DEF Inv, QueueInv, connect
<1>3. ~reconnect_timer
  BY <1>1 DEF reconnect_timer
<1>4. gone # {} => queued = {}
  BY <1>1 DEF Inv, OnceInv, QueueInv
<1>5. gone # {} => ~process_event
  BY <1>4 DEF process_event
<1>6. ASSUME in_map, ~in_map' PROVE open' = {}
  <2>1. do_close_end
    BY <1>6 DEF Next, Worker, App, Connecting, vars, connVars, connect, do_connect, do_connect_connect, do_connect_add, reconnect_timer,
       process_event, do_close_del, do_close_idle, Lose, enable_reconnect, msend, msend_push,
       msend_send, close_check, close_set, notify_send
  <2> QED
    BY <1>1, <2>1 DEF do_close_end, CloseFd, Inv, OnceInv
<1>7. ASSUME gone # {}
      PROVE  attempts' = attempts /\ (conn_status' = "OPEN" => conn_status = "OPEN")
  <2>1. ASSUME msend_send PROVE conn_status' = conn_status \/ conn_status' = "CLOSING"
    <3>1. PICK x \in do_send(Conn) : conn_status' = x.status
      BY <2>1 DEF msend_send
    <3>2. Leads(Conn, x) /\ Conn.status = conn_status
      BY ConnFacts, Send DEF Inv
    <3> QED
      BY <3>1, <3>2 DEF Leads
  <2> QED
    BY <1>2, <1>3, <1>5, <1>7, <2>1 DEF Next, Worker, App, Connecting, vars, connVars, sockVars,
       do_connect_connect, do_connect_add,
       do_close_del, do_close_idle, do_close_end, Lose, enable_reconnect, msend, msend_push,
       msend_send, close_check, close_set, notify_send
<1> QED
  BY <1>6, <1>7

\* Without need_reconnect do_close is the end of a connection, also if close()
\* races it: when the factory drops it no socket is left open, no other attempt is
\* made and it does not open again.
THEOREM ReconnectEndsForGood == Spec => EndsForGood
<1> DEFINE End == ~need_reconnect' =>
       /\ in_map /\ ~in_map' => open' = {}
       /\ gone # {} => attempts' = attempts /\ (conn_status' = "OPEN" => conn_status = "OPEN")
<1>1. Init => Inv
  BY InitialInv
<1>2. Inv /\ [Next]_vars => Inv'
  BY NextInv
<1>3. Inv /\ [Next]_vars => [End]_vars
  BY EndStep
<1> HIDE DEF End
<1>4. Spec => [][End]_vars
  BY <1>1, <1>2, <1>3, PTL DEF Spec
<1> QED
  BY <1>4 DEF EndsForGood, End
=============================================================================
