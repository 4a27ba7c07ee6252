-------------------------------- MODULE Pipe --------------------------------
(***************************************************************************)
(* Pipes: named sessions over connections (tcp_pipe.h, pipe_connection.h,  *)
(* pipe_factory.h, pipe_session.h).  A client process has a remote pipe,   *)
(* whose connection shakes hands with its pipe id; the server process      *)
(* looks the id up among its sessions.  In PIPE_DUET_MODE a TcpPipe is     *)
(* both: a client's remote pipe is then a session of the pipe_map in which *)
(* its own handshake is looked up.  Connections deliver whole messages in  *)
(* order (TcpStream, TcpRead) until they are lost.                         *)
(***************************************************************************)
EXTENDS Integers, Sequences

CONSTANTS
  Clients,        \* client processes
  Ids,            \* pipe ids that are not empty
  NoId,           \* the empty pipe id
  MaxSessions,    \* bound: sessions added to the server's pipe_map
  MaxBeats        \* bound: heartbeats and data messages of each client's connection

ASSUME IdsAssumption == NoId \notin Ids
ASSUME BeatsAssumption == MaxSessions \in Nat /\ MaxBeats \in Nat

VARIABLES
  pipe_map,       \* the server's pipe_map: id |-> session, 0 if there is none
  pipe_id,        \* ids of the server's sessions
  ready,          \* sessions of the server that on_ready was called for
  duet,           \* clients that are remote pipes of the server's own TcpPipe
  remote,         \* client |-> id of its remote pipe
  link,           \* client |-> "none", "up" or "lost"
  known,          \* client |-> its id was in pipe_map when it connected
  c2s, s2c,       \* client |-> messages on their way
  bound,          \* clients whose session's on_ready was called
  beats           \* client |-> messages that applications sent

serverVars == <<pipe_map, pipe_id, ready>>
remoteVars == <<duet, remote, link, known, bound>>
pipeVars == <<pipe_map, pipe_id, ready, duet, remote, link, known, c2s, s2c, bound, beats>>

Shake(id) == [type |-> "SHAKE_HAND", id |-> id]
Beat == [type |-> "HEART_BEAT", id |-> NoId]
Data == [type |-> "DATA", id |-> NoId]

PipeInit == /\ pipe_map = [i \in Ids \cup {NoId} |-> 0] /\ pipe_id = <<>> /\ ready = {}
            /\ duet \in SUBSET Clients /\ remote \in [Clients -> Ids \cup {NoId}]
            /\ link = [c \in Clients |-> "none"] /\ known = [c \in Clients |-> FALSE]
            /\ c2s = [c \in Clients |-> <<>>] /\ s2c = [c \in Clients |-> <<>>]
            /\ bound = {} /\ beats = [c \in Clients |-> 0]

\* A new session in the server's pipe_map; one with the same id is replaced.
add_session(i) ==
  /\ Len(pipe_id) < MaxSessions
  /\ pipe_id' = Append(pipe_id, i)
  /\ pipe_map' = [pipe_map EXCEPT ![i] = Len(pipe_id) + 1]

find_user_session(i) == pipe_map[i]

add_local_pipe(i) == add_session(i) /\ UNCHANGED <<ready, remoteVars, c2s, s2c, beats>>

\* add_remote_pipe adds a session to the pipe_map of its own TcpPipe, which is
\* the server's in duet mode, and connects; EVT_CONNECT sends the handshake.
add_remote_pipe(c) ==
  /\ link[c] = "none" /\ link' = [link EXCEPT ![c] = "up"]
  /\ \/ c \in duet /\ add_session(remote[c])
     \/ c \notin duet /\ UNCHANGED <<pipe_map, pipe_id>>
  /\ known' = [known EXCEPT ![c] = pipe_map'[remote[c]] # 0]
  /\ c2s' = [c2s EXCEPT ![c] = Append(@, Shake(remote[c]))]
  /\ UNCHANGED <<ready, duet, remote, bound, s2c, beats>>

\* An application sends a heartbeat on either side, or data from the server.
send_heartbeat(c) ==
  /\ link[c] = "up" /\ beats[c] < MaxBeats
  /\ beats' = [beats EXCEPT ![c] = @ + 1]
  /\ \/ c2s' = [c2s EXCEPT ![c] = Append(@, Beat)] /\ UNCHANGED s2c
     \/ /\ \E m \in {Beat, Data} : s2c' = [s2c EXCEPT ![c] = Append(@, m)]
        /\ UNCHANGED c2s
  /\ UNCHANGED <<serverVars, remoteVars>>

\* Mutants: the answer comes without on_ready, or only for an id that is known.
process_server_handshake_only(id) ==
  [answer |-> IF id = NoId THEN <<>> ELSE <<Shake(id)>>, ready |-> {}]
process_server_handshake_found(id) ==
  IF find_user_session(id) = 0 THEN [answer |-> <<>>, ready |-> {}]
  ELSE [answer |-> <<Shake(id)>>, ready |-> {find_user_session(id)}]

\* What the server answers and which sessions become ready.  An unknown id is
\* answered like a known one, the empty id not at all.
process_server_handshake(id) ==
  IF id = NoId THEN [answer |-> <<>>, ready |-> {}]
  ELSE [answer |-> <<Shake(id)>>, ready |-> {find_user_session(id)} \ {0}]

\* handle_data of the passive side: a handshake, or a heartbeat, which is answered.
server_handle_data(c) ==
  /\ c2s[c] # <<>> /\ c2s' = [c2s EXCEPT ![c] = Tail(@)]
  /\ LET msg == Head(c2s[c]) IN
       IF msg.type = "SHAKE_HAND"
       THEN LET result == process_server_handshake(msg.id) IN
              /\ s2c' = [s2c EXCEPT ![c] = @ \o result.answer]
              /\ ready' = ready \cup result.ready
       ELSE s2c' = [s2c EXCEPT ![c] = Append(@, Beat)] /\ UNCHANGED ready
  /\ UNCHANGED <<pipe_map, pipe_id, remoteVars, beats>>

\* Mutant: heartbeats are answered on both sides.
client_answer_beat(msg) == IF msg.type = "HEART_BEAT" THEN <<Beat>> ELSE <<>>

\* What the client answers to a message.
client_answer(msg) == <<>>

\* process_client_handshake: msg->length > 0.
process_client_handshake(msg) == msg.type = "SHAKE_HAND" /\ msg.id # NoId

\* handle_data of the active side: the answer to the handshake, heartbeats, which
\* end here, and data for handle_message.
client_handle_data(c) ==
  /\ s2c[c] # <<>> /\ s2c' = [s2c EXCEPT ![c] = Tail(@)]
  /\ bound' = IF process_client_handshake(Head(s2c[c])) THEN bound \cup {c} ELSE bound
  /\ c2s' = [c2s EXCEPT ![c] = @ \o client_answer(Head(s2c[c]))]
  /\ UNCHANGED <<serverVars, duet, remote, link, known, beats>>

\* The connection is lost with what was on its way.
Lose(c) ==
  /\ link[c] = "up" /\ link' = [link EXCEPT ![c] = "lost"]
  /\ c2s' = [c2s EXCEPT ![c] = <<>>] /\ s2c' = [s2c EXCEPT ![c] = <<>>]
  /\ UNCHANGED <<serverVars, duet, remote, known, bound, beats>>

PipeNext == \/ \E i \in Ids : add_local_pipe(i)
            \/ \E c \in Clients : \/ add_remote_pipe(c) \/ send_heartbeat(c)
                                  \/ server_handle_data(c) \/ client_handle_data(c) \/ Lose(c)

PipeSpec == PipeInit /\ [][PipeNext]_pipeVars

\* The workers of both processes handle what arrives.
PipeFairSpec == PipeSpec /\ \A c \in Clients :
                          WF_pipeVars(server_handle_data(c)) /\ WF_pipeVars(client_handle_data(c))

(***************************************************************************)
(* Properties.                                                             *)
(***************************************************************************)
Messages == {Shake(i) : i \in Ids \cup {NoId}} \cup {Beat, Data}

\* Both ends agree (the handshake, connections that are lost in the middle of
\* it, sessions added meanwhile): when a client's session is ready and its id
\* was known to the server when it connected, a session of the server with that
\* id is ready too, and the server's sessions are ready only for clients that
\* asked for them.  (For an id that is added too late the client is told all the
\* same that it is ready.  In duet mode the session that becomes ready may be the
\* client's own, which has replaced a local pipe with its id.)
Agreement ==
  /\ \A c \in bound : known[c] => \E s \in ready : pipe_id[s] = remote[c]
  /\ \A s \in ready : \E c \in Clients : remote[c] = pipe_id[s] /\ link[c] # "none"

\* The handshake completes (send_shakehand, handle_data): a client with a pipe id
\* becomes ready unless its connection is lost.
HandshakeCompletes ==
  \A c \in Clients : link[c] = "up" /\ remote[c] # NoId ~> c \in bound \/ link[c] = "lost"

\* Heartbeats are not echoed for ever (handle_data): when the applications are
\* silent, so is the wire.
WireFallsSilent == <>[](\A c \in Clients : c2s[c] = <<>> /\ s2c[c] = <<>>)
=============================================================================
