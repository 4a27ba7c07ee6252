------------------------------ MODULE TcpRead ------------------------------
(***************************************************************************)
(* The receiving side of a connection: do_read and process_data of         *)
(* tcp_connection.h cut the byte stream into packages with the virtual     *)
(* handle_package, here the default one ("all"), the one of                *)
(* pipe_connection.h ("checked"), and one of an application that answers   *)
(* with the declared size as soon as it has a header ("declared").         *)
(*                                                                         *)
(* A package is a header of two bytes, type and body length, and a body.   *)
(* The length is the header's last byte: a header cut in two leaves it     *)
(* undefined, as a cut in the 4 bytes of PipeMsgHead::length does.         *)
(* The socket is edge triggered: the worker runs do_read once for an edge. *)
(***************************************************************************)
EXTENDS Integers, Sequences, SequencesExt

CONSTANTS
  Handlers,         \* which handle_package to consider
  Bodies,           \* bodies of packages
  MaxPackages,      \* bound: packages the peer sends
  kReadBufferSize   \* size of read_buffer

HeadSize == 2

ASSUME SizeAssumption == kReadBufferSize \in Nat /\ kReadBufferSize >= HeadSize
ASSUME StreamAssumption == Bodies \subseteq Seq(Nat) /\ MaxPackages \in Nat
ASSUME HandlersAssumption == Handlers \subseteq {"all", "checked", "declared"}

VARIABLES
  handler,          \* the connection's handle_package
  packages,         \* the packages the peer sends
  wire,             \* their bytes that have not arrived
  sock,             \* bytes in the socket
  peer,             \* "up", or "eof" once its FIN arrived
  edge,             \* epoll has an event for the worker
  pc,               \* "wait", "recv", "parse" or "closed"
  read_buffer, read_buffer_pos,
  readPos,          \* process_data's position
  closing,          \* close() was called
  delivered         \* arguments of the calls of handle_data

vars == <<handler, packages, wire, sock, peer, edge, pc, read_buffer, read_buffer_pos,
          readPos, closing, delivered>>
netVars == <<handler, packages, wire, sock, peer>>

Package(body) == <<1, Len(body)>> \o body
Bytes(ps) == FlattenSeq(ps)

Init ==
  /\ handler \in Handlers
  /\ packages \in UNION {[1..n -> {Package(b) : b \in Bodies}] : n \in 0..MaxPackages}
  /\ wire = Bytes(packages) /\ sock = <<>> /\ peer = "up" /\ edge = FALSE
  /\ pc = "wait" /\ read_buffer = [i \in 1..kReadBufferSize |-> 0]
  /\ read_buffer_pos = 0 /\ readPos = 0 /\ closing = FALSE /\ delivered = <<>>

(***************************************************************************)
(* The network.                                                            *)
(***************************************************************************)
Arrive == /\ wire # <<>> /\ pc # "closed"
          /\ \E n \in 1..Len(wire) : /\ sock' = sock \o SubSeq(wire, 1, n)
                                     /\ wire' = SubSeq(wire, n + 1, Len(wire))
          /\ edge' = TRUE
          /\ UNCHANGED <<handler, packages, peer, pc, read_buffer, read_buffer_pos,
                         readPos, closing, delivered>>

Fin == /\ wire = <<>> /\ peer = "up" /\ pc # "closed"
       /\ peer' = "eof" /\ edge' = TRUE
       /\ UNCHANGED <<handler, packages, wire, sock, pc, read_buffer, read_buffer_pos,
                      readPos, closing, delivered>>

(***************************************************************************)
(* do_read                                                                 *)
(***************************************************************************)
process_event ==
  /\ pc = "wait" /\ edge
  /\ edge' = FALSE /\ pc' = "recv"
  /\ UNCHANGED <<netVars, read_buffer, read_buffer_pos, readPos, closing, delivered>>

bufSize == kReadBufferSize - read_buffer_pos

\* What do_read returns to: process_event ends with do_close if asked to.
Leave(close) == pc' = IF closing \/ close THEN "closed" ELSE "wait"

\* ::recv takes what there is, up to bufSize.
do_read_data ==
  /\ pc = "recv" /\ bufSize > 0 /\ sock # <<>>
  /\ LET n == IF Len(sock) < bufSize THEN Len(sock) ELSE bufSize IN
       /\ read_buffer' = [i \in 1..kReadBufferSize |->
            IF i - read_buffer_pos \in 1..n THEN sock[i - read_buffer_pos] ELSE read_buffer[i]]
       /\ read_buffer_pos' = read_buffer_pos + n
       /\ sock' = SubSeq(sock, n + 1, Len(sock))
  /\ readPos' = 0 /\ pc' = "parse"
  /\ UNCHANGED <<handler, packages, wire, peer, edge, closing, delivered>>

\* EAGAIN, or the end of the stream.
do_read_none ==
  /\ pc = "recv" /\ bufSize > 0 /\ sock = <<>>
  /\ closing' = (closing \/ peer = "eof") /\ Leave(peer = "eof")
  /\ UNCHANGED <<netVars, edge, read_buffer, read_buffer_pos, readPos, delivered>>

\* A full buffer is parsed again without a recv.
do_read_full ==
  /\ pc = "recv" /\ bufSize = 0
  /\ readPos' = 0 /\ pc' = "parse"
  /\ UNCHANGED <<netVars, edge, read_buffer, read_buffer_pos, closing, delivered>>

(***************************************************************************)
(* process_data                                                            *)
(***************************************************************************)

\* The byte at an offset from readPos; past read_buffer_pos it is whatever an
\* earlier package left there.
At(offset) == IF readPos + offset <= kReadBufferSize THEN read_buffer[readPos + offset] ELSE 0

\* handle_package(&read_buffer[readPos], read_buffer_pos): len is all that the
\* buffer holds, not what is left from readPos on.
handle_package(len) ==
  IF handler = "all" THEN len
  ELSE IF len < HeadSize THEN 0
  ELSE LET size == HeadSize + At(HeadSize)
       IN  IF handler = "checked" /\ size > len THEN 0 ELSE size

\* Mutant: a package that ends with the buffer is not seen as whole.
whole_strict(len) == len > 0 /\ len < read_buffer_pos - readPos

\* The test that pkgLen is a whole package.
whole(len) == len > 0 /\ len <= read_buffer_pos - readPos

pkgLen == handle_package(read_buffer_pos)

\* One package; handle_data may call close(), and process_data goes on.
process_data_package ==
  /\ pc = "parse" /\ readPos < read_buffer_pos /\ whole(pkgLen)
  /\ delivered' = Append(delivered, [i \in 1..pkgLen |-> At(i)])
  /\ readPos' = readPos + pkgLen
  /\ closing' \in {closing, TRUE}
  /\ UNCHANGED <<netVars, edge, pc, read_buffer, read_buffer_pos>>

\* Declared longer than the buffer can ever hold: close(), nothing is moved.
process_data_oversize ==
  /\ pc = "parse" /\ readPos < read_buffer_pos /\ ~whole(pkgLen)
  /\ pkgLen > kReadBufferSize
  /\ closing' = TRUE /\ Leave(TRUE)
  /\ UNCHANGED <<netVars, edge, read_buffer, read_buffer_pos, readPos, delivered>>

\* Mutant: the incomplete package is not moved to the front.
moved_none == read_buffer

\* memmove of what is left to the front; the bytes behind it stay.
moved == [i \in 1..kReadBufferSize |->
            IF i <= read_buffer_pos - readPos THEN read_buffer[readPos + i] ELSE read_buffer[i]]

\* Mutant: with a package incomplete, do_read waits for the next edge at once.
more_never == FALSE

\* process_data returned true: do_read calls itself again.
more == read_buffer_pos - readPos > 0

process_data_end ==
  /\ pc = "parse"
  /\ readPos >= read_buffer_pos \/ (~whole(pkgLen) /\ pkgLen <= kReadBufferSize)
  /\ read_buffer' = moved
  /\ read_buffer_pos' = read_buffer_pos - readPos /\ readPos' = 0
  /\ IF more THEN pc' = "recv" ELSE Leave(FALSE)
  /\ UNCHANGED <<netVars, edge, closing, delivered>>

do_read == do_read_data \/ do_read_none \/ do_read_full
process_data == process_data_package \/ process_data_oversize \/ process_data_end

Next == Arrive \/ Fin \/ process_event \/ do_read \/ process_data

Spec == Init /\ [][Next]_vars

\* The worker thread runs.
FairSpec == Spec /\ WF_vars(process_event \/ do_read \/ process_data)

(***************************************************************************)
(* Properties.                                                             *)
(***************************************************************************)

\* Packages come out as they went in (do_read, process_data): whatever the
\* segments, no byte is lost, repeated or reordered, so that what was delivered,
\* what is still in read_buffer and what has not been received make up the
\* peer's stream, and a framing handle_package gets one package at a time,
\* although it is told a length that is too large for what follows readPos and
\* may look at bytes of earlier packages.
Framing ==
  /\ Bytes(delivered) \o SubSeq(read_buffer, readPos + 1, read_buffer_pos) \o sock \o wire
       = Bytes(packages)
  /\ handler # "all" => IsPrefix(delivered, packages)

\* The worker never goes to sleep on half a package while there is more to
\* read: with an incomplete package in the buffer and no event pending, the
\* socket is empty and the peer has not finished.  (Between packages it may: one
\* recv per edge leaves data or FIN behind when the buffer ends up empty.)
PartialIsDrained ==
  pc = "wait" /\ ~edge /\ read_buffer_pos > 0 => sock = <<>> /\ peer = "up"

\* A package that read_buffer cannot hold fills it, and handle_package answers 0.
Stuck == /\ handler = "checked" /\ readPos = 0 /\ bufSize = 0
         /\ HeadSize + read_buffer[HeadSize] > kReadBufferSize

\* do_read's recursion ends and the worker gets on (do_read, process_data): all
\* packages are cut off or the connection closes, unless a package larger than
\* read_buffer meets a handle_package that asks for more, for which do_read
\* calls itself without end.
ReadReturns == pc \in {"recv", "parse"} ~> pc \in {"wait", "closed"} \/ Stuck
=============================================================================
