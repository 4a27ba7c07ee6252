------------------------------- MODULE Http -------------------------------
(***************************************************************************)
(* One connection of an HttpServer (http_connection.h): the requests of a  *)
(* client arrive in segments cut anywhere, and handle_data parses each     *)
(* segment with a decoder of its own (http_decoder.h), looks for the       *)
(* handler of the path among http_routers (http_factory.h), answers and    *)
(* closes.  Another thread may call close() at any time.                   *)
(*                                                                         *)
(* A request is three units of bytes: <<k, 1>> ends in the middle of the   *)
(* URL of request k, <<k, 2>> ends with its headers, <<k, 3>> is its body. *)
(* Answers are the status codes handed to send; TcpConnection shows what   *)
(* becomes of bytes that were handed over.                                 *)
(***************************************************************************)
EXTENDS Integers, Sequences, SequencesExt, FiniteSetsExt

CONSTANTS
  Paths,         \* paths of URLs
  Malformed,     \* a URL that http_parser_parse_url refuses
  NoPath,        \* a URL without a path, or a head that the parser refuses
  NoMethod,      \* a request whose first byte begins no method
  Other,         \* a path that is nobody's
  Empty,         \* the empty path of a decoder that has seen none
  MaxRequests    \* bound: requests of the client

ASSUME UrlsAssumption == Paths \cap {Malformed, NoPath, NoMethod, Other, Empty} = {}
ASSUME BoundAssumption == MaxRequests \in Nat

VARIABLES
  http_routers,  \* registered path |-> the functions of its HttpHandler
  requests,      \* [url, keep], keep for a connection that stays open
  wire,          \* units that have not arrived
  segment,       \* the units handle_data was last called with
  conn_status,   \* OPEN, CLOSING or CLOSED
  pc,            \* where the worker is in process_event
  path,          \* ctx->request.path()
  rst,           \* what the handler returned, negative or not
  out,           \* status codes sent, 0 for what a handler wrote itself
  calls,         \* [path, does] of the handlers called
  interrupted    \* another thread has called close()

vars == <<http_routers, requests, wire, segment, conn_status, pc, path, rst, out, calls,
          interrupted>>
clientVars == <<http_routers, requests>>

Units(k) == <<<<k, 1>>, <<k, 2>>, <<k, 3>>>>

\* register_router has been called for some paths: with a function of the
\* request, one of the context, both in turn, or an empty HttpHandler.
Init ==
  /\ \E registered \in SUBSET Paths :
       http_routers \in [registered -> SUBSET {"http", "context"}]
  /\ \E n \in 1..MaxRequests :
       /\ requests \in [1..n -> [url : Paths \cup {Malformed, NoPath, NoMethod},
                                keep : BOOLEAN]]
       /\ wire = FlattenSeq([k \in 1..n |-> Units(k)])
  /\ segment = <<>> /\ conn_status = "OPEN" /\ pc = "wait"
  /\ path = Empty /\ rst = 0 /\ out = <<>> /\ calls = <<>> /\ interrupted = FALSE

-----------------------------------------------------------------------------
\* send: msend refuses a connection that is not open.
send(code) == out' = IF conn_status = "OPEN" THEN Append(out, code) ELSE out
close == conn_status' = IF conn_status = "OPEN" THEN "CLOSING" ELSE conn_status

\* Mutant: the connection is left open.
write_open(code) == send(code) /\ UNCHANGED conn_status

\* HttpConnection::write.
write(code) == send(code) /\ close

(***************************************************************************)
(* The decoder.  http_parser starts anew with every segment and runs       *)
(* through all requests in it.  It stops at a first byte that begins no    *)
(* method and at a head without a path, and takes no more (it is built     *)
(* with HTTP_PARSER_STRICT) after a request that does not keep the         *)
(* connection open.                                                        *)
(***************************************************************************)

\* Requests with a beginning in s.
begun(s) == {k \in DOMAIN requests : <<k, 1>> \in ToSet(s)}

\* Those whose URL, or its beginning at the end of s, parse_url keeps in
\* request_url.
told(s) ==
  {k \in begun(s) :
     /\ requests[k].url # NoMethod
     /\ \A j \in begun(s) :
          j < k => requests[j].keep /\ requests[j].url \notin {NoPath, NoMethod}}

\* Mutant: the URL counts before the headers are complete.
complete_url(s) == told(s)

\* Those with on_headers_complete.
complete(s) == {k \in told(s) : <<k, 2>> \in ToSet(s)}

\* http_path at the end.  It is a view into request_url, of the last complete
\* request whose URL has a path (a malformed URL is ignored).  If parse_url has
\* assigned a later URL to request_url, the view shows bytes of that one or of
\* memory that was freed, and these may read as anything.
parse_header_complete(s) ==
  LET good == {k \in complete(s) : requests[k].url \in Paths}
  IN  IF good = {} THEN {Empty}
      ELSE IF Max(good) = Max(told(s)) THEN {requests[Max(good)].url}
      ELSE Paths \cup {Other}

\* http_parser_execute returns 0 if it refuses the first byte.  The bytes of a
\* segment that begins inside a request are taken for a request, and a body may
\* look like one: msgLen and path can be anything.
parse_request(s) ==
  IF s[1][2] = 1
  THEN IF requests[s[1][1]].url = NoMethod THEN {[msgLen |-> 0, path |-> Empty]}
       ELSE [msgLen : {Len(s)}, path : parse_header_complete(s)]
  ELSE {[msgLen |-> 0, path |-> Empty]}
         \cup [msgLen : {Len(s)}, path : Paths \cup {Other, Empty}]

(***************************************************************************)
(* The worker.                                                             *)
(***************************************************************************)

\* recv, with the default handle_package: all that has arrived is one package.
do_read ==
  /\ pc = "wait" /\ conn_status # "CLOSED" /\ wire # <<>>
  /\ \E n \in 1..Len(wire) : /\ segment' = SubSeq(wire, 1, n)
                             /\ wire' = SubSeq(wire, n + 1, Len(wire))
  /\ pc' = "parse"
  /\ UNCHANGED <<clientVars, conn_status, path, rst, out, calls, interrupted>>

\* Nothing happens to bytes of which the parser took none: the connection stays
\* open and the next segment is parsed from its own first byte.
handle_data ==
  /\ pc = "parse"
  /\ \E r \in parse_request(segment) :
       /\ path' = r.path
       /\ pc' = IF r.msgLen > 0 /\ r.path \in DOMAIN http_routers THEN "call" ELSE "end"
       /\ IF r.msgLen > 0 /\ r.path \notin DOMAIN http_routers
            THEN write(404) ELSE UNCHANGED <<out, conn_status>>
  /\ UNCHANGED <<clientVars, wire, segment, rst, calls, interrupted>>

\* HttpResponse::write of a handler, through the writer that handle_data set.
response_write == send(0)

\* HttpHandler::call.  A registered function answers and returns what write
\* returned, or answers and fails, or fails, or does nothing.  An empty
\* HttpHandler answers by itself.
call ==
  /\ pc = "call" /\ pc' = "called"
  /\ \E does \in IF http_routers[path] = {} THEN {"reply"}
                 ELSE {"reply", "reply_fail", "fail", "silent"} :
       /\ calls' = Append(calls, [path |-> path, does |-> does])
       /\ IF does \in {"reply", "reply_fail"} THEN response_write ELSE UNCHANGED out
       /\ rst' = IF does \in {"reply_fail", "fail"} \/ (does = "reply" /\ conn_status # "OPEN")
                 THEN -1 ELSE 0
  /\ UNCHANGED <<clientVars, wire, segment, conn_status, path, interrupted>>

\* Mutant: only a failed handler's connection is closed.
handle_data_keep ==
  /\ pc = "called" /\ pc' = "end"
  /\ IF rst < 0 THEN write(501) ELSE UNCHANGED <<out, conn_status>>
  /\ UNCHANGED <<clientVars, wire, segment, path, rst, calls, interrupted>>

\* The rest of handle_data: 501 for a handler that failed, and close().
handle_data_end ==
  /\ pc = "called" /\ pc' = "end"
  /\ IF rst < 0 THEN write(501) ELSE close /\ UNCHANGED out
  /\ UNCHANGED <<clientVars, wire, segment, path, rst, calls, interrupted>>

\* The end of process_event, also of an event without data; do_close drops
\* what has not been read.
process_event_end ==
  /\ \/ pc = "end"
     \/ pc = "wait" /\ conn_status = "CLOSING"
  /\ pc' = "wait"
  /\ conn_status' = IF conn_status = "CLOSING" THEN "CLOSED" ELSE conn_status
  /\ UNCHANGED <<clientVars, wire, segment, path, rst, out, calls, interrupted>>

\* Another thread, or a send that fails.
other_close ==
  /\ conn_status = "OPEN" /\ close /\ interrupted' = TRUE
  /\ UNCHANGED <<clientVars, wire, segment, pc, path, rst, out, calls>>

Worker == do_read \/ handle_data \/ call \/ handle_data_end \/ process_event_end
Next == Worker \/ other_close

Spec == Init /\ [][Next]_vars

\* The worker runs, and handlers return.
FairSpec == Spec /\ WF_vars(handle_data \/ call \/ handle_data_end \/ process_event_end)

(***************************************************************************)
(* Properties.                                                             *)
(***************************************************************************)

\* A client gets one answer (handle_data, write, close): handlers are called for
\* one segment of a connection only, there is a second answer only if a handler
\* writes one and fails, and none only if the handler is silent or another
\* thread closes the connection.
OneAnswer ==
  /\ Len(calls) =< 1
  /\ Len(out) > 1 => out = <<0, 501>> /\ calls[1].does = "reply_fail"
  /\ conn_status = "CLOSED" /\ segment # <<>> /\ ~interrupted /\ out = <<>> =>
       calls # <<>> /\ calls[1].does = "silent"

\* The answer is to a request of the client (parse_url, parse_header_complete,
\* the map of routers).  When a segment begins with a request, a handler is
\* called with the path of a request whose whole head came in it, unless after
\* such a head the parser came to a URL that is cut off or refused: parse_url has
\* then put other bytes under http_path.  And a request that came alone in a segment and
\* has a handler is not answered by 404.
RightRequest ==
  LET whole == {k \in DOMAIN requests : {<<k, 1>>, <<k, 2>>} \subseteq ToSet(segment)}
      good == {k \in whole : requests[k].url \in Paths}
      overwritten == \E k \in good, j \in told(segment) : k < j /\ j \notin good
  IN  segment # <<>> /\ segment[1][2] = 1 =>
        /\ \/ overwritten
           \/ \A i \in DOMAIN calls : \E k \in good : requests[k].url = calls[i].path
        /\ (\E k \in good : segment = Units(k) /\ requests[k].url \in DOMAIN http_routers)
             => 404 \notin ToSet(out)

\* The connection ends (handle_data, process_event): a segment that begins with a
\* request, well formed or not, complete or not, closes its connection.  Bytes
\* whose first begins no method do not: nothing is answered, and the connection
\* stays open.
ConnectionEnds ==
  segment # <<>> /\ segment[1][2] = 1 /\ requests[segment[1][1]].url # NoMethod
    ~> conn_status = "CLOSED"
=============================================================================
