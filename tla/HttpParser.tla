----------------------------- MODULE HttpParser -----------------------------
(***************************************************************************)
(* http_parser_execute (http_parser.h, strict build) reading one stream of *)
(* bytes.  An action is a case of its switch; pc tells where the execution *)
(* is: "call" between two calls, "first" at the first byte of a buffer,    *)
(* "head" at the head of the loop over the bytes, "switch" at the label    *)
(* reexecute, "loop" in the loop over a header's name or value, "stop"     *)
(* when the caller has nothing more to give.                               *)
(*                                                                         *)
(* How the stream is cut into calls is not chosen in advance: wherever the *)
(* code compares p with data + len, the buffer may end there.  The locals  *)
(* p_state, nread and h_state are the parser's fields, which they are      *)
(* copied to before anything else can look.                                *)
(***************************************************************************)
EXTENDS HttpCodec, FiniteSets

CONSTANTS
  Streams,          \* sequence of [type, bytes, snet, reply, says, errno, rest, decodes]
  max_header_size,  \* HTTP_MAX_HEADER_SIZE
  ULLONG_MAX        \* the largest content_length, which means that there is none

\* One digit, decimal or hexadecimal, is no length that means none.
ASSUME ParserAssumption == max_header_size \in Nat /\ ULLONG_MAX \in Nat /\ ULLONG_MAX > 15

ASSUME StreamsAssumption == \A i \in DOMAIN Streams : Streams[i].bytes \in Seq(STRING)

VARIABLES
  stream,   \* the stream that is read
  p,        \* position of the current byte
  parser,   \* struct http_parser
  mark,     \* the five marks, 0 for NULL
  loop,     \* of a header's loop: its first byte, and the end of the scan of h_general
  pc,
  ret,      \* position after the last byte the calls have consumed, when they are over
  on,       \* what the callbacks were told, pieces of one text put together
  decoder,  \* HttpDecoder, when it is snet that reads
  began     \* position of the byte at which on_message_begin was called

vars == <<stream, p, parser, mark, loop, pc, ret, on, decoder, began>>

Input == stream.bytes
snet == stream.snet
ch == Input[p]

\* All states after s_headers_done are states of a body.
PARSING_HEADER(s) ==
  s \notin {"s_chunk_data", "s_chunk_data_almost_done", "s_chunk_data_done",
            "s_body_identity", "s_body_identity_eof", "s_message_done"}

Marks == <<"header_field", "header_value", "url", "body", "status">>
NoMarks == [m \in ToSet(Marks) |-> 0]
NoLoop == [start |-> 0, pe |-> 0]

start_state(q) == IF q.type = "HTTP_REQUEST" THEN "s_start_req" ELSE "s_start_res"

http_parser_init(t) ==
  [type |-> t, flags |-> {}, header_state |-> "h_general", index |-> 0, nread |-> 0,
   state |-> IF t = "HTTP_BOTH" THEN "s_start_req_or_res" ELSE start_state([type |-> t]),
   content_length |-> 0, http_major |-> 0, http_minor |-> 0, status_code |-> 0,
   method |-> "DELETE", http_errno |-> "HPE_OK", upgrade |-> FALSE]

Init ==
  /\ \E i \in DOMAIN Streams : stream = Streams[i]
  /\ p = 1 /\ ret = 0 /\ began = 0
  /\ parser = http_parser_init(stream.type)
  /\ mark = NoMarks /\ loop = NoLoop
  /\ pc = "call" /\ on = <<>> /\ decoder = NewDecoder

-----------------------------------------------------------------------------
(* The macros.                                                             *)

At(S) == pc = "switch" /\ parser.state \in S
State(s) == [parser EXCEPT !.state = s]

Frame == UNCHANGED <<stream, began>>
Silent == UNCHANGED <<on, mark, decoder>> /\ Frame

Break(q) == parser' = q /\ p' = p + 1 /\ pc' = "head" /\ loop' = NoLoop /\ UNCHANGED ret
Reexecute(q) == parser' = q /\ pc' = "switch" /\ loop' = NoLoop /\ UNCHANGED <<p, ret>>
Return(q, n) == parser' = q /\ pc' = "stop" /\ ret' = n /\ loop' = NoLoop /\ UNCHANGED p
Error(e) == Return([parser EXCEPT !.http_errno = e], p)

\* SET_ERRNO(HPE_HEADER_OVERFLOW) when the head is too long.
COUNT_HEADER_SIZE(q, n) ==
  IF q.nread + n > max_header_size
  THEN [q EXCEPT !.nread = @ + n, !.http_errno = "HPE_HEADER_OVERFLOW"]
  ELSE [q EXCEPT !.nread = @ + n]

MARK(m) == mark' = IF mark[m] = 0 THEN [mark EXCEPT ![m] = p] ELSE mark

Told(said, cb, text) ==
  IF said # <<>> /\ Last(said)[1] = cb
  THEN Append(Front(said), <<cb, Last(said)[2] \o text>>)
  ELSE Append(said, <<cb, text>>)

\* CALLBACK_NOTIFY: none of these callbacks of HttpDecoder does anything but log.
Notify(cb) == on' = Append(on, <<cb, <<>>>>)

\* The data callbacks of HttpDecoder.
Decode(d, cb, text, q) ==
  CASE cb = "url" -> IF q.type = "HTTP_REQUEST" THEN parse_url(d, text) ELSE d
    [] cb = "status" -> IF q.type = "HTTP_RESPONSE" THEN parse_status(d, text, q.status_code) ELSE d
    [] cb = "header_field" -> parse_field(d, text)
    [] cb = "header_value" -> parse_value(d, text)
    [] cb = "body" -> parse_body(d, text)

\* CALLBACK_DATA with the bytes from marks[cb] up to the one before position end.
CallbackData(cb, marks, end) ==
  IF marks[cb] = 0 THEN UNCHANGED <<on, decoder>> /\ mark' = marks
  ELSE LET text == SubSeq(Input, marks[cb], end - 1)
       IN  /\ on' = Told(on, cb, text)
           /\ decoder' = IF snet THEN Decode(decoder, cb, text, parser) ELSE decoder
           /\ mark' = [marks EXCEPT ![cb] = 0]

http_message_needs_eof(q) ==
  /\ q.type # "HTTP_REQUEST"
  /\ q.status_code \div 100 # 1
  /\ q.status_code \notin {204, 304}
  /\ q.flags \cap {"F_SKIPBODY", "F_CHUNKED"} = {}
  /\ q.content_length = ULLONG_MAX

http_should_keep_alive(q) ==
  /\ IF q.http_major > 0 /\ q.http_minor > 0 THEN "F_CONNECTION_CLOSE" \notin q.flags
     ELSE "F_CONNECTION_KEEP_ALIVE" \in q.flags
  /\ ~http_message_needs_eof(q)

NewMessage(q) == [q EXCEPT !.state = IF http_should_keep_alive(q) THEN start_state(q)
                                     ELSE "s_dead"]

-----------------------------------------------------------------------------
(* Calls, the loop over the bytes and the end of a buffer.                 *)

UrlStates == {"s_req_path", "s_req_schema", "s_req_schema_slash", "s_req_schema_slash_slash",
              "s_req_server_start", "s_req_server", "s_req_server_with_at",
              "s_req_query_string_start", "s_req_query_string", "s_req_fragment_start",
              "s_req_fragment"}

\* Mutant: a call does not mark the value that goes on at its first byte.
execute_forgets ==
  /\ pc = "call" /\ p <= Len(Input)
  /\ pc' = "first"
  /\ mark' = [NoMarks EXCEPT
       !["header_field"] = IF parser.state = "s_header_field" THEN p ELSE 0,
       !["url"] = IF parser.state \in UrlStates THEN p ELSE 0,
       !["status"] = IF parser.state = "s_res_status" THEN p ELSE 0]
  /\ UNCHANGED <<stream, p, parser, loop, ret, on, decoder, began>>

\* A call with the next bytes: the text that is being read goes on at its first one.
execute ==
  /\ pc = "call" /\ p <= Len(Input)
  /\ pc' = "first"
  /\ mark' = [NoMarks EXCEPT
       !["header_field"] = IF parser.state = "s_header_field" THEN p ELSE 0,
       !["header_value"] = IF parser.state = "s_header_value" THEN p ELSE 0,
       !["url"] = IF parser.state \in UrlStates THEN p ELSE 0,
       !["status"] = IF parser.state = "s_res_status" THEN p ELSE 0]
  /\ UNCHANGED <<stream, p, parser, loop, ret, on, decoder, began>>

\* A call with no bytes: the stream has ended.
execute_eof ==
  /\ pc = "call" /\ p > Len(Input) /\ ~snet
  /\ pc' = "stop" /\ ret' = p
  /\ CASE parser.state = "s_body_identity_eof" -> Notify("message_complete") /\ UNCHANGED parser
       [] parser.state \in {"s_dead", "s_start_req_or_res", "s_start_res", "s_start_req"} ->
            UNCHANGED <<on, parser>>
       [] OTHER -> parser' = [parser EXCEPT !.http_errno = "HPE_INVALID_EOF_STATE"] /\ UNCHANGED on
  /\ UNCHANGED <<stream, p, mark, loop, decoder, began>>

\* These cases have already taken all the bytes that are left in the buffer.
TookRest == mark["body"] # 0 /\ parser.state \in {"s_body_identity", "s_body_identity_eof", "s_chunk_data"}

next_byte ==
  /\ pc \in {"first", "head"} /\ p <= Len(Input) /\ ~TookRest
  /\ LET q == IF PARSING_HEADER(parser.state) THEN COUNT_HEADER_SIZE(parser, 1) ELSE parser
     IN  IF q.http_errno # "HPE_OK" THEN Return(q, p) ELSE Reexecute(q)
  /\ Silent

\* Mutant: the bytes of a name or a value that a buffer ends in are not counted.
end_of_data_uncounted ==
  /\ pc = "head" \/ (pc = "loop" /\ p > loop.start)
  /\ snet => p > Len(Input)
  /\ LET left == {m \in ToSet(Marks) : mark[m] # 0}
     IN  /\ IF snet THEN Return(parser, p)
            ELSE pc' = "call" /\ loop' = NoLoop /\ UNCHANGED <<p, parser, ret>>
         /\ IF left = {} THEN UNCHANGED <<on, mark, decoder>>
            ELSE CallbackData(CHOOSE m \in left : TRUE, mark, p)
  /\ Frame

\* p has come to data + len, which is after the first byte of the buffer and of a loop.
\* snet gives all it has in one call.
end_of_data ==
  /\ pc = "head" \/ (pc = "loop" /\ p > loop.start)
  /\ snet => p > Len(Input)
  /\ LET q == IF pc = "loop" THEN COUNT_HEADER_SIZE(parser, p - 1 - loop.start) ELSE parser
         left == {m \in ToSet(Marks) : mark[m] # 0}
     IN  IF q.http_errno # "HPE_OK"
         THEN Return(q, p - 1) /\ UNCHANGED <<on, mark, decoder>>
         ELSE /\ IF snet THEN Return(q, p)
                 ELSE parser' = q /\ pc' = "call" /\ loop' = NoLoop /\ UNCHANGED <<p, ret>>
              /\ IF left = {} THEN UNCHANGED <<on, mark, decoder>>
                 ELSE CallbackData(CHOOSE m \in left : TRUE, mark, p)
  /\ Frame

-----------------------------------------------------------------------------
(* The first line of a message.                                            *)

s_dead ==
  /\ At({"s_dead"})
  /\ IF ch \in {CR, LF} THEN Break(parser) ELSE Error("HPE_CLOSED_CONNECTION")
  /\ Silent

Cleared(q) == [q EXCEPT !.flags = {}, !.content_length = ULLONG_MAX]

\* on_message_begin: the byte is the first one of a message.
Begin(q) ==
  /\ Break(q) /\ Notify("message_begin") /\ began' = p
  /\ UNCHANGED <<stream, mark, decoder>>

s_start_req_or_res ==
  /\ At({"s_start_req_or_res"})
  /\ CASE ch \in {CR, LF} -> Break(parser) /\ Silent
       [] ch = "H" -> Begin([Cleared(parser) EXCEPT !.state = "s_res_or_resp_H"])
       [] OTHER -> /\ Reexecute([Cleared(parser) EXCEPT !.type = "HTTP_REQUEST",
                                                        !.state = "s_start_req"])
                   /\ Silent

s_res_or_resp_H ==
  /\ At({"s_res_or_resp_H"})
  /\ CASE ch = "T" -> Break([parser EXCEPT !.type = "HTTP_RESPONSE", !.state = "s_res_HT"])
       [] ch = "E" -> Break([parser EXCEPT !.type = "HTTP_REQUEST", !.method = "HEAD",
                                           !.index = 2, !.state = "s_req_method"])
       [] OTHER -> Error("HPE_INVALID_CONSTANT")
  /\ Silent

s_start_res ==
  /\ At({"s_start_res"})
  /\ CASE ch \in {CR, LF} -> Break(parser) /\ Silent
       [] ch = "H" -> Begin([Cleared(parser) EXCEPT !.state = "s_res_H"])
       [] OTHER -> Error("HPE_INVALID_CONSTANT") /\ Silent

\* A state in which one character is expected, the next state, and the error.
Expect(c, to, e) == [ch |-> c, to |-> to, e |-> e]

res_http == [
  s_res_H        |-> Expect("T", "s_res_HT", "HPE_STRICT"),
  s_res_HT       |-> Expect("T", "s_res_HTT", "HPE_STRICT"),
  s_res_HTT      |-> Expect("P", "s_res_HTTP", "HPE_STRICT"),
  s_res_HTTP     |-> Expect("/", "s_res_http_major", "HPE_STRICT"),
  s_res_http_dot |-> Expect(".", "s_res_http_minor", "HPE_INVALID_VERSION"),
  s_res_http_end |-> Expect(" ", "s_res_first_status_code", "HPE_INVALID_VERSION")]

Constant(table) ==
  /\ At(DOMAIN table)
  /\ IF ch = table[parser.state].ch THEN Break(State(table[parser.state].to))
     ELSE Error(table[parser.state].e)
  /\ Silent

s_res_http == Constant(res_http)

s_res_http_number ==
  /\ At({"s_res_http_major", "s_res_http_minor"})
  /\ IF ~IS_NUMBER(ch) THEN Error("HPE_INVALID_VERSION")
     ELSE IF parser.state = "s_res_http_major"
     THEN Break([parser EXCEPT !.http_major = DIGIT(ch), !.state = "s_res_http_dot"])
     ELSE Break([parser EXCEPT !.http_minor = DIGIT(ch), !.state = "s_res_http_end"])
  /\ Silent

s_res_first_status_code ==
  /\ At({"s_res_first_status_code"})
  /\ CASE IS_NUMBER(ch) ->
            Break([parser EXCEPT !.status_code = DIGIT(ch), !.state = "s_res_status_code"])
       [] ch = " " -> Break(parser)
       [] OTHER -> Error("HPE_INVALID_STATUS")
  /\ Silent

s_res_status_code ==
  /\ At({"s_res_status_code"})
  /\ LET code == 10 * parser.status_code + DIGIT(ch)
     IN  CASE ch = " " -> Break(State("s_res_status_start"))
           [] ch \in {CR, LF} -> Reexecute(State("s_res_status_start"))
           [] OTHER -> IF IS_NUMBER(ch) /\ code <= 999
                       THEN Break([parser EXCEPT !.status_code = code])
                       ELSE Error("HPE_INVALID_STATUS")
  /\ Silent

s_res_status_start ==
  /\ At({"s_res_status_start"})
  /\ MARK("status")
  /\ LET q == [State("s_res_status") EXCEPT !.index = 0]
     IN  IF ch \in {CR, LF} THEN Reexecute(q) ELSE Break(q)
  /\ UNCHANGED <<on, decoder>> /\ Frame

s_res_status ==
  /\ At({"s_res_status"})
  /\ IF ch \in {CR, LF}
     THEN /\ Break(State(IF ch = CR THEN "s_res_line_almost_done" ELSE "s_header_field_start"))
          /\ CallbackData("status", mark, p)
     ELSE Break(parser) /\ UNCHANGED <<on, mark, decoder>>
  /\ Frame

s_res_line_almost_done ==
  Constant([s_res_line_almost_done |-> Expect(LF, "s_header_field_start", "HPE_STRICT")])

FirstMethod == [
  A |-> "ACL", B |-> "BIND", C |-> "CONNECT", D |-> "DELETE", G |-> "GET", H |-> "HEAD",
  L |-> "LOCK", M |-> "MKCOL", N |-> "NOTIFY", O |-> "OPTIONS", P |-> "POST", R |-> "REPORT",
  S |-> "SUBSCRIBE", T |-> "TRACE", U |-> "UNLOCK"]

s_start_req ==
  /\ At({"s_start_req"})
  /\ CASE ch \in {CR, LF} -> Break(parser) /\ Silent
       [] ch \in DOMAIN FirstMethod ->
            Begin([Cleared(parser) EXCEPT !.method = FirstMethod[ch], !.index = 1,
                                          !.state = "s_req_method"])
       [] OTHER -> Error("HPE_INVALID_METHOD") /\ Silent

\* method_strings[]
MethodText(m) == Bytes(IF m = "MSEARCH" THEN "M-SEARCH" ELSE m)

\* The method read so far, the index of the character, the character, and the method it means.
OtherMethod == {
  <<"POST", 1, "U", "PUT">>, <<"POST", 1, "A", "PATCH">>, <<"POST", 1, "R", "PROPFIND">>,
  <<"PUT", 2, "R", "PURGE">>, <<"CONNECT", 1, "H", "CHECKOUT">>, <<"CONNECT", 2, "P", "COPY">>,
  <<"MKCOL", 1, "O", "MOVE">>, <<"MKCOL", 1, "E", "MERGE">>, <<"MKCOL", 1, "-", "MSEARCH">>,
  <<"MKCOL", 2, "A", "MKACTIVITY">>, <<"MKCOL", 3, "A", "MKCALENDAR">>,
  <<"SUBSCRIBE", 1, "E", "SEARCH">>, <<"SUBSCRIBE", 1, "O", "SOURCE">>,
  <<"REPORT", 2, "B", "REBIND">>, <<"PROPFIND", 4, "P", "PROPPATCH">>, <<"LOCK", 1, "I", "LINK">>,
  <<"UNLOCK", 2, "S", "UNSUBSCRIBE">>, <<"UNLOCK", 2, "B", "UNBIND">>, <<"UNLOCK", 3, "I", "UNLINK">>}

s_req_method ==
  /\ At({"s_req_method"})
  /\ LET matcher == MethodText(parser.method)
         i == parser.index
         q == [parser EXCEPT !.index = i + 1]
         others == {x \in OtherMethod : x[1] = parser.method /\ x[2] = i /\ x[3] = ch}
     IN  CASE ch = " " /\ i = Len(matcher) -> Break([q EXCEPT !.state = "s_req_spaces_before_url"])
           [] i < Len(matcher) /\ ch = matcher[i + 1] -> Break(q)
           [] others # {} -> Break([q EXCEPT !.method = (CHOOSE x \in others : TRUE)[4]])
           [] OTHER -> Error("HPE_INVALID_METHOD")
  /\ Silent

\* The next state of a url; s_dead is an error.
UrlStep(s) == LET t == parse_url_char(s, ch)
              IN  IF t = "s_dead" THEN Error("HPE_INVALID_URL") ELSE Break(State(t))

s_req_spaces_before_url ==
  /\ At({"s_req_spaces_before_url"})
  /\ IF ch = " " THEN Break(parser) /\ UNCHANGED mark
     ELSE /\ MARK("url")
          /\ UrlStep(IF parser.method = "CONNECT" THEN "s_req_server_start" ELSE parser.state)
  /\ UNCHANGED <<on, decoder>> /\ Frame

\* Before the server's name begins, a url cannot end.
s_req_schema ==
  /\ At({"s_req_schema", "s_req_schema_slash", "s_req_schema_slash_slash", "s_req_server_start"})
  /\ UrlStep(parser.state)
  /\ Silent

s_req_url ==
  /\ At({"s_req_server", "s_req_server_with_at", "s_req_path", "s_req_query_string_start",
         "s_req_query_string", "s_req_fragment_start", "s_req_fragment"})
  /\ CASE ch = " " -> Break(State("s_req_http_start")) /\ CallbackData("url", mark, p)
       [] ch \in {CR, LF} ->
            /\ Break([parser EXCEPT !.http_major = 0, !.http_minor = 9,
                 !.state = IF ch = CR THEN "s_req_line_almost_done" ELSE "s_header_field_start"])
            /\ CallbackData("url", mark, p)
       [] OTHER -> UrlStep(parser.state) /\ UNCHANGED <<on, mark, decoder>>
  /\ Frame

s_req_http_start ==
  /\ At({"s_req_http_start"})
  /\ CASE ch = " " -> Break(parser)
       [] ch = "H" -> Break(State("s_req_http_H"))
       [] ch = "I" /\ parser.method = "SOURCE" -> Break(State("s_req_http_I"))
       [] OTHER -> Error("HPE_INVALID_CONSTANT")
  /\ Silent

req_http == [
  s_req_http_H    |-> Expect("T", "s_req_http_HT", "HPE_STRICT"),
  s_req_http_HT   |-> Expect("T", "s_req_http_HTT", "HPE_STRICT"),
  s_req_http_HTT  |-> Expect("P", "s_req_http_HTTP", "HPE_STRICT"),
  s_req_http_I    |-> Expect("C", "s_req_http_IC", "HPE_STRICT"),
  s_req_http_IC   |-> Expect("E", "s_req_http_HTTP", "HPE_STRICT"),
  s_req_http_HTTP |-> Expect("/", "s_req_http_major", "HPE_STRICT"),
  s_req_http_dot  |-> Expect(".", "s_req_http_minor", "HPE_INVALID_VERSION")]

s_req_http == Constant(req_http)

s_req_http_number ==
  /\ At({"s_req_http_major", "s_req_http_minor"})
  /\ IF ~IS_NUMBER(ch) THEN Error("HPE_INVALID_VERSION")
     ELSE IF parser.state = "s_req_http_major"
     THEN Break([parser EXCEPT !.http_major = DIGIT(ch), !.state = "s_req_http_dot"])
     ELSE Break([parser EXCEPT !.http_minor = DIGIT(ch), !.state = "s_req_http_end"])
  /\ Silent

s_req_http_end ==
  /\ At({"s_req_http_end"})
  /\ CASE ch = CR -> Break(State("s_req_line_almost_done"))
       [] ch = LF -> Break(State("s_header_field_start"))
       [] OTHER -> Error("HPE_INVALID_VERSION")
  /\ Silent

s_req_line_almost_done ==
  Constant([s_req_line_almost_done |-> Expect(LF, "s_header_field_start", "HPE_LF_EXPECTED")])

-----------------------------------------------------------------------------
(* Headers.                                                                *)

s_header_field_start ==
  /\ At({"s_header_field_start"})
  /\ CASE ch = CR -> Break(State("s_headers_almost_done")) /\ UNCHANGED mark
       [] ch = LF -> Reexecute(State("s_headers_almost_done")) /\ UNCHANGED mark
       [] ch \notin TOKENS \cup {CR, LF} -> Error("HPE_INVALID_HEADER_TOKEN") /\ UNCHANGED mark
       [] OTHER ->
            /\ MARK("header_field")
            /\ Break([parser EXCEPT !.index = 0, !.state = "s_header_field",
                 !.header_state = CASE TOKEN(ch) = "c" -> "h_C"
                                    [] TOKEN(ch) = "p" -> "h_matching_proxy_connection"
                                    [] TOKEN(ch) = "t" -> "h_matching_transfer_encoding"
                                    [] TOKEN(ch) = "u" -> "h_matching_upgrade"
                                    [] OTHER -> "h_general"])
  /\ UNCHANGED <<on, decoder>> /\ Frame

\* The next character of a word: the word is found, still possible, or not there.
Matching(q, c, word, found, missed) ==
  LET i == q.index + 1
      h == CASE i >= Len(word) \/ c # word[i + 1] -> missed
             [] i = Len(word) - 1 -> found
             [] OTHER -> q.header_state
  IN  [q EXCEPT !.index = i, !.header_state = h]

FieldWords == [
  h_matching_connection        |-> <<Bytes("connection"), "h_connection">>,
  h_matching_proxy_connection  |-> <<Bytes("proxy-connection"), "h_connection">>,
  h_matching_content_length    |-> <<Bytes("content-length"), "h_content_length">>,
  h_matching_transfer_encoding |-> <<Bytes("transfer-encoding"), "h_transfer_encoding">>,
  h_matching_upgrade           |-> <<Bytes("upgrade"), "h_upgrade">>]

\* One character of a header's name.
FieldChar(q, c) ==
  LET h == q.header_state
      Next_h(to) == [q EXCEPT !.index = @ + 1, !.header_state = to]
  IN  CASE h = "h_general" -> q
        [] h = "h_C" -> Next_h(IF c = "o" THEN "h_CO" ELSE "h_general")
        [] h = "h_CO" -> Next_h(IF c = "n" THEN "h_CON" ELSE "h_general")
        [] h = "h_CON" -> Next_h(CASE c = "n" -> "h_matching_connection"
                                   [] c = "t" -> "h_matching_content_length"
                                   [] OTHER -> "h_general")
        [] h \in DOMAIN FieldWords -> Matching(q, c, FieldWords[h][1], FieldWords[h][2], "h_general")
        [] OTHER -> [q EXCEPT !.header_state = "h_general"]

\* start = p: the bytes of the loop are counted when it is left.
enter_loop ==
  /\ At({"s_header_field", "s_header_value"})
  /\ loop' = [start |-> p, pe |-> 0] /\ pc' = "loop"
  /\ UNCHANGED <<p, parser, ret>> /\ Silent

Looping(s) == pc = "loop" /\ parser.state = s /\ p <= Len(Input)

s_header_field ==
  /\ Looping("s_header_field") /\ TOKEN(ch) # ""
  /\ parser' = FieldChar(parser, TOKEN(ch)) /\ p' = p + 1
  /\ UNCHANGED <<loop, pc, ret>> /\ Silent

s_header_field_end ==
  /\ Looping("s_header_field") /\ TOKEN(ch) = ""
  /\ LET q == COUNT_HEADER_SIZE(parser, p - loop.start)
     IN  IF q.http_errno = "HPE_OK" /\ ch = ":"
         THEN /\ Break([q EXCEPT !.state = "s_header_value_discard_ws"])
              /\ CallbackData("header_field", mark, p)
         ELSE /\ IF q.http_errno = "HPE_OK" THEN Error("HPE_INVALID_HEADER_TOKEN") ELSE Return(q, p)
              /\ UNCHANGED <<on, mark, decoder>>
  /\ Frame

ConnectionWord(c, missed) ==
  CASE c = "k" -> "h_matching_connection_keep_alive"
    [] c = "c" -> "h_matching_connection_close"
    [] c = "u" -> "h_matching_connection_upgrade"
    [] OTHER -> missed

\* The first character of a value, or of one of its further lines.
header_value_start(q, c) ==
  LET h == q.header_state
      to(x) == [q EXCEPT !.state = "s_header_value", !.index = 0, !.header_state = x]
  IN  CASE h = "h_upgrade" -> [to("h_general") EXCEPT !.flags = @ \cup {"F_UPGRADE"}]
        [] h = "h_transfer_encoding" ->
             to(IF c = "c" THEN "h_matching_transfer_encoding_chunked" ELSE "h_general")
        [] h = "h_content_length" ->
             IF ~IS_NUMBER(ch) THEN [q EXCEPT !.http_errno = "HPE_INVALID_CONTENT_LENGTH"]
             ELSE IF "F_CONTENTLENGTH" \in q.flags
             THEN [q EXCEPT !.http_errno = "HPE_UNEXPECTED_CONTENT_LENGTH"]
             ELSE [to("h_content_length_num") EXCEPT
                     !.flags = @ \cup {"F_CONTENTLENGTH"}, !.content_length = DIGIT(ch)]
        [] h = "h_connection" -> to(ConnectionWord(c, "h_matching_connection_token"))
        [] h \in {"h_content_length_ws", "h_matching_connection_token_start"} -> to(h)
        [] OTHER -> to("h_general")

Checked(q) == IF q.http_errno = "HPE_OK" THEN Break(q) ELSE Return(q, p)

s_header_value_start ==
  /\ \/ At({"s_header_value_start"})
     \/ At({"s_header_value_discard_ws"}) /\ ch \notin {" ", TAB, CR, LF}
  /\ MARK("header_value")
  /\ Checked(header_value_start(parser, LOWER(ch)))
  /\ UNCHANGED <<on, decoder>> /\ Frame

s_header_value_discard_ws ==
  /\ At({"s_header_value_discard_ws"}) /\ ch \in {" ", TAB, CR, LF}
  /\ Break(CASE ch = CR -> State("s_header_value_discard_ws_almost_done")
             [] ch = LF -> State("s_header_value_discard_lws")
             [] OTHER -> parser)
  /\ Silent

\* A digit more of the content length; the limit is a conservative one.
content_length_digit(q) ==
  IF ~IS_NUMBER(ch) \/ (ULLONG_MAX - 10) \div 10 < q.content_length
  THEN [q EXCEPT !.http_errno = "HPE_INVALID_CONTENT_LENGTH"]
  ELSE [q EXCEPT !.content_length = 10 * @ + DIGIT(ch), !.header_state = "h_content_length_num"]

ValueWords == [
  h_matching_transfer_encoding_chunked |->
    <<Bytes("chunked"), "h_transfer_encoding_chunked", "h_general">>,
  h_matching_connection_keep_alive |->
    <<Bytes("keep-alive"), "h_connection_keep_alive", "h_matching_connection_token">>,
  h_matching_connection_close |->
    <<Bytes("close"), "h_connection_close", "h_matching_connection_token">>,
  h_matching_connection_upgrade |->
    <<Bytes("upgrade"), "h_connection_upgrade", "h_matching_connection_token">>]

\* The flag that a value sets when it ends.
ValueFlag == [
  h_connection_keep_alive |-> "F_CONNECTION_KEEP_ALIVE", h_connection_close |-> "F_CONNECTION_CLOSE",
  h_connection_upgrade |-> "F_CONNECTION_UPGRADE", h_transfer_encoding_chunked |-> "F_CHUNKED"]

\* One character of a header's value.
ValueChar(q, c) ==
  LET h == q.header_state
      to(x) == [q EXCEPT !.header_state = x]
  IN  CASE h \in {"h_content_length", "h_content_length_num"} ->
             IF ch = " " THEN to(IF h = "h_content_length" THEN h ELSE "h_content_length_ws")
             ELSE content_length_digit(q)
        [] h = "h_content_length_ws" ->
             IF ch = " " THEN q ELSE [q EXCEPT !.http_errno = "HPE_INVALID_CONTENT_LENGTH"]
        [] h = "h_matching_connection_token_start" ->
             to(ConnectionWord(c, CASE TOKEN(c) # "" -> "h_matching_connection_token"
                                    [] c \in {" ", TAB} -> h
                                    [] OTHER -> "h_general"))
        [] h \in DOMAIN ValueWords ->
             Matching(q, c, ValueWords[h][1], ValueWords[h][2], ValueWords[h][3])
        [] h = "h_matching_connection_token" ->
             IF ch = "," THEN [to("h_matching_connection_token_start") EXCEPT !.index = 0] ELSE q
        [] h = "h_transfer_encoding_chunked" -> IF ch = " " THEN q ELSE to("h_general")
        [] h \in {"h_connection_keep_alive", "h_connection_close", "h_connection_upgrade"} ->
             CASE ch = "," -> [to("h_matching_connection_token_start") EXCEPT
                                 !.flags = @ \cup {ValueFlag[h]}, !.index = 0]
               [] ch = " " -> q
               [] OTHER -> to("h_matching_connection_token")
        [] OTHER -> to("h_general")

\* The scan of h_general goes over at most max_header_size bytes; the byte at which it
\* stops is skipped by the p++ of the loop around it.
Skipped == parser.header_state = "h_general" /\ p = loop.pe

s_header_value ==
  /\ Looping("s_header_value") /\ (Skipped \/ ch \notin {CR, LF})
  /\ LET q == IF Skipped THEN parser
              ELSE IF ch \in HEADER_CHARS THEN ValueChar(parser, LOWER(ch))
              ELSE [parser EXCEPT !.http_errno = "HPE_INVALID_HEADER_TOKEN"]
         pe == IF Skipped THEN 0
               ELSE IF parser.header_state = "h_general" /\ loop.pe = 0 THEN p + max_header_size
               ELSE loop.pe
     IN  IF q.http_errno # "HPE_OK" THEN Return(q, p)
         ELSE parser' = q /\ p' = p + 1 /\ loop' = [loop EXCEPT !.pe = pe] /\ UNCHANGED <<pc, ret>>
  /\ Silent

\* The value is told before its bytes are counted when CR ends it, and after when LF does.
s_header_value_end ==
  /\ Looping("s_header_value") /\ ~Skipped /\ ch \in {CR, LF}
  /\ LET q == [COUNT_HEADER_SIZE(parser, p - loop.start) EXCEPT !.state = "s_header_almost_done"]
         over == q.http_errno # "HPE_OK"
     IN  /\ IF over THEN Return(q, p) ELSE IF ch = CR THEN Break(q) ELSE Reexecute(q)
         /\ IF over /\ ch = LF THEN UNCHANGED <<on, mark, decoder>>
            ELSE CallbackData("header_value", mark, p)
  /\ Frame

s_header_almost_done ==
  Constant([s_header_almost_done |-> Expect(LF, "s_header_value_lws", "HPE_LF_EXPECTED")])

Flagged(q) == IF q.header_state \in DOMAIN ValueFlag
              THEN [q EXCEPT !.flags = @ \cup {ValueFlag[q.header_state]}] ELSE q

s_header_value_lws ==
  /\ At({"s_header_value_lws"})
  /\ IF ch \in {" ", TAB}
     THEN Reexecute([parser EXCEPT !.state = "s_header_value_start",
                       !.header_state = IF @ = "h_content_length_num" THEN "h_content_length_ws"
                                        ELSE @])
     ELSE Reexecute([Flagged(parser) EXCEPT !.state = "s_header_field_start"])
  /\ Silent

s_header_value_discard_ws_almost_done ==
  Constant([s_header_value_discard_ws_almost_done |->
              Expect(LF, "s_header_value_discard_lws", "HPE_STRICT")])

\* Without a space in front the next line is not a part of the value, which is empty.
s_header_value_discard_lws ==
  /\ At({"s_header_value_discard_lws"})
  /\ IF ch \in {" ", TAB}
     THEN Break(State("s_header_value_discard_ws")) /\ UNCHANGED <<on, mark, decoder>>
     ELSE IF parser.header_state = "h_content_length"
     THEN Error("HPE_INVALID_CONTENT_LENGTH") /\ UNCHANGED <<on, mark, decoder>>
     ELSE /\ Reexecute([Flagged(parser) EXCEPT !.state = "s_header_field_start"])
          /\ CallbackData("header_value", [mark EXCEPT !["header_value"] = p], p)
  /\ Frame

-----------------------------------------------------------------------------
(* The end of the head.                                                    *)

Upgrading(q) ==
  IF {"F_UPGRADE", "F_CONNECTION_UPGRADE"} \subseteq q.flags
  THEN q.type = "HTTP_REQUEST" \/ q.status_code = 101
  ELSE q.method = "CONNECT"

\* What on_headers_complete sees of the parser.
HeadFacts(q) == <<IF q.type = "HTTP_REQUEST" THEN q.method ELSE q.status_code,
                  q.http_major, q.http_minor, q.upgrade>>

\* The result of on_headers_complete and what it does to snet's decoder.
on_headers_complete(q) ==
  IF snet /\ q.type = "HTTP_REQUEST" THEN parse_header_complete(decoder, q.method)
  ELSE [reply |-> stream.reply, decoder |-> decoder]

headers_complete(q, answer) ==
  /\ on' = Append(on, <<"headers_complete", HeadFacts(q)>>)
  /\ decoder' = answer.decoder
  /\ CASE answer.reply = 0 -> Reexecute(q)
       [] answer.reply = 1 -> Reexecute([q EXCEPT !.flags = @ \cup {"F_SKIPBODY"}])
       [] answer.reply = 2 -> Reexecute([q EXCEPT !.flags = @ \cup {"F_SKIPBODY"},
                                                  !.upgrade = TRUE])
       [] OTHER -> Return([q EXCEPT !.http_errno = "HPE_CB_headers_complete"], p)
  /\ UNCHANGED mark

s_headers_complete ==
  LET q == [State("s_headers_done") EXCEPT !.upgrade = Upgrading(parser)]
  IN  headers_complete(q, on_headers_complete(q))

s_headers_almost_done ==
  /\ At({"s_headers_almost_done"})
  /\ IF ch # LF THEN Error("HPE_STRICT") /\ UNCHANGED <<on, mark, decoder>>
     ELSE IF "F_TRAILING" \in parser.flags
     THEN /\ Reexecute(State("s_message_done")) /\ Notify("chunk_complete")
          /\ UNCHANGED <<mark, decoder>>
     ELSE IF {"F_CHUNKED", "F_CONTENTLENGTH"} \subseteq parser.flags
     THEN Error("HPE_UNEXPECTED_CONTENT_LENGTH") /\ UNCHANGED <<on, mark, decoder>>
     ELSE s_headers_complete
  /\ Frame

\* NEW_MESSAGE and on_message_complete; with return the call ends here.
Complete(q, return) ==
  /\ IF return THEN Return(NewMessage(q), p + 1) ELSE Break(NewMessage(q))
  /\ Notify("message_complete")

s_headers_done ==
  /\ At({"s_headers_done"})
  /\ LET q == [parser EXCEPT !.nread = 0]
         chunked == "F_CHUNKED" \in q.flags
         skip == "F_SKIPBODY" \in q.flags
         hasBody == chunked \/ q.content_length \notin {0, ULLONG_MAX}
         other == q.upgrade /\ (q.method = "CONNECT" \/ skip \/ ~hasBody)
     IN  IF ch # LF THEN Error("HPE_STRICT") /\ UNCHANGED on
         ELSE IF \/ other \/ skip
                 \/ ~chunked /\ q.content_length = 0
                 \/ ~hasBody /\ ~http_message_needs_eof(q)
         THEN Complete(q, other)
         ELSE /\ Break([q EXCEPT !.state = IF chunked THEN "s_chunk_size_start"
                                           ELSE IF hasBody THEN "s_body_identity"
                                           ELSE "s_body_identity_eof"])
              /\ UNCHANGED on
  /\ UNCHANGED <<mark, decoder>> /\ Frame

-----------------------------------------------------------------------------
(* Bodies.                                                                 *)

\* to_read: all the bytes of the buffer that belong to the body, at most the given number.
Taking(most, to_read) ==
  LET rest == Len(Input) - p + 1
      all == IF most < rest THEN most ELSE rest
  IN  to_read = all \/ (~snet /\ to_read \in 1..all)

MarkedBody == IF mark["body"] = 0 THEN [mark EXCEPT !["body"] = p] ELSE mark

s_body_identity ==
  /\ At({"s_body_identity"})
  /\ \E to_read \in 1..(Len(Input) - p + 1) :
       /\ Taking(parser.content_length, to_read)
       /\ LET q == [parser EXCEPT !.content_length = @ - to_read]
              end == p + to_read
          IN  /\ loop' = NoLoop /\ UNCHANGED ret
              /\ IF q.content_length = 0
                 THEN /\ parser' = [q EXCEPT !.state = "s_message_done"]
                      /\ p' = end - 1 /\ pc' = "switch"
                      /\ CallbackData("body", MarkedBody, end)
                 ELSE /\ parser' = q /\ p' = end /\ pc' = "head"
                      /\ mark' = MarkedBody /\ UNCHANGED <<on, decoder>>
  /\ Frame

s_body_identity_eof ==
  /\ At({"s_body_identity_eof"})
  /\ \E to_read \in 1..(Len(Input) - p + 1) :
       /\ Taking(Len(Input), to_read)
       /\ p' = p + to_read
  /\ pc' = "head" /\ mark' = MarkedBody
  /\ UNCHANGED <<parser, loop, ret, on, decoder>> /\ Frame

s_message_done ==
  /\ At({"s_message_done"})
  /\ Complete(parser, parser.upgrade)
  /\ UNCHANGED <<mark, decoder>> /\ Frame

s_chunk_size_start ==
  /\ At({"s_chunk_size_start"})
  /\ IF unhex(ch) = -1 THEN Error("HPE_INVALID_CHUNK_SIZE")
     ELSE Break([parser EXCEPT !.content_length = unhex(ch), !.state = "s_chunk_size"])
  /\ Silent

s_chunk_size ==
  /\ At({"s_chunk_size"})
  /\ CASE ch = CR -> Break(State("s_chunk_size_almost_done"))
       [] ch \in {";", " "} -> Break(State("s_chunk_parameters"))
       [] ch \notin HEX \cup {CR, ";", " "} -> Error("HPE_INVALID_CHUNK_SIZE")
       [] OTHER ->
            IF (ULLONG_MAX - 16) \div 16 < parser.content_length
            THEN Error("HPE_INVALID_CONTENT_LENGTH")
            ELSE Break([parser EXCEPT !.content_length = 16 * @ + unhex(ch)])
  /\ Silent

s_chunk_parameters ==
  /\ At({"s_chunk_parameters"})
  /\ Break(IF ch = CR THEN State("s_chunk_size_almost_done") ELSE parser)
  /\ Silent

\* Mutant: the chunk of size 0 is read like the others.
s_chunk_size_almost_done_any ==
  /\ At({"s_chunk_size_almost_done"})
  /\ IF ch # LF THEN Error("HPE_STRICT") /\ UNCHANGED on
     ELSE /\ Break([parser EXCEPT !.nread = 0, !.state = "s_chunk_data"])
          /\ on' = Append(on, <<"chunk_header", <<parser.content_length>>>>)
  /\ UNCHANGED <<mark, decoder>> /\ Frame

s_chunk_size_almost_done ==
  /\ At({"s_chunk_size_almost_done"})
  /\ LET q == [parser EXCEPT !.nread = 0]
     IN  IF ch # LF THEN Error("HPE_STRICT") /\ UNCHANGED on
         ELSE /\ Break(IF q.content_length = 0
                       THEN [q EXCEPT !.flags = @ \cup {"F_TRAILING"},
                                      !.state = "s_header_field_start"]
                       ELSE [q EXCEPT !.state = "s_chunk_data"])
              /\ on' = Append(on, <<"chunk_header", <<q.content_length>>>>)
  /\ UNCHANGED <<mark, decoder>> /\ Frame

s_chunk_data ==
  /\ At({"s_chunk_data"})
  /\ \E to_read \in 1..(Len(Input) - p + 1) :
       /\ Taking(parser.content_length, to_read)
       /\ p' = p + to_read
       /\ LET q == [parser EXCEPT !.content_length = @ - to_read]
          IN  parser' = IF q.content_length = 0 THEN [q EXCEPT !.state = "s_chunk_data_almost_done"]
                        ELSE q
  /\ pc' = "head" /\ mark' = MarkedBody
  /\ UNCHANGED <<loop, ret, on, decoder>> /\ Frame

s_chunk_data_almost_done ==
  /\ At({"s_chunk_data_almost_done"})
  /\ IF ch # CR THEN Error("HPE_STRICT") /\ UNCHANGED <<on, mark, decoder>>
     ELSE Break(State("s_chunk_data_done")) /\ CallbackData("body", mark, p)
  /\ Frame

s_chunk_data_done ==
  /\ At({"s_chunk_data_done"})
  /\ IF ch # LF THEN Error("HPE_STRICT") /\ UNCHANGED on
     ELSE /\ Break([parser EXCEPT !.nread = 0, !.state = "s_chunk_size_start"])
          /\ Notify("chunk_complete")
  /\ UNCHANGED <<mark, decoder>> /\ Frame

-----------------------------------------------------------------------------
FirstLine ==
  \/ s_start_req_or_res \/ s_res_or_resp_H \/ s_start_res \/ s_res_http \/ s_res_http_number
  \/ s_res_first_status_code \/ s_res_status_code \/ s_res_status_start \/ s_res_status
  \/ s_res_line_almost_done \/ s_start_req \/ s_req_method \/ s_req_spaces_before_url
  \/ s_req_schema \/ s_req_url \/ s_req_http_start \/ s_req_http \/ s_req_http_number
  \/ s_req_http_end \/ s_req_line_almost_done

Headers ==
  \/ s_header_field_start \/ enter_loop \/ s_header_field \/ s_header_field_end
  \/ s_header_value_start \/ s_header_value_discard_ws \/ s_header_value \/ s_header_value_end
  \/ s_header_almost_done \/ s_header_value_lws \/ s_header_value_discard_ws_almost_done
  \/ s_header_value_discard_lws \/ s_headers_almost_done \/ s_headers_done

Body ==
  \/ s_body_identity \/ s_body_identity_eof \/ s_message_done \/ s_chunk_size_start
  \/ s_chunk_size \/ s_chunk_parameters \/ s_chunk_size_almost_done \/ s_chunk_data
  \/ s_chunk_data_almost_done \/ s_chunk_data_done

\* Nothing more is given to the parser.
Done == pc = "stop" /\ UNCHANGED vars

Next ==
  \/ execute \/ execute_eof \/ next_byte \/ end_of_data
  \/ s_dead \/ FirstLine \/ Headers \/ Body \/ Done

Spec == Init /\ [][Next]_vars

-----------------------------------------------------------------------------
(* Properties.                                                             *)

\* What the callbacks are told is, piece by piece, what the messages of the stream say;
\* when the parser has nothing more to read it has told all of it, consumed what belongs
\* to HTTP and no more, and found the error a malformed stream has: wherever the stream
\* was cut into calls of http_parser_execute, and however the bodies are framed.
Delivered ==
  LET says == stream.says
      n == Len(on)
  IN  ~snet =>
      /\ n <= Len(says)
      /\ \A i \in 1..(n - 1) : on[i] = says[i]
      /\ n > 0 => on[n][1] = says[n][1] /\ IsPrefix(on[n][2], says[n][2])
      /\ pc = "stop" => /\ parser.http_errno = stream.errno
                        /\ parser.http_errno = "HPE_OK" => on = says /\ ret = stream.rest

\* The assertions in http_parser_execute: of the marks left at the end of a buffer at most
\* one is set, a chunk begins with a fresh count, a body is read only while some of it is
\* missing, and the states of a header's name never reach the loop over its value.
Asserts ==
  /\ pc \in {"head", "loop"} => Cardinality({m \in ToSet(Marks) : mark[m] # 0}) <= 1
  /\ pc = "switch" =>
       /\ parser.state = "s_chunk_size_start" => parser.nread = 1
       /\ parser.state \in {"s_chunk_size_start", "s_chunk_size", "s_chunk_parameters",
                            "s_chunk_size_almost_done", "s_chunk_data",
                            "s_chunk_data_almost_done", "s_chunk_data_done"} =>
            "F_CHUNKED" \in parser.flags
       /\ parser.state \in {"s_body_identity", "s_chunk_data"} =>
            parser.content_length \notin {0, ULLONG_MAX}
       /\ parser.state = "s_chunk_data_almost_done" => parser.content_length = 0
  /\ pc = "loop" /\ parser.state = "s_header_value" =>
       parser.header_state \notin {"h_connection", "h_transfer_encoding", "h_content_length"}

\* "Don't allow the total size of the HTTP headers (including the status line) to exceed
\* max_header_size": the head of no message that is reported complete is longer, although
\* the loops over names and values count their bytes only when they are left.
HeadBounded ==
  pc = "switch" /\ parser.state = "s_headers_done" => p - began + 1 <= max_header_size

\* A message that HttpEncoder wrote and that HttpDecoder reads is the same message: its
\* method or status, url, path, query, headers and content.  (Not for PATCH, which
\* http_method_string writes as TRACE, and for URLs shorter than FieldSize: the
\* offsets and lengths of fields wrap.)
RoundTrip ==
  pc = "stop" /\ snet => /\ [decoder EXCEPT !.key = <<>>] = stream.decodes
                         /\ parser.http_errno = "HPE_OK" /\ ret = stream.rest
=============================================================================
