---------------------------- MODULE MCHttpParser ----------------------------
(***************************************************************************)
(* Streams for HttpParser.  A stream is made of messages; a message is     *)
(* described by its first line, headers and body, from which both its      *)
(* bytes (Wire) and what the callbacks have to say (Says) are made.        *)
(***************************************************************************)
EXTENDS HttpParser, TLC

B(text) == Bytes(text)
Line(text) == B(text) \o CRLF
Event(cb, text) == <<cb, text>>

\* A header is <<its text on the wire, its name, its value>>.
H(name, value) == <<Line(name \o ": " \o value), B(name), B(value)>>

\* Bodies: their framing header, bytes and events.
NoBody == [headers |-> <<>>, bytes |-> <<>>, says |-> <<>>]
Identity(text) ==
  [headers |-> <<H("Content-Length", IF Len(text) < 10 THEN DIGITS[Len(text) + 1]
                                     ELSE "1" \o DIGITS[Len(text) - 9])>>,
   bytes |-> B(text),
   says |-> IF text = "" THEN <<>> ELSE <<Event("body", B(text))>>]
UntilEof(text) == [headers |-> <<>>, bytes |-> B(text), says |-> <<Event("body", B(text))>>]

\* A chunk is <<its size in hex with parameters, its size, its data>>.
ChunkBytes(c) == Line(c[1]) \o Line(c[3])
ChunkSays(c) == <<Event("chunk_header", <<c[2]>>), Event("body", B(c[3])), Event("chunk_complete", <<>>)>>
HeaderSays(hs) == FlattenSeq([i \in 1..Len(hs) |-> <<Event("header_field", hs[i][2]),
                                                     Event("header_value", hs[i][3])>>])
HeaderBytes(hs) == FlattenSeq([i \in 1..Len(hs) |-> hs[i][1]])
Chunked(chunks, trailers) ==
  [headers |-> <<H("Transfer-Encoding", "chunked")>>,
   bytes |-> FlattenSeq([i \in 1..Len(chunks) |-> ChunkBytes(chunks[i])]) \o Line("0")
               \o HeaderBytes(trailers) \o CRLF,
   says |-> FlattenSeq([i \in 1..Len(chunks) |-> ChunkSays(chunks[i])])
              \o <<Event("chunk_header", <<0>>)>> \o HeaderSays(trailers)
              \o <<Event("chunk_complete", <<>>)>>]

Message(line, first, facts, headers, body) ==
  [wire |-> line \o HeaderBytes(headers \o body.headers) \o CRLF \o body.bytes,
   says |-> <<Event("message_begin", <<>>), first>> \o HeaderSays(headers \o body.headers)
              \o <<Event("headers_complete", facts)>> \o body.says
              \o <<Event("message_complete", <<>>)>>]

RequestLine(text, url, facts, headers, body) ==
  Message(Line(text), Event("url", B(url)), facts, headers, body)
Request(method, url, headers, body) ==
  RequestLine(method \o " " \o url \o " HTTP/1.1", url, <<method, 1, 1, FALSE>>, headers, body)
Response(line, reason, facts, headers, body) ==
  Message(Line(line), Event("status", B(reason)), facts, headers, body)

-----------------------------------------------------------------------------
Stream(type, reply, bytes, says, errno, rest) ==
  [type |-> type, snet |-> FALSE, reply |-> reply, bytes |-> bytes, says |-> says,
   errno |-> errno, rest |-> rest]

Wire(ms) == FlattenSeq([i \in 1..Len(ms) |-> ms[i].wire])
Says(ms) == FlattenSeq([i \in 1..Len(ms) |-> ms[i].says])

\* Messages one after another, then bytes that are no part of them.
Good(type, reply, ms) == Stream(type, reply, Wire(ms), Says(ms), "HPE_OK", Len(Wire(ms)) + 1)
Upgraded(type, reply, ms, other) ==
  Stream(type, reply, Wire(ms) \o B(other), Says(ms), "HPE_OK", Len(Wire(ms)) + 1)
\* Messages, then malformed bytes, with what is told of them.
Bad(type, ms, bytes, says, errno) ==
  Stream(type, 0, Wire(ms) \o bytes, Says(ms) \o says, errno, 0)

Get == Request("GET", "/a?b#c", <<H("Host", "x")>>, NoBody)
Closing == Request("GET", "/", <<H("Connection", "x, close")>>, NoBody)

Begin0 == Event("message_begin", <<>>)
Url0(u) == Event("url", B(u))

Requests == <<
  Good("HTTP_REQUEST", 0, <<Get, Request("POST", "/", <<H("Content-Type", "t"), H("Coy", ""), H("Conn", "k")>>, Identity("0123456789a")), Get>>),
  Good("HTTP_REQUEST", 0, <<Request("PUT", "*", <<H("TE", "x")>>, Chunked(<< <<"3", 3, "abc">>, <<"0b;q=1", 11, "0123456789x">>>>, <<H("T", "u")>>)), Get>>),
  Good("HTTP_BOTH", 0, <<Request("HEAD", "http://u@h:1/p", <<H("Connection", "close,keep-alive")>>, NoBody)>>),
  Good("HTTP_BOTH", 0, <<Request("GET", "http://h?q##f", <<>>, NoBody)>>),
  Good("HTTP_REQUEST", 0, <<RequestLine("GET /", "/", <<"GET", 0, 9, FALSE>>, <<>>, NoBody)>>),
  Good("HTTP_REQUEST", 0, <<RequestLine("SOURCE /s ICE/1.0", "/s", <<"SOURCE", 1, 0, FALSE>>, <<H("Proxy-Connection", "keep-alive ,x")>>, NoBody), Get>>),
  Upgraded("HTTP_REQUEST", 0, <<RequestLine("CONNECT h:1 HTTP/1.1", "h:1", <<"CONNECT", 1, 1, TRUE>>, <<>>, NoBody)>>, "xyz"),
  Upgraded("HTTP_REQUEST", 0, <<RequestLine("GET / HTTP/1.1", "/", <<"GET", 1, 1, TRUE>>, <<H("Connection", "keep-alive, Upgrade"), H("Upgrade", "w")>>, NoBody)>>, "GET"),
  Upgraded("HTTP_REQUEST", 0, <<RequestLine("POST / HTTP/1.1", "/", <<"POST", 1, 1, TRUE>>, <<H("Connection", "upgrade"), H("Upgrade", "w")>>, Identity("ab"))>>, "z") >>

MethodRequest(m) ==
  LET name == IF m = "MSEARCH" THEN "M-SEARCH" ELSE m
  IN  Good("HTTP_REQUEST", 0,
           <<RequestLine(name \o " / HTTP/1.1", "/", <<m, 1, 1, FALSE>>, <<>>, NoBody)>>)
Methods == <<"DELETE", "OPTIONS", "TRACE", "COPY", "LOCK", "MKCOL", "MOVE", "PROPFIND", "PROPPATCH",
  "SEARCH", "UNLOCK", "BIND", "REBIND", "UNBIND", "ACL", "REPORT", "MKACTIVITY", "CHECKOUT", "MERGE",
  "MSEARCH", "NOTIFY", "SUBSCRIBE", "UNSUBSCRIBE", "PATCH", "PURGE", "MKCALENDAR", "LINK", "UNLINK">>
MethodStreams == [i \in 1..Len(Methods) |-> MethodRequest(Methods[i])]

Ok(headers, body) == Response("HTTP/1.1 200 OK", "OK", <<200, 1, 1, FALSE>>, headers, body)
NoContent == Response("HTTP/1.1 204", "", <<204, 1, 1, FALSE>>, <<>>, NoBody)
Promised == [Identity("12345") EXCEPT !.bytes = <<>>, !.says = <<>>]

Responses == <<
  Good("HTTP_RESPONSE", 0, <<Ok(<<>>, Identity("ab")), NoContent, Ok(<<H("Connection", "keep-alivex")>>, Chunked(<< <<"1", 1, "z">> >>, <<>>)), NoContent>>),
  Good("HTTP_RESPONSE", 0, <<Response("HTTP/1.0 304 Not", "Not", <<304, 1, 0, FALSE>>, <<H("Connection", "Keep-Alive")>>, NoBody), Ok(<<>>, Identity(""))>>),
  Good("HTTP_RESPONSE", 0, <<Response("HTTP/1.0  200 OK", "OK", <<200, 1, 0, FALSE>>, <<>>, UntilEof("abcd"))>>),
  Good("HTTP_BOTH", 0, <<Ok(<<H("Transfer-Encoding", "chunkedx"), H("Upgrade", "x")>>, Identity("ab")), NoContent>>),
  Good("HTTP_RESPONSE", 1, <<Ok(<<>>, Promised), Ok(<<>>, Promised)>>),
  Upgraded("HTTP_RESPONSE", 2, <<Ok(<<>>, Promised)>>, "xy"),
  Upgraded("HTTP_RESPONSE", 0, <<Response("HTTP/1.1 101 Up", "Up", <<101, 1, 1, TRUE>>, <<H("Upgrade", "w"), H("Connection", "Upgrade , x")>>, NoBody)>>, "xy"),
  Stream("HTTP_RESPONSE", -1, Ok(<<>>, NoBody).wire, Front(Ok(<<>>, NoBody).says), "HPE_CB_headers_complete", 0) >>

\* Forms of a head that are not the plain one: empty lines first, lines that end with LF,
\* values that are empty, padded or go on in the next line.
Plain(headers, body) == Request("POST", "/", headers, body)
Formed(headers, body, end) ==
  LET m == Plain(headers, body)
  IN  Stream("HTTP_REQUEST", 0,
             CRLF \o SelectSeq(m.wire, LAMBDA c : c # CR) \o end, m.says, "HPE_OK",
             Len(m.wire) + 3 - Len(SelectSeq(m.wire, LAMBDA c : c = CR)) + Len(end))
Raw(text, name, value) == <<B(text) \o CRLF, B(name), B(value)>>
Forms == <<
  Formed(<<H("A", ""), H("B", "x")>>, Identity("ab"), CRLF),
  Good("HTTP_REQUEST", 0, <<Plain(<<Raw("A:\r\n b", "A", "b"), Raw("B: \t c \r\n\td", "B", "c \td"), Raw("C:", "C", "")>>, NoBody), Get>>),
  Good("HTTP_REQUEST", 0, <<Message(Line("POST / HTTP/1.1"), Url0("/"), <<"POST", 1, 1, FALSE>>,
         <<Raw("content-LENGTH: 2 \r\n ", "content-LENGTH", "2  "), Raw("Connection:", "Connection", "")>>, UntilEof("ab"))>>),
  Good("HTTP_REQUEST", 0, <<Plain(<<Raw("Connection: close\r\n , x", "Connection", "close , x")>>, NoBody), Get>>) >>

BadLine(type, text, says, errno) == Bad(type, <<>>, Line(text), says, errno)
AfterUrl(text, errno) == Bad("HTTP_REQUEST", <<>>, B("GET / ") \o B(text), <<Begin0, Url0("/")>>, errno)
AfterHead(head, says, errno) ==
  Bad("HTTP_REQUEST", <<>>, Line("GET / HTTP/1.1") \o B(head), <<Begin0, Url0("/")>> \o says, errno)
Name(n) == Event("header_field", B(n))
Value(v) == Event("header_value", B(v))
InChunks(text, says, errno) ==
  LET m == Request("GET", "/", <<H("Transfer-Encoding", "chunked")>>, NoBody)
  IN  Stream("HTTP_REQUEST", 0, m.wire \o B(text), Front(m.says) \o says, errno, 0)

Errors == <<
  Bad("HTTP_REQUEST", <<Closing>>, CRLF \o B("GET"), <<>>, "HPE_CLOSED_CONNECTION"),
  BadLine("HTTP_BOTH", "HX", <<Begin0>>, "HPE_INVALID_CONSTANT"),
  BadLine("HTTP_RESPONSE", "G", <<>>, "HPE_INVALID_CONSTANT"),
  BadLine("HTTP_RESPONSE", "HTTP/x", <<Begin0>>, "HPE_INVALID_VERSION"),
  BadLine("HTTP_RESPONSE", "HTTP/1.1x", <<Begin0>>, "HPE_INVALID_VERSION"),
  BadLine("HTTP_RESPONSE", "HTP", <<Begin0>>, "HPE_STRICT"),
  BadLine("HTTP_RESPONSE", "HTTP/1.1 x", <<Begin0>>, "HPE_INVALID_STATUS"),
  BadLine("HTTP_RESPONSE", "HTTP/1.1 1000", <<Begin0>>, "HPE_INVALID_STATUS"),
  BadLine("HTTP_RESPONSE", "HTTP/1.1 200 O\rK", <<Begin0, Event("status", B("O"))>>, "HPE_STRICT"),
  BadLine("HTTP_REQUEST", "1", <<>>, "HPE_INVALID_METHOD"),
  BadLine("HTTP_REQUEST", "GEX", <<Begin0>>, "HPE_INVALID_METHOD"),
  BadLine("HTTP_REQUEST", "GET x:y", <<Begin0, Url0("x:")>>, "HPE_INVALID_URL"),
  BadLine("HTTP_REQUEST", "GET ?", <<Begin0>>, "HPE_INVALID_URL"),
  BadLine("HTTP_REQUEST", "GET /\f", <<Begin0, Url0("/")>>, "HPE_INVALID_URL"),
  AfterUrl("ICE", "HPE_INVALID_CONSTANT"), AfterUrl("HX", "HPE_STRICT"),
  AfterUrl("HTTP/1x", "HPE_INVALID_VERSION"), AfterUrl("HTTP/1.1 ", "HPE_INVALID_VERSION"),
  AfterUrl("HTTP/1.1\rx", "HPE_LF_EXPECTED"), AfterUrl("HTTP/1.1\r", "HPE_INVALID_EOF_STATE"),
  AfterHead(" A: b", <<>>, "HPE_INVALID_HEADER_TOKEN"),
  AfterHead("A b", <<Name("A")>>, "HPE_INVALID_HEADER_TOKEN"),
  AfterHead("A: b\f", <<Name("A"), Value("b")>>, "HPE_INVALID_HEADER_TOKEN"),
  AfterHead("A: b\rx", <<Name("A"), Value("b")>>, "HPE_LF_EXPECTED"),
  AfterHead("A:\rx", <<Name("A")>>, "HPE_STRICT"), AfterHead("\rx", <<>>, "HPE_STRICT"),
  AfterHead("Content-Length: x", <<Name("Content-Length")>>, "HPE_INVALID_CONTENT_LENGTH"),
  AfterHead("Content-Length:\r\n\r\n", <<Name("Content-Length")>>, "HPE_INVALID_CONTENT_LENGTH"),
  AfterHead("Content-Length: 1 2", <<Name("Content-Length"), Value("1 ")>>, "HPE_INVALID_CONTENT_LENGTH"),
  AfterHead("Content-Length: 1\r\n 2", <<Name("Content-Length"), Value("1 ")>>, "HPE_INVALID_CONTENT_LENGTH"),
  AfterHead("Content-Length: 256", <<Name("Content-Length"), Value("25")>>, "HPE_INVALID_CONTENT_LENGTH"),
  AfterHead("Content-Length: 2\r\nContent-Length: 2\r\n",
            <<Name("Content-Length"), Value("2"), Name("Content-Length")>>, "HPE_UNEXPECTED_CONTENT_LENGTH"),
  AfterHead("Content-Length: 2\r\nTransfer-Encoding: chunked\r\n\r\n",
            <<Name("Content-Length"), Value("2"), Name("Transfer-Encoding"), Value("chunked")>>,
            "HPE_UNEXPECTED_CONTENT_LENGTH"),
  InChunks("g", <<>>, "HPE_INVALID_CHUNK_SIZE"), InChunks("1g", <<>>, "HPE_INVALID_CHUNK_SIZE"),
  InChunks("100", <<>>, "HPE_INVALID_CONTENT_LENGTH"), InChunks("1\rx", <<>>, "HPE_STRICT"),
  InChunks("1\r\nabc", <<Event("chunk_header", <<1>>), Event("body", B("a"))>>, "HPE_STRICT"),
  InChunks("1\r\na\rx", <<Event("chunk_header", <<1>>), Event("body", B("a"))>>, "HPE_STRICT") >>

\* Heads around the limit: exactly as long as it allows, a byte longer in a value, in a name,
\* and in the lines that come after a long value was cut off.
Filler(n) == [i \in 1..n |-> "v"]
Long(n) == <<B("A: ") \o Filler(n) \o CRLF, B("A"), Filler(n)>>
Short == max_header_size - 16 - 5 - 2
TooLong(headers, rest, says) ==
  LET m == Request("GET", "/", headers, NoBody)
  IN  Stream("HTTP_REQUEST", 0, SubSeq(m.wire, 1, Len(m.wire) - 2) \o rest,
             SubSeq(m.says, 1, Len(m.says) - 2) \o says, "HPE_HEADER_OVERFLOW", 0)
Limits == <<
  Good("HTTP_REQUEST", 0, <<Request("GET", "/", <<Long(Short)>>, NoBody), Get>>),
  TooLong(<<Long(Short + 1)>>, CRLF, <<>>),
  TooLong(<<Long(Short - 8)>>, Filler(11), <<Event("header_field", Filler(11))>>),
  TooLong(<<Long(max_header_size), H("B", "")>>, CRLF, <<>>) >>

-----------------------------------------------------------------------------
(* Messages that snet writes and reads.                                    *)

Snet(type, bytes, decodes) ==
  [type |-> type, snet |-> TRUE, reply |-> 0, bytes |-> bytes, says |-> <<>>, errno |-> "HPE_OK",
   rest |-> Len(bytes) + 1, decodes |-> decodes]

HeadersOf(hs) == LET names == SelectSeq(HeaderNames, LAMBDA k : k \in DOMAIN hs)
                 IN  [i \in 1..Len(names) |-> <<B(names[i]), hs[names[i]]>>]

SnetRequest(method, path, query, others, content) ==
  LET url == B(path) \o IF query = "" THEN <<>> ELSE B("?" \o query)
      hs == set_content(others, B(content))
      m == [method |-> method, url |-> url, headers |-> hs, content |-> B(content)]
  IN  Snet("HTTP_REQUEST", encode_request(m),
           [NewDecoder EXCEPT !.request_url = url, !.headers = HeadersOf(hs), !.http_body = B(content),
                              !.http_path = B(path), !.http_query = B(query), !.method_value = method])

SnetResponse(code, others, content) ==
  LET hs == set_content(others, B(content))
      m == [status_code |-> code, headers |-> hs, content |-> B(content)]
  IN  Snet("HTTP_RESPONSE", encode_response(m),
           [NewDecoder EXCEPT !.status_code = code, !.http_body = B(content),
              !.http_status = SubSeq(status_strings(code), 14, Len(status_strings(code))),
              !.headers = HeadersOf(hs) \o <<<<B("Server"), B("SNet Http Server v0.1")>>,
                                             <<B("Date"), DateText>>>>])

NoHeaders == [k \in {} |-> <<>>]
Codec == <<
  SnetRequest("GET", "/", "", NoHeaders, ""), SnetRequest("GET", "/a", "k=v", ("Host" :> B("h")), ""),
  SnetRequest("POST", "/p", "", ("Connection" :> B("close") @@ "User-Agent" :> B("")), "0123456789"),
  SnetRequest("PUT", "/p/q", "a", ("Host" :> B("h:80")), "\r\nGET"),
  SnetRequest("HEAD", "*", "", NoHeaders, ""), SnetRequest("DELETE", "/d", "", NoHeaders, "x"),
  SnetRequest("OPTIONS", "/", "", NoHeaders, "0\r\n\r\n"), SnetRequest("TRACE", "/", "", NoHeaders, ""),
  SnetRequest("CONNECT", "/", "", NoHeaders, ""),
  SnetResponse(101, NoHeaders, ""), SnetResponse(200, NoHeaders, ""),
  SnetResponse(200, ("Content-Type" :> B("text/html; charset=UTF-8")), "<p>"),
  SnetResponse(204, ("Connection" :> B("keep-alive")), ""), SnetResponse(304, NoHeaders, "x"),
  SnetResponse(404, NoHeaders, ""), SnetResponse(501, NoHeaders, "") >>

MCHeaderNames == <<"Connection", "Content-Length", "Content-Type", "Cookie", "Host", "User-Agent">>
MCDate == B("Wed, 01 Jan 2025 00:00:00 UTC")

MCStreams == Requests \o Responses \o Forms \o Errors \o Limits \o Codec
               \o MethodStreams
=============================================================================
