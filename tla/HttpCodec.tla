----------------------------- MODULE HttpCodec -----------------------------
(***************************************************************************)
(* snet's own ends of an HTTP message: HttpEncoder, which writes requests  *)
(* and responses as text, and HttpDecoder, whose callbacks http_parser     *)
(* calls while it reads them.  A decoder is the record of the decoder's    *)
(* and the message's fields.                                               *)
(***************************************************************************)
EXTENDS HttpParserUrl

CONSTANTS HeaderNames,   \* sequence: the header names in use, in the order of std::string
          DateText       \* what fmt prints of the local time

-----------------------------------------------------------------------------
(* HttpMessage and HttpEncoder.                                            *)

\* The default of the switch is GET; PATCH is written as TRACE.
http_method_string(method) ==
  CASE method \in {"POST", "HEAD", "PUT", "DELETE", "TRACE", "OPTIONS", "CONNECT"} -> method
    [] method = "PATCH" -> "TRACE"
    [] OTHER -> "GET"

Reasons == [c \in {200, 201, 202, 204, 300, 301, 302, 304, 400, 401, 403, 404, 500, 501, 502, 503} |->
  CASE c = 200 -> "200 OK"                    [] c = 201 -> "201 Created"
    [] c = 202 -> "202 Accepted"              [] c = 204 -> "204 No Content"
    [] c = 300 -> "300 Multiple Choices"      [] c = 301 -> "301 Moved Permanently"
    [] c = 302 -> "302 Moved Temporarily"     [] c = 304 -> "304 Not Modified"
    [] c = 400 -> "400 Bad Request"           [] c = 401 -> "401 Unauthorized"
    [] c = 403 -> "403 Forbidden"             [] c = 404 -> "404 Not Found"
    [] c = 500 -> "500 Internal Server Error" [] c = 501 -> "501 Not Implemented"
    [] c = 502 -> "502 Bad Gateway"           [] c = 503 -> "503 Service Unavailable"]

status_strings(code) ==
  IF code = 101 THEN Bytes("HTTP/1.1 101  Web Socket Protocol Handshake")
  ELSE Bytes("HTTP/1.0 ") \o Bytes(Reasons[IF code \in DOMAIN Reasons THEN code ELSE 400])

\* http_headers is a std::map: one value for a name, visited in the order of the names.
add_header(headers, key, value) == [k \in DOMAIN headers \cup {key} |->
                                      IF k = key THEN value ELSE headers[k]]

\* std::to_string of a size.
to_string(n) == IF n < 10 THEN <<DIGITS[n + 1]>>
                ELSE <<DIGITS[(n \div 10) + 1], DIGITS[(n % 10) + 1]>>

\* Mutant: the length is that of the text without its last character.
set_content_short(headers, body) ==
  IF body = <<>> THEN headers ELSE add_header(headers, "Content-Length", to_string(Len(body) - 1))

\* The headers of a message whose content is set after the others were added.
set_content(headers, body) ==
  IF body = <<>> THEN headers ELSE add_header(headers, "Content-Length", to_string(Len(body)))

HeaderLine(key, value) == Bytes(key) \o Bytes(": ") \o value \o CRLF

encode_headers(headers) ==
  FlattenSeq([i \in 1..Len(HeaderNames) |->
                LET k == HeaderNames[i]
                IN  IF k \in DOMAIN headers /\ k # "" THEN HeaderLine(k, headers[k]) ELSE <<>>])

encode_request(m) ==
  Bytes(http_method_string(m.method)) \o Bytes(" ") \o m.url \o Bytes(" HTTP/1.1") \o CRLF
    \o encode_headers(m.headers) \o CRLF \o m.content

encode_response(m) ==
  status_strings(m.status_code) \o CRLF \o encode_headers(m.headers)
    \o HeaderLine("Server", Bytes("SNet Http Server v0.1"))
    \o HeaderLine("Date", DateText) \o CRLF \o m.content

-----------------------------------------------------------------------------
(* HttpDecoder.                                                            *)

NewDecoder == [request_url |-> <<>>, status_code |-> 0, http_status |-> <<>>, key |-> <<>>, 
               headers |-> <<>>, http_body |-> <<>>, http_path |-> <<>>, http_query |-> <<>>, method_value |-> ""]

\* HttpParseHelper<HttpRequest> takes the url and HttpParseHelper<HttpResponse> the status.
parse_url(d, text) == [d EXCEPT !.request_url = text]
parse_status(d, text, code) == [d EXCEPT !.http_status = text, !.status_code = code]
parse_field(d, text) == [d EXCEPT !.key = text]
parse_value(d, text) == [d EXCEPT !.headers = Append(@, <<d.key, text>>)]
parse_body(d, text) == [d EXCEPT !.http_body = text]

\* A target that http_parser_parse_url refuses, or the empty one of a response, is let pass.
\* http_path and http_query are views into request_url; here they are texts, because a
\* decoder of this module reads one message and its request_url stays as it is (for
\* several in one call see Http).
url_parsed(d, method, url) ==
  IF url.result # 0 THEN [reply |-> 0, decoder |-> d]
  ELSE IF "UF_PATH" \notin DOMAIN url.u THEN [reply |-> -1, decoder |-> d]
  ELSE [reply |-> 0,
        decoder |-> [d EXCEPT !.http_path = field_text(d.request_url, url.u["UF_PATH"]),
                              !.method_value = method,
                              !.http_query = IF "UF_QUERY" \in DOMAIN url.u
                                             THEN field_text(d.request_url, url.u["UF_QUERY"])
                                             ELSE @]]

parse_header_complete(d, method) ==
  url_parsed(d, method, http_parser_parse_url(d.request_url, FALSE))
=============================================================================
