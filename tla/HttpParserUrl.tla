--------------------------- MODULE HttpParserUrl ---------------------------
(***************************************************************************)
(* The URLs of http_parser.h: parse_url_char, which http_parser_execute    *)
(* applies to every byte of a request's target, and http_parser_parse_url, *)
(* which finds the fields of a whole URL.  Loops over bytes are folds over *)
(* positions.                                                              *)
(***************************************************************************)
EXTENDS HttpChars

CONSTANTS MaxPort,     \* bound of a port: 0xffff in the code
          FieldSize    \* offsets and lengths of fields are taken modulo this: 2^16

ASSUME MaxPortAssumption == MaxPort \in Nat
ASSUME FieldSizeAssumption == FieldSize \in Nat \ {0}

parse_url_server(ch) ==
  CASE ch = "/" -> "s_req_path"
    [] ch = "?" -> "s_req_query_string_start"
    [] ch = "@" -> "s_req_server_with_at"
    [] ch \in USERINFO_CHARS \/ ch \in {"[", "]"} -> "s_req_server"
    [] OTHER -> "s_dead"

parse_url_rest(s, ch) ==
  CASE s = "s_req_path" ->
         IF ch \in URL_CHARS THEN s ELSE IF ch = "?" THEN "s_req_query_string_start"
         ELSE IF ch = "#" THEN "s_req_fragment_start" ELSE "s_dead"
    [] s \in {"s_req_query_string_start", "s_req_query_string"} ->
         IF ch \in URL_CHARS \/ ch = "?" THEN "s_req_query_string"
         ELSE IF ch = "#" THEN "s_req_fragment_start" ELSE "s_dead"
    [] s = "s_req_fragment_start" ->
         IF ch \in URL_CHARS \/ ch = "?" THEN "s_req_fragment"
         ELSE IF ch = "#" THEN s ELSE "s_dead"
    [] s = "s_req_fragment" ->
         IF ch \in URL_CHARS \/ ch \in {"?", "#"} THEN s ELSE "s_dead"
    [] OTHER -> "s_dead"

\* A space, a tab and the end of a line belong to no class and lead to s_dead.
parse_url_char(s, ch) ==
  CASE s = "s_req_spaces_before_url" ->
         IF ch \in {"/", "*"} THEN "s_req_path"
         ELSE IF ch \in ALPHA THEN "s_req_schema" ELSE "s_dead"
    [] s = "s_req_schema" ->
         IF ch \in ALPHA THEN s ELSE IF ch = ":" THEN "s_req_schema_slash" ELSE "s_dead"
    [] s = "s_req_schema_slash" -> IF ch = "/" THEN "s_req_schema_slash_slash" ELSE "s_dead"
    [] s = "s_req_schema_slash_slash" -> IF ch = "/" THEN "s_req_server_start" ELSE "s_dead"
    [] s = "s_req_server_with_at" -> IF ch = "@" THEN "s_dead" ELSE parse_url_server(ch)
    [] s \in {"s_req_server_start", "s_req_server"} -> parse_url_server(ch)
    [] OTHER -> parse_url_rest(s, ch)

-----------------------------------------------------------------------------
http_parse_host_v6_char(s, ch) ==
  CASE s \in {"s_http_host_v6", "s_http_host_v6_zone"} /\ ch = "]" -> "s_http_host_v6_end"
    [] s \in {"s_http_host_v6", "s_http_host_v6_start"} /\ (ch \in HEX \/ ch \in {":", "."}) ->
         "s_http_host_v6"
    [] s = "s_http_host_v6" /\ ch = "%" -> "s_http_host_v6_zone_start"
    [] s \in {"s_http_host_v6_zone", "s_http_host_v6_zone_start"}
         /\ (ch \in ALPHANUM \/ ch \in Chars("%.-_~")) -> "s_http_host_v6_zone"
    [] OTHER -> "s_http_host_dead"

http_parse_host_char(s, ch) ==
  CASE s \in {"s_http_userinfo", "s_http_userinfo_start"} ->
         IF ch = "@" THEN "s_http_host_start"
         ELSE IF ch \in USERINFO_CHARS THEN "s_http_userinfo" ELSE "s_http_host_dead"
    [] s = "s_http_host_start" ->
         IF ch = "[" THEN "s_http_host_v6_start"
         ELSE IF ch \in HOST_CHARS THEN "s_http_host" ELSE "s_http_host_dead"
    [] s \in {"s_http_host", "s_http_host_v6_end"} ->
         IF s = "s_http_host" /\ ch \in HOST_CHARS THEN "s_http_host"
         ELSE IF ch = ":" THEN "s_http_host_port_start" ELSE "s_http_host_dead"
    [] s \in {"s_http_host_port", "s_http_host_port_start"} ->
         IF IS_NUMBER(ch) THEN "s_http_host_port" ELSE "s_http_host_dead"
    [] OTHER -> http_parse_host_v6_char(s, ch)

NoField == "absent"

\* field_data: field |-> its place in the URL, as two uint16_t; the domain is
\* field_set.  The byte at offset `at' is added to field f.
add_to_field(u, f, at) ==
  IF f = NoField THEN u
  ELSE [g \in DOMAIN u \cup {f} |->
          IF g # f THEN u[g]
          ELSE IF f \in DOMAIN u THEN [u[f] EXCEPT !.len = (@ + 1) % FieldSize]
          ELSE [off |-> at % FieldSize, len |-> 1 % FieldSize]]

\* The bytes that a field stands for.  In a URL of FieldSize bytes or more they need
\* not be the ones it was made of.
field_text(buf, field) == SubSeq(buf, field.off + 1, field.off + field.len)

\* The field a byte of the host part belongs to.
HostField(s) ==
  CASE s \in {"s_http_host", "s_http_host_v6", "s_http_host_v6_zone_start",
              "s_http_host_v6_zone"} -> "UF_HOST"
    [] s = "s_http_host_port" -> "UF_PORT"
    [] s = "s_http_userinfo" -> "UF_USERINFO"
    [] OTHER -> NoField

http_parse_host_step(a, at, new_s) ==
  [s |-> new_s, u |-> add_to_field(a.u, HostField(new_s), at)]

http_parse_host(buf, host, found_at) ==
  FoldLeft(LAMBDA a, at : http_parse_host_step(a, at, http_parse_host_char(a.s, buf[at + 1])),
           [s |-> IF found_at THEN "s_http_userinfo_start" ELSE "s_http_host_start",
            u |-> <<>>],
           [k \in 1..host.len |-> host.off + k - 1])

\* The states in which the host part may end.
HostEnds == {"s_http_host", "s_http_host_v6_end", "s_http_host_port"}

UrlField(s) ==
  CASE s = "s_req_schema" -> "UF_SCHEMA"
    [] s \in {"s_req_server", "s_req_server_with_at"} -> "UF_HOST"
    [] s = "s_req_path" -> "UF_PATH"
    [] s = "s_req_query_string" -> "UF_QUERY"
    [] s = "s_req_fragment" -> "UF_FRAGMENT"
    [] OTHER -> NoField

\* The fields before the host part is taken apart; found_at is an '@' in it.
url_fields_step(a, at, s) ==
  [s |-> s, found_at |-> a.found_at \/ s = "s_req_server_with_at",
   u |-> add_to_field(a.u, UrlField(s), at)]

url_fields(buf, is_connect) ==
  FoldLeft(LAMBDA a, at : url_fields_step(a, at, parse_url_char(a.s, buf[at + 1])),
           [s |-> IF is_connect THEN "s_req_server_start" ELSE "s_req_spaces_before_url",
            found_at |-> FALSE, u |-> <<>>],
           [k \in 1..Len(buf) |-> k - 1])

\* The fields with the host part replaced by its own fields.
with_host(a, host) ==
  [ok |-> a.s # "s_dead" /\ host.s \in HostEnds,
   u |-> [f \in DOMAIN host.u \cup (DOMAIN a.u \ {"UF_HOST"}) |->
            IF f \in DOMAIN host.u THEN host.u[f] ELSE a.u[f]]]

url_with_host(buf, a) ==
  IF "UF_HOST" \in DOMAIN a.u
  THEN with_host(a, http_parse_host(buf, a.u["UF_HOST"], a.found_at))
  ELSE [ok |-> a.s # "s_dead" /\ "UF_SCHEMA" \notin DOMAIN a.u, u |-> a.u]

\* A port in digits as a number, MaxPort + 1 as soon as it is beyond the bound.
port_value(digits) ==
  FoldLeft(LAMBDA v, ch : IF v > MaxPort \/ 10 * v + DIGIT(ch) > MaxPort THEN MaxPort + 1
                          ELSE 10 * v + DIGIT(ch), 0, digits)

url_port(buf, u) ==
  IF "UF_PORT" \in DOMAIN u THEN port_value(field_text(buf, u["UF_PORT"])) ELSE 0

url_result(buf, a, is_connect) ==
  IF /\ a.ok
     /\ is_connect => DOMAIN a.u = {"UF_HOST", "UF_PORT"}
     /\ url_port(buf, a.u) <= MaxPort
  THEN [result |-> 0, u |-> a.u, port |-> url_port(buf, a.u)]
  ELSE [result |-> 1]

\* The result is 0 with field_data, or 1.
http_parser_parse_url(buf, is_connect) ==
  IF buf = <<>> THEN [result |-> 1]
  ELSE url_result(buf, url_with_host(buf, url_fields(buf, is_connect)), is_connect)
=============================================================================
