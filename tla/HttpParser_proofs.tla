-------------------------- MODULE HttpParser_proofs --------------------------
(***************************************************************************)
(* Proofs about HttpParser for streams of any bytes, cut into calls        *)
(* anywhere, any limit of a head and any largest length of a body.         *)
(***************************************************************************)
EXTENDS HttpParser, FiniteSetTheorems, TLAPS

Fields == {"type", "flags", "header_state", "index", "nread", "state", "content_length",
           "http_major", "http_minor", "status_code", "method", "http_errno", "upgrade"}
MarkNames == {"header_field", "header_value", "url", "body", "status"}

StartStates == {"s_start_req_or_res", "s_start_res", "s_start_req"}
ChunkStates == {"s_chunk_size_start", "s_chunk_size", "s_chunk_parameters",
                "s_chunk_size_almost_done", "s_chunk_data", "s_chunk_data_almost_done",
                "s_chunk_data_done"}
BodyStates == {"s_body_identity", "s_body_identity_eof", "s_message_done"}
NoHead == StartStates \cup ChunkStates \cup BodyStates \cup {"s_dead"}

(***************************************************************************)
(* The parts of the invariant, of a parser q at position x in place c of   *)
(* the execution, with the marks, the loop l and a message that began at   *)
(* position b.                                                             *)
(***************************************************************************)
TypeInv(q, x, c, marks, l, b) ==
  /\ DOMAIN q = Fields /\ q.nread \in 0..max_header_size /\ q.http_errno = "HPE_OK"
  /\ q.content_length \in 0..ULLONG_MAX
  /\ x \in Nat \ {0} /\ b \in Nat /\ l \in [start : Nat, pe : Nat]
  /\ c \in {"call", "first", "head", "switch", "loop"}
  /\ DOMAIN marks = MarkNames

\* The bytes of a head are counted up to and including the current one once it is looked
\* at; inside a loop the bytes after its first one are not.
CountInv(q, x, c, l, b) ==
  /\ q.state \notin NoHead /\ "F_TRAILING" \notin q.flags =>
       q.nread >= CASE c = "switch" -> x - b + 1
                    [] c = "loop" -> l.start - b + 1
                    [] OTHER -> x - b
  /\ c = "switch" /\ q.state \in StartStates => q.nread >= 1
  /\ c = "loop" => q.state \in {"s_header_field", "s_header_value"} /\ l.start <= x

\* A text is marked only in the states that read it.
MarkInv(q, c, marks) ==
  c # "call" =>
    /\ marks["header_field"] # 0 => q.state = "s_header_field"
    /\ marks["header_value"] # 0 => q.state = "s_header_value"
    /\ marks["url"] # 0 => q.state \in UrlStates
    /\ marks["status"] # 0 => q.state = "s_res_status"
    /\ marks["body"] # 0 => q.state \in {"s_body_identity", "s_body_identity_eof", "s_chunk_data",
                                         "s_chunk_data_almost_done"}

\* What each state of a body knows of the framing.
BodyInv(q, c) ==
  /\ q.state \in ChunkStates => "F_CHUNKED" \in q.flags
  /\ q.state = "s_chunk_size_start" => q.nread = IF c = "switch" THEN 1 ELSE 0
  /\ q.state = "s_headers_done" => c = "switch" /\ "F_TRAILING" \notin q.flags
  /\ q.state \in {"s_body_identity", "s_chunk_data"} => q.content_length \in 1..ULLONG_MAX - 1
  /\ q.state \in {"s_chunk_size", "s_chunk_parameters", "s_chunk_size_almost_done"} =>
       q.content_length \in 0..ULLONG_MAX - 1
  /\ q.state = "s_chunk_data_almost_done" => q.content_length = 0

\* The value of a header is read in the states of values only.
ValueInv(q) ==
  q.state = "s_header_value" =>
    q.header_state \notin {"h_connection", "h_transfer_encoding", "h_content_length"}

Good(q, x, c, marks, l, b) ==
  /\ TypeInv(q, x, c, marks, l, b) /\ CountInv(q, x, c, l, b) /\ MarkInv(q, c, marks)
  /\ BodyInv(q, c) /\ ValueInv(q)

Inv == pc = "stop" \/ Good(parser, p, pc, mark, loop, began)

-----------------------------------------------------------------------------
Special == NoHead \cup UrlStates \cup {"s_headers_done", "s_header_field", "s_header_value",
                                       "s_res_status"}

Kept(q) ==
  /\ DOMAIN q = Fields /\ q.nread = parser.nread /\ parser.flags \subseteq q.flags
  /\ q.http_errno = parser.http_errno
  /\ q.content_length = parser.content_length \/ q.content_length \in 0..ULLONG_MAX

Goes == /\ loop' = NoLoop /\ began' = began
        /\ (p' = p + 1 /\ pc' = "head") \/ (p' = p /\ pc' = "switch")

\* At the switch the parts hold of the current state.
LEMMA GoodNow == ASSUME Inv, pc = "switch" PROVE Good(parser, p, "switch", mark, loop, began)
BY DEF Inv

LEMMA FieldsNow == ASSUME Inv, pc # "stop" PROVE DOMAIN parser = Fields
BY DEF Inv, Good, TypeInv

\* A step within a head.
LEMMA HeadStep ==
  ASSUME Inv, pc = "switch", parser.state \notin NoHead, Goes,
         Kept(parser'), parser'.state \notin NoHead \cup {"s_headers_done"},
         MarkInv(parser', "head", mark'), DOMAIN mark' = MarkNames, ValueInv(parser')
  PROVE  Inv'
<1> USE ParserAssumption
<1>1. Good(parser, p, "switch", mark, loop, began)
  BY GoodNow
<1>2. TypeInv(parser', p', pc', mark', loop', began')
  BY <1>1 DEF Good, TypeInv, Kept, Goes, NoLoop
<1>3. CountInv(parser', p', pc', loop', began')
  BY <1>1 DEF Good, TypeInv, CountInv, Kept, Goes, NoHead
<1>4. MarkInv(parser', pc', mark')
  BY <1>1 DEF MarkInv
<1>5. BodyInv(parser', pc')
  BY DEF BodyInv, NoHead, ChunkStates, BodyStates
<1> QED
  BY <1>2, <1>3, <1>4, <1>5 DEF Inv, Good

\* A step of a head between states without marks.
Plainly ==
  /\ pc = "switch" /\ parser.state \notin Special
  /\ \/ pc' = "stop"
     \/ Goes /\ Kept(parser') /\ parser'.state \notin Special /\ mark' = mark

\* Such a step keeps the invariant.
LEMMA Plain == ASSUME Inv, Plainly PROVE Inv'
<1>1. CASE pc' = "stop"
  BY <1>1 DEF Inv
<1>2. CASE Goes /\ Kept(parser') /\ parser'.state \notin Special /\ mark' = mark
  <2>1. Good(parser, p, "switch", mark, loop, began)
    BY GoodNow DEF Plainly
  <2>2. MarkInv(parser', "head", mark') /\ DOMAIN mark' = MarkNames
    BY <1>2, <2>1 DEF Good, MarkInv, TypeInv, Special, Plainly, NoHead, BodyStates, ChunkStates
  <2>3. ValueInv(parser')
    BY <1>2 DEF ValueInv, Special
  <2> QED
    BY <1>2, <2>2, <2>3, HeadStep DEF Plainly, Special
<1> QED
  BY <1>1, <1>2 DEF Plainly

\* The tables of expected characters lead to states of the same kind.
LEMMA ResTable ==
  ASSUME NEW s \in DOMAIN res_http
  PROVE  s \notin Special /\ res_http[s].to \notin Special
<1>1. s \in {"s_res_H", "s_res_HT", "s_res_HTT", "s_res_HTTP", "s_res_http_dot", "s_res_http_end"}
  BY DEF res_http
<1>2. res_http[s].to \in {"s_res_HT", "s_res_HTT", "s_res_HTTP", "s_res_http_major",
                          "s_res_http_minor", "s_res_first_status_code"}
  <2>1. CASE s = "s_res_H"
    BY <2>1 DEF res_http, Expect
  <2>2. CASE s = "s_res_HT"
    BY <2>2 DEF res_http, Expect
  <2>3. CASE s = "s_res_HTT"
    BY <2>3 DEF res_http, Expect
  <2>4. CASE s = "s_res_HTTP"
    BY <2>4 DEF res_http, Expect
  <2>5. CASE s = "s_res_http_dot"
    BY <2>5 DEF res_http, Expect
  <2>6. CASE s = "s_res_http_end"
    BY <2>6 DEF res_http, Expect
  <2> QED
    BY <1>1, <2>1, <2>2, <2>3, <2>4, <2>5, <2>6
<1> QED
  BY <1>1, <1>2 DEF Special, NoHead, StartStates, ChunkStates, BodyStates, UrlStates

LEMMA ReqTable ==
  ASSUME NEW s \in DOMAIN req_http
  PROVE  s \notin Special /\ req_http[s].to \notin Special
BY DEF req_http, Expect, Special, NoHead, StartStates, ChunkStates, BodyStates, UrlStates

\* A case of the switch that expects one character is such a step.
LEMMA ConstantPlain ==
  ASSUME Inv, NEW table, Constant(table),
         \A s \in DOMAIN table : s \notin Special /\ table[s].to \notin Special
  PROVE  Plainly
BY FieldsNow DEF Constant, Plainly, Break, Error, Return, Silent, Frame, At, State, Goes, Kept, Fields

\* The flag of a value that ends is added, and nothing else changes.
LEMMA FlaggedIs ==
  ASSUME DOMAIN parser = Fields
  PROVE  /\ DOMAIN Flagged(parser) = Fields /\ parser.flags \subseteq Flagged(parser).flags
         /\ Flagged(parser).nread = parser.nread
         /\ Flagged(parser).http_errno = parser.http_errno
         /\ Flagged(parser).content_length = parser.content_length
BY DEF Flagged, Fields

\* The actions that neither mark a text nor end one, nor a head.
PlainAction ==
  \/ s_res_or_resp_H \/ s_res_http \/ s_res_http_number \/ s_res_first_status_code
  \/ s_res_status_code \/ s_res_line_almost_done \/ s_req_method \/ s_req_http_start
  \/ s_req_http \/ s_req_http_number \/ s_req_http_end \/ s_req_line_almost_done
  \/ s_header_value_discard_ws \/ s_header_almost_done \/ s_header_value_lws
  \/ s_header_value_discard_ws_almost_done

\* These are the cases of the switch that are such steps.
LEMMA PlainActions == ASSUME Inv, PlainAction PROVE Inv'
<1> USE FieldsNow DEF Plainly, Break, Reexecute, Error, Return, Silent, Frame, At, State,
          Goes, Kept, Special, Fields, NoHead, StartStates, ChunkStates, BodyStates, UrlStates
<1>1. CASE s_res_or_resp_H
  <2> Plainly
    BY <1>1, ZenonT(60) DEF s_res_or_resp_H
  <2> QED
    BY Plain
<1>2. CASE s_res_http_number
  <2> Plainly
    BY <1>2, ZenonT(60) DEF s_res_http_number
  <2> QED
    BY Plain
<1>3. CASE s_res_first_status_code
  <2> Plainly
    BY <1>3 DEF s_res_first_status_code
  <2> QED
    BY Plain
<1>4. CASE s_res_status_code
  <2>1. CASE ch = " "
    BY <1>4, <2>1, Plain DEF s_res_status_code
  <2>2. CASE ch # " " /\ ch \in {CR, LF}
    BY <1>4, <2>2, Plain DEF s_res_status_code
  <2>3. CASE ch # " " /\ ch \notin {CR, LF}
    <3>1. PICK code : Break([parser EXCEPT !.status_code = code]) \/ pc' = "stop"
      BY <1>4, <2>3, ZenonT(60) DEF s_res_status_code
    <3>2. pc = "switch" /\ parser.state = "s_res_status_code" /\ mark' = mark /\ began' = began
      BY <1>4 DEF s_res_status_code
    <3> QED
      BY <3>1, <3>2, Plain
  <2> QED
    BY <2>1, <2>2, <2>3
<1>5. CASE s_req_method
  <2> Plainly
    BY <1>5, ZenonT(60) DEF s_req_method
  <2> QED
    BY Plain
<1>6. CASE s_req_http_start
  <2> Plainly
    BY <1>6, ZenonT(60) DEF s_req_http_start
  <2> QED
    BY Plain
<1>7. CASE s_req_http_number
  <2> Plainly
    BY <1>7, ZenonT(60) DEF s_req_http_number
  <2> QED
    BY Plain
<1>8. CASE s_req_http_end
  <2> Plainly
    BY <1>8 DEF s_req_http_end
  <2> QED
    BY Plain
<1>9. CASE s_header_value_discard_ws
  <2> Plainly
    BY <1>9 DEF s_header_value_discard_ws
  <2> QED
    BY Plain
<1>10. CASE s_header_value_lws
  <2>1. CASE ch \in {" ", TAB}
    BY <1>10, <2>1, Plain DEF s_header_value_lws
  <2>2. CASE ch \notin {" ", TAB}
    <3>1. Kept(parser') /\ parser'.state = "s_header_field_start"
      BY <1>10, <2>2, FlaggedIs DEF s_header_value_lws
    <3> QED
      BY <1>10, <2>2, <3>1, Plain DEF s_header_value_lws
  <2> QED
    BY <2>1, <2>2
<1>11. CASE s_res_http
  BY <1>11, ResTable, ConstantPlain, Plain DEF s_res_http
<1>12. CASE s_req_http
  BY <1>12, ReqTable, ConstantPlain, Plain DEF s_req_http
<1>13. CASE s_res_line_almost_done
  <2> Plainly
    BY <1>13 DEF s_res_line_almost_done, Constant, Expect
  <2> QED
    BY Plain
<1>14. CASE s_req_line_almost_done
  <2> Plainly
    BY <1>14 DEF s_req_line_almost_done, Constant, Expect
  <2> QED
    BY Plain
<1>15. CASE s_header_almost_done
  <2> Plainly
    BY <1>15 DEF s_header_almost_done, Constant, Expect
  <2> QED
    BY Plain
<1>16. CASE s_header_value_discard_ws_almost_done
  <2> Plainly
    BY <1>16 DEF s_header_value_discard_ws_almost_done, Constant, Expect
  <2> QED
    BY Plain
<1> QED
  BY <1>1, <1>2, <1>3, <1>4, <1>5, <1>6, <1>7, <1>8, <1>9, <1>10, <1>11, <1>12,
     <1>13, <1>14, <1>15, <1>16 DEF PlainAction

-----------------------------------------------------------------------------
(* Texts begin and end.                                                    *)

LEMMA MarksAre == ToSet(Marks) = MarkNames
BY DEF ToSet, Marks, MarkNames

\* MARK sets no other mark.
LEMMA Marking ==
  ASSUME DOMAIN mark = MarkNames, NEW m \in MarkNames, MARK(m)
  PROVE  DOMAIN mark' = MarkNames /\ \A k \in MarkNames \ {m} : mark'[k] = mark[k]
BY DEF MARK

\* A callback takes the mark away.
LEMMA Calling ==
  ASSUME NEW cb \in MarkNames, NEW marks, NEW end, DOMAIN marks = MarkNames,
         CallbackData(cb, marks, end)
  PROVE  /\ DOMAIN mark' = MarkNames /\ mark'[cb] = 0
         /\ \A k \in MarkNames \ {cb} : mark'[k] = marks[k]
<1>1. CASE marks[cb] = 0
  BY <1>1 DEF CallbackData
<1>2. CASE marks[cb] # 0
  <2>1. mark' = [marks EXCEPT ![cb] = 0]
    BY <1>2 DEF CallbackData
  <2> QED
    BY <2>1
<1> QED
  BY <1>1, <1>2

\* In a state, at most the mark of its text is set.
Only(cb, marks) == \A k \in MarkNames \ {cb} : marks[k] = 0

LEMMA OnlyIts ==
  ASSUME Inv, pc \notin {"stop", "call"}
  PROVE  /\ DOMAIN mark = MarkNames
         /\ parser.state \notin Special => \A k \in MarkNames : mark[k] = 0
         /\ parser.state = "s_header_field" => Only("header_field", mark)
         /\ parser.state = "s_header_value" => Only("header_value", mark)
         /\ parser.state \in UrlStates => Only("url", mark)
         /\ parser.state = "s_res_status" => Only("status", mark)
         /\ parser.state \in BodyStates \cup ChunkStates => Only("body", mark)
<1>1. MarkInv(parser, pc, mark) /\ DOMAIN mark = MarkNames
  BY DEF Inv, Good, TypeInv
<1> QED
  BY <1>1 DEF MarkInv, MarkNames, Only, Special, NoHead, BodyStates, ChunkStates, UrlStates

\* A head goes on in a state without a text when all marks are cleared.
LEMMA ClearStep ==
  ASSUME Inv, pc = "switch", parser.state \notin NoHead, Goes,
         Kept(parser'), parser'.state \notin Special,
         DOMAIN mark' = MarkNames, \A k \in MarkNames : mark'[k] = 0
  PROVE  Inv'
<1>1. MarkInv(parser', "head", mark')
  BY DEF MarkInv, MarkNames
<1>2. ValueInv(parser')
  BY DEF ValueInv, Special
<1> QED
  BY <1>1, <1>2, HeadStep DEF Special

\* The reason phrase of a response is marked, even an empty one.
LEMMA StatusStart == ASSUME Inv, s_res_status_start PROVE Inv'
<1>1. pc = "switch" /\ parser.state = "s_res_status_start" /\ MARK("status")
  BY DEF s_res_status_start, At
<1>2. parser.state \notin Special
  BY <1>1 DEF Special, NoHead, StartStates, ChunkStates, BodyStates, UrlStates
<1>3. DOMAIN mark' = MarkNames /\ Only("status", mark')
  BY <1>1, <1>2, OnlyIts, Marking DEF MarkNames, Only
<1>4. Goes /\ Kept(parser') /\ parser'.state = "s_res_status"
  BY <1>1, FieldsNow DEF s_res_status_start, Break, Reexecute, Goes, Kept, Fields, State, Frame
<1>5. MarkInv(parser', "head", mark') /\ ValueInv(parser')
  BY <1>3, <1>4 DEF MarkInv, ValueInv, Only, MarkNames
<1> QED
  BY <1>1, <1>2, <1>3, <1>4, <1>5, HeadStep
       DEF Special, NoHead, StartStates, ChunkStates, BodyStates

\* The reason phrase ends.
LEMMA Status == ASSUME Inv, s_res_status PROVE Inv'
<1>1. pc = "switch" /\ parser.state = "s_res_status"
  BY DEF s_res_status, At
<1>2. parser.state \notin NoHead /\ DOMAIN mark = MarkNames /\ Only("status", mark)
  BY <1>1, OnlyIts DEF NoHead, StartStates, ChunkStates, BodyStates
<1>3. CASE ch \in {CR, LF}
  <2>1. Goes /\ Kept(parser') /\ parser'.state \in {"s_res_line_almost_done", "s_header_field_start"}
    BY <1>1, <1>3, FieldsNow DEF s_res_status, Break, Goes, Kept, Fields, State, Frame
  <2>2. CallbackData("status", mark, p)
    BY <1>3 DEF s_res_status
  <2>3. DOMAIN mark' = MarkNames /\ \A k \in MarkNames : mark'[k] = 0
    BY <1>2, <2>2, Calling DEF MarkNames, Only
  <2>4. parser'.state \notin Special
    BY <2>1 DEF Special, NoHead, StartStates, ChunkStates, BodyStates, UrlStates
  <2> QED
    BY <1>1, <1>2, <2>1, <2>3, <2>4, ClearStep
<1>4. CASE ch \notin {CR, LF}
  <2>1. Goes /\ Kept(parser') /\ parser' = parser /\ mark' = mark
    BY <1>1, <1>4, FieldsNow DEF s_res_status, Break, Goes, Kept, Frame
  <2>2. MarkInv(parser', "head", mark') /\ ValueInv(parser')
    BY <1>1, <2>1 DEF MarkInv, ValueInv, Inv, Good
  <2> QED
    BY <1>1, <1>2, <2>1, <2>2, HeadStep
<1> QED
  BY <1>3, <1>4

\* A byte of a url: it goes on in one of its states, or ends with an error.
LEMMA UrlChar ==
  ASSUME NEW s, NEW c
  PROVE  parse_url_char(s, c) \in UrlStates \cup {"s_dead"}
BY DEF parse_url_char, parse_url_rest, parse_url_server, UrlStates

\* A step from a state of a url to another one, with at most its mark set.
LEMMA UrlGoesOn ==
  ASSUME Inv, pc = "switch", parser.state \notin NoHead, NEW s, UrlStep(s), began' = began,
         DOMAIN mark' = MarkNames, Only("url", mark')
  PROVE  Inv'
<1>1. CASE pc' = "stop"
  BY <1>1 DEF Inv
<1>2. CASE pc' # "stop"
  <2>1. parse_url_char(s, ch) # "s_dead"
    BY <1>2 DEF UrlStep, Error, Return
  <2>2. Goes /\ Kept(parser') /\ parser'.state \in UrlStates
    BY <2>1, FieldsNow, UrlChar DEF UrlStep, Break, Goes, Kept, Fields, State
  <2>3. MarkInv(parser', "head", mark')
    BY <2>2 DEF MarkInv, Only, MarkNames
  <2>4. parser'.state \notin NoHead \cup {"s_headers_done", "s_header_value"}
    BY <2>2 DEF UrlStates, NoHead, StartStates, ChunkStates, BodyStates
  <2> QED
    BY <2>2, <2>3, <2>4, HeadStep DEF ValueInv
<1> QED
  BY <1>1, <1>2

\* The first byte of a url is marked.
LEMMA SpacesBeforeUrl == ASSUME Inv, s_req_spaces_before_url PROVE Inv'
<1>1. pc = "switch" /\ parser.state = "s_req_spaces_before_url" /\ began' = began
  BY DEF s_req_spaces_before_url, At, Frame
<1>2. parser.state \notin Special /\ parser.state \notin NoHead
  BY <1>1 DEF Special, NoHead, StartStates, ChunkStates, BodyStates, UrlStates
<1>3. CASE ch = " "
  BY <1>1, <1>2, <1>3, FieldsNow, Plain
       DEF s_req_spaces_before_url, Plainly, Break, Goes, Kept
<1>4. CASE ch # " "
  <2>1. PICK s : UrlStep(s) /\ MARK("url")
    BY <1>4 DEF s_req_spaces_before_url
  <2>2. DOMAIN mark' = MarkNames /\ Only("url", mark')
    BY <1>1, <1>2, <2>1, OnlyIts, Marking DEF MarkNames, Only
  <2> QED
    BY <1>1, <1>2, <2>1, <2>2, UrlGoesOn
<1> QED
  BY <1>3, <1>4

\* A url goes on, or is malformed.
LEMMA Schema == ASSUME Inv, s_req_schema PROVE Inv'
<1>1. /\ pc = "switch" /\ parser.state \in UrlStates /\ parser.state \notin NoHead
      /\ began' = began /\ mark' = mark /\ UrlStep(parser.state)
  BY DEF s_req_schema, At, Silent, Frame, UrlStates, NoHead, StartStates, ChunkStates, BodyStates
<1> QED
  BY <1>1, OnlyIts, UrlGoesOn DEF Only

\* A url goes on, or its callback is called.
LEMMA Url == ASSUME Inv, s_req_url PROVE Inv'
<1>1. /\ pc = "switch" /\ parser.state \in UrlStates /\ parser.state \notin NoHead
      /\ began' = began
  BY DEF s_req_url, At, Frame, UrlStates, NoHead, StartStates, ChunkStates, BodyStates
<1>2. DOMAIN mark = MarkNames /\ Only("url", mark)
  BY <1>1, OnlyIts
<1>3. CASE ch = " " \/ ch \in {CR, LF}
  <2>1. Goes /\ Kept(parser') /\ parser'.state \in {"s_req_http_start", "s_req_line_almost_done",
                                                   "s_header_field_start"}
    BY <1>1, <1>3, FieldsNow DEF s_req_url, Break, Goes, Kept, Fields, State
  <2>2. CallbackData("url", mark, p)
    BY <1>3 DEF s_req_url
  <2>3. DOMAIN mark' = MarkNames /\ \A k \in MarkNames : mark'[k] = 0
    BY <1>2, <2>2, Calling DEF MarkNames, Only
  <2>4. parser'.state \notin Special
    BY <2>1 DEF Special, NoHead, StartStates, ChunkStates, BodyStates, UrlStates
  <2> QED
    BY <1>1, <2>1, <2>3, <2>4, ClearStep
<1>4. CASE ~(ch = " " \/ ch \in {CR, LF})
  <2>1. UrlStep(parser.state) /\ mark' = mark
    BY <1>4 DEF s_req_url
  <2> QED
    BY <1>1, <1>2, <2>1, UrlGoesOn DEF Only
<1> QED
  BY <1>3, <1>4

-----------------------------------------------------------------------------
(* Headers.                                                                *)

\* The head ends, or the name of a header is marked.
LEMMA HeaderFieldStart == ASSUME Inv, s_header_field_start PROVE Inv'
<1>1. pc = "switch" /\ parser.state = "s_header_field_start" /\ began' = began
  BY DEF s_header_field_start, At, Frame
<1>2. parser.state \notin Special /\ parser.state \notin NoHead
  BY <1>1 DEF Special, NoHead, StartStates, ChunkStates, BodyStates, UrlStates
<1>3. CASE ch = CR \/ ch = LF \/ ch \notin TOKENS \cup {CR, LF}
  <2>1. \/ Break(State("s_headers_almost_done")) \/ Reexecute(State("s_headers_almost_done"))
        \/ pc' = "stop"
    <3>1. CASE ch = CR
      BY <3>1 DEF s_header_field_start, CR, LF
    <3>2. CASE ch # CR /\ ch = LF
      BY <3>2 DEF s_header_field_start, CR, LF
    <3>3. CASE ch # CR /\ ch # LF
      BY <1>3, <3>3 DEF s_header_field_start, Error, Return
    <3> QED
      BY <3>1, <3>2, <3>3
  <2>2. mark' = mark
    <3>1. CASE ch = CR
      BY <3>1 DEF s_header_field_start, CR, LF
    <3>2. CASE ch # CR /\ ch = LF
      BY <3>2 DEF s_header_field_start, CR, LF
    <3>3. CASE ch # CR /\ ch # LF
      BY <1>3, <3>3 DEF s_header_field_start
    <3> QED
      BY <3>1, <3>2, <3>3
  <2>3. "s_headers_almost_done" \notin Special
    BY DEF Special, NoHead, StartStates, ChunkStates, BodyStates, UrlStates
  <2> QED
    BY <1>1, <1>2, <2>1, <2>2, <2>3, FieldsNow, Plain
         DEF Plainly, Break, Reexecute, Goes, Kept, Fields, State
<1>4. CASE ~(ch = CR \/ ch = LF \/ ch \notin TOKENS \cup {CR, LF})
  <2>1. MARK("header_field")
    BY <1>4 DEF s_header_field_start
  <2>2. PICK h : Break([parser EXCEPT !.index = 0, !.state = "s_header_field", !.header_state = h])
    BY <1>4 DEF s_header_field_start
  <2>3. DOMAIN mark' = MarkNames /\ Only("header_field", mark')
    BY <1>1, <1>2, <2>1, OnlyIts, Marking DEF MarkNames, Only
  <2>4. Goes /\ Kept(parser') /\ parser'.state = "s_header_field"
    BY <1>1, <2>2, FieldsNow DEF Break, Goes, Kept, Fields
  <2>5. MarkInv(parser', "head", mark') /\ ValueInv(parser')
    BY <2>3, <2>4 DEF MarkInv, ValueInv, Only, MarkNames
  <2> QED
    BY <1>1, <1>2, <2>3, <2>4, <2>5, HeadStep
         DEF Special, NoHead, StartStates, ChunkStates, BodyStates
<1> QED
  BY <1>3, <1>4

\* The byte that a loop begins with is counted.
LEMMA EnterLoop == ASSUME Inv, enter_loop PROVE Inv'
<1>1. /\ pc = "switch" /\ parser.state \in {"s_header_field", "s_header_value"} /\ pc' = "loop"
      /\ loop' = [start |-> p, pe |-> 0] /\ p' = p /\ parser' = parser /\ mark' = mark
      /\ began' = began
  BY DEF enter_loop, At, Silent, Frame
<1>2. Good(parser, p, "switch", mark, loop, began)
  BY <1>1, GoodNow
<1>3. TypeInv(parser', p', pc', mark', loop', began')
  BY <1>1, <1>2 DEF Good, TypeInv
<1>4. CountInv(parser', p', pc', loop', began')
  BY <1>1, <1>2 DEF Good, TypeInv, CountInv
<1>5. MarkInv(parser', pc', mark') /\ ValueInv(parser')
  BY <1>1, <1>2 DEF Good, MarkInv
<1>6. BodyInv(parser', pc')
  BY <1>1 DEF BodyInv, ChunkStates
<1> QED
  BY <1>3, <1>4, <1>5, <1>6 DEF Inv, Good

\* A step of the loop over a name or a value.
LEMMA LoopStep ==
  ASSUME Inv, pc = "loop", pc' = "loop", Kept(parser'), parser'.state = parser.state,
         ValueInv(parser'), p' = p + 1, loop' \in [start : Nat, pe : Nat],
         loop'.start = loop.start, mark' = mark, began' = began
  PROVE  Inv'
<1> USE ParserAssumption
<1>1. Good(parser, p, "loop", mark, loop, began)
  BY DEF Inv
<1>2. parser.state \in {"s_header_field", "s_header_value"}
  BY <1>1 DEF Good, CountInv
<1>3. TypeInv(parser', p', pc', mark', loop', began')
  BY <1>1 DEF Good, TypeInv, Kept
<1>4. CountInv(parser', p', pc', loop', began')
  BY <1>1 DEF Good, TypeInv, CountInv, Kept
<1>5. MarkInv(parser', pc', mark')
  BY <1>1 DEF Good, MarkInv
<1>6. BodyInv(parser', pc')
  BY <1>2 DEF BodyInv, ChunkStates
<1> QED
  BY <1>3, <1>4, <1>5, <1>6 DEF Inv, Good

\* Matching a word changes header_state, to one of three values, and index.
LEMMA MatchingIs ==
  ASSUME NEW q, DOMAIN q = Fields, NEW c, NEW word, NEW found, NEW missed,
         NEW r, r = Matching(q, c, word, found, missed)
  PROVE  /\ DOMAIN r = Fields /\ r.nread = q.nread /\ r.flags = q.flags /\ r.state = q.state
         /\ r.http_errno = q.http_errno /\ r.content_length = q.content_length
         /\ r.header_state \in {missed, found, q.header_state}
<1> DEFINE i == q.index + 1
           h == CASE i >= Len(word) \/ c # word[i + 1] -> missed
                  [] i = Len(word) - 1 -> found
                  [] OTHER -> q.header_state
<1>1. r = [q EXCEPT !.index = i, !.header_state = h]
  BY DEF Matching
<1>2. h \in {missed, found, q.header_state}
  OBVIOUS
<1> HIDE DEF h, i
<1> QED
  BY <1>1, <1>2 DEF Fields

\* A character of a name changes nothing but the state of the name.
LEMMA FieldCharIs ==
  ASSUME DOMAIN parser = Fields, NEW c, NEW q, q = FieldChar(parser, c)
  PROVE  Kept(q) /\ q.state = parser.state
<1> DEFINE h == parser.header_state
<1>0. DOMAIN FieldWords = {"h_matching_connection", "h_matching_proxy_connection",
        "h_matching_content_length", "h_matching_transfer_encoding", "h_matching_upgrade"}
  BY DEF FieldWords
<1>1. CASE h \notin {"h_general", "h_C", "h_CO", "h_CON"} /\ h \in DOMAIN FieldWords
  <2>1. q = Matching(parser, c, FieldWords[h][1], FieldWords[h][2], "h_general")
    BY <1>1 DEF FieldChar
  <2> QED
    BY <2>1, MatchingIs DEF Kept
<1>2. CASE ~(h \notin {"h_general", "h_C", "h_CO", "h_CON"} /\ h \in DOMAIN FieldWords)
  <2>1. CASE h = "h_general"
    BY <1>0, <2>1 DEF FieldChar, Kept
  <2>2. CASE h \in {"h_C", "h_CO", "h_CON"}
    <3>1. PICK x : q = [parser EXCEPT !.index = @ + 1, !.header_state = x]
      <4>1. CASE h = "h_C"
        BY <1>0, <4>1 DEF FieldChar
      <4>2. CASE h = "h_CO"
        BY <1>0, <4>2 DEF FieldChar
      <4>3. CASE h = "h_CON"
        BY <1>0, <4>3 DEF FieldChar
      <4> QED
        BY <2>2, <4>1, <4>2, <4>3
    <3> QED
      BY <3>1 DEF Kept, Fields
  <2>3. CASE h \notin {"h_general", "h_C", "h_CO", "h_CON"}
    <3>1. q = [parser EXCEPT !.header_state = "h_general"]
      BY <1>2, <2>3 DEF FieldChar
    <3> QED
      BY <3>1 DEF Kept, Fields
  <2> QED
    BY <2>1, <2>2, <2>3
<1> QED
  BY <1>1, <1>2

\* A byte of a name.
LEMMA HeaderField == ASSUME Inv, s_header_field PROVE Inv'
<1>1. /\ pc = "loop" /\ pc' = "loop" /\ parser.state = "s_header_field" /\ p' = p + 1
      /\ loop' = loop /\ mark' = mark /\ began' = began /\ parser' = FieldChar(parser, TOKEN(ch))
  BY DEF s_header_field, Looping, Silent, Frame
<1>2. Kept(parser') /\ parser'.state = parser.state
  BY <1>1, FieldsNow, FieldCharIs
<1>3. loop \in [start : Nat, pe : Nat]
  BY <1>1 DEF Inv, Good, TypeInv
<1> QED
  BY <1>1, <1>2, <1>3, LoopStep DEF ValueInv

\* Bytes are counted, unless they are too many.
LEMMA Counting ==
  ASSUME DOMAIN parser = Fields, parser.nread \in Nat, parser.http_errno = "HPE_OK",
         NEW n \in Nat, NEW q, q = COUNT_HEADER_SIZE(parser, n), q.http_errno = "HPE_OK"
  PROVE  /\ DOMAIN q = Fields /\ q.nread = parser.nread + n /\ q.nread \in 0..max_header_size
         /\ q.state = parser.state /\ q.flags = parser.flags
         /\ q.content_length = parser.content_length /\ q.header_state = parser.header_state
<1> USE ParserAssumption
<1>1. ~(parser.nread + n > max_header_size)
  BY DEF COUNT_HEADER_SIZE, Fields
<1>2. q = [parser EXCEPT !.nread = @ + n]
  BY <1>1 DEF COUNT_HEADER_SIZE
<1> QED
  BY <1>1, <1>2 DEF Fields

\* A loop is left at the byte after its last one, which is counted with it.
LEMMA LeaveLoop ==
  ASSUME Inv, pc = "loop", NEW q, q = COUNT_HEADER_SIZE(parser, p - loop.start),
         q.http_errno = "HPE_OK", NEW s, s \notin Special, parser' = [q EXCEPT !.state = s], Goes,
         DOMAIN mark' = MarkNames, \A k \in MarkNames : mark'[k] = 0
  PROVE  Inv'
<1> USE ParserAssumption
<1>1. Good(parser, p, "loop", mark, loop, began)
  BY DEF Inv
<1>2. /\ DOMAIN parser = Fields /\ parser.nread \in Nat /\ parser.http_errno = "HPE_OK"
      /\ p - loop.start \in Nat /\ p \in Nat \ {0} /\ loop.start \in Nat /\ began \in Nat
      /\ parser.content_length \in 0..ULLONG_MAX
      /\ parser.state \in {"s_header_field", "s_header_value"}
  BY <1>1 DEF Good, TypeInv, CountInv
<1>3. /\ DOMAIN q = Fields /\ q.nread = parser.nread + (p - loop.start)
      /\ q.nread \in 0..max_header_size /\ q.flags = parser.flags
      /\ q.content_length = parser.content_length
  BY <1>2, Counting
<1>4. /\ DOMAIN parser' = Fields /\ parser'.nread = q.nread /\ parser'.flags = q.flags
      /\ parser'.state = s /\ parser'.http_errno = "HPE_OK"
      /\ parser'.content_length = q.content_length
  BY <1>3 DEF Fields
<1>5. TypeInv(parser', p', pc', mark', loop', began')
  BY <1>2, <1>3, <1>4 DEF TypeInv, Goes, NoLoop
<1>6. s \notin NoHead \cup {"s_headers_done", "s_header_value"} /\ parser.state \notin NoHead
  BY <1>2 DEF Special, NoHead, StartStates, ChunkStates, BodyStates
<1>7. CountInv(parser', p', pc', loop', began')
  <2>1. CASE "F_TRAILING" \in parser.flags
    BY <1>3, <1>4, <1>6, <2>1 DEF CountInv, Goes, NoHead
  <2>2. CASE "F_TRAILING" \notin parser.flags
    <3>1. parser.nread >= loop.start - began + 1
      BY <1>1, <1>6, <2>2 DEF Good, CountInv
    <3>2. parser'.nread >= p - began + 1
      BY <1>2, <1>3, <1>4, <3>1
    <3> QED
      BY <1>2, <1>4, <1>6, <3>2 DEF CountInv, Goes, NoHead
  <2> QED
    BY <2>1, <2>2
<1>8. MarkInv(parser', pc', mark')
  BY DEF MarkInv, MarkNames
<1>9. BodyInv(parser', pc') /\ ValueInv(parser')
  BY <1>4, <1>6 DEF BodyInv, ValueInv, NoHead, ChunkStates, BodyStates
<1> QED
  BY <1>5, <1>7, <1>8, <1>9 DEF Inv, Good

\* A name ends in its colon, or is malformed.
LEMMA HeaderFieldEnd == ASSUME Inv, s_header_field_end PROVE Inv'
<1> DEFINE q == COUNT_HEADER_SIZE(parser, p - loop.start)
<1>1. pc = "loop" /\ parser.state = "s_header_field" /\ began' = began
  BY DEF s_header_field_end, Looping, Frame
<1>2. CASE q.http_errno = "HPE_OK" /\ ch = ":"
  <2>1. Break([q EXCEPT !.state = "s_header_value_discard_ws"]) /\ CallbackData("header_field", mark, p)
    BY <1>2 DEF s_header_field_end
  <2>2. DOMAIN mark' = MarkNames /\ \A k \in MarkNames : mark'[k] = 0
    BY <1>1, <2>1, OnlyIts, Calling DEF MarkNames, Only
  <2>3. "s_header_value_discard_ws" \notin Special
    BY DEF Special, NoHead, StartStates, ChunkStates, BodyStates, UrlStates
  <2> QED
    BY <1>1, <1>2, <2>1, <2>2, <2>3, LeaveLoop DEF Break, Goes
<1>3. CASE ~(q.http_errno = "HPE_OK" /\ ch = ":")
  BY <1>3 DEF s_header_field_end, Error, Return, Inv
<1> QED
  BY <1>2, <1>3

\* Digits are numbers below 10 and below 16.
LEMMA DigitIs == ASSUME NEW c, IS_NUMBER(c) PROVE DIGIT(c) \in 0..9
BY DEF IS_NUMBER, DIGIT, ValueOf, DIGITS, ToSet

LEMMA HexIs == ASSUME NEW c, c \in HEX PROVE unhex(c) \in 0..15
<1>1. CASE IS_NUMBER(c)
  BY <1>1, DigitIs DEF unhex, DIGIT
<1>2. CASE ~IS_NUMBER(c)
  <2>1. c \in DOMAIN HexValueOf
    BY <1>2 DEF HEX, IS_NUMBER, ValueOf
  <2>2. HexValueOf[c] \in 10..15
    BY <2>1 DEF HexValueOf
  <2> QED
    BY <1>2, <2>1, <2>2 DEF unhex
<1> QED
  BY <1>1, <1>2

LEMMA HexOrNone == ASSUME NEW c, unhex(c) # -1 PROVE unhex(c) \in 0..15
<1>1. c \in HEX
  BY DEF unhex, HEX, IS_NUMBER, ValueOf
<1> QED
  BY <1>1, HexIs

LEMMA ConnectionWordIs ==
  ASSUME NEW c, NEW missed
  PROVE  ConnectionWord(c, missed) \in {"h_matching_connection_keep_alive",
           "h_matching_connection_close", "h_matching_connection_upgrade", missed}
BY DEF ConnectionWord

\* The states of a header's name.
NameStates == {"h_connection", "h_transfer_encoding", "h_content_length"}

\* The first byte of a value leads to a state of values, or to an error.
LEMMA ValueStartIs ==
  ASSUME DOMAIN parser = Fields, NEW c, NEW q, q = header_value_start(parser, c),
         parser.http_errno = "HPE_OK", q.http_errno = "HPE_OK"
  PROVE  Kept(q) /\ q.state = "s_header_value" /\ q.header_state \notin NameStates
<1> DEFINE h == parser.header_state
           to(x) == [parser EXCEPT !.state = "s_header_value", !.index = 0, !.header_state = x]
<1>1. ASSUME NEW x, x \notin NameStates, q = to(x)
      PROVE  Kept(q) /\ q.state = "s_header_value" /\ q.header_state \notin NameStates
  BY <1>1 DEF Kept, Fields
<1>2. CASE h = "h_upgrade"
  <2>1. q = [to("h_general") EXCEPT !.flags = @ \cup {"F_UPGRADE"}]
    BY <1>2 DEF header_value_start
  <2> QED
    BY <2>1 DEF Kept, Fields, NameStates
<1>3. CASE h = "h_transfer_encoding"
  <2>1. PICK x \in {"h_matching_transfer_encoding_chunked", "h_general"} : q = to(x)
    BY <1>3 DEF header_value_start
  <2> QED
    BY <1>1, <2>1 DEF NameStates
<1>4. CASE h = "h_content_length"
  <2>1. CASE ~IS_NUMBER(ch)
    <3>1. q = [parser EXCEPT !.http_errno = "HPE_INVALID_CONTENT_LENGTH"]
      BY <1>4, <2>1 DEF header_value_start
    <3> QED
      BY <3>1 DEF Fields
  <2>2. CASE IS_NUMBER(ch) /\ "F_CONTENTLENGTH" \in parser.flags
    <3>1. q = [parser EXCEPT !.http_errno = "HPE_UNEXPECTED_CONTENT_LENGTH"]
      BY <1>4, <2>2 DEF header_value_start
    <3> QED
      BY <3>1 DEF Fields
  <2>3. CASE IS_NUMBER(ch) /\ "F_CONTENTLENGTH" \notin parser.flags
    <3>1. q = [to("h_content_length_num") EXCEPT
                 !.flags = @ \cup {"F_CONTENTLENGTH"}, !.content_length = DIGIT(ch)]
      BY <1>4, <2>3 DEF header_value_start
    <3>2. DIGIT(ch) \in 0..ULLONG_MAX
      BY <2>3, DigitIs, ParserAssumption
    <3> HIDE DEF h
    <3> QED
      BY <3>1, <3>2 DEF Kept, Fields, NameStates
  <2> QED
    BY <2>1, <2>2, <2>3
<1>5. CASE h = "h_connection"
  <2>1. q = to(ConnectionWord(c, "h_matching_connection_token"))
    BY <1>5 DEF header_value_start
  <2>2. PICK x : x = ConnectionWord(c, "h_matching_connection_token")
    OBVIOUS
  <2>3. x \notin NameStates
    BY <2>2, ConnectionWordIs DEF NameStates
  <2> QED
    BY <1>1, <2>1, <2>2, <2>3
<1>6. CASE h \in {"h_content_length_ws", "h_matching_connection_token_start"}
  <2>1. q = to(h)
    BY <1>6 DEF header_value_start
  <2> QED
    BY <1>1, <1>6, <2>1 DEF NameStates
<1>7. CASE h \notin {"h_upgrade", "h_transfer_encoding", "h_content_length", "h_connection",
                     "h_content_length_ws", "h_matching_connection_token_start"}
  <2>1. q = to("h_general")
    BY <1>7 DEF header_value_start
  <2> QED
    BY <1>1, <2>1, ZenonT(60) DEF NameStates
<1> QED
  BY <1>2, <1>3, <1>4, <1>5, <1>6, <1>7

\* The first byte of a value: the states of a name become states of a value.
LEMMA HeaderValueStart == ASSUME Inv, s_header_value_start PROVE Inv'
<1> DEFINE q == header_value_start(parser, LOWER(ch))
<1>1. /\ pc = "switch" /\ parser.state \in {"s_header_value_start", "s_header_value_discard_ws"}
      /\ MARK("header_value") /\ Checked(q) /\ began' = began
  BY DEF s_header_value_start, At, Frame
<1>2. parser.state \notin Special /\ parser.state \notin NoHead
  BY <1>1 DEF Special, NoHead, StartStates, ChunkStates, BodyStates, UrlStates
<1>3. CASE q.http_errno # "HPE_OK"
  BY <1>1, <1>3 DEF Checked, Return, Inv
<1>4. CASE q.http_errno = "HPE_OK"
  <2>1. Break(q)
    BY <1>1, <1>4 DEF Checked
  <2>2. DOMAIN parser = Fields /\ parser.http_errno = "HPE_OK"
    BY <1>1 DEF Inv, Good, TypeInv
  <2>3. Kept(q) /\ q.state = "s_header_value" /\ q.header_state \notin NameStates
    BY <1>4, <2>2, ValueStartIs
  <2>4. DOMAIN mark' = MarkNames /\ Only("header_value", mark')
    BY <1>1, <1>2, OnlyIts, Marking DEF MarkNames, Only
  <2>5. Goes /\ parser' = q
    BY <1>1, <2>1 DEF Break, Goes
  <2> HIDE DEF q
  <2>6. MarkInv(parser', "head", mark') /\ ValueInv(parser')
    BY <2>3, <2>4, <2>5 DEF MarkInv, ValueInv, Only, MarkNames, NameStates
  <2> QED
    BY <1>1, <1>2, <2>3, <2>4, <2>5, <2>6, HeadStep
         DEF NoHead, StartStates, ChunkStates, BodyStates
<1> QED
  BY <1>3, <1>4

\* A further digit of the length stays below ULLONG_MAX.
LEMMA LengthDigit ==
  ASSUME DOMAIN parser = Fields, parser.content_length \in 0..ULLONG_MAX,
         parser.http_errno = "HPE_OK", NEW q, q = content_length_digit(parser),
         q.http_errno = "HPE_OK"
  PROVE  Kept(q) /\ q.state = parser.state /\ q.header_state = "h_content_length_num"
<1> USE ParserAssumption
<1>1. IS_NUMBER(ch) /\ ~((ULLONG_MAX - 10) \div 10 < parser.content_length)
  <2> SUFFICES ASSUME ~(IS_NUMBER(ch) /\ ~((ULLONG_MAX - 10) \div 10 < parser.content_length))
               PROVE  FALSE
    OBVIOUS
  <2>1. q = [parser EXCEPT !.http_errno = "HPE_INVALID_CONTENT_LENGTH"]
    BY DEF content_length_digit
  <2> QED
    BY <2>1 DEF Fields
<1>2. q = [parser EXCEPT !.content_length = 10 * @ + DIGIT(ch),
                         !.header_state = "h_content_length_num"]
  BY <1>1 DEF content_length_digit
<1>3. PICK d \in 0..9 : d = DIGIT(ch)
  BY <1>1, DigitIs
<1>4. 10 * parser.content_length + d \in 0..ULLONG_MAX
  BY <1>1
<1> QED
  BY <1>2, <1>3, <1>4 DEF Kept, Fields

\* The table of words leads to no state of a name.
LEMMA ValueWordsAre ==
  /\ DOMAIN ValueWords = {"h_matching_transfer_encoding_chunked", "h_matching_connection_keep_alive",
                          "h_matching_connection_close", "h_matching_connection_upgrade"}
  /\ \A s \in DOMAIN ValueWords :
       /\ ValueWords[s][2] \in {"h_transfer_encoding_chunked", "h_connection_keep_alive",
                                "h_connection_close", "h_connection_upgrade"}
       /\ ValueWords[s][3] \in {"h_general", "h_matching_connection_token"}
BY DEF ValueWords

\* A further byte of a value leads to a state of values, or to an error.
LEMMA ValueCharIs ==
  ASSUME DOMAIN parser = Fields, parser.content_length \in 0..ULLONG_MAX,
         parser.http_errno = "HPE_OK", parser.header_state \notin NameStates,
         NEW c, NEW q, q = ValueChar(parser, c), q.http_errno = "HPE_OK"
  PROVE  Kept(q) /\ q.state = parser.state /\ q.header_state \notin NameStates
<1> DEFINE h == parser.header_state
           to(x) == [parser EXCEPT !.header_state = x]
           Goal == Kept(q) /\ q.state = parser.state /\ q.header_state \notin NameStates
           ended == {"h_connection_keep_alive", "h_connection_close", "h_connection_upgrade"}
<1>1. ASSUME NEW x, x \notin NameStates, q = to(x) PROVE Goal
  BY <1>1 DEF Kept, Fields
<1>2. q = parser => Goal
  BY DEF Kept
<1>3. CASE h \in {"h_content_length", "h_content_length_num"}
  <2>1. h = "h_content_length_num"
    BY <1>3 DEF NameStates
  <2>2. q = to("h_content_length_ws") \/ q = content_length_digit(parser)
    BY <2>1, ValueWordsAre DEF ValueChar
  <2>3. "h_content_length_ws" \notin NameStates /\ "h_content_length_num" \notin NameStates
    BY DEF NameStates
  <2> QED
    BY <1>1, <2>2, <2>3, LengthDigit
<1>4. CASE h = "h_content_length_ws"
  <2>1. q = parser \/ q = [parser EXCEPT !.http_errno = "HPE_INVALID_CONTENT_LENGTH"]
    BY <1>4, ValueWordsAre DEF ValueChar
  <2>2. q # [parser EXCEPT !.http_errno = "HPE_INVALID_CONTENT_LENGTH"]
    BY DEF Fields
  <2> QED
    BY <1>2, <2>1, <2>2
<1>5. CASE h = "h_matching_connection_token_start"
  <2> DEFINE missed == CASE TOKEN(c) # "" -> "h_matching_connection_token"
                         [] c \in {" ", TAB} -> h
                         [] OTHER -> "h_general"
  <2>0. missed \in {"h_matching_connection_token", h, "h_general"}
    OBVIOUS
  <2>1. q = to(ConnectionWord(c, missed))
    BY <1>5, ValueWordsAre DEF ValueChar
  <2> HIDE DEF missed
  <2>2. PICK x : x = ConnectionWord(c, missed)
    OBVIOUS
  <2>3. x \notin NameStates
    BY <1>5, <2>0, <2>2, ConnectionWordIs DEF NameStates
  <2> QED
    BY <1>1, <2>1, <2>2, <2>3
<1>6. CASE h \in DOMAIN ValueWords
  <2>1. q = Matching(parser, c, ValueWords[h][1], ValueWords[h][2], ValueWords[h][3])
    BY <1>6, ValueWordsAre DEF ValueChar
  <2>2. ValueWords[h][2] \notin NameStates /\ ValueWords[h][3] \notin NameStates
    BY <1>6, ValueWordsAre DEF NameStates
  <2>3. /\ DOMAIN q = Fields /\ q.nread = parser.nread /\ q.flags = parser.flags
        /\ q.state = parser.state /\ q.http_errno = parser.http_errno
        /\ q.content_length = parser.content_length
        /\ q.header_state \in {ValueWords[h][3], ValueWords[h][2], h}
    BY <2>1, MatchingIs
  <2>4. q.header_state \notin NameStates
    BY <2>2, <2>3
  <2> QED
    BY <2>3, <2>4 DEF Kept
<1>7. CASE h = "h_matching_connection_token"
  <2>1. q = parser \/ q = [to("h_matching_connection_token_start") EXCEPT !.index = 0]
    BY <1>7, ValueWordsAre DEF ValueChar
  <2> QED
    BY <1>2, <2>1 DEF Kept, Fields, NameStates
<1>8. CASE h = "h_transfer_encoding_chunked"
  <2>1. q = parser \/ q = to("h_general")
    BY <1>8, ValueWordsAre DEF ValueChar
  <2> QED
    BY <1>1, <1>2, <2>1 DEF NameStates
<1>9. CASE h \in ended
  <2>1. \/ q = parser \/ q = to("h_matching_connection_token")
        \/ q = [to("h_matching_connection_token_start") EXCEPT
                  !.flags = @ \cup {ValueFlag[h]}, !.index = 0]
    BY <1>9, ValueWordsAre DEF ValueChar
  <2>2. CASE q = parser \/ q = to("h_matching_connection_token")
    BY <1>1, <1>2, <2>2 DEF NameStates
  <2>3. CASE q = [to("h_matching_connection_token_start") EXCEPT
                    !.flags = @ \cup {ValueFlag[h]}, !.index = 0]
    <3>1. PICK f : f = ValueFlag[h]
      OBVIOUS
    <3> QED
      BY <2>3, <3>1 DEF Kept, Fields, NameStates
  <2> QED
    BY <2>1, <2>2, <2>3
<1>10. CASE h \notin ended \cup DOMAIN ValueWords \cup
                     {"h_content_length", "h_content_length_num", "h_content_length_ws",
                      "h_matching_connection_token_start", "h_matching_connection_token",
                      "h_transfer_encoding_chunked"}
  <2>1. q = to("h_general")
    BY <1>10 DEF ValueChar
  <2> QED
    BY <1>1, <2>1 DEF NameStates
<1> QED
  BY <1>3, <1>4, <1>5, <1>6, <1>7, <1>8, <1>9, <1>10

\* A byte of a value, or the one the scan of h_general skips.
LEMMA HeaderValue == ASSUME Inv, s_header_value PROVE Inv'
<1> DEFINE q == IF Skipped THEN parser
                ELSE IF ch \in HEADER_CHARS THEN ValueChar(parser, LOWER(ch))
                ELSE [parser EXCEPT !.http_errno = "HPE_INVALID_HEADER_TOKEN"]
<1>1. /\ pc = "loop" /\ parser.state = "s_header_value" /\ mark' = mark /\ began' = began
  BY DEF s_header_value, Looping, Silent, Frame
<1>2. Good(parser, p, "loop", mark, loop, began)
  BY <1>1 DEF Inv
<1>3. /\ DOMAIN parser = Fields /\ parser.content_length \in 0..ULLONG_MAX /\ p \in Nat
      /\ parser.http_errno = "HPE_OK" /\ loop \in [start : Nat, pe : Nat]
      /\ parser.header_state \notin NameStates
  BY <1>1, <1>2 DEF Good, TypeInv, ValueInv, NameStates
<1>4. CASE q.http_errno # "HPE_OK"
  BY <1>4 DEF s_header_value, Return, Inv
<1>5. CASE q.http_errno = "HPE_OK"
  <2>1. PICK pe \in Nat : parser' = q /\ p' = p + 1 /\ loop' = [loop EXCEPT !.pe = pe] /\ pc' = pc
    <3> DEFINE pe == IF Skipped THEN 0
                     ELSE IF parser.header_state = "h_general" /\ loop.pe = 0 THEN p + max_header_size
                     ELSE loop.pe
    <3>1. parser' = q /\ p' = p + 1 /\ loop' = [loop EXCEPT !.pe = pe] /\ pc' = pc
      BY <1>5 DEF s_header_value
    <3>2. pe \in Nat
      BY <1>3, ParserAssumption
    <3> HIDE DEF pe, q
    <3> QED
      BY <3>1, <3>2
  <2>2. loop' \in [start : Nat, pe : Nat] /\ loop'.start = loop.start
    BY <1>3, <2>1
  <2>3. Kept(q) /\ q.state = parser.state /\ q.header_state \notin NameStates
    <3>1. CASE Skipped
      BY <1>3, <3>1 DEF Kept
    <3>2. CASE ~Skipped /\ ch \in HEADER_CHARS
      BY <1>3, <1>5, <3>2, ValueCharIs
    <3>3. CASE ~Skipped /\ ch \notin HEADER_CHARS
      BY <1>3, <1>5, <3>3 DEF Fields
    <3> QED
      BY <3>1, <3>2, <3>3
  <2> HIDE DEF q
  <2> QED
    BY <1>1, <2>1, <2>2, <2>3, LoopStep DEF ValueInv, NameStates
<1> QED
  BY <1>4, <1>5

\* A value ends; its bytes are counted before the head goes on.
LEMMA HeaderValueEnd == ASSUME Inv, s_header_value_end PROVE Inv'
<1> DEFINE r == COUNT_HEADER_SIZE(parser, p - loop.start)
           q == [r EXCEPT !.state = "s_header_almost_done"]
<1>1. pc = "loop" /\ parser.state = "s_header_value" /\ began' = began
  BY DEF s_header_value_end, Looping, Frame
<1>2. CASE q.http_errno # "HPE_OK"
  BY <1>2 DEF s_header_value_end, Return, Inv
<1>3. CASE q.http_errno = "HPE_OK"
  <2>1. (Break(q) \/ Reexecute(q)) /\ CallbackData("header_value", mark, p)
    BY <1>3 DEF s_header_value_end
  <2>2. DOMAIN mark' = MarkNames /\ \A k \in MarkNames : mark'[k] = 0
    BY <1>1, <2>1, OnlyIts, Calling DEF MarkNames, Only
  <2>3. "s_header_almost_done" \notin Special
    BY DEF Special, NoHead, StartStates, ChunkStates, BodyStates, UrlStates
  <2>4. r.http_errno = "HPE_OK"
    <3>1. DOMAIN r = Fields
      BY <1>1, FieldsNow DEF COUNT_HEADER_SIZE
    <3> HIDE DEF r
    <3> QED
      BY <1>3, <3>1 DEF Fields
  <2>5. parser' = q /\ Goes
    BY <1>1, <2>1 DEF Break, Reexecute, Goes
  <2> HIDE DEF r
  <2>6. r = COUNT_HEADER_SIZE(parser, p - loop.start)
    BY DEF r
  <2> QED
    BY <1>1, <2>2, <2>3, <2>4, <2>5, <2>6, LeaveLoop
<1> QED
  BY <1>2, <1>3

\* An empty value is told where the next line begins.
LEMMA DiscardLws == ASSUME Inv, s_header_value_discard_lws PROVE Inv'
<1>1. pc = "switch" /\ parser.state = "s_header_value_discard_lws" /\ began' = began
  BY DEF s_header_value_discard_lws, At, Frame
<1>2. parser.state \notin Special /\ parser.state \notin NoHead
  BY <1>1 DEF Special, NoHead, StartStates, ChunkStates, BodyStates, UrlStates
<1>3. CASE ch \in {" ", TAB}
  <2>1. "s_header_value_discard_ws" \notin Special
    BY DEF Special, NoHead, StartStates, ChunkStates, BodyStates, UrlStates
  <2> QED
    BY <1>1, <1>2, <1>3, <2>1, FieldsNow, Plain
         DEF s_header_value_discard_lws, Plainly, Break, Goes, Kept, Fields, State
<1>4. CASE ch \notin {" ", TAB} /\ parser.header_state = "h_content_length"
  BY <1>4 DEF s_header_value_discard_lws, Error, Return, Inv
<1>5. CASE ch \notin {" ", TAB} /\ parser.header_state # "h_content_length"
  <2>1. /\ Reexecute([Flagged(parser) EXCEPT !.state = "s_header_field_start"])
        /\ CallbackData("header_value", [mark EXCEPT !["header_value"] = p], p)
    BY <1>5 DEF s_header_value_discard_lws
  <2>2. DOMAIN mark = MarkNames /\ \A k \in MarkNames : mark[k] = 0
    BY <1>1, <1>2, OnlyIts
  <2>3. PICK marks : /\ marks = [mark EXCEPT !["header_value"] = p] /\ DOMAIN marks = MarkNames
                     /\ Only("header_value", marks)
    BY <2>2 DEF Only, MarkNames
  <2>4. DOMAIN mark' = MarkNames /\ \A k \in MarkNames : mark'[k] = 0
    BY <2>1, <2>3, Calling, ZenonT(60) DEF MarkNames, Only
  <2>5. Goes /\ Kept(parser') /\ parser'.state = "s_header_field_start"
    BY <1>1, <2>1, FieldsNow, FlaggedIs DEF Reexecute, Goes, Kept, Fields
  <2>6. parser'.state \notin Special
    BY <2>5 DEF Special, NoHead, StartStates, ChunkStates, BodyStates, UrlStates
  <2> QED
    BY <1>1, <1>2, <2>4, <2>5, <2>6, ClearStep
<1> QED
  BY <1>3, <1>4, <1>5

-----------------------------------------------------------------------------
(* Between heads: the start of a message, its body and its end.            *)

TextStates == UrlStates \cup {"s_header_field", "s_header_value", "s_res_status", "s_body_identity",
                              "s_body_identity_eof", "s_chunk_data", "s_chunk_data_almost_done"}

\* No mark is set in the other states.
LEMMA NoText ==
  ASSUME Inv, pc \notin {"stop", "call"}, parser.state \notin TextStates
  PROVE  DOMAIN mark = MarkNames /\ \A k \in MarkNames : mark[k] = 0
<1>1. MarkInv(parser, pc, mark) /\ DOMAIN mark = MarkNames
  BY DEF Inv, Good, TypeInv
<1> QED
  BY <1>1 DEF MarkInv, MarkNames, TextStates

\* What every step may use of the parser.
LEMMA TypesNow ==
  ASSUME Inv, pc # "stop"
  PROVE  /\ DOMAIN parser = Fields /\ parser.http_errno = "HPE_OK"
         /\ parser.nread \in 0..max_header_size /\ parser.content_length \in 0..ULLONG_MAX
         /\ p \in Nat \ {0} /\ began \in Nat /\ loop \in [start : Nat, pe : Nat]
         /\ DOMAIN mark = MarkNames
BY DEF Inv, Good, TypeInv

\* A step to a state outside of heads.
LEMMA OutStep ==
  ASSUME Inv, pc # "stop", p' \in Nat \ {0}, pc' \in {"head", "switch"}, began' = began,
         loop' \in [start : Nat, pe : Nat],
         DOMAIN parser' = Fields, parser'.http_errno = "HPE_OK",
         parser'.nread \in 0..max_header_size, parser'.content_length \in 0..ULLONG_MAX,
         parser'.state \in NoHead,
         pc' = "switch" /\ parser'.state \in StartStates => parser'.nread >= 1,
         DOMAIN mark' = MarkNames, MarkInv(parser', pc', mark'), BodyInv(parser', pc')
  PROVE  Inv'
<1>1. TypeInv(parser', p', pc', mark', loop', began')
  BY TypesNow DEF TypeInv
<1>2. CountInv(parser', p', pc', loop', began')
  BY DEF CountInv
<1>3. ValueInv(parser')
  BY DEF ValueInv, NoHead, StartStates, ChunkStates, BodyStates
<1> QED
  BY <1>1, <1>2, <1>3 DEF Inv, Good

\* The same when no text is marked.
LEMMA OutPlain ==
  ASSUME Inv, pc = "switch", parser.state \notin TextStates, mark' = mark, began' = began,
         Break(parser') \/ Reexecute(parser'),
         DOMAIN parser' = Fields, parser'.http_errno = "HPE_OK",
         parser'.nread \in 0..max_header_size, parser'.content_length \in 0..ULLONG_MAX,
         parser'.state \in NoHead,
         pc' = "switch" /\ parser'.state \in StartStates => parser'.nread >= 1,
         BodyInv(parser', pc')
  PROVE  Inv'
<1>1. DOMAIN mark' = MarkNames /\ MarkInv(parser', pc', mark')
  BY NoText DEF MarkInv, MarkNames
<1>2. p' \in Nat \ {0} /\ pc' \in {"head", "switch"} /\ loop' \in [start : Nat, pe : Nat]
  BY TypesNow DEF Break, Reexecute, NoLoop
<1> QED
  BY <1>1, <1>2, OutStep

LEMMA ClearedIs ==
  ASSUME DOMAIN parser = Fields
  PROVE  /\ DOMAIN Cleared(parser) = Fields /\ Cleared(parser).nread = parser.nread
         /\ Cleared(parser).http_errno = parser.http_errno
         /\ Cleared(parser).content_length = ULLONG_MAX
BY DEF Cleared, Fields

\* The first byte of a message is counted.
LEMMA BeginStep ==
  ASSUME Inv, pc = "switch", parser.state \in StartStates, Begin(parser'),
         DOMAIN parser' = Fields, parser'.nread = parser.nread,
         parser'.http_errno = "HPE_OK", parser'.content_length = ULLONG_MAX,
         parser'.state \notin Special
  PROVE  Inv'
<1> USE ParserAssumption
<1>1. pc' = "head" /\ p' = p + 1 /\ began' = p /\ loop' = NoLoop /\ mark' = mark
  BY DEF Begin, Break
<1>2. /\ parser.nread \in 0..max_header_size /\ p \in Nat \ {0} /\ parser.nread >= 1
      /\ DOMAIN mark = MarkNames
  BY TypesNow DEF Inv, Good, CountInv
<1>3. parser.state \notin TextStates
  BY DEF TextStates, StartStates, UrlStates
<1>4. TypeInv(parser', p', pc', mark', loop', began')
  BY <1>1, <1>2 DEF TypeInv, NoLoop
<1>5. CountInv(parser', p', pc', loop', began')
  BY <1>1, <1>2 DEF CountInv
<1>6. MarkInv(parser', pc', mark')
  BY <1>1, <1>3, NoText DEF MarkInv, MarkNames
<1>7. BodyInv(parser', pc') /\ ValueInv(parser')
  BY DEF BodyInv, ValueInv, Special, NoHead, ChunkStates, BodyStates
<1> QED
  BY <1>4, <1>5, <1>6, <1>7 DEF Inv, Good

Starting == s_start_req_or_res \/ s_start_res \/ s_start_req \/ s_dead

\* Between messages: the message begins with a count of at least its first byte.
LEMMA Starts == ASSUME Inv, Starting PROVE Inv'
<1> USE ParserAssumption
<1>1. pc = "switch" /\ parser.state \in StartStates \cup {"s_dead"}
  BY DEF Starting, s_start_req_or_res, s_start_res, s_start_req, s_dead, At, StartStates
<1>2. parser.state \notin TextStates
  BY <1>1 DEF TextStates, StartStates, UrlStates
<1>3. ASSUME Break(parser), Silent PROVE Inv'
  <2>1. parser' = parser /\ pc' = "head" /\ mark' = mark /\ began' = began /\ Break(parser')
    BY <1>3 DEF Break, Silent, Frame
  <2>2. BodyInv(parser', pc')
    BY <1>1, <2>1 DEF BodyInv, StartStates, ChunkStates
  <2> QED
    BY <1>1, <1>2, <2>1, <2>2, TypesNow, OutPlain DEF NoHead
<1>4. ASSUME pc' = "stop" PROVE Inv'
  BY <1>4 DEF Inv
<1>5. ASSUME NEW q, Begin(q), parser.state \in StartStates, DOMAIN q = Fields,
             q.nread = parser.nread, q.http_errno = parser.http_errno,
             q.content_length = ULLONG_MAX, q.state \notin Special
      PROVE  Inv'
  <2>1. parser' = q
    BY <1>5 DEF Begin, Break
  <2> QED
    BY <1>1, <1>5, <2>1, BeginStep, TypesNow
<1>6. "s_res_or_resp_H" \notin Special /\ "s_res_H" \notin Special /\ "s_req_method" \notin Special
  BY DEF Special, NoHead, StartStates, ChunkStates, BodyStates, UrlStates
<1>7. CASE s_start_req_or_res
  <2>0. parser.state = "s_start_req_or_res"
    BY <1>7 DEF s_start_req_or_res, At
  <2>1. CASE ch \in {CR, LF}
    BY <1>3, <1>7, <2>1 DEF s_start_req_or_res, CR, LF
  <2>2. CASE ch = "H"
    <3>1. PICK q : q = [Cleared(parser) EXCEPT !.state = "s_res_or_resp_H"] /\ Begin(q)
      BY <1>7, <2>2 DEF s_start_req_or_res, CR, LF
    <3>2. /\ DOMAIN q = Fields /\ q.nread = parser.nread /\ q.http_errno = parser.http_errno
          /\ q.content_length = ULLONG_MAX /\ q.state = "s_res_or_resp_H"
      BY <1>1, <3>1, FieldsNow, ClearedIs DEF Fields
    <3> QED
      BY <1>5, <1>6, <2>0, <3>1, <3>2 DEF StartStates
  <2>3. CASE ch \notin {CR, LF} /\ ch # "H"
    <3>1. PICK q : /\ q = [Cleared(parser) EXCEPT !.type = "HTTP_REQUEST", !.state = "s_start_req"]
                   /\ Reexecute(q)
      BY <1>7, <2>3 DEF s_start_req_or_res
    <3>2. /\ DOMAIN q = Fields /\ q.nread = parser.nread /\ q.http_errno = parser.http_errno
          /\ q.content_length = ULLONG_MAX /\ q.state = "s_start_req"
      BY <1>1, <3>1, FieldsNow, ClearedIs DEF Fields
    <3>3. parser' = q /\ mark' = mark /\ began' = began /\ pc' = "switch"
      BY <1>7, <2>3, <3>1 DEF s_start_req_or_res, Reexecute, Silent, Frame
    <3>4. parser.nread >= 1
      BY <1>1, <2>0 DEF Inv, Good, CountInv, StartStates
    <3>5. BodyInv(parser', pc')
      BY <3>2, <3>3 DEF BodyInv, ChunkStates
    <3> QED
      BY <1>1, <1>2, <3>1, <3>2, <3>3, <3>4, <3>5, OutPlain, TypesNow DEF NoHead, StartStates
  <2> QED
    BY <2>1, <2>2, <2>3
<1>8. CASE s_start_res
  <2>1. CASE ch \in {CR, LF}
    BY <1>3, <1>8, <2>1 DEF s_start_res, CR, LF
  <2>2. CASE ch = "H"
    <3>1. PICK q : q = [Cleared(parser) EXCEPT !.state = "s_res_H"] /\ Begin(q)
      BY <1>8, <2>2 DEF s_start_res, CR, LF
    <3>2. /\ DOMAIN q = Fields /\ q.nread = parser.nread /\ q.http_errno = parser.http_errno
          /\ q.content_length = ULLONG_MAX /\ q.state = "s_res_H" /\ parser.state \in StartStates
      BY <1>1, <1>8, <3>1, FieldsNow, ClearedIs DEF Fields, s_start_res, At, StartStates
    <3> QED
      BY <1>5, <1>6, <3>1, <3>2
  <2>3. CASE ch \notin {CR, LF} /\ ch # "H"
    BY <1>4, <1>8, <2>3 DEF s_start_res, Error, Return
  <2> QED
    BY <2>1, <2>2, <2>3
<1>9. CASE s_start_req
  <2>1. CASE ch \in {CR, LF}
    BY <1>3, <1>9, <2>1 DEF s_start_req, CR, LF, FirstMethod
  <2>2. CASE ch \notin {CR, LF} /\ ch \in DOMAIN FirstMethod
    <3>1. PICK q, m : /\ q = [Cleared(parser) EXCEPT !.method = m, !.index = 1, !.state = "s_req_method"]
                      /\ Begin(q)
      BY <1>9, <2>2 DEF s_start_req
    <3>2. /\ DOMAIN q = Fields /\ q.nread = parser.nread /\ q.http_errno = parser.http_errno
          /\ q.content_length = ULLONG_MAX /\ q.state = "s_req_method" /\ parser.state \in StartStates
      BY <1>1, <1>9, <3>1, FieldsNow, ClearedIs DEF Fields, s_start_req, At, StartStates
    <3> QED
      BY <1>5, <1>6, <3>1, <3>2
  <2>3. CASE ch \notin {CR, LF} /\ ch \notin DOMAIN FirstMethod
    BY <1>4, <1>9, <2>3 DEF s_start_req, Error, Return
  <2> QED
    BY <2>1, <2>2, <2>3
<1>10. CASE s_dead
  BY <1>3, <1>4, <1>10 DEF s_dead, Error, Return
<1> QED
  BY <1>7, <1>8, <1>9, <1>10 DEF Starting

\* The end of a head leaves its bytes counted, also when on_headers_complete adds flags.
LEMMA HeadersComplete ==
  ASSUME Inv, pc = "switch", parser.state = "s_headers_almost_done", s_headers_complete,
         "F_TRAILING" \notin parser.flags, began' = began
  PROVE  Inv'
<1> DEFINE q == [State("s_headers_done") EXCEPT !.upgrade = Upgrading(parser)]
           answer == on_headers_complete(q)
<1>0. headers_complete(q, answer)
  BY DEF s_headers_complete
<1>1. /\ DOMAIN q = Fields /\ q.nread = parser.nread /\ q.flags = parser.flags
      /\ q.state = "s_headers_done" /\ q.http_errno = parser.http_errno
      /\ q.content_length = parser.content_length
  BY FieldsNow DEF State, Fields
<1> HIDE DEF q, answer
<1>2. \/ pc' = "stop" \/ Reexecute(q) \/ Reexecute([q EXCEPT !.flags = @ \cup {"F_SKIPBODY"}])
      \/ Reexecute([q EXCEPT !.flags = @ \cup {"F_SKIPBODY"}, !.upgrade = TRUE])
  BY <1>0 DEF headers_complete, Return
<1>3. CASE pc' = "stop"
  BY <1>3 DEF Inv
<1>4. CASE pc' # "stop"
  <2>1. /\ DOMAIN parser' = Fields /\ parser'.nread = parser.nread
        /\ "F_TRAILING" \notin parser'.flags /\ parser'.state = "s_headers_done"
        /\ parser'.http_errno = parser.http_errno
        /\ parser'.content_length = parser.content_length
    <3>1. CASE Reexecute(q)
      BY <1>1, <3>1 DEF Reexecute
    <3>2. CASE Reexecute([q EXCEPT !.flags = @ \cup {"F_SKIPBODY"}])
      BY <1>1, <3>2 DEF Reexecute, Fields
    <3>3. CASE Reexecute([q EXCEPT !.flags = @ \cup {"F_SKIPBODY"}, !.upgrade = TRUE])
      BY <1>1, <3>3 DEF Reexecute, Fields
    <3> QED
      BY <1>2, <1>4, <3>1, <3>2, <3>3
  <2>2. p' = p /\ pc' = "switch" /\ loop' = NoLoop /\ mark' = mark
    BY <1>0, <1>2, <1>4 DEF Reexecute, headers_complete
  <2>3. Good(parser, p, "switch", mark, loop, began)
    BY GoodNow
  <2>4. TypeInv(parser', p', pc', mark', loop', began')
    BY <2>1, <2>2, <2>3 DEF Good, TypeInv, NoLoop
  <2>5. parser.state \notin NoHead /\ parser.state \notin TextStates
    BY DEF NoHead, StartStates, ChunkStates, BodyStates, TextStates, UrlStates
  <2>6. CountInv(parser', p', pc', loop', began')
    BY <2>1, <2>2, <2>3, <2>5 DEF Good, CountInv, StartStates
  <2>7. MarkInv(parser', pc', mark')
    BY <2>2, <2>5, NoText DEF MarkInv, MarkNames
  <2>8. BodyInv(parser', pc') /\ ValueInv(parser')
    BY <2>1, <2>2 DEF BodyInv, ValueInv, ChunkStates
  <2> QED
    BY <2>4, <2>6, <2>7, <2>8 DEF Inv, Good
<1> QED
  BY <1>3, <1>4

\* The empty line of a head, or of the trailer of a chunked body.
LEMMA HeadersAlmostDone == ASSUME Inv, s_headers_almost_done PROVE Inv'
<1>1. pc = "switch" /\ parser.state = "s_headers_almost_done" /\ began' = began
  BY DEF s_headers_almost_done, At, Frame
<1>2. CASE ch # LF
  BY <1>2 DEF s_headers_almost_done, Error, Return, Inv
<1>3. CASE ch = LF /\ "F_TRAILING" \in parser.flags
  <2>1. Reexecute(State("s_message_done")) /\ mark' = mark
    BY <1>3 DEF s_headers_almost_done
  <2>2. /\ DOMAIN parser' = Fields /\ parser'.nread = parser.nread
        /\ parser'.state = "s_message_done" /\ parser'.http_errno = parser.http_errno
        /\ parser'.content_length = parser.content_length /\ Reexecute(parser')
    BY <1>1, <2>1, FieldsNow DEF Reexecute, State, Fields
  <2>3. parser.state \notin TextStates
    BY <1>1 DEF TextStates, UrlStates
  <2>4. BodyInv(parser', pc')
    BY <2>2 DEF BodyInv, ChunkStates
  <2> QED
    BY <1>1, <2>1, <2>2, <2>3, <2>4, TypesNow, OutPlain DEF NoHead, BodyStates, StartStates
<1>4. CASE /\ ch = LF /\ "F_TRAILING" \notin parser.flags
           /\ {"F_CHUNKED", "F_CONTENTLENGTH"} \subseteq parser.flags
  BY <1>4 DEF s_headers_almost_done, Error, Return, Inv
<1>5. CASE /\ ch = LF /\ "F_TRAILING" \notin parser.flags
           /\ ~({"F_CHUNKED", "F_CONTENTLENGTH"} \subseteq parser.flags)
  BY <1>1, <1>5, HeadersComplete DEF s_headers_almost_done
<1> QED
  BY <1>2, <1>3, <1>4, <1>5

\* NEW_MESSAGE leads to the start of a message or to s_dead.
LEMMA NewMessageIs ==
  ASSUME NEW q, DOMAIN q = Fields, NEW r, r = NewMessage(q)
  PROVE  /\ DOMAIN r = Fields /\ r.nread = q.nread /\ r.http_errno = q.http_errno
         /\ r.content_length = q.content_length /\ r.state \in StartStates \cup {"s_dead"}
<1>1. PICK s \in StartStates \cup {"s_dead"} : r = [q EXCEPT !.state = s]
  BY DEF NewMessage, start_state, StartStates
<1> QED
  BY <1>1 DEF Fields

\* A message is complete: no mark is set and the next one has to begin.
LEMMA Completes ==
  ASSUME Inv, pc = "switch", parser.state \notin TextStates, mark' = mark, began' = began,
         NEW q, DOMAIN q = Fields, q.nread \in 0..max_header_size, q.http_errno = "HPE_OK",
         q.content_length \in 0..ULLONG_MAX, NEW return, Complete(q, return)
  PROVE  Inv'
<1>1. CASE return
  BY <1>1 DEF Complete, Return, Inv
<1>2. CASE ~return
  <2>1. Break(parser') /\ parser' = NewMessage(q)
    BY <1>2 DEF Complete, Break
  <2>2. /\ DOMAIN parser' = Fields /\ parser'.nread = q.nread /\ parser'.http_errno = q.http_errno
        /\ parser'.content_length = q.content_length
        /\ parser'.state \in StartStates \cup {"s_dead"}
    BY <2>1, NewMessageIs
  <2>3. BodyInv(parser', pc')
    BY <2>2 DEF BodyInv, ChunkStates, StartStates
  <2>4. pc' = "head"
    BY <2>1 DEF Break
  <2> QED
    BY <2>1, <2>2, <2>3, <2>4, OutPlain DEF NoHead
<1> QED
  BY <1>1, <1>2

\* The last byte of a head, which says how the body is framed.
LEMMA HeadersDone == ASSUME Inv, s_headers_done PROVE Inv'
<1> USE ParserAssumption
<1> DEFINE q == [parser EXCEPT !.nread = 0]
           chunked == "F_CHUNKED" \in q.flags
           skip == "F_SKIPBODY" \in q.flags
           hasBody == chunked \/ q.content_length \notin {0, ULLONG_MAX}
           other == q.upgrade /\ (q.method = "CONNECT" \/ skip \/ ~hasBody)
           ends == \/ other \/ skip
                   \/ (~chunked /\ q.content_length = 0)
                   \/ (~hasBody /\ ~http_message_needs_eof(q))
           to == IF chunked THEN "s_chunk_size_start"
                 ELSE IF hasBody THEN "s_body_identity" ELSE "s_body_identity_eof"
<1>1. pc = "switch" /\ parser.state = "s_headers_done" /\ began' = began /\ mark' = mark
  BY DEF s_headers_done, At, Frame
<1>2. parser.state \notin TextStates
  BY <1>1 DEF TextStates, UrlStates
<1>3. /\ DOMAIN q = Fields /\ q.nread = 0 /\ q.http_errno = "HPE_OK"
      /\ q.content_length \in 0..ULLONG_MAX
  BY <1>1, TypesNow DEF Fields
<1>4. CASE ch # LF
  BY <1>4 DEF s_headers_done, Error, Return, Inv
<1>5. CASE ch = LF /\ ends
  <2>1. Complete(q, other)
    BY <1>5 DEF s_headers_done
  <2> HIDE DEF q, other
  <2> QED
    BY <1>1, <1>2, <1>3, <2>1, Completes
<1>6. CASE ch = LF /\ ~ends
  <2>1. Break([q EXCEPT !.state = to])
    BY <1>6 DEF s_headers_done
  <2>2. chunked \in BOOLEAN /\ hasBody \in BOOLEAN
    OBVIOUS
  <2>3. /\ to \in {"s_chunk_size_start", "s_body_identity", "s_body_identity_eof"}
        /\ to = "s_chunk_size_start" => "F_CHUNKED" \in q.flags
        /\ to = "s_body_identity" => q.content_length \notin {0, ULLONG_MAX}
    OBVIOUS
  <2> HIDE DEF q, to
  <2>4. /\ DOMAIN parser' = Fields /\ parser'.nread = 0 /\ parser'.http_errno = "HPE_OK"
        /\ parser'.content_length = q.content_length /\ parser'.flags = q.flags
        /\ parser'.state = to /\ Break(parser')
    BY <1>3, <2>1 DEF Break, Fields
  <2>5. pc' = "head"
    BY <2>1 DEF Break
  <2>6. BodyInv(parser', pc')
    BY <1>3, <2>3, <2>4, <2>5 DEF BodyInv, ChunkStates
  <2>7. parser'.state \in NoHead
    BY <2>3, <2>4 DEF NoHead, ChunkStates, BodyStates
  <2> QED
    BY <1>1, <1>2, <1>3, <2>4, <2>5, <2>6, <2>7, OutPlain
<1> QED
  BY <1>4, <1>5, <1>6

\* The last byte of a body with a length.
LEMMA MessageDone == ASSUME Inv, s_message_done PROVE Inv'
<1>1. /\ pc = "switch" /\ parser.state = "s_message_done" /\ began' = began /\ mark' = mark
      /\ Complete(parser, parser.upgrade)
  BY DEF s_message_done, At, Frame
<1>2. parser.state \notin TextStates
  BY <1>1 DEF TextStates, UrlStates
<1> QED
  BY <1>1, <1>2, TypesNow, Completes

\* The bytes of a chunk's size.
LEMMA ChunkSizeStart == ASSUME Inv, s_chunk_size_start PROVE Inv'
<1> USE ParserAssumption
<1>1. pc = "switch" /\ parser.state = "s_chunk_size_start" /\ began' = began /\ mark' = mark
  BY DEF s_chunk_size_start, At, Silent, Frame
<1>2. parser.state \notin TextStates
  BY <1>1 DEF TextStates, UrlStates
<1>3. "F_CHUNKED" \in parser.flags
  BY <1>1 DEF Inv, Good, BodyInv, ChunkStates
<1>4. CASE unhex(ch) = -1
  BY <1>4 DEF s_chunk_size_start, Error, Return, Inv
<1>5. CASE unhex(ch) # -1
  <2>1. PICK n \in 0..15 : n = unhex(ch)
    BY <1>5, HexOrNone
  <2>2. Break([parser EXCEPT !.content_length = n, !.state = "s_chunk_size"])
    BY <1>5, <2>1 DEF s_chunk_size_start
  <2>3. /\ DOMAIN parser' = Fields /\ parser'.nread = parser.nread
        /\ parser'.http_errno = parser.http_errno /\ parser'.content_length = n
        /\ parser'.flags = parser.flags /\ parser'.state = "s_chunk_size" /\ Break(parser')
    BY <1>1, <2>2, FieldsNow DEF Break, Fields
  <2>4. pc' = "head"
    BY <2>2 DEF Break
  <2>5. n \in 0..ULLONG_MAX - 1 /\ n \in 0..ULLONG_MAX
    OBVIOUS
  <2>6. BodyInv(parser', pc')
    BY <1>3, <2>3, <2>5 DEF BodyInv
  <2> QED
    BY <1>1, <1>2, <2>3, <2>4, <2>5, <2>6, TypesNow, OutPlain DEF NoHead, ChunkStates
<1> QED
  BY <1>4, <1>5

\* A step between the states of a chunk's size.
SizeStates == {"s_chunk_size", "s_chunk_parameters", "s_chunk_size_almost_done"}

\* A step between the states of a chunk's size.
LEMMA SizeStep ==
  ASSUME Inv, pc = "switch", parser.state \in SizeStates, mark' = mark, began' = began,
         Break(parser'), DOMAIN parser' = Fields, parser'.nread = parser.nread,
         parser'.http_errno = parser.http_errno, parser'.flags = parser.flags,
         parser'.content_length \in 0..ULLONG_MAX - 1, parser'.state \in SizeStates
  PROVE  Inv'
<1> USE ParserAssumption
<1>1. parser.state \notin TextStates
  BY DEF TextStates, UrlStates, SizeStates
<1>2. "F_CHUNKED" \in parser.flags
  BY DEF Inv, Good, BodyInv, ChunkStates, SizeStates
<1>3. BodyInv(parser', pc')
  BY <1>2 DEF BodyInv, SizeStates
<1>4. parser'.content_length \in 0..ULLONG_MAX
  OBVIOUS
<1>5. pc' = "head"
  BY DEF Break
<1> QED
  BY <1>1, <1>3, <1>4, <1>5, TypesNow, OutPlain DEF NoHead, ChunkStates, SizeStates

\* Another digit, a parameter or the end of the line of a chunk's size.
LEMMA ChunkSize == ASSUME Inv, s_chunk_size \/ s_chunk_parameters PROVE Inv'
<1> USE ParserAssumption
<1>1. /\ pc = "switch" /\ parser.state \in SizeStates /\ began' = began /\ mark' = mark
  BY DEF s_chunk_size, s_chunk_parameters, At, Silent, Frame, SizeStates
<1>2. parser.content_length \in 0..ULLONG_MAX - 1 /\ DOMAIN parser = Fields
  BY <1>1, FieldsNow DEF Inv, Good, BodyInv, SizeStates
<1>3. ASSUME NEW s \in SizeStates, Break(State(s)) PROVE Inv'
  <2>1. /\ DOMAIN parser' = Fields /\ parser'.nread = parser.nread /\ Break(parser')
        /\ parser'.http_errno = parser.http_errno /\ parser'.flags = parser.flags
        /\ parser'.content_length = parser.content_length /\ parser'.state = s
    BY <1>2, <1>3 DEF Break, State, Fields
  <2> QED
    BY <1>1, <1>2, <2>1, SizeStep
<1>4. ASSUME pc' = "stop" PROVE Inv'
  BY <1>4 DEF Inv
<1>5. CASE s_chunk_parameters
  <2>1. CASE ch = CR
    BY <1>3, <1>5, <2>1 DEF s_chunk_parameters, SizeStates
  <2>2. CASE ch # CR
    <3>1. Break(parser) /\ parser' = parser
      BY <1>5, <2>2 DEF s_chunk_parameters, Break
    <3> QED
      BY <1>1, <1>2, <3>1, SizeStep
  <2> QED
    BY <2>1, <2>2
<1>6. CASE s_chunk_size
  <2>1. CASE ch = CR
    BY <1>3, <1>6, <2>1 DEF s_chunk_size, CR, SizeStates
  <2>2. CASE ch # CR /\ ch \in {";", " "}
    BY <1>3, <1>6, <2>2 DEF s_chunk_size, SizeStates
  <2>3. CASE ch \notin HEX \cup {CR, ";", " "}
    BY <1>4, <1>6, <2>3 DEF s_chunk_size, Error, Return
  <2>4. CASE ch # CR /\ ch \notin {";", " "} /\ ch \in HEX
    <3>1. CASE (ULLONG_MAX - 16) \div 16 < parser.content_length
      BY <1>4, <1>6, <2>4, <3>1 DEF s_chunk_size, Error, Return
    <3>2. CASE ~((ULLONG_MAX - 16) \div 16 < parser.content_length)
      <4>1. PICK n \in 0..15 : n = unhex(ch)
        BY <2>4, HexIs
      <4>2. Break([parser EXCEPT !.content_length = 16 * @ + n])
        BY <1>6, <2>4, <3>2, <4>1 DEF s_chunk_size
      <4>3. 16 * parser.content_length + n \in 0..ULLONG_MAX - 1
        BY <1>2, <3>2
      <4>4. /\ DOMAIN parser' = Fields /\ parser'.nread = parser.nread /\ Break(parser')
            /\ parser'.http_errno = parser.http_errno /\ parser'.flags = parser.flags
            /\ parser'.content_length = 16 * parser.content_length + n
            /\ parser'.state = parser.state
        BY <1>2, <4>2 DEF Break, Fields
      <4> QED
        BY <1>1, <4>3, <4>4, SizeStep
    <3> QED
      BY <3>1, <3>2
  <2> QED
    BY <2>1, <2>2, <2>3, <2>4
<1> QED
  BY <1>5, <1>6

\* After the last chunk come trailers, which are no head; after any other its data.
LEMMA ChunkSizeAlmostDone == ASSUME Inv, s_chunk_size_almost_done PROVE Inv'
<1> USE ParserAssumption
<1> DEFINE q == [parser EXCEPT !.nread = 0]
<1>1. /\ pc = "switch" /\ parser.state = "s_chunk_size_almost_done" /\ began' = began
      /\ mark' = mark
  BY DEF s_chunk_size_almost_done, At, Frame
<1>2. parser.state \notin TextStates
  BY <1>1 DEF TextStates, UrlStates
<1>3. /\ parser.content_length \in 0..ULLONG_MAX - 1 /\ DOMAIN parser = Fields
      /\ "F_CHUNKED" \in parser.flags /\ parser.http_errno = "HPE_OK"
  BY <1>1, TypesNow DEF Inv, Good, BodyInv, ChunkStates
<1>4. CASE ch # LF
  BY <1>4 DEF s_chunk_size_almost_done, Error, Return, Inv
<1>5. CASE ch = LF /\ parser.content_length = 0
  <2>1. Break([q EXCEPT !.flags = @ \cup {"F_TRAILING"}, !.state = "s_header_field_start"])
    BY <1>3, <1>5 DEF s_chunk_size_almost_done, Fields
  <2>2. /\ DOMAIN parser' = Fields /\ parser'.nread = 0 /\ parser'.http_errno = "HPE_OK"
        /\ parser'.content_length = 0 /\ "F_TRAILING" \in parser'.flags
        /\ parser'.state = "s_header_field_start"
    BY <1>3, <1>5, <2>1 DEF Break, Fields
  <2>3. p' = p + 1 /\ pc' = "head" /\ loop' = NoLoop
    BY <2>1 DEF Break
  <2>4. TypeInv(parser', p', pc', mark', loop', began')
    BY <1>1, <2>2, <2>3, TypesNow DEF TypeInv, NoLoop
  <2>5. CountInv(parser', p', pc', loop', began')
    BY <2>2, <2>3 DEF CountInv
  <2>6. MarkInv(parser', pc', mark')
    BY <1>1, <1>2, NoText DEF MarkInv, MarkNames
  <2>7. BodyInv(parser', pc') /\ ValueInv(parser')
    BY <2>2 DEF BodyInv, ValueInv, ChunkStates
  <2> QED
    BY <2>4, <2>5, <2>6, <2>7 DEF Inv, Good
<1>6. CASE ch = LF /\ parser.content_length # 0
  <2>1. Break([q EXCEPT !.state = "s_chunk_data"])
    BY <1>3, <1>6 DEF s_chunk_size_almost_done, Fields
  <2>2. /\ DOMAIN parser' = Fields /\ parser'.nread = 0 /\ parser'.http_errno = "HPE_OK"
        /\ parser'.content_length = parser.content_length /\ parser'.flags = parser.flags
        /\ parser'.state = "s_chunk_data" /\ Break(parser')
    BY <1>3, <2>1 DEF Break, Fields
  <2>3. parser.content_length \in 1..ULLONG_MAX - 1 /\ parser.content_length \in 0..ULLONG_MAX
    BY <1>3, <1>6
  <2>4. BodyInv(parser', pc')
    BY <1>3, <2>2, <2>3 DEF BodyInv
  <2>5. pc' = "head"
    BY <2>1 DEF Break
  <2> QED
    BY <1>1, <1>2, <2>2, <2>3, <2>4, <2>5, OutPlain DEF NoHead, ChunkStates
<1> QED
  BY <1>4, <1>5, <1>6

\* The line end after a chunk: the next size begins with a fresh count.
LEMMA ChunkDataDone == ASSUME Inv, s_chunk_data_done PROVE Inv'
<1> USE ParserAssumption
<1>1. pc = "switch" /\ parser.state = "s_chunk_data_done" /\ began' = began /\ mark' = mark
  BY DEF s_chunk_data_done, At, Frame
<1>2. parser.state \notin TextStates
  BY <1>1 DEF TextStates, UrlStates
<1>3. /\ DOMAIN parser = Fields /\ "F_CHUNKED" \in parser.flags /\ parser.http_errno = "HPE_OK"
      /\ parser.content_length \in 0..ULLONG_MAX
  BY <1>1, TypesNow DEF Inv, Good, BodyInv, ChunkStates
<1>4. CASE ch # LF
  BY <1>4 DEF s_chunk_data_done, Error, Return, Inv
<1>5. CASE ch = LF
  <2>1. Break([parser EXCEPT !.nread = 0, !.state = "s_chunk_size_start"])
    BY <1>5 DEF s_chunk_data_done
  <2>2. /\ DOMAIN parser' = Fields /\ parser'.nread = 0 /\ parser'.http_errno = "HPE_OK"
        /\ parser'.content_length = parser.content_length /\ parser'.flags = parser.flags
        /\ parser'.state = "s_chunk_size_start" /\ Break(parser')
    BY <1>3, <2>1 DEF Break, Fields
  <2>3. pc' = "head"
    BY <2>1 DEF Break
  <2>4. BodyInv(parser', pc')
    BY <1>3, <2>2, <2>3 DEF BodyInv
  <2> QED
    BY <1>1, <1>2, <1>3, <2>2, <2>3, <2>4, OutPlain DEF NoHead, ChunkStates
<1> QED
  BY <1>4, <1>5

\* The bytes of the chunk are told at the CR after them.
LEMMA ChunkDataAlmostDone == ASSUME Inv, s_chunk_data_almost_done PROVE Inv'
<1>1. pc = "switch" /\ parser.state = "s_chunk_data_almost_done" /\ began' = began
  BY DEF s_chunk_data_almost_done, At, Frame
<1>2. /\ DOMAIN parser = Fields /\ "F_CHUNKED" \in parser.flags /\ parser.http_errno = "HPE_OK"
      /\ parser.content_length \in 0..ULLONG_MAX
  BY <1>1, TypesNow DEF Inv, Good, BodyInv, ChunkStates
<1>3. CASE ch # CR
  BY <1>3 DEF s_chunk_data_almost_done, Error, Return, Inv
<1>4. CASE ch = CR
  <2>1. Break(State("s_chunk_data_done")) /\ CallbackData("body", mark, p)
    BY <1>4 DEF s_chunk_data_almost_done
  <2>2. /\ DOMAIN parser' = Fields /\ parser'.nread = parser.nread /\ parser'.http_errno = "HPE_OK"
        /\ parser'.content_length = parser.content_length /\ parser'.flags = parser.flags
        /\ parser'.state = "s_chunk_data_done"
    BY <1>2, <2>1 DEF Break, State, Fields
  <2>3. p' = p + 1 /\ pc' = "head" /\ loop' = NoLoop
    BY <2>1 DEF Break
  <2>4. DOMAIN mark' = MarkNames /\ \A k \in MarkNames : mark'[k] = 0
    BY <1>1, <2>1, OnlyIts, Calling DEF MarkNames, Only, ChunkStates
  <2>5. MarkInv(parser', pc', mark')
    BY <2>4 DEF MarkInv, MarkNames
  <2>6. BodyInv(parser', pc')
    BY <1>2, <2>2 DEF BodyInv
  <2>7. p' \in Nat \ {0} /\ loop' \in [start : Nat, pe : Nat]
    BY <1>1, <2>3, TypesNow DEF NoLoop
  <2> QED
    BY <1>1, <2>2, <2>3, <2>4, <2>5, <2>6, <2>7, TypesNow, OutStep
         DEF NoHead, ChunkStates, StartStates
<1> QED
  BY <1>3, <1>4

\* The length of the input is a number, for whichever stream was chosen.
InputInv == Len(Input) \in Nat

\* to_read is at least one byte and at most what is missing.
LEMMA TakingIs ==
  ASSUME InputInv, p \in Nat, NEW most \in Nat, NEW to_read \in 1..(Len(Input) - p + 1),
         Taking(most, to_read)
  PROVE  to_read \in 1..most
BY DEF Taking, InputInv

LEMMA MarkedBodyIs ==
  ASSUME DOMAIN mark = MarkNames, Only("body", mark)
  PROVE  DOMAIN MarkedBody = MarkNames /\ Only("body", MarkedBody)
BY DEF MarkedBody, Only, MarkNames

\* Bytes of a body with a length: when none is missing the message is done.
LEMMA BodyIdentity == ASSUME Inv, InputInv, s_body_identity PROVE Inv'
<1> USE ParserAssumption
<1>1. pc = "switch" /\ parser.state = "s_body_identity" /\ began' = began
  BY DEF s_body_identity, At, Frame
<1>2. /\ DOMAIN parser = Fields /\ parser.http_errno = "HPE_OK" /\ p \in Nat \ {0}
      /\ parser.content_length \in 1..ULLONG_MAX - 1
      /\ parser.nread \in 0..max_header_size
  BY <1>1, TypesNow DEF Inv, Good, BodyInv
<1>3. DOMAIN mark = MarkNames /\ Only("body", mark)
  BY <1>1, OnlyIts DEF BodyStates
<1>4. PICK to_read \in 1..(Len(Input) - p + 1) :
        /\ Taking(parser.content_length, to_read)
        /\ LET q == [parser EXCEPT !.content_length = @ - to_read]
               end == p + to_read
           IN  /\ loop' = NoLoop /\ UNCHANGED ret
               /\ IF q.content_length = 0
                  THEN /\ parser' = [q EXCEPT !.state = "s_message_done"]
                       /\ p' = end - 1 /\ pc' = "switch"
                       /\ CallbackData("body", MarkedBody, end)
                  ELSE /\ parser' = q /\ p' = end /\ pc' = "head"
                       /\ mark' = MarkedBody /\ UNCHANGED <<on, decoder>>
  BY DEF s_body_identity
<1> DEFINE q == [parser EXCEPT !.content_length = @ - to_read]
<1>5. /\ loop' = NoLoop
      /\ q.content_length = 0 =>
           /\ parser' = [q EXCEPT !.state = "s_message_done"] /\ p' = (p + to_read) - 1
           /\ pc' = "switch" /\ CallbackData("body", MarkedBody, p + to_read)
      /\ q.content_length # 0 =>
           parser' = q /\ p' = p + to_read /\ pc' = "head" /\ mark' = MarkedBody
  BY <1>4 DEF CallbackData
<1>6. Taking(parser.content_length, to_read)
  BY <1>4
<1>7. parser.content_length \in Nat /\ p \in Nat
  BY <1>2
<1>8. to_read \in 1..parser.content_length
  BY <1>6, <1>7, TakingIs
<1>9. /\ DOMAIN q = Fields /\ q.nread = parser.nread /\ q.http_errno = "HPE_OK"
      /\ q.content_length = parser.content_length - to_read /\ q.state = "s_body_identity"
  BY <1>1, <1>2 DEF Fields
<1>10. loop' \in [start : Nat, pe : Nat]
  BY <1>5 DEF NoLoop
<1>11. CASE q.content_length = 0
  <2>1. /\ parser' = [q EXCEPT !.state = "s_message_done"] /\ p' = (p + to_read) - 1
        /\ pc' = "switch" /\ CallbackData("body", MarkedBody, p + to_read)
    BY <1>11, <1>5
  <2> HIDE DEF q
  <2>2. /\ DOMAIN parser' = Fields /\ parser'.nread = parser.nread /\ parser'.http_errno = "HPE_OK"
        /\ parser'.content_length = 0 /\ parser'.state = "s_message_done"
    BY <1>9, <1>11, <2>1 DEF Fields
  <2>3. PICK marks : marks = MarkedBody /\ DOMAIN marks = MarkNames /\ Only("body", marks)
    BY <1>3, MarkedBodyIs
  <2>4. DOMAIN mark' = MarkNames /\ \A k \in MarkNames : mark'[k] = 0
    BY <2>1, <2>3, Calling DEF MarkNames, Only
  <2>5. MarkInv(parser', pc', mark')
    BY <2>4 DEF MarkInv, MarkNames
  <2>6. BodyInv(parser', pc')
    BY <2>2 DEF BodyInv, ChunkStates
  <2>7. p' \in Nat \ {0}
    BY <1>2, <1>8, <2>1
  <2>8. /\ parser'.content_length \in 0..ULLONG_MAX /\ parser'.nread \in 0..max_header_size
        /\ parser'.state \in NoHead /\ parser'.state \notin StartStates
        /\ pc' \in {"head", "switch"} /\ pc # "stop"
    BY <1>1, <1>2, <2>1, <2>2 DEF NoHead, BodyStates, StartStates
  <2> QED
    BY <1>1, <1>10, <2>2, <2>4, <2>5, <2>6, <2>7, <2>8, OutStep
<1>12. CASE q.content_length # 0
  <2>1. parser' = q /\ p' = p + to_read /\ pc' = "head" /\ mark' = MarkedBody
    BY <1>12, <1>5
  <2> HIDE DEF q
  <2>2. DOMAIN mark' = MarkNames /\ Only("body", mark')
    BY <1>3, <2>1, MarkedBodyIs
  <2>3. MarkInv(parser', pc', mark')
    BY <1>9, <2>1, <2>2 DEF MarkInv, Only, MarkNames
  <2>4. q.content_length \in 1..ULLONG_MAX - 1 /\ q.content_length \in 0..ULLONG_MAX
    BY <1>2, <1>8, <1>9, <1>12
  <2>5. BodyInv(parser', pc')
    BY <1>9, <2>1, <2>4 DEF BodyInv, ChunkStates
  <2>6. p' \in Nat \ {0}
    BY <1>2, <1>8, <2>1
  <2> QED
    BY <1>1, <1>2, <1>9, <1>10, <2>1, <2>2, <2>3, <2>4, <2>5, <2>6, OutStep
         DEF NoHead, BodyStates, StartStates
<1> QED
  BY <1>11, <1>12

\* Bytes of a body that the end of the stream ends.
LEMMA BodyIdentityEof == ASSUME Inv, InputInv, s_body_identity_eof PROVE Inv'
<1>1. /\ pc = "switch" /\ parser.state = "s_body_identity_eof" /\ began' = began
      /\ parser' = parser /\ loop' = loop /\ pc' = "head" /\ mark' = MarkedBody
  BY DEF s_body_identity_eof, At, Frame
<1>2. PICK to_read \in 1..(Len(Input) - p + 1) : p' = p + to_read
  BY DEF s_body_identity_eof
<1>3. DOMAIN mark' = MarkNames /\ Only("body", mark')
  BY <1>1, OnlyIts, MarkedBodyIs DEF BodyStates
<1>4. MarkInv(parser', pc', mark')
  BY <1>1, <1>3 DEF MarkInv, Only, MarkNames
<1>5. BodyInv(parser', pc')
  BY <1>1 DEF BodyInv, ChunkStates
<1>6. p' \in Nat \ {0}
  BY <1>1, <1>2, TypesNow DEF InputInv
<1> QED
  BY <1>1, <1>3, <1>4, <1>5, <1>6, TypesNow, OutStep DEF NoHead, BodyStates

\* Bytes of a chunk.
LEMMA ChunkData == ASSUME Inv, InputInv, s_chunk_data PROVE Inv'
<1> USE ParserAssumption
<1>1. /\ pc = "switch" /\ parser.state = "s_chunk_data" /\ began' = began
      /\ loop' = loop /\ pc' = "head" /\ mark' = MarkedBody
  BY DEF s_chunk_data, At, Frame
<1>2. /\ DOMAIN parser = Fields /\ parser.http_errno = "HPE_OK" /\ p \in Nat \ {0}
      /\ parser.content_length \in 1..ULLONG_MAX - 1 /\ "F_CHUNKED" \in parser.flags
      /\ parser.nread \in 0..max_header_size
  BY <1>1, TypesNow DEF Inv, Good, BodyInv, ChunkStates
<1>3. PICK to_read \in 1..(Len(Input) - p + 1) :
        /\ Taking(parser.content_length, to_read)
        /\ p' = p + to_read
        /\ LET q == [parser EXCEPT !.content_length = @ - to_read]
           IN  parser' = IF q.content_length = 0 THEN [q EXCEPT !.state = "s_chunk_data_almost_done"]
                         ELSE q
  BY DEF s_chunk_data
<1>4. to_read \in 1..parser.content_length
  BY <1>2, <1>3, TakingIs, SMTT(30)
<1> DEFINE q == [parser EXCEPT !.content_length = @ - to_read]
<1>5. /\ DOMAIN q = Fields /\ q.nread = parser.nread /\ q.http_errno = "HPE_OK"
      /\ q.content_length = parser.content_length - to_read /\ q.state = "s_chunk_data"
      /\ q.flags = parser.flags
  BY <1>1, <1>2 DEF Fields
<1>6. parser' = IF q.content_length = 0 THEN [q EXCEPT !.state = "s_chunk_data_almost_done"] ELSE q
  BY <1>3
<1> HIDE DEF q
<1>7. /\ DOMAIN parser' = Fields /\ parser'.nread = parser.nread /\ parser'.http_errno = "HPE_OK"
      /\ parser'.content_length = q.content_length /\ parser'.flags = parser.flags
      /\ parser'.state = IF q.content_length = 0 THEN "s_chunk_data_almost_done" ELSE "s_chunk_data"
  BY <1>5, <1>6 DEF Fields
<1>8. DOMAIN mark' = MarkNames /\ Only("body", mark')
  BY <1>1, OnlyIts, MarkedBodyIs DEF ChunkStates
<1>9. MarkInv(parser', pc', mark')
  BY <1>7, <1>8 DEF MarkInv, Only, MarkNames
<1>10. q.content_length \in 0..ULLONG_MAX - 1 /\ q.content_length \in 0..ULLONG_MAX
  BY <1>2, <1>4, <1>5
<1>11. BodyInv(parser', pc')
  BY <1>2, <1>7, <1>10 DEF BodyInv
<1>12. p' \in Nat \ {0}
  BY <1>2, <1>3, <1>4
<1> QED
  BY <1>1, <1>2, <1>7, <1>8, <1>9, <1>10, <1>11, <1>12, TypesNow, OutStep
       DEF NoHead, ChunkStates

-----------------------------------------------------------------------------
(* Calls, and the loop over the bytes.                                     *)

\* A call marks the text that goes on.
LEMMA Execute == ASSUME Inv, execute PROVE Inv'
<1>1. /\ pc = "call" /\ pc' = "first" /\ p' = p /\ parser' = parser /\ loop' = loop
      /\ began' = began
  BY DEF execute
<1>2. DOMAIN NoMarks = MarkNames /\ \A k \in MarkNames : NoMarks[k] = 0
  BY MarksAre DEF NoMarks
<1>3. DOMAIN mark' = MarkNames /\ MarkInv(parser', pc', mark')
  <2>1. mark' = [NoMarks EXCEPT
         !["header_field"] = IF parser.state = "s_header_field" THEN p ELSE 0,
         !["header_value"] = IF parser.state = "s_header_value" THEN p ELSE 0,
         !["url"] = IF parser.state \in UrlStates THEN p ELSE 0,
         !["status"] = IF parser.state = "s_res_status" THEN p ELSE 0]
    BY DEF execute
  <2> QED
    BY <1>1, <1>2, <2>1 DEF MarkInv, MarkNames
<1>4. Good(parser, p, "call", mark, loop, began)
  BY <1>1 DEF Inv
<1>5. TypeInv(parser', p', pc', mark', loop', began') /\ CountInv(parser', p', pc', loop', began')
  BY <1>1, <1>3, <1>4 DEF Good, TypeInv, CountInv
<1>6. BodyInv(parser', pc') /\ ValueInv(parser')
  BY <1>1, <1>4 DEF Good, BodyInv
<1> QED
  BY <1>3, <1>5, <1>6 DEF Inv, Good

\* A byte of a head or of a chunk's size is counted before it is looked at.
LEMMA NextByte == ASSUME Inv, next_byte PROVE Inv'
<1> USE ParserAssumption
<1> DEFINE q == IF PARSING_HEADER(parser.state) THEN COUNT_HEADER_SIZE(parser, 1) ELSE parser
<1>1. pc \in {"first", "head"} /\ began' = began /\ mark' = mark
  BY DEF next_byte, Silent, Frame
<1>2. CASE q.http_errno # "HPE_OK"
  BY <1>2 DEF next_byte, Return, Inv
<1>3. CASE q.http_errno = "HPE_OK"
  <2>1. parser' = q /\ pc' = "switch" /\ loop' = NoLoop /\ p' = p
    BY <1>3 DEF next_byte, Reexecute
  <2>2. Good(parser, p, pc, mark, loop, began)
    BY <1>1 DEF Inv
  <2>3. /\ DOMAIN q = Fields /\ q.nread \in 0..max_header_size /\ q.state = parser.state
        /\ q.flags = parser.flags /\ q.content_length = parser.content_length
        /\ q.header_state = parser.header_state
        /\ q.nread = IF PARSING_HEADER(parser.state) THEN parser.nread + 1 ELSE parser.nread
    BY <1>1, <1>3, TypesNow, Counting
  <2> HIDE DEF q
  <2>4. TypeInv(parser', p', pc', mark', loop', began')
    BY <1>1, <1>3, <2>1, <2>3, TypesNow DEF TypeInv, NoLoop
  <2>5. /\ parser.state \notin NoHead => PARSING_HEADER(parser.state)
        /\ parser.state \in StartStates => PARSING_HEADER(parser.state)
        /\ parser.state = "s_chunk_size_start" => PARSING_HEADER(parser.state)
    BY DEF PARSING_HEADER, NoHead, StartStates, ChunkStates, BodyStates
  <2>6. CountInv(parser', p', pc', loop', began')
    BY <1>1, <2>1, <2>2, <2>3, <2>5 DEF Good, TypeInv, CountInv
  <2>7. MarkInv(parser', pc', mark') /\ ValueInv(parser')
    BY <1>1, <2>1, <2>2, <2>3 DEF Good, MarkInv, ValueInv
  <2>8. BodyInv(parser', pc')
    BY <1>1, <2>1, <2>2, <2>3, <2>5 DEF Good, BodyInv
  <2> QED
    BY <2>4, <2>6, <2>7, <2>8 DEF Inv, Good
<1> QED
  BY <1>2, <1>3

\* A buffer ends: the bytes of a loop are counted, and what is marked is told.
LEMMA EndOfData == ASSUME Inv, end_of_data PROVE Inv'
<1> USE ParserAssumption
<1> DEFINE q == IF pc = "loop" THEN COUNT_HEADER_SIZE(parser, p - 1 - loop.start) ELSE parser
           left == {m \in ToSet(Marks) : mark[m] # 0}
<1>1. (pc = "head" \/ (pc = "loop" /\ p > loop.start)) /\ began' = began
  BY DEF end_of_data, Frame
<1>2. CASE q.http_errno # "HPE_OK" \/ snet
  BY <1>2 DEF end_of_data, Return, Inv
<1>3. CASE q.http_errno = "HPE_OK" /\ ~snet
  <2>1. parser' = q /\ pc' = "call" /\ loop' = NoLoop /\ p' = p
    BY <1>3 DEF end_of_data
  <2>2. IF left = {} THEN mark' = mark ELSE CallbackData(CHOOSE m \in left : TRUE, mark, p)
    BY <1>3 DEF end_of_data
  <2>3. Good(parser, p, pc, mark, loop, began)
    BY <1>1 DEF Inv
  <2>4. DOMAIN mark' = MarkNames
    <3>1. CASE left = {}
      BY <1>1, <2>2, <3>1, TypesNow
    <3>2. CASE left # {}
      <4>1. PICK m : m = (CHOOSE x \in left : TRUE) /\ m \in left
        BY <3>2
      <4>2. m \in MarkNames
        BY <4>1, MarksAre
      <4>3. CallbackData(m, mark, p)
        BY <2>2, <3>2, <4>1
      <4> QED
        BY <1>1, <4>2, <4>3, TypesNow, Calling
    <3> QED
      BY <3>1, <3>2
  <2>5. pc = "loop" => p - 1 - loop.start \in Nat
    BY <1>1, TypesNow
  <2>6. /\ DOMAIN q = Fields /\ q.nread \in 0..max_header_size /\ q.state = parser.state
        /\ q.flags = parser.flags /\ q.content_length = parser.content_length
        /\ q.header_state = parser.header_state
        /\ q.nread = IF pc = "loop" THEN parser.nread + (p - 1 - loop.start) ELSE parser.nread
    BY <1>1, <1>3, <2>5, TypesNow, Counting
  <2> HIDE DEF q
  <2>7. TypeInv(parser', p', pc', mark', loop', began')
    BY <1>1, <1>3, <2>1, <2>4, <2>6, TypesNow DEF TypeInv, NoLoop
  <2>8. CountInv(parser', p', pc', loop', began')
    BY <1>1, <2>1, <2>3, <2>6 DEF Good, TypeInv, CountInv
  <2>9. MarkInv(parser', pc', mark') /\ ValueInv(parser')
    BY <2>1, <2>3, <2>6 DEF Good, MarkInv, ValueInv
  <2>10. BodyInv(parser', pc')
    <3>1. pc = "loop" => parser.state \notin ChunkStates \cup {"s_body_identity", "s_headers_done"}
      BY <2>3 DEF Good, CountInv, ChunkStates
    <3> QED
      BY <1>1, <2>1, <2>3, <2>6, <3>1 DEF Good, BodyInv, ChunkStates
  <2> QED
    BY <2>7, <2>8, <2>9, <2>10 DEF Inv, Good
<1> QED
  BY <1>2, <1>3

-----------------------------------------------------------------------------
(* The stream stays the same.                                              *)

LEMMA CallsKeepStream ==
  ASSUME execute \/ execute_eof \/ next_byte \/ end_of_data \/ s_dead \/ Done
  PROVE  stream' = stream
BY DEF execute, execute_eof, next_byte, end_of_data, s_dead, Done, Silent, Frame, vars

LEMMA FirstLineKeepsStream == ASSUME FirstLine PROVE stream' = stream
<1>1. CASE s_start_req_or_res \/ s_start_res \/ s_start_req
  BY <1>1 DEF s_start_req_or_res, s_start_res, s_start_req, Begin, Silent, Frame
<1>2. CASE \/ s_res_or_resp_H \/ s_res_http \/ s_res_http_number \/ s_res_first_status_code
           \/ s_res_status_code \/ s_res_status_start \/ s_res_status \/ s_res_line_almost_done
  BY <1>2 DEF s_res_or_resp_H, s_res_http, s_res_http_number, s_res_first_status_code,
       s_res_status_code, s_res_status_start, s_res_status, s_res_line_almost_done, Constant,
       Silent, Frame
<1>3. CASE \/ s_req_method \/ s_req_spaces_before_url \/ s_req_schema \/ s_req_url
           \/ s_req_http_start \/ s_req_http \/ s_req_http_number \/ s_req_http_end
           \/ s_req_line_almost_done
  BY <1>3 DEF s_req_method, s_req_spaces_before_url, s_req_schema, s_req_url, s_req_http_start,
       s_req_http, s_req_http_number, s_req_http_end, s_req_line_almost_done, Constant,
       Silent, Frame
<1> QED
  BY <1>1, <1>2, <1>3 DEF FirstLine

LEMMA HeadersKeepStream == ASSUME Headers PROVE stream' = stream
BY DEF Headers, s_header_field_start, enter_loop, s_header_field, s_header_field_end,
     s_header_value_start, s_header_value_discard_ws, s_header_value, s_header_value_end,
     s_header_almost_done, s_header_value_lws, s_header_value_discard_ws_almost_done,
     s_header_value_discard_lws, s_headers_almost_done, s_headers_done, Constant, Silent, Frame

LEMMA BodyKeepsStream == ASSUME Body PROVE stream' = stream
BY DEF Body, s_body_identity, s_body_identity_eof, s_message_done, s_chunk_size_start,
     s_chunk_size, s_chunk_parameters, s_chunk_size_almost_done, s_chunk_data,
     s_chunk_data_almost_done, s_chunk_data_done, Silent, Frame

-----------------------------------------------------------------------------
(* The invariant holds.                                                    *)

LEMMA InitInv == ASSUME Init PROVE Inv /\ InputInv
<1> USE ParserAssumption
<1>1. PICK i \in DOMAIN Streams : stream = Streams[i]
  BY DEF Init
<1>2. InputInv
  <2>1. Input \in Seq(STRING)
    BY <1>1, StreamsAssumption DEF Input
  <2> QED
    BY <2>1 DEF InputInv
<1>3. /\ p = 1 /\ began = 0 /\ pc = "call" /\ loop = NoLoop /\ mark = NoMarks
      /\ parser = http_parser_init(stream.type)
  BY DEF Init
<1>4. /\ DOMAIN parser = Fields /\ parser.nread = 0 /\ parser.http_errno = "HPE_OK"
      /\ parser.content_length = 0 /\ parser.state \in StartStates
  BY <1>3 DEF http_parser_init, start_state, Fields, StartStates
<1>5. DOMAIN mark = MarkNames
  BY <1>3, MarksAre DEF NoMarks
<1>6. TypeInv(parser, p, pc, mark, loop, began)
  BY <1>3, <1>4, <1>5 DEF TypeInv, NoLoop
<1>7. CountInv(parser, p, pc, loop, began) /\ MarkInv(parser, pc, mark)
  BY <1>3, <1>4 DEF CountInv, MarkInv, NoHead
<1>8. BodyInv(parser, pc) /\ ValueInv(parser)
  BY <1>4 DEF BodyInv, ValueInv, StartStates, ChunkStates
<1> QED
  BY <1>2, <1>6, <1>7, <1>8 DEF Inv, Good

\* Every step keeps the invariant.
LEMMA NextInv == ASSUME Inv, InputInv, [Next]_vars PROVE Inv' /\ InputInv'
<1>1. stream' = stream => InputInv'
  BY DEF InputInv, Input
<1>2. CASE execute \/ next_byte \/ end_of_data \/ s_dead
  BY <1>1, <1>2, CallsKeepStream, Execute, NextByte, EndOfData, Starts DEF Starting
<1>3. CASE execute_eof
  <2>1. pc' = "stop"
    BY <1>3 DEF execute_eof
  <2> QED
    BY <1>1, <1>3, <2>1, CallsKeepStream DEF Inv
<1>4. CASE FirstLine
  <2>1. Inv'
    BY <1>4, Starts, PlainActions, StatusStart, Status, SpacesBeforeUrl, Schema, Url
         DEF FirstLine, Starting, PlainAction
  <2> QED
    BY <1>1, <1>4, <2>1, FirstLineKeepsStream
<1>5. CASE Headers
  <2>1. Inv'
    BY <1>5, PlainActions, HeaderFieldStart, EnterLoop, HeaderField, HeaderFieldEnd,
         HeaderValueStart, HeaderValue, HeaderValueEnd, DiscardLws, HeadersAlmostDone,
         HeadersDone DEF Headers, PlainAction
  <2> QED
    BY <1>1, <1>5, <2>1, HeadersKeepStream
<1>6. CASE Body
  <2>1. Inv'
    BY <1>6, BodyIdentity, BodyIdentityEof, MessageDone, ChunkSizeStart, ChunkSize,
         ChunkSizeAlmostDone, ChunkData, ChunkDataAlmostDone, ChunkDataDone DEF Body
  <2> QED
    BY <1>1, <1>6, <2>1, BodyKeepsStream
<1>7. CASE Done \/ UNCHANGED vars
  <2>1. UNCHANGED vars
    BY <1>7 DEF Done
  <2> QED
    BY <1>1, <2>1 DEF Inv, vars
<1> QED
  BY <1>2, <1>3, <1>4, <1>5, <1>6, <1>7 DEF Next

LEMMA InvHolds == Spec => [](Inv /\ InputInv)
<1>1. Init => Inv /\ InputInv
  BY InitInv
<1>2. Inv /\ InputInv /\ [Next]_vars => (Inv /\ InputInv)'
  BY NextInv
<1> QED
  BY <1>1, <1>2, PTL DEF Spec

\* "Don't allow the total size of the HTTP headers (including the status line) to exceed
\* max_header_size": for every limit, and wherever the stream is cut into calls of
\* http_parser_execute, the head of a message that on_headers_complete was called for has
\* at most that many bytes from the one at which on_message_begin was called.
THEOREM ParserHeadBounded == Spec => []HeadBounded
<1>1. ASSUME Inv PROVE HeadBounded
  <2> USE ParserAssumption
  <2> SUFFICES ASSUME pc = "switch", parser.state = "s_headers_done"
               PROVE  p - began + 1 <= max_header_size
    BY DEF HeadBounded
  <2>1. "F_TRAILING" \notin parser.flags /\ parser.state \notin NoHead
    BY <1>1 DEF Inv, Good, BodyInv, NoHead, StartStates, ChunkStates, BodyStates
  <2>2. parser.nread >= p - began + 1
    BY <1>1, <2>1, GoodNow DEF Good, CountInv
  <2> QED
    BY <1>1, <2>2, TypesNow
<1> QED
  BY <1>1, InvHolds, PTL

\* At the end of a buffer at most one mark is left.
LEMMA OneMark ==
  ASSUME Inv, pc \in {"head", "loop"}
  PROVE  Cardinality({m \in ToSet(Marks) : mark[m] # 0}) <= 1
<1> DEFINE left == {m \in ToSet(Marks) : mark[m] # 0}
<1>1. MarkInv(parser, pc, mark) /\ pc # "call"
  BY DEF Inv, Good
<1>2. \A m, n \in left : m = n
  BY <1>1, MarksAre DEF MarkInv, MarkNames, UrlStates
<1>3. CASE left = {}
  BY <1>3, FS_EmptySet
<1>4. CASE left # {}
  <2>1. PICK m \in left : TRUE
    BY <1>4
  <2>2. left = {m}
    BY <1>2, <2>1
  <2> QED
    BY <2>2, FS_Singleton, SMTT(30)
<1> QED
  BY <1>3, <1>4

\* The assertions of http_parser_execute about marks, chunks, bodies and the loop over a
\* value never fail: whatever the bytes of the stream are and wherever it is cut, at most one mark is set at the end of a buffer (end of the loop over
\* the bytes), a chunk's size is read with a fresh count of its bytes and in a chunked body
\* only, a body is read while some of it is missing and its length is known, and the loop
\* over a header's value is in none of the three states of its name.
THEOREM ParserAsserts == Spec => []Asserts
<1>1. ASSUME Inv PROVE Asserts
  <2> USE ParserAssumption
  <2>1. pc = "switch" =>
          /\ parser.state = "s_chunk_size_start" => parser.nread = 1
          /\ parser.state \in ChunkStates => "F_CHUNKED" \in parser.flags
          /\ parser.state \in {"s_body_identity", "s_chunk_data"} =>
               parser.content_length \notin {0, ULLONG_MAX}
          /\ parser.state = "s_chunk_data_almost_done" => parser.content_length = 0
    BY <1>1 DEF Inv, Good, BodyInv
  <2>2. pc = "loop" => ValueInv(parser)
    BY <1>1 DEF Inv, Good
  <2> QED
    BY <1>1, <2>1, <2>2, OneMark DEF Asserts, ChunkStates, ValueInv
<1> QED
  BY <1>1, InvHolds, PTL
=============================================================================
