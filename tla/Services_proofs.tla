-------------------------- MODULE Services_proofs --------------------------
(***************************************************************************)
(* Proofs about the two services on top of connections: Http, for any set  *)
(* of paths and any number of requests, cut into segments anywhere; and    *)
(* Pipe, for any set of clients and of pipe ids, and any bound on sessions *)
(* and messages.                                                           *)
(***************************************************************************)
EXTENDS Http, Pipe, SequenceTheorems, WellFoundedInduction, TLAPS

TypeOK ==
  /\ DOMAIN http_routers \subseteq Paths
  /\ \E n \in 0..MaxRequests : DOMAIN requests = 1..n
  /\ conn_status \in {"OPEN", "CLOSING", "CLOSED"}
  /\ pc \in {"wait", "parse", "call", "called", "end"}

\* What can have been called and sent at all.
OutInv ==
  /\ calls = <<>> \/ calls = <<calls[1]>>
  /\ out \in {<<>>, <<0>>, <<404>>, <<501>>, <<0, 501>>}
  /\ out = <<0, 501>> => calls # <<>> /\ calls[1].does = "reply_fail"

\* handle_data finds a connection on which nothing was called or sent.
FreshInv ==
  /\ pc \in {"parse", "call"} \/ (pc = "wait" /\ conn_status # "CLOSED") => out = <<>> /\ calls = <<>>
  /\ pc \notin {"wait"} => conn_status # "CLOSED"
  /\ pc = "end" /\ conn_status = "OPEN" => out = <<>> /\ calls = <<>>

\* What the handler did, its return value and what was sent fit together.
CalledInv ==
  pc = "called" =>
    /\ calls # <<>>
    /\ \/ out = <<0>> /\ calls[1].does = "reply" /\ rst = 0
       \/ out = <<0>> /\ calls[1].does = "reply_fail" /\ rst = -1
       \/ out = <<>> /\ rst = -1
       \/ out = <<>> /\ calls[1].does = "silent" /\ rst = 0

\* Only an answer, a silent handler or another thread closes the connection.
ClosedInv ==
  conn_status # "OPEN" /\ ~interrupted =>
    out # <<>> \/ (calls # <<>> /\ calls[1].does = "silent")

\* The three sets of requests that RightRequest speaks of.
Whole == {k \in DOMAIN requests : {<<k, 1>>, <<k, 2>>} \subseteq ToSet(segment)}
Good == {k \in Whole : requests[k].url \in Paths}
Overwritten == \E k \in Good, j \in told(segment) : k < j /\ j \notin Good

\* The handler that handle_data is about to call is that of a request, or of
\* bytes that took its place.
PathInv ==
  pc = "call" =>
    /\ path \in DOMAIN http_routers
    /\ segment[1][2] = 1 => Overwritten \/ \E k \in Good : requests[k].url = path

Inv == TypeOK /\ OutInv /\ FreshInv /\ CalledInv /\ ClosedInv /\ PathInv /\ RightRequest

-----------------------------------------------------------------------------
\* A set of numbers up to n has a greatest one.
LEMMA MaxIn ==
  ASSUME NEW n \in Nat, NEW S \in SUBSET (1..n), S # {}
  PROVE  Max(S) \in S /\ \A k \in S : Max(S) >= k
<1> DEFINE T == {n - k : k \in S}
<1>1. T \subseteq Nat /\ T # {}
  <2>1. \A k \in S : n - k \in Nat
    OBVIOUS
  <2> QED
    BY <2>1
<1>2. PICK x \in T : \A y \in T : ~(<<y, x>> \in OpToRel(<, Nat))
  BY <1>1, NatLessThanWellFounded, WFMin
<1>3. \A y \in T : ~(y < x)
  BY <1>1, <1>2 DEF OpToRel
<1>4. PICK k \in S : x = n - k
  OBVIOUS
<1>5. \A j \in S : k >= j
  <2> SUFFICES ASSUME NEW j \in S PROVE k >= j
    OBVIOUS
  <2>1. n - j \in T
    OBVIOUS
  <2>2. ~(n - j < n - k)
    BY <1>3, <1>4, <2>1
  <2> QED
    BY <2>2
<1> QED
  BY <1>5 DEF Max

\* A path that the decoder shows is that of a request with its head in the
\* segment, unless parse_url was called for a later one without a path.
LEMMA Decoded ==
  ASSUME TypeOK, NEW s, NEW p \in parse_header_complete(s), p # Empty
  PROVE  LET good == {k \in complete(s) : requests[k].url \in Paths}
         IN  \/ \E k \in good : requests[k].url = p
             \/ \E k \in good, j \in told(s) : k < j /\ j \notin good
<1> DEFINE good == {k \in complete(s) : requests[k].url \in Paths}
<1>1. PICK n \in 0..MaxRequests : DOMAIN requests = 1..n
  BY DEF TypeOK
<1>2. good # {} /\ (Max(good) = Max(told(s)) => p = requests[Max(good)].url)
  BY DEF parse_header_complete
<1>3. good \in SUBSET (1..n) /\ good \subseteq told(s) /\ told(s) \in SUBSET (1..n) /\ n \in Nat
  <2>1. good \subseteq told(s) /\ told(s) \subseteq DOMAIN requests
    BY DEF complete, told, begun
  <2> QED
    BY <1>1, <2>1, BoundAssumption
<1> HIDE DEF good
<1>4. Max(good) \in good /\ \A k \in good : Max(good) >= k
  BY <1>2, <1>3, MaxIn
<1>5. CASE Max(good) = Max(told(s))
  BY <1>2, <1>4, <1>5 DEF good
<1>6. CASE Max(good) # Max(told(s))
  <2>1. Max(told(s)) \in told(s) /\ \A k \in told(s) : Max(told(s)) >= k
    <3>1. told(s) # {}
      BY <1>2, <1>3
    <3> QED
      BY <1>3, <3>1, MaxIn
  <2>2. Max(good) \in told(s) /\ Max(good) \in Nat /\ Max(told(s)) \in Nat
    <3>1. Max(good) \in told(s) /\ Max(good) \in 1..n /\ Max(told(s)) \in 1..n
      BY <1>3, <1>4, <2>1
    <3> QED
      BY <1>3, <3>1
  <2>3. Max(told(s)) >= Max(good)
    BY <2>1, <2>2
  <2>4. Max(good) < Max(told(s))
    BY <1>6, <2>2, <2>3
  <2>5. Max(told(s)) \notin good
    BY <1>4, <2>2, <2>4
  <2> QED
    BY <1>4, <2>1, <2>4, <2>5 DEF good
<1> QED
  BY <1>5, <1>6

\* A request alone in its segment is the one that is decoded.
LEMMA Alone ==
  ASSUME TypeOK, NEW k \in DOMAIN requests, requests[k].url \in Paths
  PROVE  parse_header_complete(Units(k)) = {requests[k].url}
<1> DEFINE s == Units(k)
<1>1. ToSet(s) = {<<k, 1>>, <<k, 2>>, <<k, 3>>}
  BY DEF Units, ToSet
<1> HIDE DEF s
<1>2. begun(s) = {k}
  BY <1>1 DEF begun
<1>3. k \in Int /\ requests[k].url # NoMethod
  BY BoundAssumption, UrlsAssumption DEF TypeOK
<1>4. told(s) = {k}
  BY <1>2, <1>3 DEF told
<1>5. complete(s) = {k}
  BY <1>1, <1>4 DEF complete
<1>6. {j \in complete(s) : requests[j].url \in Paths} = {k}
  BY <1>5
<1>7. Max({k}) = Max(told(s)) /\ Max({k}) = k
  BY <1>3, <1>4 DEF Max
<1> QED
  BY <1>6, <1>7 DEF parse_header_complete, s

\* What is made of the segment stays as it is while no other is read.
LEMMA SameSegment ==
  ASSUME UNCHANGED <<requests, segment>>
  PROVE  Whole' = Whole /\ Good' = Good /\ told(segment)' = told(segment) /\ Overwritten' = Overwritten
<1>1. Whole' = Whole
  BY DEF Whole
<1>2. Good' = Good
  BY <1>1 DEF Good
<1>3. told(segment)' = told(segment)
  BY DEF told, begun
<1> QED
  BY <1>1, <1>2, <1>3 DEF Overwritten

\* RightRequest in terms of the three sets.
Answered ==
  segment # <<>> /\ segment[1][2] = 1 =>
    /\ Overwritten \/ \A i \in DOMAIN calls : \E k \in Good : requests[k].url = calls[i].path
    /\ (\E k \in Good : segment = Units(k) /\ requests[k].url \in DOMAIN http_routers)
         => 404 \notin ToSet(out)

LEMMA RightRequestDef == (RightRequest <=> Answered) /\ (RightRequest' <=> Answered')
BY DEF RightRequest, Answered, Overwritten, Good, Whole

\* A step that calls and sends nothing new, or sends no 404, leaves it true.
LEMMA SameAnswer ==
  ASSUME RightRequest, UNCHANGED <<requests, segment, http_routers, calls>>,
         404 \in ToSet(out') => 404 \in ToSet(out)
  PROVE  RightRequest'
<1>1. UNCHANGED <<Good, Overwritten>>
  BY SameSegment
<1> QED
  BY <1>1, RightRequestDef DEF Answered, Units

-----------------------------------------------------------------------------
\* The sequences that out takes.
LEMMA Outs ==
  /\ Len(<<>>) = 0 /\ Len(<<0, 501>>) = 2 /\ \A x : Len(<<x>>) = 1
  /\ Append(<<>>, 501) = <<501>> /\ Append(<<0>>, 501) = <<0, 501>>
  /\ \A x : <<x>> # <<>> /\ <<x>> # <<0, 501>>
  /\ <<0, 501>> # <<>> /\ <<0>> # <<404>> /\ <<0>> # <<501>>
<1>1. Len(<<>>) = 0 /\ Len(<<0, 501>>) = 2 /\ \A x : Len(<<x>>) = 1
  OBVIOUS
<1>2. Append(<<>>, 501) = <<501>> /\ Append(<<0>>, 501) = <<0, 501>>
  <2>1. Append(<<>>, 501) = <<501>>
    OBVIOUS
  <2> DEFINE t == Append(<<0>>, 501)
             u == <<0, 501>>
  <2>2. t \in Seq(Int) /\ Len(t) = 2 /\ t[1] = 0 /\ t[2] = 501
    OBVIOUS
  <2>3. u \in Seq(Int) /\ Len(u) = 2 /\ u[1] = 0 /\ u[2] = 501
    OBVIOUS
  <2> HIDE DEF t, u
  <2>4. \A i \in 1..2 : t[i] = u[i]
    BY <2>2, <2>3
  <2>5. t = u
    <3>1. Len(t) = Len(u) /\ \A i \in 1..Len(t) : t[i] = u[i]
      BY <2>2, <2>3, <2>4
    <3> QED
      BY <2>2, <2>3, <3>1, SeqEqual, ZenonT(40)
  <2> QED
    BY <2>1, <2>5 DEF t, u
<1>3. \A x : <<x>> # <<>> /\ <<x>> # <<0, 501>>
  OBVIOUS
<1>4. <<0, 501>> # <<>> /\ <<0>> # <<404>> /\ <<0>> # <<501>>
  OBVIOUS
<1> QED
  BY <1>1, <1>2, <1>3, <1>4

LEMMA InitialInv == Init => Inv
<1> SUFFICES ASSUME Init PROVE Inv
  OBVIOUS
<1>1. TypeOK
  <2>1. PICK n \in 1..MaxRequests :
          requests \in [1..n -> [url : Paths \cup {Malformed, NoPath, NoMethod}, keep : BOOLEAN]]
    BY DEF Init
  <2>2. n \in 0..MaxRequests /\ DOMAIN requests = 1..n
    BY <2>1, BoundAssumption
  <2>3. DOMAIN http_routers \subseteq Paths
    BY DEF Init
  <2> QED
    BY <2>2, <2>3 DEF Init, TypeOK
<1>2. OutInv /\ FreshInv /\ CalledInv /\ ClosedInv /\ PathInv
  BY DEF Init, OutInv, FreshInv, CalledInv, ClosedInv, PathInv
<1>3. RightRequest
  BY DEF Init, RightRequest, ToSet
<1> QED
  BY <1>1, <1>2, <1>3 DEF Inv

LEMMA DoRead ==
  ASSUME Inv, do_read
  PROVE  Inv'
<1> USE DEF Inv, do_read, clientVars
<1>1. out = <<>> /\ calls = <<>>
  BY DEF FreshInv
<1>2. TypeOK' /\ OutInv'
  BY DEF TypeOK, OutInv
<1>3. FreshInv' /\ CalledInv' /\ ClosedInv' /\ PathInv'
  BY <1>1 DEF FreshInv, CalledInv, ClosedInv, PathInv
<1>4. RightRequest'
  BY <1>1 DEF RightRequest, ToSet
<1> QED
  BY <1>2, <1>3, <1>4

LEMMA HandleData ==
  ASSUME Inv, handle_data
  PROVE  Inv'
<1> USE DEF Inv
<1>1. PICK r \in parse_request(segment) :
       /\ path' = r.path
       /\ pc' = IF r.msgLen > 0 /\ r.path \in DOMAIN http_routers THEN "call" ELSE "end"
       /\ IF r.msgLen > 0 /\ r.path \notin DOMAIN http_routers
            THEN write(404) ELSE UNCHANGED <<out, conn_status>>
  BY DEF handle_data
<1>2. pc = "parse" /\ out = <<>> /\ calls = <<>> /\ conn_status \in {"OPEN", "CLOSING"}
  BY DEF handle_data, FreshInv, TypeOK
<1>3. UNCHANGED <<http_routers, requests, wire, segment, rst, calls, interrupted>>
  BY DEF handle_data, clientVars
<1>4. \/ out' = out /\ conn_status' = conn_status
      \/ /\ out' = (IF conn_status = "OPEN" THEN <<404>> ELSE <<>>) /\ conn_status' = "CLOSING"
         /\ r.msgLen > 0 /\ r.path \notin DOMAIN http_routers /\ pc' = "end"
  BY <1>1, <1>2 DEF write, send, close
<1>5. pc' \in {"call", "end"}
  BY <1>1
<1>6. TypeOK' /\ OutInv'
  BY <1>2, <1>3, <1>4, <1>5, Outs DEF TypeOK, OutInv
<1>7. FreshInv' /\ CalledInv' /\ ClosedInv'
  BY <1>1, <1>2, <1>3, <1>4, <1>5, Outs DEF FreshInv, CalledInv, ClosedInv
<1>8. PathInv'
  <2> SUFFICES ASSUME pc' = "call" PROVE PathInv'
    BY DEF PathInv
  <2>1. r.path \in DOMAIN http_routers /\ r.path # Empty
    BY <1>1, UrlsAssumption DEF TypeOK
  <2>2. ASSUME segment[1][2] = 1
        PROVE  Overwritten \/ \E k \in Good : requests[k].url = r.path
    <3>1. r.path \in parse_header_complete(segment)
      BY <2>1, <2>2 DEF parse_request
    <3> DEFINE good == {k \in complete(segment) : requests[k].url \in Paths}
    <3>2. \/ \E k \in good : requests[k].url = r.path
          \/ \E k \in good, j \in told(segment) : k < j /\ j \notin good
      BY <2>1, <3>1, Decoded
    <3>3. good = {k \in Good : k \in told(segment)}
      BY DEF Good, Whole, complete, told, begun
    <3> HIDE DEF good
    <3> QED
      BY <3>2, <3>3 DEF Overwritten
  <2>3. Overwritten' = Overwritten /\ Good' = Good
    BY <1>3, SameSegment
  <2> QED
    BY <1>1, <1>3, <2>1, <2>2, <2>3 DEF PathInv
<1>9. RightRequest'
  <2>1. calls' = <<>>
    BY <1>2, <1>3
  <2>2. ASSUME NEW k \in DOMAIN requests, segment = Units(k), requests[k].url \in DOMAIN http_routers
        PROVE  out' = <<>>
    <3>1. r.path = requests[k].url
      <4>1. segment[1][2] = 1
        BY <2>2 DEF Units
      <4>2. segment[1][1] = k /\ requests[k].url # NoMethod
        BY <2>2, UrlsAssumption DEF Units, TypeOK
      <4>3. r.path \in parse_header_complete(segment)
        BY <4>1, <4>2 DEF parse_request
      <4> QED
        BY <2>2, <4>3, Alone DEF TypeOK
    <3> QED
      BY <1>2, <1>4, <2>2, <3>1
  <2>3. 404 \notin ToSet(<<>>) /\ DOMAIN calls' = {}
    BY <2>1 DEF ToSet
  <2>4. UNCHANGED <<requests, segment, http_routers>>
    BY <1>3
  <2> HIDE DEF Inv
  <2> QED
    BY <2>2, <2>3, <2>4, RightRequestDef DEF Answered, Good, Whole, Units
<1> QED
  BY <1>6, <1>7, <1>8, <1>9

LEMMA Call ==
  ASSUME Inv, call
  PROVE  Inv'
<1> USE DEF Inv
<1>1. PICK does \in {"reply", "reply_fail", "fail", "silent"} :
       /\ calls' = Append(calls, [path |-> path, does |-> does])
       /\ IF does \in {"reply", "reply_fail"} THEN response_write ELSE UNCHANGED out
       /\ rst' = IF does \in {"reply_fail", "fail"} \/ (does = "reply" /\ conn_status # "OPEN")
                 THEN -1 ELSE 0
  BY DEF call
<1>2. out = <<>> /\ calls = <<>> /\ pc = "call" /\ pc' = "called" /\ conn_status # "CLOSED"
  BY DEF call, FreshInv
<1>3. UNCHANGED <<http_routers, requests, wire, segment, conn_status, path, interrupted>>
  BY DEF call, clientVars
<1>4. calls' = <<[path |-> path, does |-> does]>>
  BY <1>1, <1>2
<1>5. /\ out' \in {<<>>, <<0>>}
      /\ out' = <<0>> => (does = "reply" /\ rst' = 0) \/ (does = "reply_fail" /\ rst' = -1)
      /\ out' = <<>> => rst' = -1 \/ (does = "silent" /\ rst' = 0)
      /\ out' = <<>> /\ conn_status = "OPEN" => does \in {"fail", "silent"}
  BY <1>1, <1>2, Outs DEF response_write, send
<1>6. calls' # <<>> /\ calls'[1].does = does /\ calls'[1].path = path /\ calls' = <<calls'[1]>>
  BY <1>4
<1>7. TypeOK' /\ OutInv'
  <2>1. TypeOK'
    BY <1>2, <1>3 DEF TypeOK
  <2>2. out' # <<0, 501>>
    BY <1>5, Outs
  <2> QED
    BY <1>5, <1>6, <2>1, <2>2, ZenonT(40) DEF OutInv
<1>8. FreshInv' /\ CalledInv' /\ PathInv'
  BY <1>2, <1>3, <1>5, <1>6 DEF FreshInv, CalledInv, PathInv
<1>9. ClosedInv'
  BY <1>2, <1>3 DEF ClosedInv
<1>10. RightRequest'
  <2>1. segment[1][2] = 1 => Overwritten \/ \E k \in Good : requests[k].url = path
    BY <1>2 DEF PathInv
  <2>2. DOMAIN calls' = {1}
    BY <1>4
  <2>3. 404 \notin ToSet(out')
    BY <1>5 DEF ToSet
  <2>4. Overwritten' = Overwritten /\ Good' = Good
    BY <1>3, SameSegment
  <2> QED
    BY <1>3, <1>6, <2>1, <2>2, <2>3, <2>4, RightRequestDef DEF Answered
<1> QED
  BY <1>7, <1>8, <1>9, <1>10

LEMMA HandleDataEnd ==
  ASSUME Inv, handle_data_end
  PROVE  Inv'
<1> USE DEF Inv
<1>1. /\ pc = "called" /\ pc' = "end" /\ conn_status \in {"OPEN", "CLOSING"} /\ conn_status' = "CLOSING"
      /\ UNCHANGED <<http_routers, requests, wire, segment, path, rst, calls, interrupted>>
  BY DEF handle_data_end, clientVars, write, close, FreshInv, TypeOK
<1>2. out' = IF rst < 0 /\ conn_status = "OPEN" THEN Append(out, 501) ELSE out
  BY DEF handle_data_end, write, send
<1>3. calls # <<>> /\ out \in {<<>>, <<0>>} /\ rst \in {0, -1}
  BY <1>1 DEF CalledInv
<1>4. /\ out' \in {<<>>, <<0>>, <<501>>, <<0, 501>>}
      /\ out' = <<0, 501>> => out = <<0>> /\ rst = -1
      /\ out' = <<>> => out = <<>> /\ (rst = 0 \/ conn_status # "OPEN")
  <2>1. CASE rst < 0 /\ conn_status = "OPEN"
    <3>1. out' \in {<<501>>, <<0, 501>>} /\ (out' = <<0, 501>> => out = <<0>>)
      <4>1. out' = Append(out, 501)
        BY <1>2, <2>1
      <4>2. CASE out = <<>>
        <5>1. out' = <<501>>
          BY <4>1, <4>2, Outs, Zenon
        <5> QED
          BY <5>1, Outs
      <4>3. CASE out = <<0>>
        BY <4>1, <4>3, Outs, Zenon
      <4> QED
        BY <1>3, <4>2, <4>3
    <3>2. rst = -1
      BY <1>3, <2>1
    <3> QED
      BY <3>1, <3>2, Outs
  <2>2. CASE ~(rst < 0 /\ conn_status = "OPEN")
    <3>1. out' = out /\ (rst = 0 \/ conn_status # "OPEN")
      BY <1>2, <1>3, <2>2
    <3> QED
      BY <1>3, <3>1, Outs
  <2> QED
    BY <2>1, <2>2
<1>5. TypeOK' /\ OutInv'
  BY <1>1, <1>3, <1>4 DEF TypeOK, OutInv, CalledInv
<1>6. FreshInv' /\ CalledInv' /\ PathInv'
  BY <1>1 DEF FreshInv, CalledInv, PathInv
<1>7. ClosedInv'
  <2> SUFFICES ASSUME conn_status' # "OPEN", ~interrupted', out' = <<>>
               PROVE  calls'[1].does = "silent"
    BY <1>1, <1>3 DEF ClosedInv
  <2>1. out = <<>> /\ (rst = 0 \/ conn_status # "OPEN") /\ ~interrupted /\ calls' = calls
    BY <1>1, <1>4
  <2>2. CASE rst = 0
    BY <1>1, <2>1, <2>2, Outs DEF CalledInv
  <2>3. CASE conn_status # "OPEN"
    BY <2>1, <2>3 DEF ClosedInv
  <2> QED
    BY <2>1, <2>2, <2>3
<1>8. 404 \notin ToSet(out')
  BY <1>4 DEF ToSet
<1>9. RightRequest'
  BY <1>1, <1>8, SameAnswer
<1> QED
  BY <1>5, <1>6, <1>7, <1>9

LEMMA Ends ==
  ASSUME Inv, process_event_end \/ other_close
  PROVE  Inv'
<1> USE DEF Inv, process_event_end, other_close, close, clientVars
<1>1. TypeOK' /\ OutInv'
  BY DEF TypeOK, OutInv
<1>2. FreshInv'
  BY DEF FreshInv, TypeOK
<1>3. CalledInv' /\ ClosedInv'
  BY DEF CalledInv, ClosedInv, TypeOK
<1>4. PathInv'
  BY SameSegment DEF PathInv
<1>5. RightRequest'
  BY SameAnswer
<1> QED
  BY <1>1, <1>2, <1>3, <1>4, <1>5

LEMMA NextInv == Inv /\ [Next]_vars => Inv'
<1> SUFFICES ASSUME Inv, [Next]_vars PROVE Inv'
  OBVIOUS
<1>1. CASE UNCHANGED vars
  <2>1. TypeOK' /\ OutInv' /\ FreshInv' /\ CalledInv' /\ ClosedInv'
    BY <1>1 DEF vars, Inv, TypeOK, OutInv, FreshInv, CalledInv, ClosedInv
  <2>2. PathInv' /\ RightRequest'
    BY <1>1, SameSegment, SameAnswer DEF vars, Inv, PathInv
  <2> QED
    BY <2>1, <2>2 DEF Inv
<1> QED
  BY <1>1, DoRead, HandleData, Call, HandleDataEnd, Ends DEF Next, Worker

LEMMA InvAnswer == Inv => OneAnswer
<1> SUFFICES ASSUME Inv PROVE OneAnswer
  OBVIOUS
<1>1. Len(calls) =< 1
  <2>1. PICK x : calls = <<>> \/ calls = <<x>>
    BY DEF Inv, OutInv
  <2>2. Len(calls) \in {0, 1}
    BY <2>1, Outs
  <2>3. \A m \in {0, 1} : m =< 1
    OBVIOUS
  <2> QED
    BY <2>2, <2>3, Zenon
<1>2. Len(out) > 1 => out = <<0, 501>>
  <2>1. out \in {<<>>, <<0>>, <<404>>, <<501>>, <<0, 501>>}
    BY DEF Inv, OutInv
  <2>2. out = <<0, 501>> \/ Len(out) \in {0, 1}
    BY <2>1, Outs
  <2>3. \A m \in {0, 1} : ~(m > 1)
    OBVIOUS
  <2> QED
    BY <2>2, <2>3, Zenon
<1> QED
  BY <1>1, <1>2 DEF Inv, OutInv, ClosedInv, OneAnswer

-----------------------------------------------------------------------------
\* Whatever a client sends and however it is cut into segments, handle_data calls
\* at most one handler per connection, a second answer follows only a handler that
\* answers and fails, and there is none only if the handler was silent or another
\* thread closed the connection.
THEOREM HttpOneAnswer == Spec => []OneAnswer
<1>1. Init => Inv
  BY InitialInv
<1>2. Inv /\ [Next]_vars => Inv'
  BY NextInv
<1>3. Inv => OneAnswer
  BY InvAnswer
<1> QED
  BY <1>1, <1>2, <1>3, PTL DEF Spec

\* A handler runs only with the path of a request whose head came in the segment
\* that the decoder was given, and a request that came alone and has a handler is
\* never answered by 404.
THEOREM HttpRightRequest == Spec => []RightRequest
<1>1. Init => Inv
  BY InitialInv
<1>2. Inv /\ [Next]_vars => Inv'
  BY NextInv
<1>3. Inv => RightRequest
  BY DEF Inv
<1> QED
  BY <1>1, <1>2, <1>3, PTL DEF Spec
-----------------------------------------------------------------------------
(***************************************************************************)
(* Pipe.                                                                   *)
(***************************************************************************)
PipeTypeOK ==
  /\ pipe_id \in Seq(Ids \cup {NoId})
  /\ pipe_map \in [Ids \cup {NoId} -> 0..Len(pipe_id)]
  /\ ready \subseteq 1..Len(pipe_id)
  /\ remote \in [Clients -> Ids \cup {NoId}]
  /\ link \in [Clients -> {"none", "up", "lost"}] /\ known \in [Clients -> BOOLEAN]
  /\ c2s \in [Clients -> Seq(Messages)] /\ s2c \in [Clients -> Seq(Messages)]
  /\ bound \subseteq Clients

\* A session is in the map under its own id only, and an id stays in the map.
MapInv ==
  /\ \A i \in Ids \cup {NoId} : pipe_map[i] # 0 => pipe_id[pipe_map[i]] = i
  /\ \A c \in Clients : known[c] => pipe_map[remote[c]] # 0

\* Before a client connects nothing is on its way and it is not ready.
StartInv ==
  \A c \in Clients : link[c] = "none" => c2s[c] = <<>> /\ s2c[c] = <<>> /\ c \notin bound

\* What a client asks for is its own id.
AskInv ==
  \A c \in Clients : \A k \in 1..Len(c2s[c]) :
    c2s[c][k].type = "SHAKE_HAND" => c2s[c][k].id = remote[c]

Served(c) == \E s \in ready : pipe_id[s] = remote[c]

\* An answer on its way to a client whose id was known means that a session is ready.
AnswerInv ==
  \A c \in Clients : \A k \in 1..Len(s2c[c]) :
    known[c] /\ s2c[c][k].type = "SHAKE_HAND" => Served(c)

\* So does a client that is ready.
BoundInv == \A c \in bound : known[c] => Served(c)

\* A session is ready only for a client that asked for it.
ReadyInv == \A s \in ready : \E c \in Clients : remote[c] = pipe_id[s] /\ link[c] # "none"

PipeInv == PipeTypeOK /\ MapInv /\ StartInv /\ AskInv /\ AnswerInv /\ BoundInv /\ ReadyInv

-----------------------------------------------------------------------------
LEMMA MessageFacts ==
  /\ \A i \in Ids \cup {NoId} : /\ Shake(i) \in Messages /\ Shake(i).type = "SHAKE_HAND"
                                /\ Shake(i).id = i
  /\ {Beat, Data} \subseteq Messages
  /\ Beat.type # "SHAKE_HAND" /\ Data.type # "SHAKE_HAND"
  /\ \A m \in Messages : m.type = "SHAKE_HAND" => m.id \in Ids \cup {NoId}
BY DEF Messages, Shake, Beat, Data

LEMMA PipeInitInv == PipeInit => PipeInv
BY DEF PipeInit, PipeInv, PipeTypeOK, MapInv, StartInv, AskInv, AnswerInv, BoundInv, ReadyInv

\* A new session replaces one in the map; those that are ready stay.
LEMMA AddSession ==
  ASSUME PipeInv, NEW i \in Ids \cup {NoId}, add_session(i)
  PROVE  /\ pipe_id' \in Seq(Ids \cup {NoId}) /\ Len(pipe_id') = Len(pipe_id) + 1
         /\ pipe_map' \in [Ids \cup {NoId} -> 0..Len(pipe_id')]
         /\ \A s \in 1..Len(pipe_id) : pipe_id'[s] = pipe_id[s]
         /\ \A j \in Ids \cup {NoId} : /\ pipe_map'[j] # 0 => pipe_id'[pipe_map'[j]] = j
                                       /\ pipe_map[j] # 0 => pipe_map'[j] # 0
<1>1. /\ pipe_id' \in Seq(Ids \cup {NoId}) /\ Len(pipe_id') = Len(pipe_id) + 1
      /\ Len(pipe_id) \in Nat
      /\ \A s \in 1..Len(pipe_id) : pipe_id'[s] = pipe_id[s]
      /\ pipe_id'[Len(pipe_id) + 1] = i
  BY DEF PipeInv, PipeTypeOK, add_session
<1>2. pipe_map' = [pipe_map EXCEPT ![i] = Len(pipe_id) + 1]
  BY DEF add_session
<1>3. \A j \in Ids \cup {NoId} : /\ pipe_map'[j] # 0 => pipe_id'[pipe_map'[j]] = j
                                 /\ pipe_map[j] # 0 => pipe_map'[j] # 0
  BY <1>1, <1>2 DEF PipeInv, PipeTypeOK, MapInv
<1>4. pipe_map' \in [Ids \cup {NoId} -> 0..Len(pipe_id')]
  BY <1>1, <1>2 DEF PipeInv, PipeTypeOK
<1> QED
  BY <1>1, <1>3, <1>4

LEMMA AddLocal ==
  ASSUME PipeInv, NEW i \in Ids, add_local_pipe(i)
  PROVE  PipeInv'
<1> USE DEF PipeInv
<1>1. add_session(i) /\ UNCHANGED <<ready, remote, link, known, c2s, s2c, bound>>
  BY DEF add_local_pipe, remoteVars
<1>2. /\ pipe_id' \in Seq(Ids \cup {NoId}) /\ Len(pipe_id') = Len(pipe_id) + 1
      /\ pipe_map' \in [Ids \cup {NoId} -> 0..Len(pipe_id')]
      /\ \A s \in 1..Len(pipe_id) : pipe_id'[s] = pipe_id[s]
      /\ \A j \in Ids \cup {NoId} : /\ pipe_map'[j] # 0 => pipe_id'[pipe_map'[j]] = j
                                    /\ pipe_map[j] # 0 => pipe_map'[j] # 0
  BY <1>1, AddSession
<1>3. PipeTypeOK'
  BY <1>1, <1>2 DEF PipeTypeOK
<1>4. MapInv'
  <2>1. \A c \in Clients : known'[c] => pipe_map'[remote'[c]] # 0
    BY <1>1, <1>2 DEF PipeTypeOK, MapInv
  <2>2. \A j \in Ids \cup {NoId} : pipe_map'[j] # 0 => pipe_id'[pipe_map'[j]] = j
    BY <1>2
  <2> QED
    BY <2>1, <2>2 DEF MapInv
<1>5. StartInv' /\ AskInv'
  BY <1>1 DEF StartInv, AskInv
<1>6. \A s \in ready : pipe_id'[s] = pipe_id[s]
  BY <1>2 DEF PipeTypeOK
<1>7. UNCHANGED <<ready, remote, link, known, s2c, bound>>
  BY <1>1
<1>8. \A c \in Clients : Served(c) => Served(c)'
  BY <1>6, <1>7 DEF Served
<1>9. AnswerInv'
  BY <1>7, <1>8 DEF AnswerInv
<1>10. BoundInv'
  BY <1>7, <1>8 DEF BoundInv, PipeTypeOK
<1>11. ReadyInv'
  <2> SUFFICES ASSUME NEW s \in ready
               PROVE  \E c \in Clients : remote'[c] = pipe_id'[s] /\ link'[c] # "none"
    BY <1>7 DEF ReadyInv
  <2>1. PICK c \in Clients : remote[c] = pipe_id[s] /\ link[c] # "none"
    BY DEF ReadyInv
  <2>2. remote'[c] = pipe_id'[s] /\ link'[c] # "none"
    BY <1>6, <1>7, <2>1
  <2> QED
    BY <2>2
<1> QED
  BY <1>3, <1>4, <1>5, <1>9, <1>10, <1>11

LEMMA AddRemote ==
  ASSUME PipeInv, NEW c \in Clients, add_remote_pipe(c)
  PROVE  PipeInv'
<1> USE DEF PipeInv
<1>1. /\ c2s[c] = <<>> /\ s2c[c] = <<>> /\ c \notin bound
      /\ remote[c] \in Ids \cup {NoId}
  BY DEF StartInv, PipeTypeOK, add_remote_pipe
<1>2. /\ c2s' = [c2s EXCEPT ![c] = Append(@, Shake(remote[c]))]
      /\ link' = [link EXCEPT ![c] = "up"]
      /\ known' = [known EXCEPT ![c] = pipe_map'[remote[c]] # 0]
      /\ UNCHANGED <<ready, remote, bound, s2c>>
  BY DEF add_remote_pipe
<1>3. c2s'[c] = <<Shake(remote[c])>>
  BY <1>1, <1>2 DEF PipeTypeOK
<1>4. /\ pipe_id' \in Seq(Ids \cup {NoId}) /\ Len(pipe_id) =< Len(pipe_id')
      /\ pipe_map' \in [Ids \cup {NoId} -> 0..Len(pipe_id')]
      /\ \A s \in 1..Len(pipe_id) : pipe_id'[s] = pipe_id[s]
      /\ \A j \in Ids \cup {NoId} : /\ pipe_map'[j] # 0 => pipe_id'[pipe_map'[j]] = j
                                    /\ pipe_map[j] # 0 => pipe_map'[j] # 0
  <2>1. CASE add_session(remote[c])
    <3>1. Len(pipe_id) \in Nat
      BY DEF PipeTypeOK
    <3>2. /\ pipe_id' \in Seq(Ids \cup {NoId}) /\ Len(pipe_id') = Len(pipe_id) + 1
          /\ pipe_map' \in [Ids \cup {NoId} -> 0..Len(pipe_id')]
          /\ \A s \in 1..Len(pipe_id) : pipe_id'[s] = pipe_id[s]
          /\ \A j \in Ids \cup {NoId} : /\ pipe_map'[j] # 0 => pipe_id'[pipe_map'[j]] = j
                                        /\ pipe_map[j] # 0 => pipe_map'[j] # 0
      BY <1>1, <2>1, AddSession
    <3>3. Len(pipe_id) =< Len(pipe_id')
      BY <3>1, <3>2
    <3> QED
      BY <3>2, <3>3, Zenon
  <2>2. CASE UNCHANGED <<pipe_map, pipe_id>>
    BY <2>2 DEF PipeTypeOK, MapInv
  <2> QED
    BY <2>1, <2>2 DEF add_remote_pipe
<1>5. (pipe_map'[remote[c]] # 0) \in BOOLEAN /\ Len(pipe_id) \in Nat /\ Len(pipe_id') \in Nat
  BY <1>4 DEF PipeTypeOK
<1>6. PipeTypeOK'
  <2>1. ready' \subseteq 1..Len(pipe_id')
    BY <1>2, <1>4, <1>5 DEF PipeTypeOK
  <2>2. c2s' \in [Clients -> Seq(Messages)]
    BY <1>1, <1>2, MessageFacts DEF PipeTypeOK
  <2> QED
    BY <1>2, <1>4, <1>5, <2>1, <2>2 DEF PipeTypeOK
<1>7. MapInv'
  <2>1. \A d \in Clients : known'[d] => pipe_map'[remote'[d]] # 0
    BY <1>2, <1>4 DEF PipeTypeOK, MapInv
  <2>2. \A j \in Ids \cup {NoId} : pipe_map'[j] # 0 => pipe_id'[pipe_map'[j]] = j
    BY <1>4
  <2> QED
    BY <2>1, <2>2 DEF MapInv
<1>8. StartInv'
  BY <1>2 DEF StartInv, PipeTypeOK
<1>9. AskInv'
  BY <1>1, <1>2, <1>3, MessageFacts DEF AskInv, PipeTypeOK
<1>10. /\ \A d \in Clients : d # c => known'[d] = known[d] /\ link'[d] = link[d]
       /\ link'[c] # "none" /\ Len(s2c[c]) = 0
  BY <1>1, <1>2 DEF PipeTypeOK
<1>11. \A s \in ready : pipe_id'[s] = pipe_id[s]
  BY <1>4 DEF PipeTypeOK
<1>12. \A d \in Clients : Served(d) => Served(d)'
  BY <1>2, <1>11 DEF Served
<1>13. AnswerInv'
  BY <1>2, <1>10, <1>12 DEF AnswerInv
<1>14. BoundInv'
  BY <1>1, <1>2, <1>10, <1>12 DEF BoundInv, PipeTypeOK
<1>15. ReadyInv'
  <2> SUFFICES ASSUME NEW s \in ready
               PROVE  \E d \in Clients : remote'[d] = pipe_id'[s] /\ link'[d] # "none"
    BY <1>2 DEF ReadyInv
  <2>1. PICK d \in Clients : remote[d] = pipe_id[s] /\ link[d] # "none"
    BY DEF ReadyInv
  <2>2. remote'[d] = pipe_id'[s] /\ link'[d] # "none"
    BY <1>2, <1>10, <1>11, <2>1
  <2> QED
    BY <2>2
<1> QED
  BY <1>6, <1>7, <1>8, <1>9, <1>13, <1>14, <1>15

\* A message other than a handshake at the end of a queue.
LEMMA AppendOther ==
  ASSUME NEW q \in Seq(Messages), NEW m \in {Beat, Data}
  PROVE  /\ Append(q, m) \in Seq(Messages)
         /\ \A k \in 1..Len(Append(q, m)) : Append(q, m)[k].type = "SHAKE_HAND" =>
              k \in 1..Len(q) /\ Append(q, m)[k] = q[k]
<1>1. m \in Messages /\ m.type # "SHAKE_HAND"
  BY MessageFacts
<1> QED
  BY <1>1

LEMMA SendHeartbeat ==
  ASSUME PipeInv, NEW c \in Clients, send_heartbeat(c)
  PROVE  PipeInv'
<1> USE DEF PipeInv
<1>1. /\ link[c] = "up"
      /\ UNCHANGED <<pipe_map, pipe_id, ready, remote, link, known, bound>>
      /\ \E m \in {Beat, Data} :
           \/ c2s' = [c2s EXCEPT ![c] = Append(@, m)] /\ UNCHANGED s2c
           \/ s2c' = [s2c EXCEPT ![c] = Append(@, m)] /\ UNCHANGED c2s
  BY DEF send_heartbeat, serverVars, remoteVars
<1> DEFINE Kept(q, r) ==
      /\ r \in [Clients -> Seq(Messages)]
      /\ \A d \in Clients : d # c => r[d] = q[d]
      /\ \A d \in Clients : \A k \in 1..Len(r[d]) : r[d][k].type = "SHAKE_HAND" =>
           k \in 1..Len(q[d]) /\ r[d][k] = q[d][k]
<1>2. Kept(c2s, c2s')
  <2>1. CASE UNCHANGED c2s
    BY <2>1 DEF PipeTypeOK
  <2>2. ASSUME NEW m \in {Beat, Data}, c2s' = [c2s EXCEPT ![c] = Append(@, m)]
        PROVE  Kept(c2s, c2s')
    <3>1. c2s \in [Clients -> Seq(Messages)] /\ c2s[c] \in Seq(Messages)
      BY DEF PipeTypeOK
    <3>2. c2s'[c] = Append(c2s[c], m) /\ \A d \in Clients : d # c => c2s'[d] = c2s[d]
      BY <2>2, <3>1
    <3>3. c2s' \in [Clients -> Seq(Messages)]
      BY <2>2, <3>1, AppendOther
    <3>4. \A k \in 1..Len(c2s'[c]) : c2s'[c][k].type = "SHAKE_HAND" =>
            k \in 1..Len(c2s[c]) /\ c2s'[c][k] = c2s[c][k]
      BY <3>1, <3>2, AppendOther
    <3> QED
      BY <3>2, <3>3, <3>4
  <2> QED
    BY <1>1, <2>1, <2>2
<1>3. Kept(s2c, s2c')
  <2>1. CASE UNCHANGED s2c
    BY <2>1 DEF PipeTypeOK
  <2>2. ASSUME NEW m \in {Beat, Data}, s2c' = [s2c EXCEPT ![c] = Append(@, m)]
        PROVE  Kept(s2c, s2c')
    <3>1. s2c \in [Clients -> Seq(Messages)] /\ s2c[c] \in Seq(Messages)
      BY DEF PipeTypeOK
    <3>2. s2c'[c] = Append(s2c[c], m) /\ \A d \in Clients : d # c => s2c'[d] = s2c[d]
      BY <2>2, <3>1
    <3>3. s2c' \in [Clients -> Seq(Messages)]
      BY <2>2, <3>1, AppendOther
    <3>4. \A k \in 1..Len(s2c'[c]) : s2c'[c][k].type = "SHAKE_HAND" =>
            k \in 1..Len(s2c[c]) /\ s2c'[c][k] = s2c[c][k]
      BY <3>1, <3>2, AppendOther
    <3> QED
      BY <3>2, <3>3, <3>4
  <2> QED
    BY <1>1, <2>1, <2>2
<1>5. PipeTypeOK'
  BY <1>1, <1>2, <1>3 DEF PipeTypeOK
<1>6. MapInv'
  BY <1>1 DEF MapInv
<1>7. StartInv'
  BY <1>1, <1>2, <1>3 DEF StartInv
<1>8. AskInv'
  BY <1>1, <1>2 DEF AskInv
<1>9. AnswerInv' /\ BoundInv' /\ ReadyInv'
  BY <1>1, <1>3 DEF AnswerInv, BoundInv, ReadyInv, Served
<1> QED
  BY <1>5, <1>6, <1>7, <1>8, <1>9

\* The handshake makes the session of the id ready, and its answer follows.
LEMMA ServerHandles ==
  ASSUME PipeInv, NEW c \in Clients, server_handle_data(c)
  PROVE  PipeInv'
<1> USE DEF server_handle_data, PipeInv, remoteVars
<1> DEFINE m == Head(c2s[c])
<1>1. /\ m = c2s[c][1] /\ 1 \in 1..Len(c2s[c]) /\ m \in Messages /\ link[c] # "none"
      /\ Tail(c2s[c]) \in Seq(Messages) /\ Len(Tail(c2s[c])) = Len(c2s[c]) - 1
      /\ \A k \in 1..Len(c2s[c]) - 1 : Tail(c2s[c])[k] = c2s[c][k + 1]
  BY DEF PipeTypeOK, StartInv
<1>2. PICK answer \in Seq(Messages) :
        /\ s2c' = [s2c EXCEPT ![c] = @ \o answer]
        /\ ready \subseteq ready' /\ ready' \subseteq 1..Len(pipe_id)
        /\ \A s \in ready' \ ready : pipe_id[s] = remote[c]
        /\ \A k \in 1..Len(answer) : known[c] /\ answer[k].type = "SHAKE_HAND" => Served(c)'
  <2>1. CASE m.type = "SHAKE_HAND"
    <3>1. m.id = remote[c] /\ m.id \in Ids \cup {NoId}
      BY <1>1, <2>1, MessageFacts DEF AskInv
    <3>2. CASE m.id = NoId
      <4>1. s2c' = [s2c EXCEPT ![c] = @ \o <<>>] /\ ready' = ready
        BY <2>1, <3>2 DEF process_server_handshake
      <4>2. <<>> \in Seq(Messages) /\ Len(<<>>) = 0
        OBVIOUS
      <4>3. ready \subseteq 1..Len(pipe_id) /\ ready' \ ready = {}
        BY <4>1 DEF PipeTypeOK
      <4>4. \A k \in 1..Len(<<>>) : FALSE
        OBVIOUS
      <4> HIDE DEF m, server_handle_data, PipeInv
      <4> WITNESS <<>> \in Seq(Messages)
      <4> QED
        BY <4>1, <4>3, <4>4
    <3>3. CASE m.id # NoId
      <4>0. ready' = ready \cup ({pipe_map[m.id]} \ {0})
        BY <2>1, <3>1, <3>3 DEF process_server_handshake, find_user_session
      <4>1. s2c' = [s2c EXCEPT ![c] = @ \o <<Shake(m.id)>>]
        BY <2>1, <3>1, <3>3 DEF process_server_handshake
      <4>2. <<Shake(m.id)>> \in Seq(Messages)
        BY <3>1, MessageFacts
      <4>3. pipe_map[m.id] # 0 => pipe_id[pipe_map[m.id]] = remote[c]
        BY <3>1, <3>3 DEF MapInv
      <4>4. pipe_map[m.id] \in 0..Len(pipe_id) /\ Len(pipe_id) \in Nat
        BY <3>1, <3>3 DEF PipeTypeOK
      <4>5. known[c] => Served(c)'
        BY <3>1, <3>3, <4>0, <4>3 DEF MapInv, Served
      <4>6. \A k \in 1..Len(<<Shake(m.id)>>) : known[c] => Served(c)'
        BY <4>5
      <4>7. ready \subseteq ready' /\ ready' \subseteq 1..Len(pipe_id)
        <5>1. ready \subseteq 1..Len(pipe_id)
          BY DEF PipeTypeOK
        <5> HIDE DEF m, server_handle_data, PipeInv
        <5>2. ready' \subseteq ready \cup {pipe_map[m.id]} /\ 0 \notin ready' \ ready
          BY <4>0
        <5>3. pipe_map[m.id] # 0 => pipe_map[m.id] \in 1..Len(pipe_id)
          BY <4>4
        <5> QED
          BY <4>0, <5>1, <5>2, <5>3
      <4>8. \A s \in ready' \ ready : pipe_id[s] = remote[c]
        BY <4>0, <4>3
      <4> HIDE DEF m, server_handle_data, PipeInv
      <4> QED
        BY <4>1, <4>2, <4>6, <4>7, <4>8
    <3> QED
      BY <3>2, <3>3
  <2>2. CASE m.type # "SHAKE_HAND"
    <3>1. s2c' = [s2c EXCEPT ![c] = Append(s2c[c], Beat)] /\ ready' = ready
      BY <2>2
    <3>2. s2c[c] \in Seq(Messages) /\ Beat \in Messages /\ Beat.type # "SHAKE_HAND"
      BY MessageFacts DEF PipeTypeOK
    <3>3. Append(s2c[c], Beat) = s2c[c] \o <<Beat>> /\ <<Beat>> \in Seq(Messages)
      BY <3>2
    <3>4. \A k \in 1..Len(<<Beat>>) : <<Beat>>[k].type # "SHAKE_HAND"
      BY <3>2
    <3>5. s2c' = [s2c EXCEPT ![c] = @ \o <<Beat>>]
      BY <3>1, <3>3
    <3>6. ready \subseteq ready' /\ ready' \subseteq 1..Len(pipe_id) /\ ready' \ ready = {}
      BY <3>1 DEF PipeTypeOK
    <3> HIDE DEF m, server_handle_data, PipeInv
    <3> QED
      BY <3>3, <3>4, <3>5, <3>6
  <2> QED
    BY <2>1, <2>2
<1>3. /\ s2c'[c] = s2c[c] \o answer /\ \A d \in Clients : d # c => s2c'[d] = s2c[d]
      /\ c2s'[c] = Tail(c2s[c]) /\ \A d \in Clients : d # c => c2s'[d] = c2s[d]
  BY <1>2 DEF PipeTypeOK
<1>4. PipeTypeOK'
  BY <1>1, <1>2 DEF PipeTypeOK
<1>5. MapInv'
  BY DEF MapInv
<1>6. StartInv'
  BY <1>1, <1>3 DEF StartInv
<1>7. AskInv'
  BY <1>1, <1>3 DEF AskInv
<1>8. \A d \in Clients : Served(d) => Served(d)'
  BY <1>2 DEF Served
<1>9. ASSUME NEW d \in Clients, NEW k \in 1..Len(s2c'[d]), known[d], s2c'[d][k].type = "SHAKE_HAND"
      PROVE  Served(d)'
  <2>1. CASE d # c
    BY <1>3, <1>8, <1>9, <2>1 DEF AnswerInv
  <2>2. CASE d = c /\ k \in 1..Len(s2c[c])
    BY <1>2, <1>3, <1>8, <1>9, <2>2 DEF AnswerInv, PipeTypeOK
  <2>3. CASE d = c /\ k \notin 1..Len(s2c[c])
    <3>1. k - Len(s2c[c]) \in 1..Len(answer) /\ s2c'[c][k] = answer[k - Len(s2c[c])]
      BY <1>2, <1>3, <1>9, <2>3 DEF PipeTypeOK
    <3> QED
      BY <1>2, <1>9, <2>3, <3>1
  <2> QED
    BY <2>1, <2>2, <2>3
<1>10. UNCHANGED <<pipe_id, remote, link, known, bound>>
  OBVIOUS
<1>11. AnswerInv' /\ BoundInv' /\ ReadyInv'
  <2>1. AnswerInv'
    BY <1>9, <1>10 DEF AnswerInv
  <2>2. BoundInv'
    BY <1>8, <1>10 DEF BoundInv, PipeTypeOK
  <2>3. ReadyInv'
    BY <1>1, <1>2, <1>10 DEF ReadyInv
  <2> QED
    BY <2>1, <2>2, <2>3
<1> QED
  BY <1>4, <1>5, <1>6, <1>7, <1>11

LEMMA ClientHandles ==
  ASSUME PipeInv, NEW c \in Clients, client_handle_data(c)
  PROVE  PipeInv'
<1> USE DEF client_handle_data, PipeInv, serverVars
<1> DEFINE m == Head(s2c[c])
<1>1. /\ m = s2c[c][1] /\ 1 \in 1..Len(s2c[c]) /\ m \in Messages /\ link[c] # "none"
      /\ Tail(s2c[c]) \in Seq(Messages) /\ Len(Tail(s2c[c])) = Len(s2c[c]) - 1
      /\ \A k \in 1..Len(s2c[c]) - 1 : Tail(s2c[c])[k] = s2c[c][k + 1]
  BY DEF PipeTypeOK, StartInv
<1>2. c2s' = c2s
  BY DEF client_answer, PipeTypeOK
<1>3. s2c'[c] = Tail(s2c[c]) /\ \A d \in Clients : d # c => s2c'[d] = s2c[d]
  BY DEF PipeTypeOK
<1>4. bound \subseteq bound' /\ bound' \subseteq bound \cup {c}
  OBVIOUS
<1>5. c \in bound' \ bound => m.type = "SHAKE_HAND"
  BY DEF process_client_handshake
<1>6. PipeTypeOK'
  BY <1>1, <1>2, <1>4 DEF PipeTypeOK
<1>7. MapInv'
  BY DEF MapInv
<1>8. StartInv'
  BY <1>1, <1>2, <1>3, <1>4 DEF StartInv
<1>9. AskInv'
  BY <1>2 DEF AskInv
<1>10. UNCHANGED <<ready, pipe_id, remote, link, known>>
  OBVIOUS
<1>11. \A d \in Clients : Served(d)' = Served(d)
  BY <1>10 DEF Served
<1>12. AnswerInv'
  BY <1>1, <1>3, <1>10, <1>11 DEF AnswerInv, PipeTypeOK
<1>13. BoundInv'
  BY <1>1, <1>4, <1>5, <1>10, <1>11 DEF BoundInv, AnswerInv, PipeTypeOK
<1>14. ReadyInv'
  BY <1>10 DEF ReadyInv
<1> QED
  BY <1>6, <1>7, <1>8, <1>9, <1>12, <1>13, <1>14

LEMMA LoseInv ==
  ASSUME PipeInv, NEW c \in Clients, Lose(c)
  PROVE  PipeInv'
<1> USE DEF Lose, PipeInv, serverVars
<1>1. PipeTypeOK'
  BY DEF PipeTypeOK
<1>2. MapInv' /\ StartInv' /\ AskInv'
  BY DEF MapInv, StartInv, AskInv, PipeTypeOK
<1>3. /\ UNCHANGED <<ready, pipe_id, remote, known, bound>>
      /\ \A d \in Clients : /\ d # c => s2c'[d] = s2c[d]
                          /\ link[d] # "none" => link'[d] # "none"
      /\ Len(s2c'[c]) = 0
  BY DEF PipeTypeOK
<1>4. \A d \in Clients : Served(d)' = Served(d)
  BY <1>3 DEF Served
<1>5. AnswerInv'
  BY <1>3, <1>4 DEF AnswerInv
<1>6. BoundInv' /\ ReadyInv'
  BY <1>3, <1>4 DEF BoundInv, ReadyInv, PipeTypeOK
<1> QED
  BY <1>1, <1>2, <1>5, <1>6

LEMMA PipeNextInv == PipeInv /\ [PipeNext]_pipeVars => PipeInv'
<1> SUFFICES ASSUME PipeInv, [PipeNext]_pipeVars PROVE PipeInv'
  OBVIOUS
<1>1. CASE UNCHANGED pipeVars
  BY <1>1 DEF pipeVars, PipeInv, PipeTypeOK, MapInv, StartInv, AskInv, AnswerInv, BoundInv, ReadyInv, Served
<1> QED
  BY <1>1, AddLocal, AddRemote, SendHeartbeat, ServerHandles, ClientHandles, LoseInv DEF PipeNext

\* The two ends of a pipe agree, for any number of clients, ids, sessions and messages:
\* a client that is told that it is ready, with an id that the server knew, has a ready
\* session there, and no session is ready that no client asked for.
THEOREM PipeAgreement == PipeSpec => []Agreement
<1>1. PipeInv => Agreement
  BY DEF PipeInv, BoundInv, ReadyInv, Served, Agreement
<1> QED
  BY <1>1, PipeInitInv, PipeNextInv, PTL DEF PipeSpec
=============================================================================
