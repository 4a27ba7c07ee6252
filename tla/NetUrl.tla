------------------------------- MODULE NetUrl -------------------------------
(***************************************************************************)
(* utils/net_url.h: the URL objects that TcpListener::start, TcpConnector's *)
(* add_connection and options_from_url fill from a string, and that encode *)
(* turns into a string again.  A string is a sequence of characters; the   *)
(* parameters are a function from keys to values, which encode visits in   *)
(* the order of an unordered_map, that is in any order.                    *)
(***************************************************************************)
EXTENDS HttpChars, FiniteSets

CONSTANTS
  Channels,   \* strings that an object is made from
  Others,     \* strings that an object is parsed from again
  Protocols, Hosts, Ports,   \* arguments of the constructor with three
  Keys, Values,              \* arguments of set
  PortSize,   \* number of values of uint16_t
  IntMax,     \* the largest int
  MaxParams   \* bound: parameters of an object that set is called for

ASSUME NumbersAssumption == PortSize \in Nat \ {0} /\ IntMax \in Nat /\ MaxParams \in Nat
\* What the program itself puts into an object has no character that encode uses.
ASSUME DelimitersAssumption ==
  /\ \A h \in Hosts : ToSet(h) \cap {":", "?"} = {}
  /\ \A t \in Keys \cup Values : ToSet(t) \cap {"=", "&"} = {}
ASSUME PortsAssumption == Ports \subseteq 0..PortSize - 1

VARIABLES
  url,       \* the object, or NoUrl
  answer     \* what the last call of parse returned, or "throws"

vars == <<url, answer>>

NoParams == [k \in {} |-> <<>>]
reset == [protocol |-> <<>>, host |-> <<>>, port |-> 0, params |-> NoParams]
NoUrl == [reset EXCEPT !.port = -1]

\* std::string::find: the first position at or after from, or 0.
find(text, what, from) ==
  LET at == {i \in from..Len(text) - Len(what) + 1 : SubSeq(text, i, i + Len(what) - 1) = what}
  IN  IF at = {} THEN 0 ELSE CHOOSE i \in at : \A j \in at : i <= j

(***************************************************************************)
(* std::stoi: spaces, a sign and as many digits as there are; the rest is  *)
(* ignored.  It throws if there is no digit or the number is no int.       *)
(***************************************************************************)
Number(digits) == FoldLeft(LAMBDA n, c : 10 * n + DIGIT(c), 0, digits)
FirstOther(text, set) == CHOOSE i \in 1..Len(text) + 1 :
                           /\ \A j \in 1..i - 1 : text[j] \in set
                           /\ i <= Len(text) => text[i] \notin set
From(text, i) == SubSeq(text, i, Len(text))
stoi(text) ==
  LET signed == From(text, FirstOther(text, {" ", TAB, LF, CR, FF}))
      signs  == IF signed # <<>> /\ signed[1] \in {"+", "-"} THEN 1 ELSE 0
      number == From(signed, signs + 1)
      digits == SubSeq(number, 1, FirstOther(number, ToSet(DIGITS)) - 1)
      value  == IF signs = 1 /\ signed[1] = "-" THEN -Number(digits) ELSE Number(digits)
  IN  [throws |-> digits = <<>> \/ value \notin -IntMax - 1..IntMax, value |-> value]

(***************************************************************************)
(* parse.  Its loop over the characters after "?" is a fold; every "=" and *)
(* every "&" switches between key and value.                               *)
(***************************************************************************)
params_set(params, key, value) == [k \in DOMAIN params \cup {key} |->
                                     IF k = key THEN value ELSE params[k]]

\* Mutant: "&" does not switch back to the key.
parse_param_sticks(l, c) ==
  CASE c = "=" -> [l EXCEPT !.is_key = ~@]
    [] c = "&" -> [l EXCEPT !.params = params_set(@, l.key, l.value), !.key = <<>>, !.value = <<>>]
    [] OTHER   -> IF l.is_key THEN [l EXCEPT !.key = Append(@, c)]
                              ELSE [l EXCEPT !.value = Append(@, c)]

parse_param(l, c) ==
  CASE c = "=" -> [l EXCEPT !.is_key = ~@]
    [] c = "&" -> [is_key |-> ~l.is_key, key |-> <<>>, value |-> <<>>,
                   params |-> params_set(l.params, l.key, l.value)]
    [] OTHER   -> IF l.is_key THEN [l EXCEPT !.key = Append(@, c)]
                              ELSE [l EXCEPT !.value = Append(@, c)]

parse_params(text) ==
  LET l == FoldLeft(parse_param,
                    [is_key |-> TRUE, key |-> <<>>, value |-> <<>>, params |-> NoParams], text)
  IN  IF l.key = <<>> THEN l.params ELSE params_set(l.params, l.key, l.value)

\* host [":" port].  What was assigned before stoi throws stays.
parse_host(u, text) ==
  LET colon == find(text, <<":">>, 1)
      port  == stoi(From(text, colon + 1))
      named == [u EXCEPT !.host = IF colon = 0 THEN text ELSE SubSeq(text, 1, colon - 1)]
  IN  IF colon = 0 \/ colon = Len(text) THEN [url |-> named, answer |-> "true"]
      ELSE IF port.throws THEN [url |-> named, answer |-> "throws"]
      ELSE [url |-> [named EXCEPT !.port = port.value % PortSize], answer |-> "true"]

parse(channel) ==
  LET sep   == find(channel, <<":", "/", "/">>, 1)
      query == find(channel, <<"?">>, sep + 2)
      end   == IF query = 0 THEN Len(channel) + 1 ELSE query
      r     == parse_host([reset EXCEPT !.protocol = SubSeq(channel, 1, sep - 1)],
                          SubSeq(channel, sep + 3, end - 1))
  IN  IF sep = 0 THEN [url |-> reset, answer |-> "false"]
      ELSE IF r.answer = "throws" THEN r
      ELSE [r EXCEPT !.url.params = parse_params(From(channel, end + 1))]

\* std::to_string of a port.
to_string[n \in 0..PortSize - 1] ==
  IF n < 10 THEN <<DIGITS[n + 1]>> ELSE to_string[n \div 10] \o <<DIGITS[(n % 10) + 1]>>

\* The strings that encode can return, one for each order of the parameters.
encode(u) ==
  LET head == u.protocol \o <<":", "/", "/">> \o u.host
                \o IF u.port > 0 THEN <<":">> \o to_string[u.port] ELSE <<>>
      text(keys) == FlattenSeq([i \in 1..Len(keys) |->
                                  keys[i] \o <<"=">> \o u.params[keys[i]] \o <<"&">>])
  IN  IF DOMAIN u.params = {} THEN {head}
      ELSE {head \o <<"?">> \o text(keys) : keys \in SetToSeqs(DOMAIN u.params)}

-----------------------------------------------------------------------------
Init == url = NoUrl /\ answer = "true"

\* NetUrl(url): an exception leaves no object.
construct ==
  /\ url = NoUrl
  /\ \E c \in Channels : LET r == parse(c)
                         IN  /\ answer' = r.answer
                             /\ url' = IF r.answer = "throws" THEN NoUrl ELSE r.url

construct_from_parts ==
  /\ url = NoUrl /\ answer' = "true"
  /\ \E p \in Protocols, h \in Hosts, n \in Ports :
       url' = [reset EXCEPT !.protocol = p, !.host = h, !.port = n]

parse_again ==
  /\ url # NoUrl
  /\ \E c \in Others : url' = parse(c).url /\ answer' = parse(c).answer

set ==
  /\ url # NoUrl /\ Cardinality(DOMAIN url.params) < MaxParams /\ UNCHANGED answer
  /\ \E k \in Keys, v \in Values : url' = [url EXCEPT !.params = params_set(@, k, v)]

Next == construct \/ construct_from_parts \/ parse_again \/ set

Spec == Init /\ [][Next]_vars

(***************************************************************************)
(* Properties.                                                             *)
(***************************************************************************)

\* Parsing what encode writes gives the object back (parse, encode, set), for every
\* string an object was made from, the malformed ones included, every order of the
\* parameters, after a second parse that failed half-way, and with the last "&" or,
\* if no key is empty, without it.  (Not for a parameter that set gives a
\* "=" or "&": nothing is escaped.  And the strings themselves do not come back: a
\* port wraps at PortSize, "a&b=c" is read as c=b, "a=b=c" as ac=b, although the
\* grammar above parse allows "=" in a value.)
Reparsed ==
  url # NoUrl =>
    \A text \in encode(url) :
      /\ parse(text) = [url |-> url, answer |-> "true"]
      /\ DOMAIN url.params # {} /\ <<>> \notin DOMAIN url.params => parse(Front(text)).url = url
=============================================================================
