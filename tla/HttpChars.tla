----------------------------- MODULE HttpChars -----------------------------
(***************************************************************************)
(* The character classes of http_parser.h in a strict build                *)
(* (HTTP_PARSER_STRICT).  A character is a string of length one and a text *)
(* a sequence of characters.  The alphabet is printable ASCII without the  *)
(* backquote, and CR, LF, TAB and FF, which stands for the other controls. *)
(***************************************************************************)
EXTENDS Integers, Sequences, SequencesExt

Bytes(text) == <<>> \o [i \in 1..Len(text) |-> SubSeq(text, i, i)]
Chars(text) == ToSet(Bytes(text))

CR == "\r"
LF == "\n"
TAB == "\t"
FF == "\f"
CRLF == <<CR, LF>>

UPPER == Bytes("ABCDEFGHIJKLMNOPQRSTUVWXYZ")
lower == Bytes("abcdefghijklmnopqrstuvwxyz")
DIGITS == <<"0", "1", "2", "3", "4", "5", "6", "7", "8", "9">>

SmallOf == [c \in ToSet(UPPER) |-> lower[CHOOSE i \in DOMAIN UPPER : UPPER[i] = c]]
ValueOf == [c \in ToSet(DIGITS) |-> (CHOOSE i \in DOMAIN DIGITS : DIGITS[i] = c) - 1]
HexValueOf == [c \in {lower[i] : i \in 1..6} \cup {UPPER[i] : i \in 1..6} |->
                 9 + CHOOSE i \in 1..6 : c \in {lower[i], UPPER[i]}]

ALPHA == ToSet(UPPER) \cup ToSet(lower)
ALPHANUM == ALPHA \cup ToSet(DIGITS)
HEX == ToSet(DIGITS) \cup DOMAIN HexValueOf
MARKS == Chars("-_.!~*'()")
USERINFO_CHARS == ALPHANUM \cup MARKS \cup Chars("%;:&=+$,")
TOKENS == ALPHANUM \cup Chars("!#$%&'*+-.^_|~")

\* normal_url_char[]: everything printable but ' ', '#' and '?'.
URL_CHARS == USERINFO_CHARS \cup Chars("/@[]\"<>\\^{|}")
HOST_CHARS == ALPHANUM \cup {".", "-"}
HEADER_CHARS == URL_CHARS \cup {" ", "#", "?", CR, LF, TAB}

IS_NUMBER(c) == c \in DOMAIN ValueOf

\* c | 0x20: the small letter of a letter, but also ')' for TAB, '-' for CR, '*' for LF
\* and ',' for FF; it moves some marks to others that no comparison looks for.
LOWER(c) ==
  CASE c \in DOMAIN SmallOf -> SmallOf[c]
    [] c = TAB -> ")"
    [] c = CR -> "-"
    [] c = LF -> "*"
    [] c = FF -> ","
    [] OTHER -> c

\* tokens[], of which STRICT_TOKEN takes out the space: the small letter, or "" for 0.
TOKEN(c) == IF c \in TOKENS THEN LOWER(c) ELSE ""

\* ch - '0', and unhex[], -1 for what is no digit.
DIGIT(c) == ValueOf[c]
unhex(c) == IF IS_NUMBER(c) THEN ValueOf[c]
            ELSE IF c \in DOMAIN HexValueOf THEN HexValueOf[c] ELSE -1
=============================================================================
