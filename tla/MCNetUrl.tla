------------------------------ MODULE MCNetUrl ------------------------------
(***************************************************************************)
(* Strings for NetUrl: everything of up to MaxRest characters after "://", *)
(* behind several protocols, and strings without "://".                    *)
(***************************************************************************)
EXTENDS NetUrl

CONSTANTS MaxRest   \* bound: characters after "://"

Alphabet == Chars("a9:-?=&")
Sep == Bytes("://")
MCChannels ==
  {p \o Sep \o r : p \in {<<>>, Bytes("t:")}, r \in BoundedSeq(Alphabet, MaxRest)}
    \cup {Bytes("t:/a"), Bytes("a?b=c")}
MCOthers == {Bytes("u"), Bytes("u://h:9?k=9"), Bytes("u://g:?=a&"), Bytes("u://f:x?k=9"),
             Bytes("w://h:999?k=9"), Bytes("w://h: +9a?a=9&b=")}
MCProtocols == {Bytes("tcp")}
MCHosts == {<<>>, Bytes("h")}
MCPorts == {0, 1, 19}
MCKeys == {<<>>, Bytes("k")}
MCValues == {<<>>, Bytes("1")}
=============================================================================
