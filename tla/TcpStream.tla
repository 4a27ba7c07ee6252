----------------------------- MODULE TcpStream -----------------------------
(***************************************************************************)
(* What an established connection promises to whoever sends on it: a byte  *)
(* stream.  Bytes are appended, the socket takes them in that order, and   *)
(* once the socket is gone nothing more is taken.                          *)
(***************************************************************************)
EXTENDS Naturals, Sequences

VARIABLES
  pushed,     \* every byte handed to msend
  accepted,   \* the bytes the socket took
  live        \* the socket exists

streamVars == <<pushed, accepted, live>>

StreamInit == pushed = <<>> /\ accepted = <<>> /\ live = TRUE

\* Somebody appends bytes; bytes appended after the end are never taken.
Push == /\ Len(pushed') >= Len(pushed) /\ SubSeq(pushed', 1, Len(pushed)) = pushed
        /\ UNCHANGED <<accepted, live>>

\* The socket takes the next n bytes.
Transmit == /\ live
            /\ \E n \in 1..(Len(pushed) - Len(accepted)) :
                 accepted' = SubSeq(pushed, 1, Len(accepted) + n)
            /\ UNCHANGED <<pushed, live>>

\* The socket is closed for good.
End == live /\ live' = FALSE /\ UNCHANGED <<pushed, accepted>>

StreamNext == Push \/ Transmit \/ End

StreamSpec == StreamInit /\ [][StreamNext]_streamVars
=============================================================================
