----------------------------- MODULE MCTcpRead -----------------------------
(***************************************************************************)
(* Instances of TcpRead for TLC: bodies of 0 to 2 bytes, some of whose     *)
(* bytes look like large lengths, and one that makes its package too long  *)
(* for read_buffer.                                                        *)
(***************************************************************************)
EXTENDS TcpRead

MCBodies == {<<>>, <<9>>, <<0, 7>>, <<1, 2, 3, 0>>}
=============================================================================
