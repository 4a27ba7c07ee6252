---------------------------- MODULE MCTcpServer ----------------------------
(***************************************************************************)
(* Instances of TcpServer for TLC.                                         *)
(***************************************************************************)
EXTENDS TcpServer

CONSTANTS w1, w2

MCDeployments == {<<>>, <<w1, w2>>}
=============================================================================
