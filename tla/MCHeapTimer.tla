---------------------------- MODULE MCHeapTimer ----------------------------
(***************************************************************************)
(* Instances of HeapTimer for TLC.                                         *)
(***************************************************************************)
EXTENDS HeapTimer

CONSTANT app1

MCDeployments == {{}, {app1}}
=============================================================================
