-------------------------- MODULE MCTcpConnection --------------------------
(***************************************************************************)
(* Instances of TcpConnection for TLC.                                     *)
(***************************************************************************)
EXTENDS TcpConnection, TLC

CONSTANTS
  app1, app2,
  SharedSends,     \* bounds of sends and arrivals when application threads
  SharedArrivals   \* use the connection as well

MCByte == {"x", "y"}

\* A plain message, and the argument list ("", "yx") whose first part is empty.
MCPackets == {[first |-> <<"x">>, rest |-> <<"y">>],
              [first |-> <<>>, rest |-> <<"y">>]}

MCApps == {app1, app2}
OneApp == {app1}

Symmetry == Permutations(MCApps)

MCNext == UseNext /\ (~alone => sends' <= SharedSends /\ arrivals' <= SharedArrivals)
MCSpec == UseInit /\ [][MCNext]_<<vars, alone>>
MCFairSpec == MCSpec /\ Fairness
=============================================================================
