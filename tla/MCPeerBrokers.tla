---------------------------- MODULE MCPeerBrokers ----------------------------
(***************************************************************************)
(* An instance of PeerBrokers for TLC: one broker with more clients than   *)
(* workers and one with more workers than clients.                         *)
(***************************************************************************)
EXTENDS PeerBrokers, TLC

CONSTANTS b1, b2

Clients == b1 :> 2 @@ b2 :> 1

Workers == b1 :> 1 @@ b2 :> 2

=============================================================================
