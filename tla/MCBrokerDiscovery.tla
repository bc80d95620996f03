------------------------- MODULE MCBrokerDiscovery -------------------------
(***************************************************************************)
(* An instance of BrokerDiscovery for TLC.                                 *)
(***************************************************************************)
EXTENDS BrokerDiscovery

CONSTANTS w1, w2, w3
=============================================================================
