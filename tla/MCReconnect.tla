---------------------------- MODULE MCReconnect ----------------------------
(***************************************************************************)
(* Instances of the clients and the daemon for TLC.                        *)
(***************************************************************************)
EXTENDS ReconnectProperties

CONSTANTS c1, c2

OneClient  == {c1}
TwoClients == {c1, c2}
=============================================================================
