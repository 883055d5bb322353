---------------------------- MODULE MCHostedGames ----------------------------
(***************************************************************************)
(* Instances of HostedGames for TLC: two players, possibly both            *)
(* connections to the secure service those of one of them, and few games.  *)
(***************************************************************************)
EXTENDS HostedGames

CONSTANTS foo, sam, a1, s1, s2

MCUsers == {foo, sam}
MCAuthConnections == {a1}
MCSecureConnections == {s1, s2}
=============================================================================
