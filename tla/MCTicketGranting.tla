-------------------------- MODULE MCTicketGranting --------------------------
(***************************************************************************)
(* Instances of TicketGranting for TLC: an account with a plaintext        *)
(* password and one without, and calls of one client that overlap.         *)
(***************************************************************************)
EXTENDS TicketGranting, TLC

CONSTANTS tracking, sam, c1, c2, k1, k2, undefined

MCUsers == {tracking, sam}
MCPlainUsers == {tracking}
MCConnections == {c1, c2}
MCCalls == {k1, k2}
NobodyPlain == {}
OneUser == {sam}

\* connections and calls are interchangeable
MCSymmetry == Permutations(MCConnections) \union Permutations(MCCalls)
=============================================================================
