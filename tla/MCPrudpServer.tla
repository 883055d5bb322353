--------------------------- MODULE MCPrudpServer ---------------------------
(***************************************************************************)
(* Instances of PrudpServer for TLC.  Two signatures suffice to have one   *)
(* client come while another goes, and to reuse a signature that is free   *)
(* again; the id space is smaller than the first id plus the logins, so    *)
(* the ids wrap around in every run.                                       *)
(***************************************************************************)
EXTENDS PrudpServer

CONSTANTS s1, s2, u1, u2, undefined

MCSignatures == {s1, s2}
MCUsers == {u1, u2}
MCPayloads == {<<"x">>}
=============================================================================
