----------------------------- MODULE MCHttpPool -----------------------------
(* A small pool for TLC. *)
EXTENDS HttpPool, TLC

CONSTANTS b1, d1, d2, c1, c2, c3

MCBase == {b1}
MCDynamic == {d1, d2}
MCConn == {c1, c2, c3}
=============================================================================
