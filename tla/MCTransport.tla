---------------------------- MODULE MCTransport -----------------------------
(* Two sends and a flush over two peers for TLC.                           *)
EXTENDS Transport

CONSTANTS c1, c2, f1, p1, p2

MCCalls == {c1, c2}
MCFlushers == {f1}
MCPeers == {p1, p2}
=============================================================================
