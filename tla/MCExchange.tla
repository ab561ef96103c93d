----------------------------- MODULE MCExchange -----------------------------
(* Exchange for TLC: two operations of the client, one after the other.    *)
EXTENDS Exchange

MCConns == 1 .. 2

MCUnits == PacketPiece
=============================================================================
