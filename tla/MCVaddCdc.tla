------------------------------ MODULE MCVaddCdc ------------------------------
(* Constants for TLC: see MCVaddCdcPaired.cfg and MCVaddCdcShared.cfg.       *)
EXTENDS VaddCdc

CONSTANT PacketWords
\* Channel 1's packets are longer than channel 0's.
Packets == [c \in Channels |-> PacketWords + c]
=============================================================================
