------------------------------ MODULE MCPnSpace ------------------------------
(* PnSpace on a scaled-down map: the map holds one number at first, grows by *)
(* words of two bits up to six and advances four numbers after the last      *)
(* advance, so that within MaxPn packets it grows, fills, moves over missing *)
(* numbers and drops numbers off its lower edge.                             *)
EXTENDS PnSpace

CONSTANT MaxPn

MCPacketNumbers == 0 .. MaxPn
=============================================================================
