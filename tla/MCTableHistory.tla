--------------------------- MODULE MCTableHistory ---------------------------
(* A small table with the payments recorded, for TLC. *)
EXTENDS TableHistory, PacketContents

MCAmounts   == -1 .. 4
MCStrengths == 1 .. 2

=============================================================================
