------------------------- MODULE MC_BlkMqRequest -------------------------
(* Instances of BlkMqRequest for TLC. *)
EXTENDS BlkMqRequest

CONSTANTS r1, r2, g1

NoRq == {}
OneRq == {r1}
TwoRqs == {r1, r2}
OneTag == {g1}
=============================================================================
