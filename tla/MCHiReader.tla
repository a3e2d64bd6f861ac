------------------------------ MODULE MCHiReader -------------------------------
(* Instances of HiReader for TLC: two tiles.                                   *)
EXTENDS HiReader

CONSTANTS t1, t2

TwoTiles == {t1, t2}
================================================================================
