---------------------------- MODULE MCTableReader ------------------------------
(* Instances of TableReader for TLC: two decks of tiles with one face, or with *)
(* the two faces whose numbers the phone swaps.                                *)
EXTENDS TableReader

CONSTANTS green, red

SoleDeck  == {green}
TwoDecks  == {green, red}
OneFace   == {"Bamboo"}
BothWinds == {kMahjongNorth, kMahjongSouth}
================================================================================
