--------------------------- MODULE MCPhoneDelivery -----------------------------
(* An instance of PhoneDelivery for TLC: two live tiles, and a phone that may *)
(* acknowledge walls without a transID.                                       *)
EXTENDS PhoneDelivery

CONSTANTS t1, t2

TwoTiles == {t1, t2}
Walls    == Group
================================================================================
