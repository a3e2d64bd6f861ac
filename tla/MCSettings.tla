------------------------------ MODULE MCSettings -------------------------------
(* An instance of PhoneCommands for TLC: three wall sizes, one of them out of  *)
(* range.                                                                      *)
EXTENDS PhoneCommands

W34 == <<34, 34, 34, 34>>
W26 == <<28, 26, 28, 26>>
W50 == <<50, 50, 50, 50>>

AllCounts == {W34, W26, W50}
InRange   == {W34, W26}
================================================================================
