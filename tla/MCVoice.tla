-------------------------------- MODULE MCVoice --------------------------------
(* An instance of Voice for TLC: a queue of three voices, which two            *)
(* announcements overrun.                                                     *)
EXTENDS Voice

Chip   == {1, 2}
Volume == <<1, 2>>
Info   == {<<1>>, <<1, 2>>}
================================================================================
