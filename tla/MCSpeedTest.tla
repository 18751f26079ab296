---------------------------- MODULE MCSpeedTest ----------------------------
(* Three nodes and at most two tests at a time, in both modes, with fixed  *)
(* and with adaptive slots.                                                *)
EXTENDS SpeedTest
=============================================================================
