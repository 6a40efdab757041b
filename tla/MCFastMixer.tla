---------------------------- MODULE MCFastMixer ----------------------------
(* Small instances of FastMixer for TLC.                                   *)
EXTENDS FastMixer

CONSTANTS t1, t2   \* tracks

TwoTracks == {t1, t2}
=============================================================================
