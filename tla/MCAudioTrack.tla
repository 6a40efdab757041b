---------------------------- MODULE MCAudioTrack ----------------------------
(* Small instances of AudioTrack for TLC.                                  *)
EXTENDS AudioTrack
=============================================================================
