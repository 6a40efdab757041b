---------------------------- MODULE MCTranscoder ----------------------------
(* Instances of MediaTranscoder for TLC: one passthrough and one video track. *)
EXTENDS MediaTranscoder

CONSTANTS audio, video

MCTracks == {audio, video}
MCVideo == {video}
=============================================================================
