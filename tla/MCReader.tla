------------------------------ MODULE MCReader ------------------------------
(* Small instances of MediaSampleReaderNDK for TLC.                        *)
EXTENDS MediaSampleReaderNDK, TLC

CONSTANTS t1, t2, t3   \* tracks

TwoTracks == {t1, t2}
ThreeTracks == {t1, t2, t3}

(* The tracks are alike: at most one of them is farthest behind. *)
TrackSymmetry == Permutations(Tracks)
=============================================================================
