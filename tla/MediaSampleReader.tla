------------------------- MODULE MediaSampleReader --------------------------
(***************************************************************************)
(* What transcoder/include/media/MediaSampleReader.h promises to the       *)
(* threads that read the tracks of a file: each track is read sample by    *)
(* sample, in order, whatever the other tracks do and in whichever access  *)
(* mode, the data read belongs to the information given before, and the end *)
(* of stream is reported when the track has no sample left.  Once sequential *)
(* access was enforced and given up again, the promise is weaker: an end of  *)
(* stream may come too early, and nothing is read after it.                 *)
(***************************************************************************)
EXTENDS Integers, Sequences

CONSTANTS
  Tracks,      \* selected tracks
  MaxSamples   \* bound on the number of samples in the file

VARIABLES
  file,     \* the samples of the selected tracks in file order: the track of each
  taken,    \* track -> the sample of it last read or skipped
  answer,   \* track -> what getSampleInfoForTrack told its thread
  data,     \* track -> the sample readSampleDataForTrack last read
  returned  \* whether sequential access was given up again

readerVars == <<file, taken, answer, data, returned>>

NoInfo == -1
EndOfStream == Len(file)

(* The samples of a track, as indices in the file from 0, that are left. *)
Left(t) == {i \in 0..(EndOfStream - 1) : taken[t] < i /\ file[i + 1] = t}

Files == UNION {[1..n -> Tracks] : n \in 0..MaxSamples}

Init ==
  /\ file \in Files
  /\ taken = [t \in Tracks |-> NoInfo]
  /\ answer = [t \in Tracks |-> NoInfo]
  /\ data = [t \in Tracks |-> NoInfo]
  /\ returned = FALSE

(* getSampleInfoForTrack: the next sample, or the end of the stream. *)
info(t) ==
  /\ answer[t] = NoInfo
  /\ \/ \E i \in Left(t) : /\ \A j \in Left(t) : i <= j
                             /\ answer' = [answer EXCEPT ![t] = i]
     \/ (Left(t) = {} \/ returned) /\ answer' = [answer EXCEPT ![t] = EndOfStream]
  /\ UNCHANGED <<file, taken, data, returned>>

(* readSampleDataForTrack: the sample of the last answer. *)
read(t) ==
  /\ answer[t] \notin {NoInfo, EndOfStream}
  /\ data' = [data EXCEPT ![t] = answer[t]]
  /\ answer' = [answer EXCEPT ![t] = NoInfo]
  /\ taken' = [taken EXCEPT ![t] = answer[t]]
  /\ UNCHANGED <<file, returned>>

(* The same when it finds the end of the stream instead. *)
readNothing(t) ==
  /\ returned
  /\ answer[t] \notin {NoInfo, EndOfStream}
  /\ answer' = [answer EXCEPT ![t] = EndOfStream]
  /\ UNCHANGED <<file, taken, data, returned>>

(* advanceTrack: that sample is skipped. *)
skip(t) ==
  /\ answer[t] \notin {NoInfo, EndOfStream}
  /\ answer' = [answer EXCEPT ![t] = NoInfo]
  /\ taken' = [taken EXCEPT ![t] = answer[t]]
  /\ UNCHANGED <<file, data, returned>>

(* setEnforceSequentialAccess(false) when it was enforced. *)
giveUpSequentialAccess ==
  /\ returned' = TRUE
  /\ UNCHANGED <<file, taken, answer, data>>

Next ==
  \/ \E t \in Tracks : info(t) \/ read(t) \/ readNothing(t) \/ skip(t)
  \/ giveUpSequentialAccess
Spec == Init /\ [][Next]_readerVars
=============================================================================
