------------------------ MODULE MediaSampleReaderNDK ------------------------
(***************************************************************************)
(* transcoder/MediaSampleReaderNDK.cpp: one extractor shared by the threads *)
(* that read the tracks, with a cursor per track and two access modes.      *)
(*                                                                         *)
(* A sample is identified by its index in the file, which stands for its    *)
(* track and timestamp (no two samples of a track share one).  Every        *)
(* operation runs under mExtractorMutex, so it is one step, except that it  *)
(* may wait on the condition variable of its track and go on in a later     *)
(* step.  The operators take and return the reader's state r.               *)
(***************************************************************************)
EXTENDS Integers, Sequences

CONSTANTS
  Tracks,         \* selected tracks
  MaxSamples,     \* bound on the number of samples in the file
  MaxSwitches     \* how often the access mode is set

NoTrack == -1

ASSUME TracksAssumption == NoTrack \notin Tracks
ASSUME BoundsAssumption == MaxSamples \in Nat /\ MaxSwitches \in Nat

VARIABLES
  file,           \* the samples of the selected tracks in file order: the track of each
  reader,         \* the reader's members, see ReaderStates
  switches,       \* how often setEnforceSequentialAccess was called
  wait,           \* track -> whether its thread waits in waitForTrack_l
  taken, answer, data,  \* what the threads have got: see MediaSampleReader
  returned        \* whether sequential access was given up again

vars == <<file, reader, switches, wait, taken, answer, data, returned>>

NoInfo == -1
End == Len(file)
Position == [index : Nat, isSet : BOOLEAN]
SampleCursor == [previous : Position, current : Position, next : Position]
ReaderStates ==
  [at : 0..End,                       \* where the AMediaExtractor is, End past the last sample
   mExtractorTrackIndex : Tracks \cup {NoTrack},
   mExtractorSampleIndex : Nat,
   mEosReached : BOOLEAN,
   mEnforceSequentialAccess : BOOLEAN,
   mTrackCursors : [Tracks -> SampleCursor],
   notified : SUBSET Tracks,          \* the tracks whose condition was signalled in this step
   ok : BOOLEAN]                      \* what the last operation returned

Set(i) == [index |-> i, isSet |-> TRUE]
Reset(p) == [p EXCEPT !.isSet = FALSE]
IsAt(r, p) == p.isSet /\ p.index = r.mExtractorSampleIndex
TrackAt(i) == IF i < End THEN file[i + 1] ELSE NoTrack

-----------------------------------------------------------------------------
(* AMediaExtractor *)
advance(r) == IF r.at + 1 < End THEN [r EXCEPT !.at = @ + 1, !.ok = TRUE]
              ELSE [r EXCEPT !.at = End, !.ok = FALSE]

-----------------------------------------------------------------------------
(* Mutated: a sample before the previous one counts as new. *)
NotedAgain(c, i) ==
  IF ~c.current.isSet THEN [c EXCEPT !.current = Set(i)]
  ELSE IF ~c.next.isSet /\ i > c.current.index THEN [c EXCEPT !.next = Set(i)]
  ELSE c

(* The track's cursor learns of the sample the extractor has come to. *)
Noted(c, i) ==
  IF i <= c.previous.index THEN c
  ELSE IF ~c.current.isSet THEN [c EXCEPT !.current = Set(i)]
  ELSE IF ~c.next.isSet /\ i > c.current.index THEN [c EXCEPT !.next = Set(i)]
  ELSE c

advanceExtractor_l(r) ==
  LET here == r.mExtractorTrackIndex
      left == [r EXCEPT !.mTrackCursors[here].next =
                          IF IsAt(r, r.mTrackCursors[here].current) THEN Reset(@) ELSE @,
                        !.mExtractorSampleIndex = @ + 1]
      moved == advance(left)
  IN  IF ~moved.ok THEN [moved EXCEPT !.mEosReached = TRUE, !.notified = Tracks]
      ELSE [moved EXCEPT
              !.mExtractorTrackIndex = TrackAt(moved.at),
              !.mTrackCursors[TrackAt(moved.at)] = Noted(@, moved.mExtractorSampleIndex)]

(* The extractor is searched for the sample from an earlier sync sample on. *)
seekExtractorBackwards_l(r, i) ==
  [r EXCEPT !.at = i, !.mEosReached = FALSE, !.mExtractorTrackIndex = TrackAt(i),
            !.mExtractorSampleIndex = i, !.ok = TRUE]

(* The extractor is at a position of track t or, with AnyTrack, of the track    *)
(* whose sample it has come to.                                               *)
AnyTrack == NoTrack
IsAtTrack(r, t, which) ==
  IsAt(r, r.mTrackCursors[IF t = AnyTrack THEN r.mExtractorTrackIndex ELSE t][which])

(* The loops over advanceExtractor_l: until the extractor is there or at the   *)
(* end, which it reaches in at most End steps.                                *)
Iterated(r, t, which) ==
  IF ~r.ok \/ IsAtTrack(r, t, which) THEN r ELSE advanceExtractor_l(r)

AdvanceTo(r, t, which) ==
  LET loop[n \in 0..End] == IF n = 0 THEN r ELSE Iterated(loop[n - 1], t, which)
  IN  loop[End]

moveToSample_l(r, t, which) ==
  LET pos == r.mTrackCursors[t][which]
  IN  AdvanceTo(IF pos.isSet /\ r.mExtractorSampleIndex > pos.index
                  THEN seekExtractorBackwards_l(r, pos.index) ELSE r, t, which)

moveToTrack_l(r, t) == moveToSample_l(r, t, "current")

-----------------------------------------------------------------------------
(* The track goes on to its next sample. *)
Shifted(r, t) ==
  LET c == r.mTrackCursors[t]
  IN  [r EXCEPT !.mTrackCursors[t] =
         [previous |-> c.current, current |-> c.next, next |-> Reset(c.next)]]

(* Mutated: the thread of the track the extractor comes to is not woken. *)
advanceTrackSilent(r, t) ==
  LET shifted == Shifted(IF r.mEnforceSequentialAccess THEN r ELSE moveToTrack_l(r, t), t)
  IN  IF r.mEnforceSequentialAccess /\ t = r.mExtractorTrackIndex
        THEN AdvanceTo(advanceExtractor_l(shifted), AnyTrack, "current")
        ELSE shifted

advanceTrack_l(r, t) ==
  LET shifted == Shifted(IF r.mEnforceSequentialAccess THEN r ELSE moveToTrack_l(r, t), t)
      moved == AdvanceTo(advanceExtractor_l(shifted), AnyTrack, "current")
  IN  IF ~(r.mEnforceSequentialAccess /\ t = r.mExtractorTrackIndex) THEN shifted
      ELSE IF moved.ok /\ moved.mExtractorTrackIndex # t
        THEN [moved EXCEPT !.notified = @ \cup {moved.mExtractorTrackIndex}]
      ELSE moved

-----------------------------------------------------------------------------
(* primeExtractorForTrack_l: the first call finds out where the extractor is. *)
Primed(r) ==
  IF r.mExtractorTrackIndex # NoTrack \/ TrackAt(r.at) = NoTrack THEN r
  ELSE [r EXCEPT !.mExtractorTrackIndex = TrackAt(r.at),
                 !.mTrackCursors[TrackAt(r.at)].current = Set(r.mExtractorSampleIndex)]

(* The condition of the loop in waitForTrack_l. *)
MustWait(r, t) ==
  /\ r.mExtractorTrackIndex # NoTrack
  /\ t # r.mExtractorTrackIndex /\ ~r.mEosReached /\ r.mEnforceSequentialAccess

(* The rest of it.  A thread that comes from waitForTrack_l looks at          *)
(* mEosReached before it looks at the access mode.                            *)
primeExtractorForTrack_l(r, t, waited) ==
  IF r.mExtractorTrackIndex = NoTrack THEN [r EXCEPT !.ok = FALSE]
  ELSE IF (r.mEnforceSequentialAccess \/ waited) /\ r.mEosReached THEN [r EXCEPT !.ok = FALSE]
  ELSE IF ~r.mEnforceSequentialAccess THEN moveToTrack_l(r, t)
  ELSE [r EXCEPT !.ok = TRUE]

(* The track that is farthest behind, and which of its positions says so. *)
LastKnown(r, t) == IF r.mTrackCursors[t].current.isSet THEN "current" ELSE "previous"
Earliest(r) ==
  LET pos(t) == r.mTrackCursors[t][LastKnown(r, t)]
      known == {t \in Tracks : pos(t).isSet}
  IN  {t \in known : \A u \in known : pos(t).index <= pos(u).index}

(* Position the extractor before sequential access is enforced. *)
Positioned(r) ==
  IF Earliest(r) = {} THEN [r EXCEPT !.ok = FALSE]
  ELSE LET t == CHOOSE t \in Earliest(r) : TRUE
           moved == moveToSample_l(r, t, LastKnown(r, t))
       IN  AdvanceTo(moved, AnyTrack, "current")

Enforced(r, enforce) ==
  IF r.mEnforceSequentialAccess /\ ~enforce
    THEN [r EXCEPT !.mEnforceSequentialAccess = FALSE, !.notified = Tracks]
  ELSE IF ~r.mEnforceSequentialAccess /\ enforce /\ r.mExtractorTrackIndex # NoTrack
    THEN LET p == Positioned(r)
         IN  [p EXCEPT !.mEnforceSequentialAccess = p.ok]
  ELSE [r EXCEPT !.mEnforceSequentialAccess = enforce]

-----------------------------------------------------------------------------
Init ==
  /\ file \in UNION {[1..n -> Tracks] : n \in 0..MaxSamples}
  /\ reader = [at |-> 0, mExtractorTrackIndex |-> NoTrack, mExtractorSampleIndex |-> 0,
               mEosReached |-> FALSE, mEnforceSequentialAccess |-> FALSE,
               mTrackCursors |-> [t \in Tracks |->
                  [previous |-> Reset(Set(0)), current |-> Reset(Set(0)), next |-> Reset(Set(0))]],
               notified |-> {}, ok |-> TRUE]
  /\ switches = 0
  /\ wait = [t \in Tracks |-> "no"]
  /\ taken = [t \in Tracks |-> NoInfo]
  /\ answer = [t \in Tracks |-> NoInfo]
  /\ data = [t \in Tracks |-> NoInfo]
  /\ returned = FALSE

(* The step of a thread ends: the reader is in state r, and the threads whose  *)
(* condition was signalled are woken.                                          *)
Unlock(r, w) ==
  /\ reader' = [r EXCEPT !.notified = {}, !.ok = TRUE]
  /\ wait' = [t \in Tracks |-> IF t \in r.notified /\ w[t] = "asleep" THEN "woken" ELSE w[t]]

Running(t) == wait[t] # "asleep" /\ answer[t] # End

waitForTrack_l(t) ==
  /\ Running(t)
  /\ MustWait(Primed(reader), t)
  /\ Unlock(Primed(reader), [wait EXCEPT ![t] = "asleep"])
  /\ UNCHANGED <<file, switches, taken, answer, data, returned>>

Proceeds(t) == Running(t) /\ ~MustWait(Primed(reader), t)
Ready(t) == primeExtractorForTrack_l(Primed(reader), t, wait[t] = "woken")

getSampleInfoForTrack(t) ==
  /\ Proceeds(t)
  /\ answer[t] = NoInfo
  /\ answer' = [answer EXCEPT ![t] = IF Ready(t).ok THEN Ready(t).at ELSE End]
  /\ Unlock(Ready(t), [wait EXCEPT ![t] = "no"])
  /\ UNCHANGED <<file, switches, taken, data, returned>>

readSampleDataForTrack(t) ==
  /\ Proceeds(t)
  /\ answer[t] # NoInfo
  /\ IF Ready(t).ok
       THEN /\ data' = [data EXCEPT ![t] = Ready(t).at]
            /\ answer' = [answer EXCEPT ![t] = NoInfo]
            /\ taken' = [taken EXCEPT ![t] = answer[t]]
            /\ Unlock(advanceTrack_l(Ready(t), t), [wait EXCEPT ![t] = "no"])
       ELSE /\ answer' = [answer EXCEPT ![t] = End]
            /\ Unlock(Ready(t), [wait EXCEPT ![t] = "no"])
            /\ UNCHANGED <<taken, data>>
  /\ UNCHANGED <<file, switches, returned>>

advanceTrack(t) ==
  /\ Running(t) /\ wait[t] = "no"
  /\ answer[t] # NoInfo
  /\ answer' = [answer EXCEPT ![t] = NoInfo]
  /\ taken' = [taken EXCEPT ![t] = answer[t]]
  /\ Unlock(advanceTrack_l(reader, t), wait)
  /\ UNCHANGED <<file, switches, data, returned>>

setEnforceSequentialAccess(enforce) ==
  /\ switches < MaxSwitches
  /\ switches' = switches + 1
  /\ returned' = (returned \/ (reader.mEnforceSequentialAccess /\ ~enforce))
  /\ Unlock(Enforced(reader, enforce), wait)
  /\ UNCHANGED <<file, taken, answer, data>>

Next ==
  \/ \E t \in Tracks : \/ waitForTrack_l(t)
                       \/ getSampleInfoForTrack(t)
                       \/ readSampleDataForTrack(t)
                       \/ advanceTrack(t)
  \/ \E enforce \in BOOLEAN : setEnforceSequentialAccess(enforce)

Spec == Init /\ [][Next]_vars

-----------------------------------------------------------------------------
(* The reader and the threads have their types. *)
TypeOK ==
  /\ reader \in ReaderStates
  /\ wait \in [Tracks -> {"no", "asleep", "woken"}]
  /\ answer \in [Tracks -> {NoInfo} \cup 0..End]
  /\ data \in [Tracks -> {NoInfo} \cup 0..End]

Promise == INSTANCE MediaSampleReader WITH
             file <- file, taken <- taken, answer <- answer, data <- data, returned <- returned

(* However often the access mode is set, and whenever, the reader keeps the    *)
(* promises of MediaSampleReader: no sample is repeated, left out or taken for  *)
(* one of another track, what is read is what getSampleInfoForTrack announced,  *)
(* and until sequential access is given up every track is read to its end.      *)
Implements == Promise!Spec

(* "AMEDIA_ERROR_END_OF_STREAM if there are no more samples to read from the   *)
(* track": a thread that is told so has taken every sample of its track.  Once *)
(* sequential access was given up this may fail, see MediaSampleReader.        *)
EndIsTheEnd == \A t \in Tracks : answer[t] = End => Promise!Left(t) = {}

(* "Samples for selected tracks must be accessed on its own thread to avoid    *)
(* blocking other tracks": then the reader blocks nobody for good.  As long as *)
(* a track is not at its end, some thread is not asleep in waitForTrack_l;     *)
(* unless a thread was told the end of the stream too early, for which the     *)
(* others wait when sequential access is enforced again.                       *)
SomeoneReads ==
  EndIsTheEnd => (\A t \in Tracks : answer[t] = End) \/ \E t \in Tracks : Running(t)
=============================================================================
