---------------------------- MODULE ReaderProofs ----------------------------
(***************************************************************************)
(* The reader implements independent in-order reads and does not leave all *)
(* its threads asleep, for every set of tracks, every file and any number  *)
(* of switches of the access mode.                                         *)
(***************************************************************************)
EXTENDS MediaSampleReaderNDK, WellFoundedInduction, TLAPS

(***************************************************************************)
(* i is a sample of track t; no sample of t lies strictly between a and b. *)
(***************************************************************************)
Sample(t, i) == i \in 0..(End - 1) /\ file[i + 1] = t

Gap(t, a, b) == \A i \in 0..(End - 1) : a < i /\ i < b => file[i + 1] # t

(***************************************************************************)
(* The reader knows where the extractor is.                                *)
(***************************************************************************)
PositionOK(r) ==
  /\ r.mExtractorTrackIndex \in Tracks /\ End > 0
  /\ r.mEosReached => r.at = End /\ r.mExtractorSampleIndex >= End
  /\ ~r.mEosReached => /\ r.at < End /\ r.mExtractorSampleIndex = r.at
                       /\ r.mExtractorTrackIndex = file[r.at + 1]

(***************************************************************************)
(* The cursor c of track t when p is the last sample taken of it and the   *)
(* extractor is at `at': previous is p, current and next are the two       *)
(* samples after p, and one that is not set lies ahead of the extractor.   *)
(***************************************************************************)
CursorOK(c, t, p, at) ==
  /\ c.previous = IF p = NoInfo THEN Reset(Set(0)) ELSE Set(p)
  /\ c.current.isSet => /\ Sample(t, c.current.index) /\ p < c.current.index
                        /\ Gap(t, p, c.current.index)
  /\ c.next.isSet => /\ c.current.isSet /\ Sample(t, c.next.index)
                     /\ c.current.index < c.next.index
                     /\ Gap(t, c.current.index, c.next.index)
  /\ c.current.isSet /\ ~c.next.isSet => Gap(t, c.current.index, at + 1)
  /\ ~c.current.isSet => Gap(t, p, at + 1)

(***************************************************************************)
(* A track of which no sample was seen has none before a position known    *)
(* of another track.                                                       *)
(***************************************************************************)
UnseenOK(cursors, p) ==
  \A u, v \in Tracks : p[u] = NoInfo /\ ~cursors[u].current.isSet =>
    /\ Gap(u, NoInfo, p[v] + 1)
    /\ cursors[v].current.isSet => Gap(u, NoInfo, cursors[v].current.index + 1)
    /\ cursors[v].next.isSet => Gap(u, NoInfo, cursors[v].next.index + 1)

Good(r, p) ==
  /\ r \in ReaderStates
  /\ PositionOK(r)
  /\ \A t \in Tracks : CursorOK(r.mTrackCursors[t], t, p[t], r.at)
  /\ UnseenOK(r.mTrackCursors, p)

(***************************************************************************)
(* In sequential access the extractor is at the sample its track wants,    *)
(* and has passed no sample another one wants.                             *)
(***************************************************************************)
NotPassed(r) ==
  \A t \in Tracks : r.mTrackCursors[t].current.isSet => r.at <= r.mTrackCursors[t].current.index

InSequence(r) ==
  r.mEnforceSequentialAccess =>
    NotPassed(r) /\ (~r.mEosReached => IsAtTrack(r, AnyTrack, "current"))

(***************************************************************************)
(* Nothing was read yet.                                                   *)
(***************************************************************************)
Unset == Reset(Set(0))
Fresh ==
  /\ reader \in ReaderStates
  /\ reader.at = 0 /\ reader.mExtractorSampleIndex = 0 /\ ~reader.mEosReached
  /\ reader.mTrackCursors = [t \in Tracks |->
                               [previous |-> Unset, current |-> Unset, next |-> Unset]]
  /\ \A t \in Tracks : taken[t] = NoInfo
  /\ \A t \in Tracks : answer[t] = NoInfo \/ (answer[t] = End /\ End = 0)

ReaderInv ==
  /\ file \in Seq(Tracks)
  /\ wait \in [Tracks -> {"no", "asleep", "woken"}]
  /\ taken \in [Tracks -> {NoInfo} \cup 0..(End - 1)]
  /\ answer \in [Tracks -> {NoInfo} \cup 0..End]
  /\ data \in [Tracks -> {NoInfo} \cup 0..End]
  /\ returned \in BOOLEAN
  /\ reader.notified = {} /\ reader.ok = TRUE
  /\ reader.mExtractorTrackIndex = NoTrack => Fresh
  /\ reader.mExtractorTrackIndex # NoTrack => Good(reader, taken) /\ InSequence(reader)
  /\ \A t \in Tracks : answer[t] \notin {NoInfo, End} =>
       reader.mTrackCursors[t].current = Set(answer[t])
  /\ ~returned => \A t \in Tracks : answer[t] = End => Gap(t, taken[t], End)
  /\ \A t \in Tracks : wait[t] = "asleep" =>
       /\ reader.mEnforceSequentialAccess /\ ~reader.mEosReached
       /\ reader.mExtractorTrackIndex \notin {NoTrack, t}
  /\ \A t \in Tracks : wait[t] = "woken" => reader.mEnforceSequentialAccess \/ returned

-----------------------------------------------------------------------------
(* Loops                                                                     *)

(***************************************************************************)
(* A set of naturals has a least element.                                  *)
(***************************************************************************)
LEMMA LeastExists ==
  ASSUME NEW T, T \subseteq Nat, T # {}
  PROVE  \E n \in T : \A m \in T : n <= m
<1>1. PICK n \in T : \A m \in T : ~(<<m, n>> \in OpToRel(<, Nat))
  BY NatLessThanWellFounded, WFMin, Zenon
<1>2. \A m \in T : ~(m < n)
  BY <1>1, Zenon DEF OpToRel
<1> QED
  BY <1>2

(***************************************************************************)
(* What holds before a loop of N iterations and is kept by each of them    *)
(* holds after every one.                                                  *)
(***************************************************************************)
LEMMA LoopInvariant ==
  ASSUME NEW N \in Nat, NEW f, NEW S, f[0] \in S,
         \A n \in 0..(N - 1) : f[n] \in S => f[n + 1] \in S
  PROVE  \A n \in 0..N : f[n] \in S
<1> DEFINE T == {n \in 0..N : f[n] \notin S}
<1> SUFFICES ASSUME T # {} PROVE FALSE
  BY Zenon
<1>1. PICK n \in T : \A m \in T : n <= m
  <2>1. T \subseteq Nat
    OBVIOUS
  <2> QED
    BY <2>1, LeastExists, Zenon
<1>2. n # 0 /\ n - 1 \in 0..(N - 1) /\ n - 1 \in 0..N /\ n = (n - 1) + 1
  BY <1>1
<1>3. n - 1 \notin T
  BY <1>1, <1>2
<1> QED
  BY <1>1, <1>2, <1>3, Zenon

(***************************************************************************)
(* The loop of AdvanceTo is a sequence of iterations.                      *)
(***************************************************************************)
IsLoop(loop, r, t, which) ==
  /\ loop[0] = r
  /\ \A n \in 0..(End - 1) : loop[n + 1] = Iterated(loop[n], t, which)
  /\ AdvanceTo(r, t, which) = loop[End]

(***************************************************************************)
(* AdvanceTo is such a loop.                                               *)
(***************************************************************************)
LEMMA LoopUnfolds ==
  ASSUME NEW r, NEW t, NEW which, End \in Nat
  PROVE  \E loop : IsLoop(loop, r, t, which)
<1> DEFINE body(f, n) == IF n = 0 THEN r ELSE Iterated(f[n - 1], t, which)
           isLoop(k, f) == f = [n \in 0..k |-> body(f, n)]
           T == {k \in 0..End : ~\E f : isLoop(k, f)}
<1>1. T = {}
  <2> SUFFICES ASSUME T # {} PROVE FALSE
    BY Zenon
  <2>1. PICK k \in T : \A m \in T : k <= m
    <3>1. T \subseteq Nat
      BY Zenon, SMT
    <3> QED
      BY <3>1, LeastExists, Zenon
  <2>2. k # 0
    <3>1. isLoop(0, [n \in 0..0 |-> r])
      OBVIOUS
    <3> QED
      BY <2>1, <3>1, Zenon
  <2>3. k - 1 \in 0..End /\ k - 1 \notin T
    BY <2>1, <2>2
  <2>4. PICK g : isLoop(k - 1, g)
    BY <2>3, Zenon
  <2> DEFINE f == [n \in 0..k |-> IF n = k THEN Iterated(g[k - 1], t, which) ELSE g[n]]
  <2>5. isLoop(k, f)
    <3>1. k \in Nat /\ k >= 1
      BY <2>1, <2>2
    <3>2. ASSUME NEW n \in 0..k PROVE f[n] = body(f, n)
      <4>1. CASE n = k
        BY <3>1, <4>1
      <4>2. CASE n # k
        <5>1. n \in 0..(k - 1) /\ g[n] = body(g, n)
          BY <2>4, <3>1, <4>2
        <5>2. n # 0 => f[n - 1] = g[n - 1]
          BY <3>1, <4>2
        <5> QED
          BY <4>2, <5>1, <5>2, Zenon
      <4> QED
        BY <4>1, <4>2, Zenon
    <3> QED
      BY <3>2, Zenon
  <2> QED
    BY <2>1, <2>5, Zenon
<1>2. PICK loop : isLoop(End, loop) /\ AdvanceTo(r, t, which) = loop[End]
  <2>1. \E f : isLoop(End, f)
    BY <1>1
  <2> QED
    BY <2>1, Zenon DEF AdvanceTo
<1>3. loop[0] = r
  BY <1>2
<1>4. ASSUME NEW n \in 0..(End - 1) PROVE loop[n + 1] = Iterated(loop[n], t, which)
  <2>1. n + 1 \in 0..End /\ n + 1 # 0 /\ (n + 1) - 1 = n
    OBVIOUS
  <2> QED
    BY <1>2, <2>1, Zenon
<1> QED
  BY <1>2, <1>3, <1>4, Zenon DEF IsLoop

-----------------------------------------------------------------------------
(* One step of the extractor                                                 *)

(***************************************************************************)
(* The file's samples are of selected tracks, and NoTrack is none.         *)
(***************************************************************************)
LEMMA FileFacts ==
  ASSUME file \in Seq(Tracks)
  PROVE  /\ End \in Nat /\ NoTrack \notin Tracks
         /\ \A i \in 0..(End - 1) : file[i + 1] \in Tracks /\ TrackAt(i) = file[i + 1]
BY TracksAssumption DEF End, NoTrack, TrackAt

(***************************************************************************)
(* The cursor of track t when the extractor leaves, and when it arrives.   *)
(***************************************************************************)
LeftCursor(r, t) ==
  IF t = r.mExtractorTrackIndex /\ IsAt(r, r.mTrackCursors[t].current)
    THEN [r.mTrackCursors[t] EXCEPT !.next = Reset(@)] ELSE r.mTrackCursors[t]

ArrivedCursor(r, t) ==
  IF t = TrackAt(r.at + 1) THEN Noted(LeftCursor(r, t), r.mExtractorSampleIndex + 1)
                           ELSE LeftCursor(r, t)

(***************************************************************************)
(* What advanceExtractor_l returns, member by member.                      *)
(***************************************************************************)
LEMMA AdvanceMembers ==
  ASSUME file \in Seq(Tracks), NEW r \in ReaderStates, r.mExtractorTrackIndex \in Tracks
  PROVE  LET x == advanceExtractor_l(r)
         IN  /\ x \in ReaderStates
             /\ x.mEnforceSequentialAccess = r.mEnforceSequentialAccess
             /\ x.mExtractorSampleIndex = r.mExtractorSampleIndex + 1
             /\ r.at + 1 < End => /\ x.at = r.at + 1 /\ x.ok = TRUE
                                  /\ x.mExtractorTrackIndex = file[r.at + 2]
                                  /\ x.mEosReached = r.mEosReached
                                  /\ x.notified = r.notified
                                  /\ x.mTrackCursors = [t \in Tracks |-> ArrivedCursor(r, t)]
             /\ ~(r.at + 1 < End) => /\ x.at = End /\ x.ok = FALSE
                                     /\ x.mExtractorTrackIndex = r.mExtractorTrackIndex
                                     /\ x.mEosReached = TRUE /\ x.notified = Tracks
                                     /\ x.mTrackCursors = [t \in Tracks |-> LeftCursor(r, t)]
<1> DEFINE here == r.mExtractorTrackIndex
           left == [r EXCEPT !.mTrackCursors[here].next =
                               IF IsAt(r, r.mTrackCursors[here].current) THEN Reset(@) ELSE @,
                             !.mExtractorSampleIndex = @ + 1]
           cursors == [t \in Tracks |-> LeftCursor(r, t)]
           x == advanceExtractor_l(r)
<1>0. /\ End \in Nat /\ r.at \in 0..End /\ r.mExtractorSampleIndex \in Nat
      /\ \A t \in Tracks : r.mTrackCursors[t] \in SampleCursor
  BY FileFacts DEF ReaderStates
<1>1. cursors \in [Tracks -> SampleCursor]
  BY <1>0 DEF LeftCursor, SampleCursor, Position, Reset
<1>2. left = [r EXCEPT !.mTrackCursors = cursors, !.mExtractorSampleIndex = r.mExtractorSampleIndex + 1]
  <2>1. [r.mTrackCursors EXCEPT ![here] =
           [r.mTrackCursors[here] EXCEPT !.next =
              IF IsAt(r, r.mTrackCursors[here].current) THEN Reset(r.mTrackCursors[here].next)
                ELSE r.mTrackCursors[here].next]] = cursors
    BY <1>0 DEF LeftCursor, ReaderStates, SampleCursor
  <2> QED
    BY <2>1, Zenon
<1>9. cursors = [t \in Tracks |-> LeftCursor(r, t)]
  OBVIOUS
<1> HIDE DEF cursors
<1> DEFINE gone == [r EXCEPT !.mTrackCursors = cursors,
                             !.mExtractorSampleIndex = r.mExtractorSampleIndex + 1]
<1>6. gone = [r EXCEPT !.mTrackCursors = cursors,
                       !.mExtractorSampleIndex = r.mExtractorSampleIndex + 1]
  OBVIOUS
<1>7. left = gone
  BY <1>2, <1>9, Zenon
<1> HIDE DEF gone, left
<1>3. /\ gone \in ReaderStates /\ gone.at = r.at /\ gone.mTrackCursors = cursors
      /\ gone.mExtractorSampleIndex = r.mExtractorSampleIndex + 1
      /\ gone.mExtractorTrackIndex = r.mExtractorTrackIndex
      /\ gone.mEosReached = r.mEosReached /\ gone.notified = r.notified
      /\ gone.mEnforceSequentialAccess = r.mEnforceSequentialAccess
  <2>1. gone = [at |-> r.at, mExtractorTrackIndex |-> r.mExtractorTrackIndex,
                mExtractorSampleIndex |-> r.mExtractorSampleIndex + 1,
                mEosReached |-> r.mEosReached, mEnforceSequentialAccess |-> r.mEnforceSequentialAccess,
                mTrackCursors |-> cursors, notified |-> r.notified, ok |-> r.ok]
    BY <1>6 DEF ReaderStates
  <2>2. gone \in ReaderStates
    BY <1>0, <1>1, <2>1 DEF ReaderStates
  <2> QED
    BY <2>1, <2>2
<1>4. CASE r.at + 1 < End
  <2>1. TrackAt(r.at + 1) = file[r.at + 2] /\ file[r.at + 2] \in Tracks
    BY <1>0, <1>4, FileFacts
  <2> DEFINE arrived == [cursors EXCEPT ![TrackAt(r.at + 1)] =
                           Noted(cursors[TrackAt(r.at + 1)], r.mExtractorSampleIndex + 1)]
  <2>2. arrived = [t \in Tracks |-> ArrivedCursor(r, t)]
    BY <1>9, <2>1 DEF ArrivedCursor
  <2>3. arrived \in [Tracks -> SampleCursor]
    <3>1. \A c \in SampleCursor : \A i \in Nat : Noted(c, i) \in SampleCursor
      BY DEF Noted, SampleCursor, Position, Set
    <3>2. Noted(cursors[TrackAt(r.at + 1)], r.mExtractorSampleIndex + 1) \in SampleCursor
      BY <1>0, <1>1, <2>1, <3>1
    <3> QED
      BY <1>1, <3>2
  <2> HIDE DEF arrived
  <2>4. x = [gone EXCEPT !.at = r.at + 1, !.ok = TRUE, !.mExtractorTrackIndex = TrackAt(r.at + 1),
                         !.mTrackCursors = arrived]
    <3>1. advance(gone) = [gone EXCEPT !.at = r.at + 1, !.ok = TRUE]
      BY <1>3, <1>4, Zenon DEF advance
    <3> DEFINE moved == advance(gone)
    <3>2. moved = [gone EXCEPT !.at = r.at + 1, !.ok = TRUE]
      BY <3>1, Zenon
    <3>3. x = IF ~moved.ok THEN [moved EXCEPT !.mEosReached = TRUE, !.notified = Tracks]
              ELSE [moved EXCEPT
                      !.mExtractorTrackIndex = TrackAt(moved.at),
                      !.mTrackCursors[TrackAt(moved.at)] = Noted(@, moved.mExtractorSampleIndex)]
      BY <1>7, Zenon DEF advanceExtractor_l, left
    <3> HIDE DEF moved
    <3>4. /\ moved.ok = TRUE /\ moved.at = r.at + 1 /\ moved.mTrackCursors = cursors
          /\ moved.mExtractorSampleIndex = r.mExtractorSampleIndex + 1
      BY <1>3, <3>2 DEF ReaderStates
    <3>5. x = [moved EXCEPT !.mExtractorTrackIndex = TrackAt(r.at + 1), !.mTrackCursors = arrived]
      BY <3>3, <3>4, Zenon DEF arrived
    <3> HIDE DEF x
    <3> QED
      BY <1>3, <3>2, <3>5 DEF ReaderStates
  <2>5. TrackAt(r.at + 1) \in Tracks
    BY <2>1
  <2> HIDE DEF x
  <2>6. /\ x \in ReaderStates /\ x.at = r.at + 1 /\ x.ok = TRUE
        /\ x.mExtractorTrackIndex = TrackAt(r.at + 1) /\ x.mTrackCursors = arrived
        /\ x.mExtractorSampleIndex = r.mExtractorSampleIndex + 1
        /\ x.mEosReached = r.mEosReached /\ x.notified = r.notified
        /\ x.mEnforceSequentialAccess = r.mEnforceSequentialAccess
    <3>1. x = [at |-> r.at + 1, mExtractorTrackIndex |-> TrackAt(r.at + 1),
               mExtractorSampleIndex |-> gone.mExtractorSampleIndex,
               mEosReached |-> gone.mEosReached,
               mEnforceSequentialAccess |-> gone.mEnforceSequentialAccess,
               mTrackCursors |-> arrived, notified |-> gone.notified, ok |-> TRUE]
      BY <1>3, <2>4 DEF ReaderStates
    <3>2. x \in ReaderStates
      BY <1>0, <1>3, <1>4, <2>3, <2>5, <3>1 DEF ReaderStates
    <3> QED
      BY <1>3, <3>1, <3>2
  <2> QED
    BY <1>4, <2>1, <2>2, <2>6 DEF x
<1>5. CASE ~(r.at + 1 < End)
  <2> DEFINE moved == advance(gone)
  <2>1. moved = [gone EXCEPT !.at = End, !.ok = FALSE]
    BY <1>3, <1>5, Zenon DEF advance
  <2>2. x = IF ~moved.ok THEN [moved EXCEPT !.mEosReached = TRUE, !.notified = Tracks]
            ELSE [moved EXCEPT
                    !.mExtractorTrackIndex = TrackAt(moved.at),
                    !.mTrackCursors[TrackAt(moved.at)] = Noted(@, moved.mExtractorSampleIndex)]
    BY <1>7, Zenon DEF advanceExtractor_l, left
  <2> HIDE DEF moved
  <2>3. /\ moved \in ReaderStates /\ moved.ok = FALSE /\ moved.at = End
        /\ moved.mTrackCursors = cursors
        /\ moved.mExtractorSampleIndex = r.mExtractorSampleIndex + 1
        /\ moved.mExtractorTrackIndex = r.mExtractorTrackIndex
        /\ moved.mEnforceSequentialAccess = r.mEnforceSequentialAccess
    <3>1. moved = [at |-> End, mExtractorTrackIndex |-> gone.mExtractorTrackIndex,
                   mExtractorSampleIndex |-> gone.mExtractorSampleIndex,
                   mEosReached |-> gone.mEosReached,
                   mEnforceSequentialAccess |-> gone.mEnforceSequentialAccess,
                   mTrackCursors |-> gone.mTrackCursors, notified |-> gone.notified, ok |-> FALSE]
      BY <1>3, <2>1 DEF ReaderStates
    <3>2. moved \in ReaderStates
      BY <1>0, <1>3, <3>1 DEF ReaderStates
    <3> QED
      BY <1>3, <3>1, <3>2
  <2>4. x = [moved EXCEPT !.mEosReached = TRUE, !.notified = Tracks]
    BY <2>2, <2>3, Zenon
  <2> HIDE DEF x
  <2>5. /\ x \in ReaderStates /\ x.ok = FALSE /\ x.at = End /\ x.mTrackCursors = cursors
        /\ x.mExtractorSampleIndex = r.mExtractorSampleIndex + 1
        /\ x.mExtractorTrackIndex = r.mExtractorTrackIndex
        /\ x.mEnforceSequentialAccess = r.mEnforceSequentialAccess
        /\ x.mEosReached = TRUE /\ x.notified = Tracks
    BY <2>3, <2>4 DEF ReaderStates
  <2> QED
    BY <1>5, <1>9, <2>5 DEF x
<1> QED
  BY <1>4, <1>5, Zenon

(***************************************************************************)
(* What the reader has taken, track by track.                              *)
(***************************************************************************)
Takens == [Tracks -> {NoInfo} \cup 0..(End - 1)]

(***************************************************************************)
(* A cursor stays right when the extractor leaves: next is forgotten only  *)
(* where the extractor is at current, and nothing is behind its back.      *)
(***************************************************************************)
LEMMA LeavingKeepsCursor ==
  ASSUME file \in Seq(Tracks), NEW r, NEW p \in Takens, Good(r, p), NEW t \in Tracks
  PROVE  LET c == LeftCursor(r, t)
         IN  /\ c \in SampleCursor /\ CursorOK(c, t, p[t], r.at)
             /\ c.previous = r.mTrackCursors[t].previous
             /\ c.current = r.mTrackCursors[t].current
             /\ c.next.isSet => c.next = r.mTrackCursors[t].next
<1> DEFINE o == r.mTrackCursors[t]
           c == LeftCursor(r, t)
<1>1. /\ End \in Nat /\ r.at \in 0..End /\ r.mExtractorSampleIndex \in Nat /\ o \in SampleCursor
      /\ r.mEosReached \in BOOLEAN
  BY FileFacts DEF Good, ReaderStates
<1>2. CursorOK(o, t, p[t], r.at) /\ PositionOK(r)
  BY Zenon DEF Good
<1>3. CASE t = r.mExtractorTrackIndex /\ IsAt(r, o.current)
  <2>1. c = [o EXCEPT !.next = Reset(@)]
    BY <1>3, Zenon DEF LeftCursor
  <2> HIDE DEF c
  <2>2. /\ c \in SampleCursor /\ c.previous = o.previous /\ c.current = o.current
        /\ c.next.isSet = FALSE
    BY <1>1, <2>1 DEF SampleCursor, Position, Reset
  <2>3. o.current.isSet /\ o.current.index = r.at
    <3>1. o.current.isSet /\ o.current.index = r.mExtractorSampleIndex
      BY <1>3, Zenon DEF IsAt
    <3>2. o.current.index \in 0..(End - 1)
      BY <1>2, <3>1, Zenon DEF CursorOK, Sample
    <3> QED
      BY <1>1, <1>2, <3>1, <3>2 DEF PositionOK
  <2>4. Gap(t, c.current.index, r.at + 1)
    BY <1>1, <2>2, <2>3 DEF Gap
  <2>5. CursorOK(c, t, p[t], r.at)
    BY <1>2, <2>2, <2>3, <2>4, Zenon DEF CursorOK
  <2> QED
    BY <2>2, <2>5, Zenon DEF c
<1>4. CASE ~(t = r.mExtractorTrackIndex /\ IsAt(r, o.current))
  <2>1. c = o
    BY <1>4, Zenon DEF LeftCursor
  <2> QED
    BY <1>1, <1>2, <2>1, Zenon
<1> QED
  BY <1>3, <1>4, Zenon

(***************************************************************************)
(* A cursor stays right when the extractor arrives at the next sample:     *)
(* the sample becomes current or next exactly where it has to.             *)
(***************************************************************************)
LEMMA ArrivingKeepsCursor ==
  ASSUME file \in Seq(Tracks), NEW r, NEW p \in Takens, Good(r, p), NEW t \in Tracks,
         r.at + 1 < End
  PROVE  LET o == r.mTrackCursors[t]
             c == ArrivedCursor(r, t)
         IN  /\ CursorOK(c, t, p[t], r.at + 1)
             /\ c.previous = o.previous
             /\ o.current.isSet => c.current = o.current
             /\ c.current.isSet /\ ~o.current.isSet => c.current.index = r.at + 1
             /\ c.next.isSet => c.next = o.next \/ c.next.index = r.at + 1
<1> DEFINE o == r.mTrackCursors[t]
           l == LeftCursor(r, t)
           c == ArrivedCursor(r, t)
           i == r.at + 1
<1>1. /\ End \in Nat /\ r.at \in 0..End /\ r.mExtractorSampleIndex = r.at
      /\ p[t] \in {NoInfo} \cup 0..(End - 1) /\ i \in 0..(End - 1) /\ i >= 1
  BY FileFacts DEF Good, ReaderStates, PositionOK, Takens
<1>2. /\ l \in SampleCursor /\ CursorOK(l, t, p[t], r.at) /\ l.previous = o.previous
      /\ l.current = o.current
      /\ l.next.isSet => l.next = o.next
  BY LeavingKeepsCursor, Zenon
<1>3. TrackAt(i) = file[i + 1]
  BY <1>1, FileFacts, Zenon
<1> HIDE DEF l
<1>4. CASE t # file[i + 1]
  <2>1. c = l
    BY <1>3, <1>4, Zenon DEF ArrivedCursor, l
  <2>2. \A x \in Int : Gap(t, x, r.at + 1) => Gap(t, x, i + 1)
    BY <1>1, <1>4 DEF Gap
  <2>3. l.current.index \in Int /\ p[t] \in Int
    BY <1>1, <1>2 DEF SampleCursor, Position, NoInfo
  <2>4. CursorOK(l, t, p[t], i)
    BY <1>2, <2>2, <2>3, Zenon DEF CursorOK
  <2> QED
    BY <1>2, <2>1, <2>4, Zenon
<1>5. CASE t = file[i + 1]
  <2>1. c = Noted(l, i)
    BY <1>1, <1>3, <1>5, Zenon DEF ArrivedCursor, l
  <2>2. /\ l.previous.index \in Nat /\ l.current.index \in Nat /\ l.next.index \in Nat
        /\ p[t] # NoInfo => l.previous.index = p[t]
        /\ p[t] = NoInfo => l.previous.index = 0
    BY <1>2 DEF CursorOK, SampleCursor, Position, Set, Reset
  <2>3. Sample(t, i)
    BY <1>1, <1>5, Zenon DEF Sample
  <2>4. CASE i <= l.previous.index
    <3>1. c = l /\ p[t] # NoInfo /\ i <= p[t]
      BY <1>1, <2>1, <2>2, <2>4 DEF Noted
    <3>2. \A x \in Int : p[t] <= x => Gap(t, x, i + 1)
      BY <1>1, <3>1 DEF Gap
    <3>3. l.current.isSet => p[t] < l.current.index
      BY <1>2, Zenon DEF CursorOK
    <3>4. /\ l.current.isSet => Gap(t, l.current.index, i + 1)
          /\ Gap(t, p[t], i + 1)
      BY <1>1, <2>2, <3>1, <3>2, <3>3
    <3>5. CursorOK(l, t, p[t], i)
      BY <1>2, <3>4, Zenon DEF CursorOK
    <3> QED
      BY <1>2, <3>1, <3>5, Zenon
  <2>5. CASE ~(i <= l.previous.index) /\ ~l.current.isSet
    <3>1. c = [l EXCEPT !.current = Set(i)]
      BY <2>1, <2>5, Zenon DEF Noted
    <3> HIDE DEF c, i
    <3>2. /\ c.previous = l.previous /\ c.current = Set(i) /\ c.next = l.next
          /\ c.current.isSet = TRUE /\ c.current.index = i
      BY <1>2, <3>1 DEF SampleCursor, Set
    <3>3. p[t] < i
      BY <1>1, <2>2, <2>5 DEF NoInfo
    <3>4. Gap(t, p[t], i)
      BY <1>2, <2>5, Zenon DEF CursorOK, i
    <3>5. Gap(t, i, i + 1)
      BY <1>1 DEF Gap
    <3>6. CursorOK(c, t, p[t], i)
      BY <1>2, <2>3, <2>5, <3>2, <3>3, <3>4, <3>5, Zenon DEF CursorOK
    <3> QED
      BY <1>2, <2>5, <3>2, <3>6, Zenon DEF c, i
  <2>6. CASE ~(i <= l.previous.index) /\ l.current.isSet /\ ~l.next.isSet /\ i > l.current.index
    <3>1. c = [l EXCEPT !.next = Set(i)]
      BY <2>1, <2>6, Zenon DEF Noted
    <3> HIDE DEF c, i
    <3>2. /\ c.previous = l.previous /\ c.current = l.current /\ c.next = Set(i)
          /\ c.next.isSet = TRUE /\ c.next.index = i
      BY <1>2, <3>1 DEF SampleCursor, Set
    <3>3. Gap(t, l.current.index, i)
      BY <1>2, <2>6, Zenon DEF CursorOK, i
    <3>4. l.current.index < i
      BY <1>1, <2>2, <2>6
    <3>5. CursorOK(c, t, p[t], i)
      BY <1>2, <2>3, <2>6, <3>2, <3>3, <3>4, Zenon DEF CursorOK
    <3> QED
      BY <1>2, <2>6, <3>2, <3>5, Zenon DEF c, i
  <2>7. CASE /\ ~(i <= l.previous.index) /\ l.current.isSet
             /\ ~(~l.next.isSet /\ i > l.current.index)
    <3>1. c = l
      BY <2>1, <2>7, Zenon DEF Noted
    <3>2. ~l.next.isSet => Gap(t, l.current.index, i + 1)
      BY <1>1, <2>2, <2>7 DEF Gap
    <3>3. CursorOK(l, t, p[t], i)
      BY <1>2, <2>7, <3>2, Zenon DEF CursorOK
    <3> QED
      BY <1>2, <3>1, <3>3, Zenon
  <2> QED
    BY <2>4, <2>5, <2>6, <2>7, Zenon
<1> QED
  BY <1>4, <1>5, Zenon

(***************************************************************************)
(* The members a move of the extractor from r to x leaves as they were:    *)
(* what was taken, and a current position once it is set.                  *)
(***************************************************************************)
Onward(r, x) ==
  /\ x.mEnforceSequentialAccess = r.mEnforceSequentialAccess
  /\ \A t \in Tracks :
       /\ x.mTrackCursors[t].previous = r.mTrackCursors[t].previous
       /\ r.mTrackCursors[t].current.isSet =>
            x.mTrackCursors[t].current = r.mTrackCursors[t].current

(***************************************************************************)
(* advanceExtractor_l keeps the reader's picture of the file right.        *)
(***************************************************************************)
LEMMA AdvanceKeepsGood ==
  ASSUME file \in Seq(Tracks), NEW r, NEW p \in Takens, Good(r, p)
  PROVE  LET x == advanceExtractor_l(r)
         IN  /\ Good(x, p) /\ Onward(r, x)
             /\ x.ok => x.at = r.at + 1 /\ ~x.mEosReached /\ x.notified = r.notified
             /\ ~x.ok => x.at = End /\ x.mEosReached /\ x.notified = Tracks
             /\ x.ok <=> r.at + 1 < End
             /\ \A t \in Tracks :
                  x.mTrackCursors[t].current.isSet /\ ~r.mTrackCursors[t].current.isSet =>
                    x.ok /\ x.mTrackCursors[t].current.index = x.at
<1> DEFINE x == advanceExtractor_l(r)
<1>1. /\ End \in Nat /\ r \in ReaderStates /\ r.at \in 0..End /\ r.mExtractorSampleIndex \in Nat
      /\ r.mExtractorTrackIndex \in Tracks /\ r.mEosReached \in BOOLEAN
      /\ PositionOK(r) /\ UnseenOK(r.mTrackCursors, p)
  BY FileFacts DEF Good, PositionOK, ReaderStates
<1>2. \A t \in Tracks : p[t] \in {NoInfo} \cup 0..(End - 1)
  BY DEF Takens
<1>3. CASE r.at + 1 < End
  <2>1. /\ x \in ReaderStates /\ x.at = r.at + 1 /\ x.ok = TRUE
        /\ x.mEnforceSequentialAccess = r.mEnforceSequentialAccess
        /\ x.mExtractorSampleIndex = r.mExtractorSampleIndex + 1
        /\ x.mExtractorTrackIndex = file[r.at + 2]
        /\ x.mEosReached = r.mEosReached /\ x.notified = r.notified
        /\ x.mTrackCursors = [t \in Tracks |-> ArrivedCursor(r, t)]
    BY <1>1, <1>3, AdvanceMembers, Zenon
  <2> HIDE DEF x
  <2>2. ASSUME NEW t \in Tracks
        PROVE  LET o == r.mTrackCursors[t]
                   c == x.mTrackCursors[t]
               IN  /\ CursorOK(c, t, p[t], x.at)
                   /\ c.previous = o.previous
                   /\ o.current.isSet => c.current = o.current
                   /\ c.current.isSet /\ ~o.current.isSet => c.current.index = x.at
                   /\ c.next.isSet => c.next = o.next \/ c.next.index = x.at
    <3>1. x.mTrackCursors[t] = ArrivedCursor(r, t)
      BY <2>1, Zenon
    <3>2. LET o == r.mTrackCursors[t]
              c == ArrivedCursor(r, t)
          IN  /\ CursorOK(c, t, p[t], r.at + 1)
              /\ c.previous = o.previous
              /\ o.current.isSet => c.current = o.current
              /\ c.current.isSet /\ ~o.current.isSet => c.current.index = r.at + 1
              /\ c.next.isSet => c.next = o.next \/ c.next.index = r.at + 1
      BY <1>3, ArrivingKeepsCursor, Zenon
    <3>3. x.at = r.at + 1
      BY <2>1, Zenon
    <3> QED
      BY <3>1, <3>2, <3>3, Zenon
  <2>3. ~r.mEosReached /\ r.mExtractorSampleIndex = r.at
    BY <1>1, <1>3 DEF PositionOK
  <2>4. PositionOK(x)
    <3>1. file[r.at + 2] \in Tracks
      BY <1>1, <1>3, FileFacts
    <3>2. x.at < End /\ x.mExtractorSampleIndex = x.at /\ x.mExtractorTrackIndex = file[x.at + 1]
      BY <1>1, <1>3, <2>1, <2>3
    <3> QED
      BY <1>1, <2>1, <2>3, <3>1, <3>2, Zenon DEF PositionOK
  <2>5. UnseenOK(x.mTrackCursors, p)
    <3> SUFFICES ASSUME NEW u \in Tracks, NEW v \in Tracks,
                        p[u] = NoInfo, ~x.mTrackCursors[u].current.isSet
                 PROVE  /\ Gap(u, NoInfo, p[v] + 1)
                        /\ x.mTrackCursors[v].current.isSet =>
                             Gap(u, NoInfo, x.mTrackCursors[v].current.index + 1)
                        /\ x.mTrackCursors[v].next.isSet =>
                             Gap(u, NoInfo, x.mTrackCursors[v].next.index + 1)
      BY Zenon DEF UnseenOK
    <3>1. ~r.mTrackCursors[u].current.isSet
      BY <2>2, Zenon
    <3>2. Gap(u, NoInfo, x.at + 1)
      BY <2>2, Zenon DEF CursorOK
    <3>3. /\ Gap(u, NoInfo, p[v] + 1)
          /\ r.mTrackCursors[v].current.isSet =>
               Gap(u, NoInfo, r.mTrackCursors[v].current.index + 1)
          /\ r.mTrackCursors[v].next.isSet =>
               Gap(u, NoInfo, r.mTrackCursors[v].next.index + 1)
      BY <1>1, <3>1, Zenon DEF UnseenOK
    <3> QED
      BY <2>2, <3>2, <3>3, Zenon
  <2>6. Good(x, p)
    BY <2>1, <2>2, <2>4, <2>5, Zenon DEF Good
  <2>7. Onward(r, x)
    BY <2>1, <2>2, Zenon DEF Onward
  <2> QED
    BY <1>3, <2>1, <2>2, <2>3, <2>6, <2>7, Zenon DEF x
<1>4. CASE ~(r.at + 1 < End)
  <2>1. /\ x \in ReaderStates /\ x.at = End /\ x.ok = FALSE
        /\ x.mEnforceSequentialAccess = r.mEnforceSequentialAccess
        /\ x.mExtractorSampleIndex = r.mExtractorSampleIndex + 1
        /\ x.mExtractorTrackIndex = r.mExtractorTrackIndex
        /\ x.mEosReached = TRUE /\ x.notified = Tracks
        /\ x.mTrackCursors = [t \in Tracks |-> LeftCursor(r, t)]
    BY <1>1, <1>4, AdvanceMembers, Zenon
  <2> HIDE DEF x
  <2>2. ASSUME NEW t \in Tracks
        PROVE  LET o == r.mTrackCursors[t]
                   c == x.mTrackCursors[t]
               IN  /\ c \in SampleCursor /\ CursorOK(c, t, p[t], r.at)
                   /\ c.previous = o.previous /\ c.current = o.current
                   /\ c.next.isSet => c.next = o.next
    <3> DEFINE l == LeftCursor(r, t)
    <3>1. x.mTrackCursors[t] = l
      BY <2>1, Zenon
    <3>2. l \in SampleCursor /\ CursorOK(l, t, p[t], r.at)
      BY LeavingKeepsCursor, Zenon
    <3>3. /\ l.previous = r.mTrackCursors[t].previous /\ l.current = r.mTrackCursors[t].current
          /\ l.next.isSet => l.next = r.mTrackCursors[t].next
      BY LeavingKeepsCursor, Zenon
    <3> HIDE DEF l
    <3> QED
      BY <3>1, <3>2, <3>3, Zenon
  <2>3. PositionOK(x)
    <3>1. x.mExtractorSampleIndex >= End
      BY <1>1, <1>4, <2>1 DEF PositionOK
    <3> QED
      BY <1>1, <2>1, <3>1, Zenon DEF PositionOK
  <2>4. ASSUME NEW t \in Tracks PROVE CursorOK(x.mTrackCursors[t], t, p[t], x.at)
    <3>1. \A a \in Int : Gap(t, a, r.at + 1) => Gap(t, a, End + 1)
      <4>1. \A i \in 0..(End - 1) : i < r.at + 1
        <5>1. End \in Nat /\ r.at \in Nat /\ End <= r.at + 1
          BY <1>1, <1>4
        <5> QED
          BY <5>1
      <4> QED
        BY <4>1, Zenon DEF Gap
    <3>2. x.mTrackCursors[t].current.index \in Int /\ p[t] \in Int
      BY <1>1, <1>2, <2>2 DEF SampleCursor, Position, NoInfo
    <3> QED
      BY <2>1, <2>2, <3>1, <3>2, Zenon DEF CursorOK
  <2>5. UnseenOK(x.mTrackCursors, p)
    BY <1>1, <2>2, Zenon DEF UnseenOK
  <2>6. Good(x, p)
    BY <2>1, <2>3, <2>4, <2>5, Zenon DEF Good
  <2>7. Onward(r, x)
    BY <2>1, <2>2, Zenon DEF Onward
  <2> QED
    BY <1>4, <2>1, <2>2, <2>6, <2>7, Zenon DEF x
<1> QED
  BY <1>3, <1>4, Zenon

-----------------------------------------------------------------------------
(* The loops of the reader                                                   *)

(***************************************************************************)
(* The extractor has not passed a position of track t.                     *)
(***************************************************************************)
Ahead(r, t, which) ==
  r.mTrackCursors[t][which].isSet => r.at <= r.mTrackCursors[t][which].index

(***************************************************************************)
(* An extractor that is not at a set position it has not passed does not   *)
(* pass it in a step.                                                      *)
(***************************************************************************)
LEMMA StepNotPast ==
  ASSUME file \in Seq(Tracks), NEW r, NEW p \in Takens, Good(r, p), NEW t \in Tracks,
         NEW which \in {"previous", "current"},
         Ahead(r, t, which), ~IsAt(r, r.mTrackCursors[t][which])
  PROVE  Ahead(advanceExtractor_l(r), t, which)
<1> DEFINE x == advanceExtractor_l(r)
           o == r.mTrackCursors[t]
           c == x.mTrackCursors[t]
<1>1. /\ Good(x, p) /\ Onward(r, x)
      /\ x.ok => x.at = r.at + 1
      /\ ~x.ok => x.at = End
      /\ x.ok <=> r.at + 1 < End
      /\ c.current.isSet /\ ~o.current.isSet => x.ok /\ c.current.index = x.at
  BY AdvanceKeepsGood, Zenon
<1>2. /\ End \in Nat /\ r.at \in 0..End /\ x.at \in 0..End /\ p[t] \in {NoInfo} \cup 0..(End - 1)
      /\ r.mEosReached \in BOOLEAN
      /\ o \in SampleCursor /\ c \in SampleCursor
  BY <1>1, FileFacts DEF Good, ReaderStates, Takens
<1>3. PositionOK(r) /\ CursorOK(o, t, p[t], r.at) /\ CursorOK(c, t, p[t], x.at)
  BY <1>1, Zenon DEF Good
<1> HIDE DEF x
<1>4. ASSUME o[which].isSet, c[which] = o[which] PROVE x.at <= c[which].index
  <2>1. o[which].index \in 0..(End - 1)
    <3>1. CASE which = "current"
      BY <1>3, <1>4, <3>1, Zenon DEF CursorOK, Sample
    <3>2. CASE which = "previous"
      <4>1. o.previous.isSet = TRUE
        BY <1>4, <3>2, <1>2 DEF SampleCursor, Position
      <4>2. p[t] # NoInfo /\ o.previous = Set(p[t])
        BY <1>3, <4>1 DEF CursorOK, Set, Reset
      <4> QED
        BY <1>2, <3>2, <4>2 DEF Set
    <3> QED
      BY <3>1, <3>2, Zenon
  <2>2. r.at <= o[which].index
    BY <1>4, Zenon DEF Ahead
  <2>3. ~r.mEosReached /\ r.mExtractorSampleIndex = r.at
    BY <1>2, <1>3, <2>1, <2>2 DEF PositionOK
  <2>4. r.at # o[which].index
    BY <1>4, <2>3, Zenon DEF IsAt
  <2> QED
    BY <1>1, <1>2, <1>4, <2>1, <2>2, <2>4
<1>5. CASE which = "previous"
  <2>1. c[which] = o[which]
    BY <1>1, <1>5, Zenon DEF Onward
  <2> QED
    BY <1>4, <2>1, Zenon DEF Ahead, x
<1>6. CASE which = "current"
  <2>1. CASE o.current.isSet
    <3>1. c[which] = o[which] /\ o[which].isSet
      BY <1>1, <1>6, <2>1, Zenon DEF Onward
    <3> QED
      BY <1>4, <3>1, Zenon DEF Ahead, x
  <2>2. CASE ~o.current.isSet
    <3>1. c.current.isSet => x.at <= c.current.index
      BY <1>1, <1>2, <2>2
    <3> QED
      BY <1>6, <3>1, Zenon DEF Ahead, x
  <2> QED
    BY <2>1, <2>2, Zenon
<1> QED
  BY <1>5, <1>6, Zenon

(***************************************************************************)
(* The same for the current positions of all tracks, when the extractor is *)
(* at none of them.                                                        *)
(***************************************************************************)
LEMMA StepNotPastAny ==
  ASSUME file \in Seq(Tracks), NEW r, NEW p \in Takens, Good(r, p),
         NotPassed(r), ~IsAtTrack(r, AnyTrack, "current")
  PROVE  NotPassed(advanceExtractor_l(r))
<1> SUFFICES ASSUME NEW t \in Tracks PROVE Ahead(advanceExtractor_l(r), t, "current")
  BY Zenon DEF NotPassed, Ahead
<1>1. Ahead(r, t, "current")
  BY Zenon DEF NotPassed, Ahead
<1>2. ~IsAt(r, r.mTrackCursors[t]["current"])
  <2> SUFFICES ASSUME IsAt(r, r.mTrackCursors[t].current) PROVE FALSE
    BY Zenon
  <2>1. /\ r.mTrackCursors[t].current.isSet
        /\ r.mTrackCursors[t].current.index = r.mExtractorSampleIndex
    BY Zenon DEF IsAt
  <2>2. Sample(t, r.mTrackCursors[t].current.index)
    BY <2>1, Zenon DEF Good, CursorOK
  <2>3. ~r.mEosReached
    <3>1. End \in Nat /\ PositionOK(r)
      BY FileFacts DEF Good
    <3> QED
      BY <2>1, <2>2, <3>1 DEF Sample, PositionOK
  <2>4. t = r.mExtractorTrackIndex
    BY <2>1, <2>2, <2>3, Zenon DEF Good, PositionOK, Sample
  <2> QED
    BY <2>4, Zenon DEF IsAtTrack
<1> QED
  BY <1>1, <1>2, StepNotPast, Zenon

(***************************************************************************)
(* Where the loop of AdvanceTo ends: at the position, or at the end of the *)
(* file.  What it looks for is not passed on the way.                      *)
(***************************************************************************)
LEMMA AdvanceToEnds ==
  ASSUME file \in Seq(Tracks), NEW r, NEW p \in Takens, Good(r, p), r.ok = TRUE,
         NEW t \in Tracks \cup {AnyTrack}, NEW which \in {"previous", "current"},
         t = AnyTrack => which = "current"
  PROVE  LET x == AdvanceTo(r, t, which)
         IN  /\ Good(x, p) /\ Onward(r, x)
             /\ x.ok => /\ IsAtTrack(x, t, which) /\ x.notified = r.notified
                        /\ x.mEosReached => r.mEosReached
             /\ ~x.ok => x.at = End /\ x.mEosReached /\ x.notified = Tracks
             /\ t # AnyTrack /\ Ahead(r, t, which) => Ahead(x, t, which)
             /\ t = AnyTrack /\ NotPassed(r) => NotPassed(x)
<1> DEFINE stopped(x) == ~x.ok \/ IsAtTrack(x, t, which)
           onTheWay(x) ==
             /\ Good(x, p) /\ Onward(r, x)
             /\ x.ok => x.notified = r.notified /\ (x.mEosReached => r.mEosReached)
             /\ ~x.ok => x.at = End /\ x.mEosReached /\ x.notified = Tracks
             /\ t # AnyTrack /\ Ahead(r, t, which) => Ahead(x, t, which)
             /\ t = AnyTrack /\ NotPassed(r) => NotPassed(x)
           S == {s \in Nat \X ReaderStates : onTheWay(s[2]) /\ (stopped(s[2]) \/ s[2].at = r.at + s[1])}
<1>0. PICK loop : IsLoop(loop, r, t, which)
  BY FileFacts, LoopUnfolds, Zenon
<1>1. /\ loop[0] = r
      /\ \A n \in 0..(End - 1) : loop[n + 1] = Iterated(loop[n], t, which)
      /\ AdvanceTo(r, t, which) = loop[End]
  BY <1>0 DEF IsLoop
<1>2. End \in Nat /\ r \in ReaderStates /\ r.at \in 0..End /\ End > 0 /\ PositionOK(r)
  BY FileFacts DEF Good, ReaderStates, PositionOK
<1> DEFINE f == [n \in 0..End |-> <<n, loop[n]>>]
<1>3. f[0] \in S
  <2>1. onTheWay(r)
    BY Zenon DEF Onward
  <2>2. f[0] = <<0, r>>
    BY <1>1, <1>2
  <2>3. r.at = r.at + 0
    BY <1>2
  <2> QED
    BY <1>2, <2>1, <2>2, <2>3
<1>4. ASSUME NEW n \in 0..(End - 1), f[n] \in S PROVE f[n + 1] \in S
  <2> DEFINE a == loop[n]
             b == loop[n + 1]
  <2>1. n \in 0..End /\ n + 1 \in 0..End /\ n \in Nat /\ n + 1 \in Nat
    BY <1>2
  <2>2. a \in ReaderStates /\ onTheWay(a) /\ (stopped(a) \/ a.at = r.at + n)
    <3>1. f[n] = <<n, a>>
      BY <2>1, Zenon
    <3> QED
      BY <1>4, <3>1
  <2>3. b = Iterated(a, t, which)
    BY <1>1
  <2> HIDE DEF a, b
  <2>4. CASE stopped(a)
    <3>1. b = a
      BY <2>3, <2>4, Zenon DEF Iterated
    <3> QED
      BY <2>1, <2>2, <2>4, <3>1 DEF b
  <2>5. CASE ~stopped(a)
    <3>1. b = advanceExtractor_l(a)
      BY <2>3, <2>5, Zenon DEF Iterated
    <3>2. /\ Good(b, p) /\ Onward(a, b)
          /\ b.ok => b.at = a.at + 1 /\ ~b.mEosReached /\ b.notified = a.notified
          /\ ~b.ok => b.at = End /\ b.mEosReached /\ b.notified = Tracks
      BY <2>2, <3>1, AdvanceKeepsGood, Zenon
    <3>3. Onward(r, b)
      BY <2>2, <3>2, Zenon DEF Onward
    <3>4. t # AnyTrack /\ Ahead(r, t, which) => Ahead(b, t, which)
      <4> SUFFICES ASSUME t # AnyTrack, Ahead(r, t, which) PROVE Ahead(b, t, which)
        BY Zenon
      <4>1. t \in Tracks /\ ~IsAt(a, a.mTrackCursors[t][which])
        BY <2>5, Zenon DEF IsAtTrack
      <4> QED
        BY <2>2, <3>1, <4>1, StepNotPast, Zenon
    <3>5. t = AnyTrack /\ NotPassed(r) => NotPassed(b)
      BY <2>2, <2>5, <3>1, StepNotPastAny, Zenon
    <3>6. onTheWay(b)
      BY <2>2, <2>5, <3>2, <3>3, <3>4, <3>5, Zenon
    <3>7. stopped(b) \/ b.at = r.at + (n + 1)
      BY <1>2, <2>2, <2>5, <3>2
    <3>8. b \in ReaderStates
      BY <3>2, Zenon DEF Good
    <3> QED
      BY <2>1, <3>6, <3>7, <3>8 DEF b
  <2> QED
    BY <2>4, <2>5, Zenon
<1> HIDE DEF f, S
<1>5. f[End] \in S
  <2>1. \A n \in 0..End : f[n] \in S
    BY <1>2, <1>3, <1>4, LoopInvariant, Zenon
  <2> QED
    BY <1>2, <2>1
<1> DEFINE x == AdvanceTo(r, t, which)
<1>6. x \in ReaderStates /\ onTheWay(x) /\ (stopped(x) \/ x.at = r.at + End)
  <2>1. f[End] = <<End, x>>
    BY <1>1, <1>2 DEF f
  <2> QED
    BY <1>5, <2>1 DEF S
<1> HIDE DEF x
<1>7. stopped(x)
  <2> SUFFICES ASSUME ~stopped(x) PROVE FALSE
    BY Zenon
  <2>1. x.at \in 0..End /\ PositionOK(x) /\ x.mEosReached \in BOOLEAN /\ r.mEosReached \in BOOLEAN
    BY <1>2, <1>6 DEF Good, ReaderStates
  <2>2. r.at = 0 /\ x.at = End
    BY <1>2, <1>6, <2>1
  <2>3. ~r.mEosReached
    BY <1>2, <2>2 DEF PositionOK
  <2>4. ~x.mEosReached
    BY <1>6, <2>3, Zenon
  <2> QED
    BY <1>2, <2>1, <2>2, <2>4 DEF PositionOK
<1> QED
  BY <1>6, <1>7, Zenon DEF x

(***************************************************************************)
(* A position that is set is one of a sample, and an extractor at it is    *)
(* not at the end.                                                         *)
(***************************************************************************)
LEMMA KnownPosition ==
  ASSUME file \in Seq(Tracks), NEW r, NEW p \in Takens, Good(r, p), NEW t \in Tracks,
         NEW which \in {"previous", "current"}, r.mTrackCursors[t][which].isSet
  PROVE  /\ r.mTrackCursors[t][which].index \in 0..(End - 1)
         /\ IsAt(r, r.mTrackCursors[t][which]) =>
              ~r.mEosReached /\ r.at = r.mTrackCursors[t][which].index
<1> DEFINE o == r.mTrackCursors[t]
<1>1. /\ End \in Nat /\ r.at \in 0..End /\ p[t] \in {NoInfo} \cup 0..(End - 1)
      /\ r.mExtractorSampleIndex \in Nat /\ r.mEosReached \in BOOLEAN
      /\ o \in SampleCursor
  BY FileFacts DEF Good, ReaderStates, Takens
<1>2. PositionOK(r) /\ CursorOK(o, t, p[t], r.at)
  BY Zenon DEF Good
<1>3. o[which].index \in 0..(End - 1)
  <2>1. CASE which = "current"
    BY <1>2, <2>1, Zenon DEF CursorOK, Sample
  <2>2. CASE which = "previous"
    <3>1. o.previous.isSet = TRUE
      BY <1>1, <2>2 DEF SampleCursor, Position
    <3>2. p[t] # NoInfo /\ o.previous = Set(p[t])
      BY <1>2, <3>1 DEF CursorOK, Set, Reset
    <3> QED
      BY <1>1, <2>2, <3>2 DEF Set
  <2> QED
    BY <2>1, <2>2, Zenon
<1>4. ASSUME IsAt(r, o[which]) PROVE ~r.mEosReached /\ r.at = o[which].index
  BY <1>1, <1>2, <1>3, <1>4 DEF IsAt, PositionOK
<1> QED
  BY <1>3, <1>4, Zenon

(***************************************************************************)
(* A part of a gap is a gap.                                               *)
(***************************************************************************)
LEMMA GapShrinks ==
  ASSUME End \in Nat, NEW t, NEW a \in Int, NEW b \in Int, NEW d \in Int, d <= b, Gap(t, a, b)
  PROVE  Gap(t, a, d)
BY DEF Gap

(***************************************************************************)
(* Going back to a sample keeps the reader's picture of the file right.    *)
(***************************************************************************)
LEMMA SeekKeepsGood ==
  ASSUME file \in Seq(Tracks), NEW r, NEW p \in Takens, Good(r, p),
         NEW i \in 0..(End - 1), r.mExtractorSampleIndex > i
  PROVE  LET x == seekExtractorBackwards_l(r, i)
         IN  /\ Good(x, p) /\ Onward(r, x) /\ x.mTrackCursors = r.mTrackCursors
             /\ x.at = i /\ ~x.mEosReached /\ x.ok = TRUE /\ x.notified = r.notified
<1> DEFINE x == seekExtractorBackwards_l(r, i)
<1>1. /\ End \in Nat /\ r \in ReaderStates /\ r.at \in 0..End /\ r.mExtractorSampleIndex \in Nat
      /\ r.mEosReached \in BOOLEAN /\ PositionOK(r) /\ UnseenOK(r.mTrackCursors, p)
      /\ TrackAt(i) = file[i + 1] /\ file[i + 1] \in Tracks
  BY FileFacts DEF Good, ReaderStates
<1>2. x = [r EXCEPT !.at = i, !.mEosReached = FALSE, !.mExtractorTrackIndex = TrackAt(i),
                    !.mExtractorSampleIndex = i, !.ok = TRUE]
  BY Zenon DEF seekExtractorBackwards_l
<1> HIDE DEF x
<1>3. x = [at |-> i, mExtractorTrackIndex |-> TrackAt(i), mExtractorSampleIndex |-> i,
           mEosReached |-> FALSE, mEnforceSequentialAccess |-> r.mEnforceSequentialAccess,
           mTrackCursors |-> r.mTrackCursors, notified |-> r.notified, ok |-> TRUE]
  BY <1>1, <1>2 DEF ReaderStates
<1>4. /\ x.at = i /\ x.mExtractorTrackIndex = TrackAt(i) /\ x.mExtractorSampleIndex = i
      /\ x.mEosReached = FALSE /\ x.mTrackCursors = r.mTrackCursors /\ x.notified = r.notified
      /\ x.ok = TRUE /\ x.mEnforceSequentialAccess = r.mEnforceSequentialAccess
  BY <1>3
<1>5. x \in ReaderStates
  BY <1>1, <1>3 DEF ReaderStates
<1>6. PositionOK(x)
  BY <1>1, <1>4 DEF PositionOK
<1>7. r.at >= i
  BY <1>1 DEF PositionOK
<1>8. ASSUME NEW t \in Tracks PROVE CursorOK(x.mTrackCursors[t], t, p[t], x.at)
  <2>1. CursorOK(r.mTrackCursors[t], t, p[t], r.at)
    BY Zenon DEF Good
  <2>2. \A a \in Int : Gap(t, a, r.at + 1) => Gap(t, a, i + 1)
    <3>1. r.at + 1 \in Int /\ i + 1 \in Int /\ i + 1 <= r.at + 1
      BY <1>1, <1>7
    <3> QED
      BY <1>1, <3>1, GapShrinks, Zenon
  <2>3. r.mTrackCursors[t] \in SampleCursor /\ p[t] \in {NoInfo} \cup 0..(End - 1)
    BY <1>1 DEF ReaderStates, Takens
  <2>4. r.mTrackCursors[t].current.index \in Int /\ p[t] \in Int
    BY <1>1, <2>3 DEF SampleCursor, Position, NoInfo
  <2>5. CursorOK(r.mTrackCursors[t], t, p[t], i)
    BY <2>1, <2>2, <2>4, Zenon DEF CursorOK
  <2> QED
    BY <1>4, <2>5, Zenon
<1>9. Good(x, p)
  BY <1>1, <1>4, <1>5, <1>6, <1>8, Zenon DEF Good
<1>10. Onward(r, x)
  BY <1>4, Zenon DEF Onward
<1> QED
  BY <1>4, <1>9, <1>10, Zenon DEF x

(***************************************************************************)
(* moveToSample_l ends at the position, or at the end of the file, and the *)
(* latter only if the position is still unknown then.                      *)
(***************************************************************************)
LEMMA MoveToSample ==
  ASSUME file \in Seq(Tracks), NEW r, NEW p \in Takens, Good(r, p), r.ok = TRUE,
         NEW t \in Tracks, NEW which \in {"previous", "current"}
  PROVE  LET x == moveToSample_l(r, t, which)
         IN  /\ Good(x, p) /\ Onward(r, x)
             /\ x.ok => /\ x.mTrackCursors[t][which].isSet /\ x.notified = r.notified
                        /\ x.at = x.mTrackCursors[t][which].index /\ ~x.mEosReached
             /\ ~x.ok => /\ x.at = End /\ x.mEosReached /\ x.notified = Tracks
                         /\ ~x.mTrackCursors[t][which].isSet
<1> DEFINE pos == r.mTrackCursors[t][which]
           y == IF pos.isSet /\ r.mExtractorSampleIndex > pos.index
                  THEN seekExtractorBackwards_l(r, pos.index) ELSE r
           x == moveToSample_l(r, t, which)
<1>1. t # AnyTrack /\ t \in Tracks \cup {AnyTrack}
  BY FileFacts, Zenon DEF AnyTrack
<1>2. Good(y, p) /\ Onward(r, y) /\ y.ok = TRUE /\ y.notified = r.notified /\ Ahead(y, t, which)
  <2>1. CASE pos.isSet /\ r.mExtractorSampleIndex > pos.index
    <3>1. pos.index \in 0..(End - 1)
      BY <2>1, KnownPosition, Zenon
    <3>2. /\ Good(y, p) /\ Onward(r, y) /\ y.mTrackCursors = r.mTrackCursors
          /\ y.at = pos.index /\ y.ok = TRUE /\ y.notified = r.notified
      BY <2>1, <3>1, SeekKeepsGood, Zenon
    <3>3. pos.index <= pos.index
      BY <3>1
    <3> HIDE DEF y
    <3> QED
      BY <3>2, <3>3, Zenon DEF Ahead
  <2>2. CASE ~(pos.isSet /\ r.mExtractorSampleIndex > pos.index)
    <3>1. y = r
      BY <2>2, Zenon
    <3>2. pos.isSet => r.at <= pos.index
      <4> SUFFICES ASSUME pos.isSet PROVE r.at <= pos.index
        BY Zenon
      <4>1. pos.index \in 0..(End - 1)
        BY KnownPosition, Zenon
      <4>2. /\ End \in Nat /\ r.at \in 0..End /\ r.mExtractorSampleIndex \in Nat
            /\ r.mEosReached \in BOOLEAN /\ PositionOK(r)
        BY FileFacts DEF Good, ReaderStates
      <4> HIDE DEF pos
      <4> QED
        BY <2>2, <4>1, <4>2 DEF PositionOK
    <3> QED
      BY <3>1, <3>2, Zenon DEF Ahead, Onward
  <2> QED
    BY <2>1, <2>2, Zenon
<1>3. x = AdvanceTo(y, t, which)
  BY Zenon DEF moveToSample_l
<1> HIDE DEF y
<1>4. /\ Good(x, p) /\ Onward(y, x) /\ Ahead(x, t, which)
      /\ x.ok => IsAtTrack(x, t, which) /\ x.notified = y.notified
      /\ ~x.ok => x.at = End /\ x.mEosReached /\ x.notified = Tracks
  <2> DEFINE z == AdvanceTo(y, t, which)
  <2>0. Good(y, p) /\ y.ok = TRUE /\ Ahead(y, t, which)
    BY <1>2, Zenon
  <2>1. Good(z, p) /\ Onward(y, z)
    BY <1>1, <2>0, AdvanceToEnds, Zenon
  <2>2. Ahead(z, t, which)
    BY <1>1, <2>0, AdvanceToEnds, Zenon
  <2>3. z.ok => IsAtTrack(z, t, which)
    BY <1>1, <2>0, AdvanceToEnds, Zenon
  <2>5. z.ok => z.notified = y.notified
    BY <1>1, <2>0, AdvanceToEnds, Zenon
  <2>4. ~z.ok => z.at = End /\ z.mEosReached /\ z.notified = Tracks
    BY <1>1, <2>0, AdvanceToEnds, Zenon
  <2> QED
    BY <1>3, <2>1, <2>2, <2>3, <2>4, <2>5, Zenon
<1> HIDE DEF x
<1>5. Onward(r, x)
  BY <1>2, <1>4, Zenon DEF Onward
<1>6. ASSUME x.ok
      PROVE  /\ x.mTrackCursors[t][which].isSet
             /\ x.at = x.mTrackCursors[t][which].index /\ ~x.mEosReached
  <2>1. IsAt(x, x.mTrackCursors[t][which])
    BY <1>1, <1>4, <1>6, Zenon DEF IsAtTrack
  <2>2. x.mTrackCursors[t][which].isSet
    BY <2>1, Zenon DEF IsAt
  <2> QED
    BY <1>4, <2>1, <2>2, KnownPosition, Zenon
<1>7. ASSUME ~x.ok, x.mTrackCursors[t][which].isSet PROVE FALSE
  <2>1. x.mTrackCursors[t][which].index \in 0..(End - 1) /\ End \in Nat
    BY <1>4, <1>7, KnownPosition, FileFacts, Zenon
  <2>2. End <= x.mTrackCursors[t][which].index
    BY <1>4, <1>7, Zenon DEF Ahead
  <2> QED
    BY <2>1, <2>2
<1> QED
  BY <1>2, <1>4, <1>5, <1>6, <1>7, Zenon DEF x

-----------------------------------------------------------------------------
(* What the operations do with the extractor                                 *)

(***************************************************************************)
(* A loop that is entered after a failure does nothing.                    *)
(***************************************************************************)
LEMMA AdvanceToStopped ==
  ASSUME file \in Seq(Tracks), NEW r, NEW t, NEW which, ~r.ok
  PROVE  AdvanceTo(r, t, which) = r
<1>1. End \in Nat
  BY FileFacts, Zenon
<1>2. PICK loop : IsLoop(loop, r, t, which)
  BY <1>1, LoopUnfolds, Zenon
<1>3. /\ loop[0] = r
      /\ \A n \in 0..(End - 1) : loop[n + 1] = Iterated(loop[n], t, which)
      /\ AdvanceTo(r, t, which) = loop[End]
  BY <1>2 DEF IsLoop
<1> DEFINE S == {r}
<1>4. loop[0] \in S
  BY <1>3, Zenon
<1>5. ASSUME NEW n \in 0..(End - 1), loop[n] \in S PROVE loop[n + 1] \in S
  <2>1. Iterated(loop[n], t, which) = r
    BY <1>5, Zenon DEF Iterated
  <2> QED
    BY <1>3, <2>1, Zenon
<1> HIDE DEF S
<1>6. \A n \in 0..End : loop[n] \in S
  BY <1>1, <1>4, <1>5, LoopInvariant, Zenon
<1>7. End \in 0..End
  BY <1>1
<1> QED
  BY <1>3, <1>6, <1>7, Zenon DEF S

(***************************************************************************)
(* The reader's picture of the file is in these members.                   *)
(***************************************************************************)
LEMMA GoodAs ==
  ASSUME NEW r, NEW p, Good(r, p), NEW x \in ReaderStates,
         x.at = r.at, x.mExtractorTrackIndex = r.mExtractorTrackIndex,
         x.mExtractorSampleIndex = r.mExtractorSampleIndex, x.mEosReached = r.mEosReached,
         x.mTrackCursors = r.mTrackCursors
  PROVE  Good(x, p)
<1>1. PositionOK(x)
  BY Zenon DEF Good, PositionOK
<1> QED
  BY <1>1, Zenon DEF Good

(***************************************************************************)
(* What is taken, and what the reader has become, after a track's current  *)
(* sample was taken.                                                       *)
(***************************************************************************)
Takings(r, t, p) == [p EXCEPT ![t] = r.mTrackCursors[t].current.index]

ShiftedAs(r, t, x) ==
  /\ x.at = r.at /\ x.mExtractorTrackIndex = r.mExtractorTrackIndex
  /\ x.mExtractorSampleIndex = r.mExtractorSampleIndex
  /\ x.mEosReached = r.mEosReached
  /\ x.mEnforceSequentialAccess = r.mEnforceSequentialAccess
  /\ x.notified = r.notified /\ x.ok = r.ok
  /\ x.mTrackCursors[t].current = r.mTrackCursors[t].next
  /\ \A u \in Tracks : u # t => x.mTrackCursors[u] = r.mTrackCursors[u]
  /\ r.mTrackCursors[t].next.isSet =>
       r.mTrackCursors[t].current.index < r.mTrackCursors[t].next.index

(***************************************************************************)
(* Taking the current sample of a track the extractor has not passed keeps *)
(* the reader's picture of the file right.                                 *)
(***************************************************************************)
LEMMA ShiftKeepsGood ==
  ASSUME file \in Seq(Tracks), NEW r, NEW p \in Takens, Good(r, p), NEW t \in Tracks,
         r.mTrackCursors[t].current.isSet, Ahead(r, t, "current")
  PROVE  /\ Takings(r, t, p) \in Takens
         /\ Good(Shifted(r, t), Takings(r, t, p))
         /\ ShiftedAs(r, t, Shifted(r, t))
<1> DEFINE o == r.mTrackCursors[t]
           i == o.current.index
           q == [p EXCEPT ![t] = i]
           c == [previous |-> o.current, current |-> o.next, next |-> Reset(o.next)]
           cursors == [r.mTrackCursors EXCEPT ![t] = c]
           x == Shifted(r, t)
<1>1. /\ End \in Nat /\ r \in ReaderStates /\ r.at \in 0..End /\ o \in SampleCursor
      /\ r.mTrackCursors \in [Tracks -> SampleCursor]
      /\ PositionOK(r) /\ CursorOK(o, t, p[t], r.at) /\ UnseenOK(r.mTrackCursors, p)
      /\ NoInfo \notin 0..(End - 1)
  BY FileFacts DEF Good, ReaderStates, NoInfo
<1>2. i \in 0..(End - 1) /\ r.at <= i /\ i \in Nat
  <2>1. i \in 0..(End - 1)
    BY KnownPosition, Zenon
  <2> QED
    BY <2>1, <1>1, Zenon, SMT DEF Ahead
<1>3. q \in Takens /\ q[t] = i /\ \A u \in Tracks : u # t => q[u] = p[u]
  BY <1>2 DEF Takens
<1>4. c \in SampleCursor /\ c.previous = o.current /\ c.current = o.next /\ c.next.isSet = FALSE
  BY <1>1 DEF SampleCursor, Position, Reset
<1>5. x = [r EXCEPT !.mTrackCursors = cursors]
  BY Zenon DEF Shifted
<1> HIDE DEF c
<1>6. cursors \in [Tracks -> SampleCursor] /\ cursors[t] = c
      /\ \A u \in Tracks : u # t => cursors[u] = r.mTrackCursors[u]
  BY <1>1, <1>4
<1> HIDE DEF cursors, x, q
<1>7. /\ x \in ReaderStates /\ x.at = r.at /\ x.mExtractorTrackIndex = r.mExtractorTrackIndex
      /\ x.mExtractorSampleIndex = r.mExtractorSampleIndex
      /\ x.mEosReached = r.mEosReached /\ x.mTrackCursors = cursors
      /\ x.mEnforceSequentialAccess = r.mEnforceSequentialAccess
      /\ x.notified = r.notified /\ x.ok = r.ok
  BY <1>1, <1>5, <1>6 DEF ReaderStates
<1>8. PositionOK(x)
  BY <1>1, <1>7, Zenon DEF PositionOK
<1>9. CursorOK(c, t, i, r.at)
  <2>1. c.previous = Set(i)
    BY <1>1, <1>4 DEF SampleCursor, Position, Set
  <2>2. i # NoInfo
    BY <1>1, <1>2, Zenon
  <2>3. \A a \in Int : r.at <= a => Gap(t, a, r.at + 1)
    BY <1>1 DEF Gap
  <2>4. Gap(t, i, r.at + 1)
    BY <1>2, <2>3
  <2>5. o.next.isSet => /\ Sample(t, o.next.index) /\ i < o.next.index /\ Gap(t, i, o.next.index)
                        /\ Gap(t, o.next.index, r.at + 1)
    <3> SUFFICES ASSUME o.next.isSet
                 PROVE  /\ Sample(t, o.next.index) /\ i < o.next.index /\ Gap(t, i, o.next.index)
                        /\ Gap(t, o.next.index, r.at + 1)
      BY Zenon
    <3>1. Sample(t, o.next.index) /\ i < o.next.index /\ Gap(t, i, o.next.index)
      BY <1>1, Zenon DEF CursorOK
    <3>2. o.next.index \in Int /\ r.at <= o.next.index
      BY <1>1, <1>2, <3>1 DEF Sample
    <3> QED
      BY <2>3, <3>1, <3>2, Zenon
  <2> QED
    BY <1>4, <2>1, <2>2, <2>4, <2>5, Zenon DEF CursorOK
<1>10. ASSUME NEW u \in Tracks PROVE CursorOK(x.mTrackCursors[u], u, q[u], x.at)
  <2>1. CASE u = t
    BY <1>3, <1>6, <1>7, <1>9, <2>1, Zenon
  <2>2. CASE u # t
    BY <1>3, <1>6, <1>7, <2>2, Zenon DEF Good
  <2> QED
    BY <2>1, <2>2, Zenon
<1>11. UnseenOK(x.mTrackCursors, q)
  <2> SUFFICES ASSUME NEW u \in Tracks, NEW v \in Tracks,
                      q[u] = NoInfo, ~cursors[u].current.isSet
               PROVE  /\ Gap(u, NoInfo, q[v] + 1)
                      /\ cursors[v].current.isSet => Gap(u, NoInfo, cursors[v].current.index + 1)
                      /\ cursors[v].next.isSet => Gap(u, NoInfo, cursors[v].next.index + 1)
    BY <1>7, Zenon DEF UnseenOK
  <2>1. u # t
    BY <1>1, <1>2, <1>3, Zenon
  <2>2. p[u] = NoInfo /\ ~r.mTrackCursors[u].current.isSet
    BY <1>3, <1>6, <2>1, Zenon
  <2>3. CASE v = t
    <3>1. Gap(u, NoInfo, i + 1) /\ (o.next.isSet => Gap(u, NoInfo, o.next.index + 1))
      BY <1>1, <2>2, Zenon DEF UnseenOK
    <3> QED
      BY <1>3, <1>4, <1>6, <2>3, <3>1, Zenon
  <2>4. CASE v # t
    BY <1>1, <1>3, <1>6, <2>2, <2>4, Zenon DEF UnseenOK
  <2> QED
    BY <2>3, <2>4, Zenon
<1>12. Good(x, q)
  BY <1>7, <1>8, <1>10, <1>11, Zenon DEF Good
<1>13. o.next.isSet => i < o.next.index
  BY <1>1, Zenon DEF CursorOK
<1> QED
  BY <1>3, <1>4, <1>6, <1>7, <1>12, <1>13, Zenon DEF x, q, ShiftedAs, Takings

(***************************************************************************)
(* A thread that waits for good reason in r and is not notified in x waits *)
(* for good reason in x.                                                   *)
(***************************************************************************)
StillWaits(r, x, s) ==
  ~r.mEosReached /\ s # r.mExtractorTrackIndex /\ s \notin x.notified =>
    ~x.mEosReached /\ s # x.mExtractorTrackIndex

(***************************************************************************)
(* From the sample of a track in sequence, the extractor goes on to the    *)
(* next sample its track wants, and passes none.                           *)
(***************************************************************************)
LEMMA SequenceGoesOn ==
  ASSUME file \in Seq(Tracks), NEW r, NEW p \in Takens, Good(r, p), r.ok = TRUE,
         r.notified = {}, NotPassed(r), ~IsAtTrack(r, AnyTrack, "current")
  PROVE  LET x == AdvanceTo(advanceExtractor_l(r), AnyTrack, "current")
         IN  /\ Good(x, p) /\ Onward(r, x) /\ NotPassed(x)
             /\ x.ok => IsAtTrack(x, AnyTrack, "current") /\ x.notified = {} /\ ~x.mEosReached
             /\ ~x.ok => x.mEosReached /\ x.notified = Tracks
<1> DEFINE y == advanceExtractor_l(r)
           x == AdvanceTo(y, AnyTrack, "current")
<1>1. /\ Good(y, p) /\ Onward(r, y)
      /\ y.ok => ~y.mEosReached /\ y.notified = {}
      /\ ~y.ok => y.mEosReached /\ y.notified = Tracks
  BY AdvanceKeepsGood, Zenon
<1>2. NotPassed(y)
  BY StepNotPastAny, Zenon
<1>3. y.ok \in BOOLEAN
  BY <1>1 DEF Good, ReaderStates
<1> HIDE DEF y
<1>4. CASE ~y.ok
  <2>1. x = y
    BY <1>4, AdvanceToStopped, Zenon
  <2> QED
    BY <1>1, <1>2, <1>4, <2>1, Zenon DEF y
<1>5. CASE y.ok
  <2>1. y.ok = TRUE
    BY <1>3, <1>5, Zenon
  <2> HIDE DEF x
  <2>2. /\ Good(x, p) /\ Onward(y, x)
        /\ x.ok => /\ IsAtTrack(x, AnyTrack, "current") /\ x.notified = y.notified
                   /\ x.mEosReached => y.mEosReached
        /\ ~x.ok => x.at = End /\ x.mEosReached /\ x.notified = Tracks
        /\ NotPassed(y) => NotPassed(x)
    BY <1>1, <2>1, AdvanceToEnds, Zenon DEF x
  <2>3. Onward(r, x)
    BY <1>1, <2>2, Zenon DEF Onward
  <2> QED
    BY <1>1, <1>2, <1>5, <2>2, <2>3, Zenon DEF x, y
<1> QED
  BY <1>4, <1>5, Zenon

(***************************************************************************)
(* advanceTrack_l takes the current sample of the track and nothing else,  *)
(* and notifies whoever has no more reason to wait.                        *)
(***************************************************************************)
LEMMA TrackAdvances ==
  ASSUME file \in Seq(Tracks), NEW r, NEW p \in Takens, Good(r, p), r.ok = TRUE,
         r.notified = {}, InSequence(r), NEW t \in Tracks, r.mTrackCursors[t].current.isSet
  PROVE  LET x == advanceTrack_l(r, t)
             q == [p EXCEPT ![t] = r.mTrackCursors[t].current.index]
         IN  /\ q \in Takens /\ Good(x, q) /\ InSequence(x)
             /\ x.mEnforceSequentialAccess = r.mEnforceSequentialAccess
             /\ \A u \in Tracks : u # t /\ r.mTrackCursors[u].current.isSet =>
                  x.mTrackCursors[u].current = r.mTrackCursors[u].current
             /\ r.mEnforceSequentialAccess => \A s \in Tracks : s # t => StillWaits(r, x, s)
<1> DEFINE i == r.mTrackCursors[t].current.index
           q == [p EXCEPT ![t] = i]
           m == IF r.mEnforceSequentialAccess THEN r ELSE moveToTrack_l(r, t)
           s == Shifted(m, t)
           g == AdvanceTo(advanceExtractor_l(s), AnyTrack, "current")
           x == advanceTrack_l(r, t)
<1>1. CASE ~r.mEnforceSequentialAccess
  <2>1. x = s
    BY <1>1, Zenon DEF advanceTrack_l
  <2>2. m = moveToSample_l(r, t, "current")
    BY <1>1, Zenon DEF moveToTrack_l
  <2> HIDE DEF m
  <2>3. /\ Good(m, p) /\ Onward(r, m)
        /\ m.ok => m.at = m.mTrackCursors[t].current.index
        /\ ~m.ok => ~m.mTrackCursors[t].current.isSet
    BY <2>2, MoveToSample, Zenon
  <2>4. m.mTrackCursors[t].current = r.mTrackCursors[t].current /\ m.mTrackCursors[t].current.isSet
    BY <2>3, Zenon DEF Onward
  <2>5. m.at = m.mTrackCursors[t].current.index /\ m.at \in Nat
    BY <2>3, <2>4, FileFacts DEF Good, ReaderStates
  <2>6. Ahead(m, t, "current")
    BY <2>5 DEF Ahead
  <2> DEFINE k == Takings(m, t, p)
  <2>11. k = q
    BY <2>4, Zenon DEF Takings
  <2>13. k \in Takens /\ Good(s, k) /\ ShiftedAs(m, t, s)
    BY <2>3, <2>4, <2>6, ShiftKeepsGood, Zenon
  <2>12. /\ s.mEnforceSequentialAccess = m.mEnforceSequentialAccess
         /\ \A u \in Tracks : u # t => s.mTrackCursors[u] = m.mTrackCursors[u]
    BY <2>13, Zenon DEF ShiftedAs
  <2>7. /\ q \in Takens /\ Good(s, q)
        /\ s.mEnforceSequentialAccess = m.mEnforceSequentialAccess
        /\ \A u \in Tracks : u # t => s.mTrackCursors[u] = m.mTrackCursors[u]
    BY <2>11, <2>12, <2>13, Zenon
  <2> HIDE DEF s, q, x
  <2>8. s.mEnforceSequentialAccess = r.mEnforceSequentialAccess
    BY <2>3, <2>7, Zenon DEF Onward
  <2>9. InSequence(s)
    BY <1>1, <2>8, Zenon DEF InSequence
  <2>10. ASSUME NEW u \in Tracks, u # t, r.mTrackCursors[u].current.isSet
         PROVE  s.mTrackCursors[u].current = r.mTrackCursors[u].current
    BY <2>3, <2>7, <2>10, Zenon DEF Onward
  <2> QED
    BY <1>1, <2>1, <2>7, <2>8, <2>9, <2>10, Zenon DEF x, q
<1>2. CASE r.mEnforceSequentialAccess
  <2>1. m = r
    BY <1>2, Zenon
  <2>2. NotPassed(r) /\ (~r.mEosReached => IsAtTrack(r, AnyTrack, "current"))
    BY <1>2, Zenon DEF InSequence
  <2>3. Ahead(r, t, "current")
    BY <2>2, Zenon DEF NotPassed, Ahead
  <2>4. /\ End \in Nat /\ r.at \in 0..End /\ i \in 0..(End - 1) /\ i \in Int
        /\ \A u \in Tracks : r.mTrackCursors[u] \in SampleCursor
    <3>1. i \in 0..(End - 1)
      BY KnownPosition, Zenon
    <3> QED
      BY <3>1, FileFacts DEF Good, ReaderStates
  <2>5. ~r.mEosReached
    <3> SUFFICES ASSUME r.mEosReached PROVE FALSE
      BY Zenon
    <3>1. r.at = End
      BY Zenon DEF Good, PositionOK
    <3> QED
      BY <2>3, <2>4, <3>1 DEF Ahead
  <2> HIDE DEF m, i
  <2>6. /\ q \in Takens /\ Good(s, q)
        /\ s.at = r.at /\ s.mExtractorTrackIndex = r.mExtractorTrackIndex
        /\ s.mExtractorSampleIndex = r.mExtractorSampleIndex /\ s.mEosReached = r.mEosReached
        /\ s.mEnforceSequentialAccess = r.mEnforceSequentialAccess
        /\ s.notified = r.notified /\ s.ok = r.ok
        /\ s.mTrackCursors[t].current = r.mTrackCursors[t].next
        /\ \A u \in Tracks : u # t => s.mTrackCursors[u] = r.mTrackCursors[u]
        /\ r.mTrackCursors[t].next.isSet => i < r.mTrackCursors[t].next.index
    <3> DEFINE d == Shifted(r, t)
    <3>1. d = s
      BY <2>1, Zenon
    <3>2. q \in Takens /\ Good(d, q) /\ ShiftedAs(r, t, d)
      <4>1. Takings(r, t, p) = q
        BY Zenon DEF Takings, i
      <4>2. Takings(r, t, p) \in Takens /\ Good(d, Takings(r, t, p)) /\ ShiftedAs(r, t, d)
        BY <2>3, ShiftKeepsGood, Zenon
      <4> QED
        BY <4>1, <4>2, Zenon
    <3> HIDE DEF d, s
    <3> QED
      BY <3>1, <3>2, Zenon DEF ShiftedAs, i
  <2> HIDE DEF s, q
  <2>7. r.at <= i
    BY <2>3, Zenon DEF Ahead, i
  <2>8. NotPassed(s)
    <3> SUFFICES ASSUME NEW u \in Tracks, s.mTrackCursors[u].current.isSet
                 PROVE  s.at <= s.mTrackCursors[u].current.index
      BY Zenon DEF NotPassed
    <3>1. CASE u # t
      BY <2>2, <2>6, <3>1, Zenon DEF NotPassed
    <3>2. CASE u = t
      <4>1. i < r.mTrackCursors[t].next.index /\ s.mTrackCursors[u].current.index = r.mTrackCursors[t].next.index
        BY <2>6, <3>2, Zenon
      <4>2. r.mTrackCursors[t].next.index \in Nat
        BY <2>4 DEF SampleCursor, Position
      <4> QED
        BY <2>4, <2>6, <2>7, <4>1, <4>2
    <3> QED
      BY <3>1, <3>2, Zenon
  <2>9. IsAt(r, r.mTrackCursors[r.mExtractorTrackIndex].current)
    <3>1. r.mExtractorTrackIndex \in Tracks /\ AnyTrack \notin Tracks
      BY TracksAssumption DEF Good, PositionOK, AnyTrack, NoTrack
    <3> QED
      BY <2>2, <2>5, <3>1 DEF IsAtTrack
  <2>10. CASE t # r.mExtractorTrackIndex
    <3>1. x = s
      BY <2>10, Zenon DEF advanceTrack_l, s, m
    <3>2. r.mExtractorTrackIndex \in Tracks
      BY Zenon DEF Good, PositionOK
    <3>3. IsAtTrack(s, AnyTrack, "current")
      BY <2>6, <2>9, <2>10, <3>2, Zenon DEF IsAtTrack, IsAt
    <3>4. InSequence(s)
      BY <2>8, <3>3, Zenon DEF InSequence
    <3>5. \A w \in Tracks : StillWaits(r, s, w)
      BY <2>6, Zenon DEF StillWaits
    <3> HIDE DEF x
    <3> QED
      BY <2>6, <3>1, <3>4, <3>5, Zenon DEF x, q, i
  <2>11. CASE t = r.mExtractorTrackIndex
    <3>1. r.at = i
      BY <2>9, <2>11, KnownPosition, Zenon DEF i, IsAt
    <3>2. ~IsAtTrack(s, AnyTrack, "current")
      <4> SUFFICES ASSUME IsAtTrack(s, AnyTrack, "current") PROVE FALSE
        BY Zenon
      <4>1. IsAt(s, r.mTrackCursors[t].next)
        BY <2>6, <2>11, Zenon DEF IsAtTrack
      <4>2. r.mExtractorSampleIndex = r.at
        BY <2>5, Zenon DEF Good, PositionOK
      <4>3. i < r.mTrackCursors[t].next.index /\ r.mTrackCursors[t].next.index = r.at
        BY <2>6, <4>1, <4>2, Zenon DEF IsAt
      <4> QED
        BY <2>4, <3>1, <4>3
    <3>3. s.ok = TRUE /\ s.notified = {}
      BY <2>6, Zenon
    <3>4. /\ Good(g, q) /\ Onward(s, g) /\ NotPassed(g)
          /\ g.ok => IsAtTrack(g, AnyTrack, "current") /\ g.notified = {} /\ ~g.mEosReached
          /\ ~g.ok => g.mEosReached /\ g.notified = Tracks
      BY <2>6, <2>8, <3>2, <3>3, SequenceGoesOn, Zenon
    <3>5. x = IF g.ok /\ g.mExtractorTrackIndex # t
                THEN [g EXCEPT !.notified = @ \cup {g.mExtractorTrackIndex}] ELSE g
      BY <1>2, <2>11, Zenon DEF advanceTrack_l, s, m
    <3> HIDE DEF g, x
    <3>6. g \in ReaderStates /\ g.mExtractorTrackIndex \in Tracks
      BY <3>4, Zenon DEF Good, PositionOK
    <3>7. /\ x \in ReaderStates /\ x.at = g.at /\ x.mExtractorTrackIndex = g.mExtractorTrackIndex
          /\ x.mExtractorSampleIndex = g.mExtractorSampleIndex /\ x.mEosReached = g.mEosReached
          /\ x.mTrackCursors = g.mTrackCursors
          /\ x.mEnforceSequentialAccess = g.mEnforceSequentialAccess
      BY <3>5, <3>6 DEF ReaderStates
    <3>8. /\ ~g.ok => x.notified = Tracks
          /\ g.ok /\ g.mExtractorTrackIndex # t => x.notified = {g.mExtractorTrackIndex}
      <4>1. CASE g.ok /\ g.mExtractorTrackIndex # t
        BY <3>4, <3>5, <3>6, <4>1 DEF ReaderStates
      <4>2. CASE ~(g.ok /\ g.mExtractorTrackIndex # t)
        BY <3>4, <3>5, <4>2, Zenon
      <4> QED
        BY <4>1, <4>2, Zenon
    <3>9. Good(x, q)
      BY <3>4, <3>7, GoodAs, Zenon
    <3>10. NotPassed(x) /\ (~x.mEosReached => IsAtTrack(x, AnyTrack, "current"))
      BY <3>4, <3>7, Zenon DEF NotPassed, IsAtTrack, IsAt
    <3>11. x.mEnforceSequentialAccess = r.mEnforceSequentialAccess
      BY <2>6, <3>4, <3>7, Zenon DEF Onward
    <3>12. ASSUME NEW u \in Tracks, u # t, r.mTrackCursors[u].current.isSet
           PROVE  x.mTrackCursors[u].current = r.mTrackCursors[u].current
      BY <2>6, <3>4, <3>7, <3>12, Zenon DEF Onward
    <3>13. ASSUME NEW w \in Tracks, w # t PROVE StillWaits(r, x, w)
      BY <3>4, <3>7, <3>8, <3>13, Zenon DEF StillWaits
    <3>14. InSequence(x)
      BY <3>10, Zenon DEF InSequence
    <3> QED
      BY <2>6, <3>9, <3>11, <3>12, <3>13, <3>14, Zenon DEF x, q, i
  <2> QED
    BY <2>10, <2>11, Zenon
<1> QED
  BY <1>1, <1>2, Zenon

(***************************************************************************)
(* From the position known of the track that is farthest behind, the       *)
(* extractor has passed no sample a track wants.                           *)
(***************************************************************************)
LEMMA FarthestBehind ==
  ASSUME file \in Seq(Tracks), NEW r, NEW p \in Takens, Good(r, p), r.ok = TRUE,
         NEW t \in Earliest(r)
  PROVE  LET x == moveToSample_l(r, t, LastKnown(r, t))
         IN  Good(x, p) /\ Onward(r, x) /\ x.ok = TRUE /\ NotPassed(x)
<1> DEFINE which == LastKnown(r, t)
           m == r.mTrackCursors[t][which].index
           x == moveToSample_l(r, t, which)
<1>1. /\ t \in Tracks /\ which \in {"previous", "current"} /\ r.mTrackCursors[t][which].isSet
      /\ \A u \in Tracks : r.mTrackCursors[u][LastKnown(r, u)].isSet =>
           m <= r.mTrackCursors[u][LastKnown(r, u)].index
  BY Zenon DEF Earliest, LastKnown
<1>2. which = "current" \/ (which = "previous" /\ ~r.mTrackCursors[t].current.isSet)
  BY Zenon DEF LastKnown
<1>3. m \in 0..(End - 1)
  BY <1>1, KnownPosition, Zenon
<1>4. End \in Nat
  BY FileFacts, Zenon
<1> HIDE DEF which
<1>5. /\ Good(x, p) /\ Onward(r, x)
      /\ x.ok => x.at = x.mTrackCursors[t][which].index
      /\ ~x.ok => ~x.mTrackCursors[t][which].isSet
  <2>1. t \in Tracks /\ which \in {"previous", "current"}
    BY <1>1, Zenon
  <2>2. Good(x, p) /\ Onward(r, x)
    BY <2>1, MoveToSample, Zenon
  <2>3. x.ok => /\ x.mTrackCursors[t][which].isSet /\ x.notified = r.notified
                /\ x.at = x.mTrackCursors[t][which].index /\ ~x.mEosReached
    BY <2>1, MoveToSample, Zenon
  <2>4. ~x.ok => ~x.mTrackCursors[t][which].isSet
    BY <2>1, MoveToSample, Zenon
  <2> QED
    BY <2>2, <2>3, <2>4, Zenon
<1> HIDE DEF x
<1>6. x.mTrackCursors[t][which] = r.mTrackCursors[t][which]
  <2>1. CASE which = "current"
    BY <1>1, <1>5, <2>1, Zenon DEF Onward
  <2>2. CASE which = "previous"
    BY <1>1, <1>5, <2>2, Zenon DEF Onward
  <2> QED
    BY <1>2, <2>1, <2>2, Zenon
<1>7. x.ok = TRUE
  <2>1. x.ok \in BOOLEAN
    BY <1>5 DEF Good, ReaderStates
  <2> QED
    BY <1>1, <1>5, <1>6, <2>1, Zenon
<1>8. x.at = m
  BY <1>5, <1>6, <1>7, Zenon
<1>9. which = "previous" => m = p[t]
  <2> SUFFICES ASSUME which = "previous" PROVE m = p[t]
    BY Zenon
  <2>1. r.mTrackCursors[t].previous = IF p[t] = NoInfo THEN Reset(Set(0)) ELSE Set(p[t])
    BY <1>1, Zenon DEF Good, CursorOK
  <2>2. r.mTrackCursors[t].previous.isSet
    BY <1>1, Zenon
  <2> QED
    BY <2>1, <2>2 DEF Reset, Set
<1>10. ASSUME NEW u \in Tracks, x.mTrackCursors[u].current.isSet
       PROVE  m <= x.mTrackCursors[u].current.index
  <2> DEFINE c == r.mTrackCursors[u]
             i == x.mTrackCursors[u].current.index
  <2>1. i \in 0..(End - 1) /\ file[i + 1] = u /\ p[u] < i
    BY <1>5, <1>10, Zenon DEF Good, CursorOK, Sample
  <2>2. CASE c.current.isSet
    <3>1. LastKnown(r, u) = "current" /\ x.mTrackCursors[u].current = c.current
      BY <1>5, <2>2, Zenon DEF LastKnown, Onward
    <3> QED
      BY <1>1, <2>2, <3>1, Zenon
  <2>3. CASE ~c.current.isSet /\ p[u] # NoInfo
    <3>1. LastKnown(r, u) = "previous"
      BY <2>3, Zenon DEF LastKnown
    <3>2. c.previous = Set(p[u])
      BY <2>3, Zenon DEF Good, CursorOK
    <3>3. c.previous.isSet /\ c.previous.index = p[u]
      BY <3>2 DEF Set
    <3>4. m <= p[u]
      BY <1>1, <3>1, <3>3, Zenon
    <3>5. p[u] \in Int
      BY DEF Takens, NoInfo
    <3> QED
      BY <1>3, <1>4, <2>1, <3>4, <3>5
  <2>4. CASE ~c.current.isSet /\ p[u] = NoInfo
    <3>1. Gap(u, NoInfo, p[t] + 1)
          /\ (r.mTrackCursors[t].current.isSet => Gap(u, NoInfo, r.mTrackCursors[t].current.index + 1))
      BY <1>1, <2>4, Zenon DEF Good, UnseenOK
    <3>2. Gap(u, NoInfo, m + 1)
      <4>1. CASE which = "current"
        BY <1>1, <3>1, <4>1, Zenon
      <4>2. CASE which = "previous"
        BY <1>9, <3>1, <4>2, Zenon
      <4> QED
        BY <1>2, <4>1, <4>2, Zenon
    <3>3. ~(NoInfo < i /\ i < m + 1)
      BY <2>1, <3>2, Zenon DEF Gap
    <3> QED
      BY <1>3, <1>4, <2>1, <3>3 DEF NoInfo
  <2> QED
    BY <2>2, <2>3, <2>4, Zenon
<1>11. NotPassed(x)
  BY <1>8, <1>10, Zenon DEF NotPassed
<1> QED
  BY <1>5, <1>7, <1>11, Zenon DEF x, which

(***************************************************************************)
(* setEnforceSequentialAccess positions the extractor in sequence.         *)
(***************************************************************************)
LEMMA PositionedInSequence ==
  ASSUME file \in Seq(Tracks), NEW r, NEW p \in Takens, Good(r, p), r.ok = TRUE
  PROVE  LET x == Positioned(r)
         IN  /\ Good(x, p) /\ Onward(r, x)
             /\ x.ok => NotPassed(x) /\ IsAtTrack(x, AnyTrack, "current")
<1> DEFINE x == Positioned(r)
<1>1. CASE Earliest(r) = {}
  <2>1. x = [r EXCEPT !.ok = FALSE]
    BY <1>1, Zenon DEF Positioned
  <2> HIDE DEF x
  <2>2. r \in ReaderStates
    BY Zenon DEF Good
  <2>3. /\ x \in ReaderStates /\ x.at = r.at /\ x.mExtractorTrackIndex = r.mExtractorTrackIndex
        /\ x.mExtractorSampleIndex = r.mExtractorSampleIndex /\ x.mEosReached = r.mEosReached
        /\ x.mTrackCursors = r.mTrackCursors
        /\ x.mEnforceSequentialAccess = r.mEnforceSequentialAccess /\ x.ok = FALSE
    BY <2>1, <2>2 DEF ReaderStates
  <2>4. Good(x, p)
    BY <2>3, GoodAs, Zenon
  <2>5. Onward(r, x)
    BY <2>3, Zenon DEF Onward
  <2> QED
    BY <2>3, <2>4, <2>5, Zenon DEF x
<1>2. CASE Earliest(r) # {}
  <2> DEFINE t == CHOOSE t \in Earliest(r) : TRUE
             y == moveToSample_l(r, t, LastKnown(r, t))
  <2>1. t \in Earliest(r)
    BY <1>2, Zenon
  <2>2. x = AdvanceTo(y, AnyTrack, "current")
    BY <1>2, Zenon DEF Positioned
  <2> HIDE DEF t
  <2>3. Good(y, p) /\ Onward(r, y) /\ y.ok = TRUE /\ NotPassed(y)
    BY <2>1, FarthestBehind, Zenon
  <2> HIDE DEF y, x
  <2> DEFINE z == AdvanceTo(y, AnyTrack, "current")
  <2>4. /\ Good(z, p) /\ Onward(y, z)
        /\ z.ok => IsAtTrack(z, AnyTrack, "current")
        /\ NotPassed(y) => NotPassed(z)
    BY <2>3, AdvanceToEnds, Zenon
  <2> HIDE DEF z
  <2>5. x = z
    BY <2>2, Zenon DEF z
  <2>6. Onward(r, z)
    BY <2>3, <2>4, Zenon DEF Onward
  <2> QED
    BY <2>3, <2>4, <2>5, <2>6, Zenon DEF x
<1> QED
  BY <1>1, <1>2, Zenon

(***************************************************************************)
(* setEnforceSequentialAccess on a reader that was read from.              *)
(***************************************************************************)
LEMMA SwitchKeepsGood ==
  ASSUME file \in Seq(Tracks), NEW r, NEW p \in Takens, Good(r, p), r.ok = TRUE,
         InSequence(r), NEW enforce \in BOOLEAN
  PROVE  LET x == Enforced(r, enforce)
         IN  /\ Good(x, p) /\ InSequence(x)
             /\ \A t \in Tracks : r.mTrackCursors[t].current.isSet =>
                  x.mTrackCursors[t].current = r.mTrackCursors[t].current
             /\ r.mEnforceSequentialAccess /\ enforce => x = r
             /\ r.mEnforceSequentialAccess /\ ~enforce => x.notified = Tracks
<1> DEFINE x == Enforced(r, enforce)
<1>1. r \in ReaderStates /\ r.mExtractorTrackIndex # NoTrack
  BY TracksAssumption DEF Good, PositionOK, NoTrack
<1>2. CASE r.mEnforceSequentialAccess /\ ~enforce
  <2>1. x = [r EXCEPT !.mEnforceSequentialAccess = FALSE, !.notified = Tracks]
    BY <1>2, Zenon DEF Enforced
  <2> HIDE DEF x
  <2>2. /\ x \in ReaderStates /\ x.at = r.at /\ x.mExtractorTrackIndex = r.mExtractorTrackIndex
        /\ x.mExtractorSampleIndex = r.mExtractorSampleIndex /\ x.mEosReached = r.mEosReached
        /\ x.mTrackCursors = r.mTrackCursors
        /\ x.mEnforceSequentialAccess = FALSE /\ x.notified = Tracks
    BY <1>1, <2>1 DEF ReaderStates
  <2>3. Good(x, p)
    BY <2>2, GoodAs, Zenon
  <2> QED
    BY <1>2, <2>2, <2>3, Zenon DEF x, InSequence
<1>3. CASE ~r.mEnforceSequentialAccess /\ enforce
  <2> DEFINE y == Positioned(r)
  <2>1. x = [y EXCEPT !.mEnforceSequentialAccess = y.ok]
    BY <1>1, <1>3, Zenon DEF Enforced
  <2>2. /\ Good(y, p) /\ Onward(r, y)
        /\ y.ok => NotPassed(y) /\ IsAtTrack(y, AnyTrack, "current")
    BY PositionedInSequence, Zenon
  <2> HIDE DEF x, y
  <2>3. y \in ReaderStates
    BY <2>2, Zenon DEF Good
  <2>4. /\ x \in ReaderStates /\ x.at = y.at /\ x.mExtractorTrackIndex = y.mExtractorTrackIndex
        /\ x.mExtractorSampleIndex = y.mExtractorSampleIndex /\ x.mEosReached = y.mEosReached
        /\ x.mTrackCursors = y.mTrackCursors
        /\ x.mEnforceSequentialAccess = y.ok
    BY <2>1, <2>3 DEF ReaderStates
  <2>5. Good(x, p)
    BY <2>2, <2>4, GoodAs, Zenon
  <2>6. InSequence(x)
    BY <2>2, <2>4, Zenon DEF InSequence, NotPassed, IsAtTrack, IsAt
  <2>7. \A t \in Tracks : r.mTrackCursors[t].current.isSet =>
          x.mTrackCursors[t].current = r.mTrackCursors[t].current
    BY <2>2, <2>4, Zenon DEF Onward
  <2> QED
    BY <1>3, <2>5, <2>6, <2>7, Zenon DEF x
<1>4. CASE r.mEnforceSequentialAccess = enforce
  <2>1. x = [r EXCEPT !.mEnforceSequentialAccess = enforce]
    BY <1>4, Zenon DEF Enforced
  <2>2. x = r
    BY <1>1, <1>4, <2>1 DEF ReaderStates
  <2> QED
    BY <1>4, <2>2, Zenon
<1>5. r.mEnforceSequentialAccess \in BOOLEAN
  BY <1>1 DEF ReaderStates
<1> QED
  BY <1>2, <1>3, <1>4, <1>5, Zenon

(***************************************************************************)
(* A thread that need not wait finds the extractor at its current sample,  *)
(* or is told the end of the stream: there is no sample left, or it has    *)
(* waited and sequential access was given up meanwhile.                    *)
(***************************************************************************)
LEMMA ReadyAtCurrent ==
  ASSUME file \in Seq(Tracks), NEW r, NEW p \in Takens, Good(r, p), r.ok = TRUE,
         r.notified = {}, InSequence(r), NEW t \in Tracks, NEW waited \in BOOLEAN,
         ~MustWait(r, t)
  PROVE  LET x == primeExtractorForTrack_l(r, t, waited)
         IN  /\ Good(x, p) /\ InSequence(x) /\ Onward(r, x)
             /\ r.mEnforceSequentialAccess =>
                  /\ x.mEosReached = r.mEosReached /\ x.notified = {}
                  /\ x.mExtractorTrackIndex = r.mExtractorTrackIndex
             /\ x.ok => /\ x.mTrackCursors[t].current = Set(x.at) /\ x.at \in 0..(End - 1)
                        /\ x.ok = TRUE /\ x.notified = {}
             /\ ~x.ok => Gap(t, p[t], End) \/ (waited /\ ~r.mEnforceSequentialAccess)
<1> DEFINE x == primeExtractorForTrack_l(r, t, waited)
<1>1. /\ r \in ReaderStates /\ r.mExtractorTrackIndex \in Tracks
      /\ r.mExtractorTrackIndex # NoTrack /\ AnyTrack \notin Tracks
      /\ End \in Nat
  BY TracksAssumption, FileFacts DEF Good, PositionOK, NoTrack, AnyTrack
<1>2. ASSUME NEW y, Good(y, p), y.at = End, ~y.mTrackCursors[t].current.isSet
      PROVE  Gap(t, p[t], End)
  <2>1. Gap(t, p[t], End + 1)
    BY <1>2, Zenon DEF Good, CursorOK
  <2>2. p[t] \in Int
    BY DEF Takens, NoInfo
  <2> QED
    BY <1>1, <2>1, <2>2, GapShrinks
<1>3. CASE (r.mEnforceSequentialAccess \/ waited) /\ r.mEosReached
  <2>1. x = [r EXCEPT !.ok = FALSE]
    BY <1>1, <1>3, Zenon DEF primeExtractorForTrack_l
  <2> HIDE DEF x
  <2>2. /\ x \in ReaderStates /\ x.at = r.at /\ x.mExtractorTrackIndex = r.mExtractorTrackIndex
        /\ x.mExtractorSampleIndex = r.mExtractorSampleIndex /\ x.mEosReached = r.mEosReached
        /\ x.mTrackCursors = r.mTrackCursors /\ x.notified = r.notified
        /\ x.mEnforceSequentialAccess = r.mEnforceSequentialAccess /\ x.ok = FALSE
    BY <1>1, <2>1 DEF ReaderStates
  <2>3. Good(x, p)
    BY <2>2, GoodAs, Zenon
  <2>4. Onward(r, x)
    BY <2>2, Zenon DEF Onward
  <2>5. InSequence(x)
    BY <2>2, Zenon DEF InSequence, NotPassed, IsAtTrack, IsAt
  <2>6. r.mEnforceSequentialAccess => Gap(t, p[t], End)
    <3> SUFFICES ASSUME r.mEnforceSequentialAccess PROVE Gap(t, p[t], End)
      BY Zenon
    <3>1. r.at = End
      BY <1>3, Zenon DEF Good, PositionOK
    <3>2. r.mTrackCursors[t].current.isSet => r.at <= r.mTrackCursors[t].current.index
      BY Zenon DEF InSequence, NotPassed
    <3>3. r.mTrackCursors[t].current.isSet => r.mTrackCursors[t].current.index \in 0..(End - 1)
      BY KnownPosition, Zenon
    <3>4. ~r.mTrackCursors[t].current.isSet
      BY <1>1, <3>1, <3>2, <3>3
    <3> QED
      BY <1>2, <3>1, <3>4, Zenon
  <2> QED
    BY <1>3, <2>2, <2>3, <2>4, <2>5, <2>6, Zenon DEF x
<1>4. CASE ~((r.mEnforceSequentialAccess \/ waited) /\ r.mEosReached) /\ ~r.mEnforceSequentialAccess
  <2>1. x = moveToSample_l(r, t, "current")
    BY <1>1, <1>4, Zenon DEF primeExtractorForTrack_l, moveToTrack_l
  <2> HIDE DEF x
  <2>2. /\ Good(x, p) /\ Onward(r, x)
        /\ x.ok => /\ x.mTrackCursors[t].current.isSet /\ x.notified = r.notified
                   /\ x.at = x.mTrackCursors[t].current.index
        /\ ~x.ok => x.at = End /\ ~x.mTrackCursors[t].current.isSet
    BY <2>1, MoveToSample, Zenon
  <2>3. InSequence(x)
    BY <1>4, <2>2, Zenon DEF InSequence, Onward
  <2>4. ASSUME x.ok PROVE x.mTrackCursors[t].current = Set(x.at) /\ x.at \in 0..(End - 1) /\ x.ok = TRUE
    <3>1. x.at \in 0..(End - 1)
      BY <2>2, <2>4, KnownPosition, Zenon
    <3>2. x.ok \in BOOLEAN /\ x.mTrackCursors[t] \in SampleCursor
      BY <2>2 DEF Good, ReaderStates
    <3>3. x.mTrackCursors[t].current = Set(x.at)
      BY <2>2, <2>4, <3>2 DEF SampleCursor, Position, Set
    <3> QED
      BY <2>4, <3>1, <3>2, <3>3, Zenon
  <2>5. ~x.ok => Gap(t, p[t], End)
    BY <1>2, <2>2, Zenon
  <2> QED
    BY <1>4, <2>2, <2>3, <2>4, <2>5, Zenon DEF x
<1>5. CASE ~r.mEosReached /\ r.mEnforceSequentialAccess
  <2>1. x = [r EXCEPT !.ok = TRUE]
    BY <1>1, <1>5, Zenon DEF primeExtractorForTrack_l
  <2>2. x = r
    BY <1>1, <2>1 DEF ReaderStates
  <2>3. t = r.mExtractorTrackIndex
    BY <1>1, <1>5, Zenon DEF MustWait
  <2>4. IsAt(r, r.mTrackCursors[t].current)
    BY <1>1, <1>5, <2>3, Zenon DEF InSequence, IsAtTrack
  <2>5. r.at = r.mTrackCursors[t].current.index /\ r.mTrackCursors[t].current.isSet
        /\ r.at \in 0..(End - 1)
    BY <2>4, KnownPosition, Zenon DEF IsAt
  <2>6. r.mTrackCursors[t] \in SampleCursor
    BY <1>1 DEF ReaderStates
  <2>7. r.mTrackCursors[t].current = Set(r.at)
    BY <2>5, <2>6 DEF SampleCursor, Position, Set
  <2>8. Onward(r, r)
    BY Zenon DEF Onward
  <2> HIDE DEF x
  <2> QED
    BY <2>2, <2>5, <2>7, <2>8, Zenon DEF x
<1> QED
  BY <1>3, <1>4, <1>5, Zenon

(***************************************************************************)
(* The first call finds the extractor at the first sample.                 *)
(***************************************************************************)
LEMMA FirstSample ==
  ASSUME file \in Seq(Tracks), Fresh, taken \in Takens, reader.mExtractorTrackIndex = NoTrack
  PROVE  LET x == Primed(reader)
         IN  /\ End = 0 => x = reader
             /\ End # 0 => /\ Good(x, taken) /\ InSequence(x)
                           /\ x.ok = reader.ok /\ x.notified = reader.notified
                           /\ x.mEnforceSequentialAccess = reader.mEnforceSequentialAccess
<1> DEFINE x == Primed(reader)
           t == file[1]
<1>1. End \in Nat /\ reader \in ReaderStates /\ reader.at = 0
  BY FileFacts, Zenon DEF Fresh
<1>2. CASE End = 0
  <2>1. TrackAt(reader.at) = NoTrack
    BY <1>1, <1>2 DEF TrackAt
  <2> QED
    BY <1>2, <2>1, Zenon DEF Primed
<1>3. CASE End # 0
  <2>1. t \in Tracks /\ End > 0 /\ 0 < End
    BY <1>1, <1>3 DEF End
  <2>2. TrackAt(reader.at) = t /\ t # NoTrack /\ AnyTrack = NoTrack
    BY <1>1, <2>1, TracksAssumption DEF TrackAt, NoTrack, AnyTrack
  <2> DEFINE u0 == [previous |-> Unset, current |-> Unset, next |-> Unset]
             c == [previous |-> Unset, current |-> Set(0), next |-> Unset]
             cursors == [[u \in Tracks |-> u0] EXCEPT ![t] = c]
  <2> HIDE DEF t
  <2>3. x = [reader EXCEPT !.mExtractorTrackIndex = t, !.mTrackCursors[t].current = Set(0)]
    BY <2>2, Zenon DEF Primed, Fresh
  <2>4. reader.mTrackCursors = [u \in Tracks |-> u0]
    BY Zenon DEF Fresh
  <2>5. [reader.mTrackCursors EXCEPT ![t].current = Set(0)] = cursors
    <3>1. reader.mTrackCursors[t] = u0
      BY <2>1, <2>4, Zenon
    <3>2. [u0 EXCEPT !.current = Set(0)] = c
      OBVIOUS
    <3>3. [reader.mTrackCursors[t] EXCEPT !.current = Set(0)] = c
      BY <3>1, <3>2, Zenon
    <3> HIDE DEF c, u0
    <3> QED
      BY <2>4, <3>3, Zenon
  <2>6. x = [reader EXCEPT !.mExtractorTrackIndex = t, !.mTrackCursors = cursors]
    BY <2>3, <2>5, Zenon
  <2>7. /\ cursors[t] = c /\ \A u \in Tracks : u # t => cursors[u] = u0
        /\ cursors \in [Tracks -> SampleCursor]
    BY <2>1 DEF SampleCursor, Position, Unset, Set, Reset
  <2>8. /\ c.previous = Unset /\ c.current = Set(0) /\ c.next = Unset
        /\ u0.previous = Unset /\ u0.current = Unset /\ u0.next = Unset
        /\ Unset.isSet = FALSE /\ Set(0).isSet = TRUE /\ Set(0).index = 0
    BY DEF Unset, Set, Reset
  <2> HIDE DEF x, c, u0, cursors
  <2>9. /\ x \in ReaderStates /\ x.at = 0 /\ x.mExtractorTrackIndex = t
        /\ x.mExtractorSampleIndex = reader.mExtractorSampleIndex
        /\ x.mEosReached = reader.mEosReached /\ x.mTrackCursors = cursors
        /\ x.mEnforceSequentialAccess = reader.mEnforceSequentialAccess
        /\ x.ok = reader.ok /\ x.notified = reader.notified
    BY <1>1, <2>1, <2>6, <2>7 DEF ReaderStates
  <2>10. x.mExtractorSampleIndex = 0 /\ ~x.mEosReached
    BY <2>9, Zenon DEF Fresh
  <2>11. file[0 + 1] = t
    BY DEF t
  <2>12. PositionOK(x)
    BY <2>1, <2>9, <2>10, <2>11, Zenon DEF PositionOK
  <2>13. \A u \in Tracks : taken[u] = NoInfo
    BY Zenon DEF Fresh
  <2>14. \A u : Gap(u, NoInfo, 0) /\ (u # t => Gap(u, NoInfo, 1))
    BY <1>1, <2>11 DEF Gap, NoInfo
  <2>15. ASSUME NEW u \in Tracks PROVE CursorOK(cursors[u], u, taken[u], x.at)
    <3>1. CASE u = t
      <4>1. Sample(t, 0) /\ NoInfo < 0 /\ Gap(t, NoInfo, 0) /\ Gap(t, 0, 0 + 1)
        BY <1>1, <2>1, <2>11, <2>14 DEF Sample, Gap, NoInfo
      <4> QED
        BY <2>7, <2>8, <2>9, <2>13, <3>1, <4>1 DEF CursorOK, Unset
    <3>2. CASE u # t
      <4>1. Gap(u, NoInfo, 0 + 1)
        BY <2>14, <3>2
      <4> QED
        BY <2>7, <2>8, <2>9, <2>13, <3>2, <4>1 DEF CursorOK, Unset
    <3> QED
      BY <3>1, <3>2, Zenon
  <2>16. ASSUME NEW u \in Tracks, NEW v \in Tracks, ~cursors[u].current.isSet
         PROVE  /\ Gap(u, NoInfo, taken[v] + 1)
                /\ cursors[v].current.isSet => Gap(u, NoInfo, cursors[v].current.index + 1)
                /\ ~cursors[v].next.isSet
    <3>1. u # t
      BY <2>7, <2>8, <2>16, Zenon
    <3>2. Gap(u, NoInfo, taken[v] + 1)
      BY <2>13, <2>14 DEF NoInfo
    <3>3. v # t => ~cursors[v].current.isSet
      BY <2>7, <2>8, Zenon
    <3>4. v = t => cursors[v].current.index + 1 = 1
      BY <2>7, <2>8
    <3>5. ~cursors[v].next.isSet
      BY <2>7, <2>8, Zenon
    <3> QED
      BY <2>14, <3>1, <3>2, <3>3, <3>4, <3>5, Zenon
  <2>17. UnseenOK(cursors, taken)
    BY <2>16, Zenon DEF UnseenOK
  <2>18. Good(x, taken)
    BY <2>9, <2>12, <2>15, <2>17, Zenon DEF Good
  <2>19. NotPassed(x)
    BY <2>7, <2>8, <2>9 DEF NotPassed
  <2>20. IsAtTrack(x, AnyTrack, "current")
    BY <2>7, <2>8, <2>9, <2>10, Zenon DEF IsAtTrack, IsAt
  <2> QED
    BY <1>3, <2>9, <2>18, <2>19, <2>20, Zenon DEF InSequence, x
<1> QED
  BY <1>2, <1>3, Zenon

-----------------------------------------------------------------------------
(* The invariant                                                             *)

(***************************************************************************)
(* The file does not change, so what is good of the next state is good in  *)
(* the next state.                                                         *)
(***************************************************************************)
LEMMA NextGood ==
  ASSUME file' = file, Good(reader', taken')
  PROVE  Good(reader, taken)'
<1>1. End' = End
  BY DEF End
<1>2. (reader \in ReaderStates)'
  BY <1>1 DEF Good, ReaderStates, SampleCursor, Position
<1>3. PositionOK(reader)'
  BY <1>1 DEF Good, PositionOK
<1>4. ASSUME NEW t \in Tracks
      PROVE  CursorOK(reader.mTrackCursors[t], t, taken[t], reader.at)'
  <2>1. CursorOK(reader'.mTrackCursors[t], t, taken'[t], reader'.at)
    BY Zenon DEF Good
  <2> QED
    BY <1>1, <2>1 DEF CursorOK, Sample, Gap
<1>5. UnseenOK(reader.mTrackCursors, taken)'
  <2>1. UnseenOK(reader'.mTrackCursors, taken')
    BY Zenon DEF Good
  <2> QED
    BY <1>1, <2>1 DEF UnseenOK, Gap
<1> QED
  BY <1>2, <1>3, <1>4, <1>5, Zenon DEF Good

(***************************************************************************)
(* What an operation has to show of the reader x it leaves behind, for the *)
(* invariant to hold after it has unlocked the mutex.                      *)
(***************************************************************************)
LEMMA UnlockKeepsInv ==
  ASSUME file \in Seq(Tracks), file' = file, NEW x, NEW w, Unlock(x, w),
         w \in [Tracks -> {"no", "asleep", "woken"}],
         taken' \in Takens,
         answer' \in [Tracks -> {NoInfo} \cup 0..End], data' \in [Tracks -> {NoInfo} \cup 0..End],
         returned' \in BOOLEAN,
         Good(x, taken'), InSequence(x),
         \A t \in Tracks : answer'[t] \notin {NoInfo, End} =>
           x.mTrackCursors[t].current = Set(answer'[t]),
         ~returned' => \A t \in Tracks : answer'[t] = End => Gap(t, taken'[t], End),
         \A t \in Tracks : w[t] = "asleep" /\ t \notin x.notified =>
           x.mEnforceSequentialAccess /\ ~x.mEosReached /\ x.mExtractorTrackIndex # t,
         \A t \in Tracks : w[t] = "woken" \/ (w[t] = "asleep" /\ t \in x.notified) =>
           x.mEnforceSequentialAccess \/ returned'
  PROVE  ReaderInv'
<1>1. /\ reader' = [x EXCEPT !.notified = {}, !.ok = TRUE]
      /\ wait' = [t \in Tracks |-> IF t \in x.notified /\ w[t] = "asleep" THEN "woken" ELSE w[t]]
  BY Zenon DEF Unlock
<1>2. x \in ReaderStates
  BY Zenon DEF Good
<1>3. /\ reader' \in ReaderStates /\ reader'.at = x.at
      /\ reader'.mExtractorTrackIndex = x.mExtractorTrackIndex
      /\ reader'.mExtractorSampleIndex = x.mExtractorSampleIndex
      /\ reader'.mEosReached = x.mEosReached /\ reader'.mTrackCursors = x.mTrackCursors
      /\ reader'.mEnforceSequentialAccess = x.mEnforceSequentialAccess
      /\ reader'.notified = {} /\ reader'.ok = TRUE
  BY <1>1, <1>2 DEF ReaderStates
<1>4. Good(reader', taken')
  BY <1>3, GoodAs, Zenon
<1>5. Good(reader, taken)'
  BY <1>4, NextGood, Zenon
<1>6. InSequence(reader)'
  BY <1>3, Zenon DEF InSequence, NotPassed, IsAtTrack, IsAt
<1>7. End' = End
  BY DEF End
<1>8. reader'.mExtractorTrackIndex # NoTrack
  BY <1>4, TracksAssumption DEF Good, PositionOK, NoTrack
<1>9. wait' \in [Tracks -> {"no", "asleep", "woken"}]
  BY <1>1
<1>10. ASSUME NEW t \in Tracks, wait'[t] = "asleep"
       PROVE  /\ reader'.mEnforceSequentialAccess /\ ~reader'.mEosReached
              /\ reader'.mExtractorTrackIndex \notin {NoTrack, t}
  <2>1. w[t] = "asleep" /\ t \notin x.notified
    BY <1>1, <1>10
  <2> QED
    BY <1>3, <1>8, <2>1, Zenon
<1>11. ASSUME NEW t \in Tracks, wait'[t] = "woken"
       PROVE  reader'.mEnforceSequentialAccess \/ returned'
  <2>1. w[t] = "woken" \/ (w[t] = "asleep" /\ t \in x.notified)
    BY <1>1, <1>11
  <2> QED
    BY <1>3, <2>1, Zenon
<1>12. ~returned' => \A t \in Tracks : answer'[t] = End' => Gap(t, taken[t], End)'
  BY <1>7 DEF Gap
<1>13. (file \in Seq(Tracks))'
  BY Zenon
<1>14. (taken \in [Tracks -> {NoInfo} \cup 0..(End - 1)])'
       /\ (answer \in [Tracks -> {NoInfo} \cup 0..End])'
       /\ (data \in [Tracks -> {NoInfo} \cup 0..End])'
  BY <1>7, Zenon DEF Takens
<1>15. \A t \in Tracks : answer'[t] \notin {NoInfo, End'} =>
         reader'.mTrackCursors[t].current = Set(answer'[t])
  BY <1>3, <1>7, Zenon
<1> QED
  BY <1>3, <1>5, <1>6, <1>8, <1>9, <1>10, <1>11, <1>12, <1>13, <1>14, <1>15, Zenon DEF ReaderInv

(***************************************************************************)
(* What a thread finds when it has locked the mutex.                       *)
(***************************************************************************)
LEMMA PrimedReader ==
  ASSUME ReaderInv
  PROVE  LET x == Primed(reader)
         IN  \/ /\ x = reader /\ Fresh /\ End = 0 /\ reader.mExtractorTrackIndex = NoTrack
             \/ /\ Good(x, taken) /\ InSequence(x) /\ x.ok = TRUE /\ x.notified = {}
                /\ x.mEnforceSequentialAccess = reader.mEnforceSequentialAccess
                /\ reader.mExtractorTrackIndex # NoTrack => x = reader
                /\ \A t \in Tracks : answer[t] \notin {NoInfo, End} =>
                     x.mTrackCursors[t].current = Set(answer[t])
<1> DEFINE x == Primed(reader)
<1>1. CASE reader.mExtractorTrackIndex # NoTrack
  <2>1. x = reader
    BY <1>1, Zenon DEF Primed
  <2> QED
    BY <1>1, <2>1, Zenon DEF ReaderInv
<1>2. CASE reader.mExtractorTrackIndex = NoTrack
  <2>1. file \in Seq(Tracks) /\ Fresh /\ taken \in Takens
    BY <1>2, Zenon DEF ReaderInv, Takens
  <2>2. /\ End = 0 => x = reader
        /\ End # 0 => /\ Good(x, taken) /\ InSequence(x)
                      /\ x.ok = reader.ok /\ x.notified = reader.notified
                      /\ x.mEnforceSequentialAccess = reader.mEnforceSequentialAccess
    BY <1>2, <2>1, FirstSample, Zenon
  <2>3. \A t \in Tracks : answer[t] \in {NoInfo, End}
    BY <2>1, Zenon DEF Fresh
  <2> HIDE DEF x
  <2> QED
    BY <1>2, <2>1, <2>2, <2>3, Zenon DEF ReaderInv, x
<1> QED
  BY <1>1, <1>2, Zenon

(***************************************************************************)
(* A step on a reader that was not read from.                              *)
(***************************************************************************)
LEMMA FreshKeepsInv ==
  ASSUME ReaderInv, reader.mExtractorTrackIndex = NoTrack, NEW enforce \in BOOLEAN,
         reader' = [reader EXCEPT !.mEnforceSequentialAccess = enforce],
         file' = file, taken' = taken, data' = data, returned' \in BOOLEAN,
         answer' \in [Tracks -> {NoInfo} \cup 0..End],
         \A t \in Tracks : answer'[t] = NoInfo \/ (answer'[t] = End /\ End = 0),
         wait' \in [Tracks -> {"no", "asleep", "woken"}],
         \A t \in Tracks : wait'[t] # "asleep",
         \A t \in Tracks : wait'[t] = "woken" => enforce \/ returned'
  PROVE  ReaderInv'
<1>1. Fresh /\ reader \in ReaderStates /\ reader.notified = {} /\ reader.ok = TRUE
  BY Zenon DEF ReaderInv, Fresh
<1>2. /\ reader' \in ReaderStates /\ reader'.at = reader.at
      /\ reader'.mExtractorTrackIndex = reader.mExtractorTrackIndex
      /\ reader'.mExtractorSampleIndex = reader.mExtractorSampleIndex
      /\ reader'.mEosReached = reader.mEosReached /\ reader'.mTrackCursors = reader.mTrackCursors
      /\ reader'.mEnforceSequentialAccess = enforce
      /\ reader'.notified = {} /\ reader'.ok = TRUE
  BY <1>1 DEF ReaderStates
<1>3. End' = End /\ End \in Nat
  <2>1. End' = End
    BY DEF End
  <2> QED
    BY <2>1, FileFacts, Zenon DEF ReaderInv
<1>4. ReaderStates' = ReaderStates
  BY <1>3 DEF ReaderStates, SampleCursor, Position
<1>5. Fresh'
  BY <1>1, <1>2, <1>3, <1>4, Zenon DEF Fresh
<1>6. \A t \in Tracks : answer'[t] = End => Gap(t, taken[t], End)'
  BY <1>3 DEF Gap, NoInfo
<1>7. (file \in Seq(Tracks))' /\ (taken \in [Tracks -> {NoInfo} \cup 0..(End - 1)])'
      /\ (answer \in [Tracks -> {NoInfo} \cup 0..End])'
      /\ (data \in [Tracks -> {NoInfo} \cup 0..End])'
  BY <1>3, Zenon DEF ReaderInv
<1>8. \A t \in Tracks : answer'[t] \in {NoInfo, End'}
  BY <1>3, Zenon
<1> QED
  BY <1>2, <1>3, <1>5, <1>6, <1>7, <1>8, Zenon DEF ReaderInv

(***************************************************************************)
(* The threads wait or are woken for good reason; the answers they have got *)
(* are their current samples.                                              *)
(***************************************************************************)
Waking(x, w) ==
  /\ \A u \in Tracks : w[u] = "asleep" /\ u \notin x.notified =>
       x.mEnforceSequentialAccess /\ ~x.mEosReached /\ x.mExtractorTrackIndex # u
  /\ \A u \in Tracks : w[u] = "woken" \/ (w[u] = "asleep" /\ u \in x.notified) =>
       x.mEnforceSequentialAccess \/ returned

Answers(x) ==
  \A u \in Tracks : answer[u] \notin {NoInfo, End} => x.mTrackCursors[u].current = Set(answer[u])

(***************************************************************************)
(* What a thread has got when it does not wait any longer.                 *)
(***************************************************************************)
LEMMA ReadyReader ==
  ASSUME ReaderInv, NEW t \in Tracks, Proceeds(t)
  PROVE  LET x == Ready(t)
         IN  \/ /\ x = [reader EXCEPT !.ok = FALSE] /\ Fresh /\ End = 0
                /\ reader.mExtractorTrackIndex = NoTrack /\ ~x.ok /\ x.notified = {}
             \/ /\ Good(x, taken) /\ InSequence(x) /\ Answers(x)
                /\ Waking(x, wait)
                /\ x.ok => /\ x.mTrackCursors[t].current = Set(x.at) /\ x.at \in 0..(End - 1)
                           /\ x.ok = TRUE /\ x.notified = {}
                /\ ~x.ok => Gap(t, taken[t], End) \/ returned
<1> DEFINE r == Primed(reader)
           waited == wait[t] = "woken"
           x == Ready(t)
<1>1. x = primeExtractorForTrack_l(r, t, waited) /\ ~MustWait(r, t) /\ waited \in BOOLEAN
  BY Zenon DEF Ready, Proceeds
<1>2. file \in Seq(Tracks) /\ taken \in Takens
  BY Zenon DEF ReaderInv, Takens
<1>3. \/ /\ r = reader /\ Fresh /\ End = 0 /\ reader.mExtractorTrackIndex = NoTrack
      \/ /\ Good(r, taken) /\ InSequence(r) /\ r.ok = TRUE /\ r.notified = {}
         /\ r.mEnforceSequentialAccess = reader.mEnforceSequentialAccess
         /\ reader.mExtractorTrackIndex # NoTrack => r = reader
         /\ \A u \in Tracks : answer[u] \notin {NoInfo, End} =>
              r.mTrackCursors[u].current = Set(answer[u])
  BY PrimedReader, Zenon
<1> HIDE DEF r, waited, x
<1>4. CASE /\ r = reader /\ Fresh /\ End = 0 /\ reader.mExtractorTrackIndex = NoTrack
  <2>1. x = [reader EXCEPT !.ok = FALSE]
    BY <1>1, <1>4, Zenon DEF primeExtractorForTrack_l
  <2>2. reader \in ReaderStates /\ reader.notified = {}
    BY <1>4, Zenon DEF Fresh, ReaderInv
  <2>3. ~x.ok /\ x.notified = {}
    BY <2>1, <2>2 DEF ReaderStates
  <2> QED
    BY <1>4, <2>1, <2>3, Zenon DEF x
<1>5. CASE /\ Good(r, taken) /\ InSequence(r) /\ r.ok = TRUE /\ r.notified = {}
           /\ r.mEnforceSequentialAccess = reader.mEnforceSequentialAccess
           /\ reader.mExtractorTrackIndex # NoTrack => r = reader
           /\ \A u \in Tracks : answer[u] \notin {NoInfo, End} =>
                r.mTrackCursors[u].current = Set(answer[u])
  <2> DEFINE y == primeExtractorForTrack_l(r, t, waited)
  <2>1. Good(r, taken) /\ r.ok = TRUE /\ r.notified = {} /\ InSequence(r) /\ ~MustWait(r, t)
        /\ waited \in BOOLEAN
    BY <1>1, <1>5, Zenon
  <2>10. Good(y, taken) /\ InSequence(y) /\ Onward(r, y)
    BY <1>2, <2>1, ReadyAtCurrent, Zenon
  <2>11. /\ r.mEnforceSequentialAccess =>
             /\ y.mEosReached = r.mEosReached /\ y.notified = {}
             /\ y.mExtractorTrackIndex = r.mExtractorTrackIndex
         /\ ~y.ok => Gap(t, taken[t], End) \/ (waited /\ ~r.mEnforceSequentialAccess)
    <3>1. r.mEnforceSequentialAccess =>
            /\ y.mEosReached = r.mEosReached /\ y.notified = {}
            /\ y.mExtractorTrackIndex = r.mExtractorTrackIndex
      BY <1>2, <2>1, ReadyAtCurrent, Zenon
    <3>2. ~y.ok => Gap(t, taken[t], End) \/ (waited /\ ~r.mEnforceSequentialAccess)
      BY <1>2, <2>1, ReadyAtCurrent, Zenon
    <3> QED
      BY <3>1, <3>2, Zenon
  <2>12. y.ok => /\ y.mTrackCursors[t].current = Set(y.at) /\ y.at \in 0..(End - 1)
                 /\ y.ok = TRUE /\ y.notified = {}
    BY <1>2, <2>1, ReadyAtCurrent, Zenon
  <2> HIDE DEF y
  <2>3. x = y
    BY <1>1, Zenon DEF y
  <2>4. Answers(y)
    <3> SUFFICES ASSUME NEW u \in Tracks, answer[u] \notin {NoInfo, End}
                 PROVE  y.mTrackCursors[u].current = Set(answer[u])
      BY Zenon DEF Answers
    <3>1. r.mTrackCursors[u].current = Set(answer[u])
      BY <1>5, Zenon
    <3>2. r.mTrackCursors[u].current.isSet
      BY <3>1 DEF Set
    <3> QED
      BY <2>10, <2>11, <2>12, <3>1, <3>2, Zenon DEF Onward
  <2>5. y.mEnforceSequentialAccess = reader.mEnforceSequentialAccess
    BY <1>5, <2>10, <2>11, <2>12, Zenon DEF Onward
  <2>6. ASSUME NEW u \in Tracks, wait[u] = "asleep"
        PROVE  /\ y.mEnforceSequentialAccess /\ ~y.mEosReached
               /\ y.mExtractorTrackIndex # u /\ y.notified = {}
    <3>1. /\ reader.mEnforceSequentialAccess /\ ~reader.mEosReached
          /\ reader.mExtractorTrackIndex # NoTrack /\ reader.mExtractorTrackIndex # u
      BY <2>6, Zenon DEF ReaderInv
    <3> QED
      BY <1>5, <2>10, <2>11, <2>12, <2>5, <3>1, Zenon
  <2>7. ASSUME NEW u \in Tracks, wait[u] = "woken"
        PROVE  y.mEnforceSequentialAccess \/ returned
    BY <2>5, <2>7, Zenon DEF ReaderInv
  <2>8. Waking(y, wait)
    BY <2>6, <2>7, Zenon DEF Waking
  <2>9. ~y.ok => Gap(t, taken[t], End) \/ returned
    BY <1>5, <2>10, <2>11, <2>12, <2>5, <2>7, Zenon DEF waited
  <2> QED
    BY <2>10, <2>11, <2>12, <2>3, <2>4, <2>8, <2>9, Zenon DEF x
<1> QED
  BY <1>3, <1>4, <1>5, Zenon

(***************************************************************************)
(* waitForTrack_l puts a thread to sleep that has to wait.                 *)
(***************************************************************************)
LEMMA WaitKeepsInv ==
  ASSUME ReaderInv, NEW t \in Tracks, waitForTrack_l(t)
  PROVE  ReaderInv'
<1> DEFINE x == Primed(reader)
           w == [wait EXCEPT ![t] = "asleep"]
<1>1. /\ MustWait(x, t) /\ Unlock(x, w)
      /\ file' = file /\ taken' = taken /\ answer' = answer /\ data' = data /\ returned' = returned
  BY Zenon DEF waitForTrack_l
<1>2. \/ /\ x = reader /\ Fresh /\ End = 0 /\ reader.mExtractorTrackIndex = NoTrack
      \/ /\ Good(x, taken) /\ InSequence(x) /\ x.ok = TRUE /\ x.notified = {}
         /\ x.mEnforceSequentialAccess = reader.mEnforceSequentialAccess
         /\ reader.mExtractorTrackIndex # NoTrack => x = reader
         /\ \A u \in Tracks : answer[u] \notin {NoInfo, End} =>
              x.mTrackCursors[u].current = Set(answer[u])
  BY PrimedReader, Zenon
<1> HIDE DEF x
<1>3. /\ Good(x, taken) /\ InSequence(x) /\ x.notified = {}
      /\ x.mEnforceSequentialAccess = reader.mEnforceSequentialAccess
      /\ reader.mExtractorTrackIndex # NoTrack => x = reader
      /\ \A u \in Tracks : answer[u] \notin {NoInfo, End} =>
           x.mTrackCursors[u].current = Set(answer[u])
  BY <1>1, <1>2, Zenon DEF MustWait
<1>4. /\ file \in Seq(Tracks) /\ wait \in [Tracks -> {"no", "asleep", "woken"}]
      /\ taken \in Takens /\ answer \in [Tracks -> {NoInfo} \cup 0..End]
      /\ data \in [Tracks -> {NoInfo} \cup 0..End] /\ returned \in BOOLEAN
      /\ ~returned => \A u \in Tracks : answer[u] = End => Gap(u, taken[u], End)
  BY Zenon DEF ReaderInv, Takens
<1>5. /\ w \in [Tracks -> {"no", "asleep", "woken"}] /\ w[t] = "asleep"
      /\ \A u \in Tracks : u # t => w[u] = wait[u]
  BY <1>4
<1> HIDE DEF w
<1>6. ASSUME NEW u \in Tracks, w[u] = "asleep"
      PROVE  x.mEnforceSequentialAccess /\ ~x.mEosReached /\ x.mExtractorTrackIndex # u
  <2>1. CASE u = t
    BY <1>1, <2>1, Zenon DEF MustWait
  <2>2. CASE u # t
    <3>1. wait[u] = "asleep"
      BY <1>5, <1>6, <2>2, Zenon
    <3> QED
      BY <1>3, <3>1, Zenon DEF ReaderInv
  <2> QED
    BY <2>1, <2>2, Zenon
<1>7. ASSUME NEW u \in Tracks, w[u] = "woken" \/ (w[u] = "asleep" /\ u \in x.notified)
      PROVE  x.mEnforceSequentialAccess \/ returned
  <2>1. w[u] = "woken"
    BY <1>3, <1>7, Zenon
  <2>2. wait[u] = "woken"
    BY <1>5, <2>1
  <2> QED
    BY <1>3, <2>2, Zenon DEF ReaderInv
<1> QED
  BY <1>1, <1>3, <1>4, <1>5, <1>6, <1>7, UnlockKeepsInv, Zenon

(***************************************************************************)
(* A thread that goes on leaves the others asleep or wakes them.           *)
(***************************************************************************)
LEMMA StopsWaiting ==
  ASSUME wait \in [Tracks -> {"no", "asleep", "woken"}], NEW t \in Tracks, NEW x, Waking(x, wait)
  PROVE  LET w == [wait EXCEPT ![t] = "no"]
         IN  w \in [Tracks -> {"no", "asleep", "woken"}] /\ Waking(x, w)
<1> DEFINE w == [wait EXCEPT ![t] = "no"]
<1>1. /\ w \in [Tracks -> {"no", "asleep", "woken"}]
      /\ \A u \in Tracks : w[u] = wait[u] \/ w[u] = "no"
  OBVIOUS
<1> HIDE DEF w
<1>2. \A u \in Tracks : /\ w[u] = "asleep" => wait[u] = "asleep"
                        /\ w[u] = "woken" => wait[u] = "woken"
  BY <1>1
<1>3. Waking(x, w)
  BY <1>2, Zenon DEF Waking
<1> QED
  BY <1>1, <1>3, Zenon DEF w

(***************************************************************************)
(* A thread on an empty file is told the end of the stream.                *)
(***************************************************************************)
LEMMA EmptyKeepsInv ==
  ASSUME ReaderInv, NEW t \in Tracks, Fresh, End = 0, reader.mExtractorTrackIndex = NoTrack,
         NEW x, x = [reader EXCEPT !.ok = FALSE], Unlock(x, [wait EXCEPT ![t] = "no"]),
         answer' = [answer EXCEPT ![t] = End],
         file' = file, taken' = taken, data' = data, returned' = returned
  PROVE  ReaderInv'
<1>1. /\ reader \in ReaderStates /\ reader.notified = {} /\ reader.ok = TRUE
      /\ wait \in [Tracks -> {"no", "asleep", "woken"}]
      /\ answer \in [Tracks -> {NoInfo} \cup 0..End] /\ returned \in BOOLEAN
      /\ \A u \in Tracks : wait[u] # "asleep"
      /\ \A u \in Tracks : wait[u] = "woken" => reader.mEnforceSequentialAccess \/ returned
      /\ \A u \in Tracks : answer[u] = NoInfo \/ (answer[u] = End /\ End = 0)
  BY Zenon DEF ReaderInv, Fresh
<1>2. /\ reader' = [x EXCEPT !.notified = {}, !.ok = TRUE]
      /\ wait' = [u \in Tracks |-> IF u \in x.notified /\ [wait EXCEPT ![t] = "no"][u] = "asleep"
                                     THEN "woken" ELSE [wait EXCEPT ![t] = "no"][u]]
  BY Zenon DEF Unlock
<1>3. x \in ReaderStates /\ x.notified = {}
  BY <1>1 DEF ReaderStates
<1>4. wait' = [wait EXCEPT ![t] = "no"]
  BY <1>1, <1>2, <1>3
<1>5. wait' \in [Tracks -> {"no", "asleep", "woken"}]
      /\ \A u \in Tracks : wait'[u] # "asleep" /\ (wait'[u] = "woken" => wait[u] = "woken")
  BY <1>1, <1>4
<1>6. /\ answer' \in [Tracks -> {NoInfo} \cup 0..End]
      /\ \A u \in Tracks : answer'[u] = NoInfo \/ (answer'[u] = End /\ End = 0)
  BY <1>1
<1>7. reader' = [reader EXCEPT !.mEnforceSequentialAccess = reader.mEnforceSequentialAccess]
  <2>1. reader' = reader
    BY <1>1, <1>2 DEF ReaderStates
  <2> QED
    BY <1>1, <2>1 DEF ReaderStates
<1>8. reader.mEnforceSequentialAccess \in BOOLEAN
  BY <1>1 DEF ReaderStates
<1>9. \A u \in Tracks : wait'[u] = "woken" => reader.mEnforceSequentialAccess \/ returned'
  BY <1>1, <1>5, Zenon
<1> QED
  BY <1>1, <1>5, <1>6, <1>7, <1>8, <1>9, FreshKeepsInv, Zenon

(***************************************************************************)
(* A thread is told of its current sample, or of the end of the stream.    *)
(***************************************************************************)
LEMMA AnswerKeepsInv ==
  ASSUME ReaderInv, NEW t \in Tracks, NEW x, NEW a \in 0..End,
         Good(x, taken), InSequence(x), Answers(x), Waking(x, wait),
         Unlock(x, [wait EXCEPT ![t] = "no"]), answer' = [answer EXCEPT ![t] = a],
         a # End => x.mTrackCursors[t].current = Set(a),
         a = End => Gap(t, taken[t], End) \/ returned,
         file' = file, taken' = taken, data' = data, returned' = returned
  PROVE  ReaderInv'
<1> DEFINE w == [wait EXCEPT ![t] = "no"]
<1>1. /\ file \in Seq(Tracks) /\ wait \in [Tracks -> {"no", "asleep", "woken"}]
      /\ taken \in Takens /\ answer \in [Tracks -> {NoInfo} \cup 0..End]
      /\ data \in [Tracks -> {NoInfo} \cup 0..End] /\ returned \in BOOLEAN
      /\ ~returned => \A u \in Tracks : answer[u] = End => Gap(u, taken[u], End)
  BY Zenon DEF ReaderInv, Takens
<1>2. w \in [Tracks -> {"no", "asleep", "woken"}] /\ Waking(x, w)
  BY <1>1, StopsWaiting, Zenon
<1>3. answer' \in [Tracks -> {NoInfo} \cup 0..End] /\ answer'[t] = a
      /\ \A u \in Tracks : u # t => answer'[u] = answer[u]
  BY <1>1
<1> HIDE DEF w
<1>4. \A u \in Tracks : answer'[u] \notin {NoInfo, End} =>
        x.mTrackCursors[u].current = Set(answer'[u])
  BY <1>3, Zenon DEF Answers
<1>5. ~returned => \A u \in Tracks : answer'[u] = End => Gap(u, taken[u], End)
  BY <1>1, <1>3, Zenon
<1>6. Unlock(x, w)
  BY Zenon DEF w
<1> QED
  BY <1>1, <1>2, <1>3, <1>4, <1>5, <1>6, UnlockKeepsInv, Zenon DEF Waking

(***************************************************************************)
(* What taking the sample means to the thread.                             *)
(***************************************************************************)
Takes(t) ==
  answer' = [answer EXCEPT ![t] = NoInfo] /\ taken' = [taken EXCEPT ![t] = answer[t]]

(***************************************************************************)
(* A thread that takes the sample it was told of keeps the invariant.      *)
(***************************************************************************)
LEMMA TakingKeepsInv ==
  ASSUME ReaderInv, NEW t \in Tracks, NEW x, NEW w,
         Good(x, taken), InSequence(x), Answers(x), x.ok = TRUE, x.notified = {},
         w \in [Tracks -> {"no", "asleep", "woken"}], w[t] # "asleep", Waking(x, w),
         answer[t] \notin {NoInfo, End}, Unlock(advanceTrack_l(x, t), w),
         Takes(t), data' \in [Tracks -> {NoInfo} \cup 0..End], file' = file, returned' = returned
  PROVE  ReaderInv'
<1> DEFINE y == advanceTrack_l(x, t)
           i == x.mTrackCursors[t].current.index
           q == [taken EXCEPT ![t] = i]
<1>1. /\ file \in Seq(Tracks)
      /\ taken \in Takens /\ answer \in [Tracks -> {NoInfo} \cup 0..End] /\ returned \in BOOLEAN
      /\ ~returned => \A u \in Tracks : answer[u] = End => Gap(u, taken[u], End)
  BY Zenon DEF ReaderInv, Takens
<1>2. x.mTrackCursors[t].current = Set(answer[t])
  BY Zenon DEF Answers
<1>3. i = answer[t] /\ x.mTrackCursors[t].current.isSet
  BY <1>2 DEF Set
<1>4. q = taken'
  BY <1>3, Zenon DEF Takes
<1>5. /\ q \in Takens /\ Good(y, q) /\ InSequence(y)
      /\ y.mEnforceSequentialAccess = x.mEnforceSequentialAccess
      /\ \A u \in Tracks : u # t /\ x.mTrackCursors[u].current.isSet =>
           y.mTrackCursors[u].current = x.mTrackCursors[u].current
      /\ x.mEnforceSequentialAccess => \A s \in Tracks : s # t => StillWaits(x, y, s)
  BY <1>1, <1>3, TrackAdvances, Zenon
<1> HIDE DEF y, q, i
<1>6. /\ answer' \in [Tracks -> {NoInfo} \cup 0..End] /\ answer'[t] = NoInfo
      /\ \A u \in Tracks : u # t => answer'[u] = answer[u] /\ taken'[u] = taken[u]
  BY <1>1 DEF Takens, Takes
<1>7. NoInfo # End
  BY <1>1, FileFacts DEF NoInfo
<1>8. ASSUME NEW u \in Tracks, answer'[u] \notin {NoInfo, End}
      PROVE  y.mTrackCursors[u].current = Set(answer'[u])
  <2>1. u # t /\ answer'[u] = answer[u]
    BY <1>6, <1>8, Zenon
  <2>2. x.mTrackCursors[u].current = Set(answer[u])
    BY <1>8, <2>1, Zenon DEF Answers
  <2>3. x.mTrackCursors[u].current.isSet
    BY <2>2 DEF Set
  <2> QED
    BY <1>5, <2>1, <2>2, <2>3, Zenon
<1>9. ASSUME ~returned, NEW u \in Tracks, answer'[u] = End
      PROVE  Gap(u, taken'[u], End)
  <2>1. u # t /\ answer[u] = End /\ taken'[u] = taken[u]
    BY <1>6, <1>7, <1>9, Zenon
  <2> QED
    BY <1>1, <1>9, <2>1, Zenon
<1>10. ASSUME NEW u \in Tracks, w[u] = "asleep", u \notin y.notified
       PROVE  y.mEnforceSequentialAccess /\ ~y.mEosReached /\ y.mExtractorTrackIndex # u
  <2>1. u # t /\ x.mEnforceSequentialAccess /\ ~x.mEosReached /\ x.mExtractorTrackIndex # u
    BY <1>10, Zenon DEF Waking
  <2>2. StillWaits(x, y, u)
    BY <1>5, <2>1, Zenon
  <2> QED
    BY <1>5, <1>10, <2>1, <2>2, Zenon DEF StillWaits
<1>11. ASSUME NEW u \in Tracks, w[u] = "woken" \/ (w[u] = "asleep" /\ u \in y.notified)
       PROVE  y.mEnforceSequentialAccess \/ returned
  BY <1>5, <1>11, Zenon DEF Waking
<1>12. Good(y, taken') /\ taken' \in Takens /\ Unlock(y, w)
  BY <1>4, <1>5, Zenon DEF y
<1> QED
  BY <1>1, <1>5, <1>6, <1>8, <1>9, <1>10, <1>11, <1>12, UnlockKeepsInv, Zenon

(***************************************************************************)
(* For MediaSampleReader nothing is left of a track without samples behind *)
(* the last one taken.                                                     *)
(***************************************************************************)
LEMMA NothingLeft ==
  ASSUME NEW t \in Tracks, End \in Nat, Gap(t, taken[t], End)
  PROVE  Promise!Left(t) = {}
BY DEF Gap, End, Promise!Left, Promise!EndOfStream

(***************************************************************************)
(* The sample behind a gap is the next one for MediaSampleReader.          *)
(***************************************************************************)
LEMMA LeastLeft ==
  ASSUME End \in Nat, NEW t \in Tracks, taken \in Takens, NEW i \in 0..(End - 1),
         file[i + 1] = t, taken[t] < i, Gap(t, taken[t], i)
  PROVE  i \in Promise!Left(t) /\ \A j \in Promise!Left(t) : i <= j
BY DEF Gap, End, Takens, NoInfo, Promise!Left, Promise!EndOfStream

(***************************************************************************)
(* getSampleInfoForTrack.                                                  *)
(***************************************************************************)
LEMMA InfoStep ==
  ASSUME ReaderInv, NEW t \in Tracks, getSampleInfoForTrack(t)
  PROVE  ReaderInv' /\ Promise!info(t)
<1> DEFINE x == Ready(t)
           a == IF x.ok THEN x.at ELSE End
<1>1. /\ Proceeds(t) /\ answer[t] = NoInfo /\ answer' = [answer EXCEPT ![t] = a]
      /\ Unlock(x, [wait EXCEPT ![t] = "no"])
      /\ file' = file /\ taken' = taken /\ data' = data /\ returned' = returned
  BY Zenon DEF getSampleInfoForTrack
<1>2. file \in Seq(Tracks) /\ taken \in Takens /\ End \in Nat
  BY FileFacts, Zenon DEF ReaderInv, Takens
<1>3. \/ /\ x = [reader EXCEPT !.ok = FALSE] /\ Fresh /\ End = 0
         /\ reader.mExtractorTrackIndex = NoTrack /\ ~x.ok /\ x.notified = {}
      \/ /\ Good(x, taken) /\ InSequence(x) /\ Answers(x)
         /\ Waking(x, wait)
         /\ x.ok => /\ x.mTrackCursors[t].current = Set(x.at) /\ x.at \in 0..(End - 1)
                    /\ x.ok = TRUE /\ x.notified = {}
         /\ ~x.ok => Gap(t, taken[t], End) \/ returned
  BY <1>1, ReadyReader, Zenon
<1> HIDE DEF x
<1>4. ASSUME answer' = [answer EXCEPT ![t] = End], Promise!Left(t) = {} \/ returned
      PROVE  Promise!info(t)
  BY <1>1, <1>4, Zenon DEF Promise!info, Promise!NoInfo, Promise!EndOfStream, NoInfo, End
<1>5. CASE /\ x = [reader EXCEPT !.ok = FALSE] /\ Fresh /\ End = 0
           /\ reader.mExtractorTrackIndex = NoTrack /\ ~x.ok /\ x.notified = {}
  <2>1. answer' = [answer EXCEPT ![t] = End]
    BY <1>1, <1>5, Zenon
  <2>2. ReaderInv'
    BY <1>1, <1>5, <2>1, EmptyKeepsInv, Zenon
  <2>3. Gap(t, taken[t], End)
    BY <1>5 DEF Gap
  <2> QED
    BY <1>2, <1>4, <2>1, <2>2, <2>3, NothingLeft, Zenon
<1>6. CASE /\ Good(x, taken) /\ InSequence(x) /\ Answers(x) /\ Waking(x, wait)
           /\ ~x.ok /\ (Gap(t, taken[t], End) \/ returned)
  <2>1. answer' = [answer EXCEPT ![t] = End]
    BY <1>1, <1>6, Zenon
  <2>2. End \in 0..End
    BY <1>2
  <2>3. ReaderInv'
    BY <1>1, <1>6, <2>1, <2>2, AnswerKeepsInv, Zenon
  <2> QED
    BY <1>2, <1>4, <1>6, <2>1, <2>3, NothingLeft, Zenon
<1>7. CASE /\ Good(x, taken) /\ InSequence(x) /\ Answers(x) /\ Waking(x, wait)
           /\ x.ok /\ x.mTrackCursors[t].current = Set(x.at) /\ x.at \in 0..(End - 1)
  <2>1. answer' = [answer EXCEPT ![t] = x.at]
    BY <1>1, <1>7, Zenon
  <2>2. x.at \in 0..End /\ x.at # End
    BY <1>2, <1>7
  <2>3. ReaderInv'
    BY <1>1, <1>7, <2>1, <2>2, AnswerKeepsInv, Zenon
  <2>4. x.mTrackCursors[t].current.isSet /\ x.mTrackCursors[t].current.index = x.at
    BY <1>7 DEF Set
  <2>5. file[x.at + 1] = t /\ taken[t] < x.at /\ Gap(t, taken[t], x.at)
    BY <1>7, <2>4, Zenon DEF Good, CursorOK, Sample
  <2>6. x.at \in Promise!Left(t) /\ \A j \in Promise!Left(t) : x.at <= j
    BY <1>2, <1>7, <2>5, LeastLeft, Zenon
  <2>7. Promise!info(t)
    BY <1>1, <2>1, <2>6, Zenon DEF Promise!info, Promise!NoInfo, NoInfo
  <2> QED
    BY <2>3, <2>7, Zenon
<1> QED
  BY <1>3, <1>5, <1>6, <1>7, Zenon

(***************************************************************************)
(* The answer of a thread that has one is a sample that is left.           *)
(***************************************************************************)
LEMMA AnswerIsLeft ==
  ASSUME ReaderInv, NEW t \in Tracks, NEW x, Good(x, taken), Answers(x),
         answer[t] \notin {NoInfo, End}
  PROVE  /\ x.mTrackCursors[t].current = Set(answer[t])
         /\ ~Gap(t, taken[t], End)
<1>1. x.mTrackCursors[t].current = Set(answer[t])
  BY Zenon DEF Answers
<1>2. x.mTrackCursors[t].current.isSet /\ x.mTrackCursors[t].current.index = answer[t]
  BY <1>1 DEF Set
<1>3. Sample(t, answer[t]) /\ taken[t] < answer[t]
  BY <1>2, Zenon DEF Good, CursorOK
<1>4. End \in Nat
  BY FileFacts, Zenon DEF ReaderInv
<1>5. answer[t] < End
  BY <1>3, <1>4 DEF Sample
<1>6. ~Gap(t, taken[t], End)
  BY <1>3, <1>5, Zenon DEF Gap, Sample
<1> QED
  BY <1>1, <1>6, Zenon

(***************************************************************************)
(* readSampleDataForTrack.                                                 *)
(***************************************************************************)
LEMMA ReadStep ==
  ASSUME ReaderInv, NEW t \in Tracks, readSampleDataForTrack(t)
  PROVE  ReaderInv' /\ (Promise!read(t) \/ Promise!readNothing(t))
<1> DEFINE x == Ready(t)
           w == [wait EXCEPT ![t] = "no"]
<1>1. /\ Proceeds(t) /\ answer[t] # NoInfo /\ answer[t] # End
      /\ file' = file /\ returned' = returned
      /\ x.ok => /\ data' = [data EXCEPT ![t] = x.at] /\ Takes(t)
                 /\ Unlock(advanceTrack_l(x, t), w)
      /\ ~x.ok => /\ answer' = [answer EXCEPT ![t] = End] /\ Unlock(x, w)
                  /\ taken' = taken /\ data' = data
  BY Zenon DEF readSampleDataForTrack, Takes, Proceeds, Running
<1>2. /\ file \in Seq(Tracks) /\ taken \in Takens /\ End \in Nat
      /\ wait \in [Tracks -> {"no", "asleep", "woken"}]
      /\ data \in [Tracks -> {NoInfo} \cup 0..End]
  BY FileFacts, Zenon DEF ReaderInv, Takens
<1>3. \/ /\ x = [reader EXCEPT !.ok = FALSE] /\ Fresh /\ End = 0
         /\ reader.mExtractorTrackIndex = NoTrack /\ ~x.ok /\ x.notified = {}
      \/ /\ Good(x, taken) /\ InSequence(x) /\ Answers(x)
         /\ Waking(x, wait)
         /\ x.ok => /\ x.mTrackCursors[t].current = Set(x.at) /\ x.at \in 0..(End - 1)
                    /\ x.ok = TRUE /\ x.notified = {}
         /\ ~x.ok => Gap(t, taken[t], End) \/ returned
  BY <1>1, ReadyReader, Zenon
<1> HIDE DEF x
<1>4. /\ Good(x, taken) /\ InSequence(x) /\ Answers(x) /\ Waking(x, wait)
      /\ x.ok => /\ x.mTrackCursors[t].current = Set(x.at) /\ x.at \in 0..(End - 1)
                 /\ x.ok = TRUE /\ x.notified = {}
      /\ ~x.ok => Gap(t, taken[t], End) \/ returned
  BY <1>1, <1>3, Zenon DEF Fresh
<1>5. x.mTrackCursors[t].current = Set(answer[t]) /\ ~Gap(t, taken[t], End)
  BY <1>1, <1>4, AnswerIsLeft, Zenon
<1>6. CASE x.ok
  <2>1. x.at = answer[t]
    BY <1>4, <1>5, <1>6 DEF Set
  <2>2. w \in [Tracks -> {"no", "asleep", "woken"}] /\ Waking(x, w)
    BY <1>2, <1>4, StopsWaiting, Zenon
  <2>3. w[t] # "asleep"
    BY <1>2
  <2> HIDE DEF w
  <2>4. data' \in [Tracks -> {NoInfo} \cup 0..End]
    <3>1. x.at \in {NoInfo} \cup 0..End /\ data' = [data EXCEPT ![t] = x.at]
      BY <1>1, <1>2, <1>4, <1>6
    <3> QED
      BY <1>2, <3>1
  <2>5. ReaderInv'
    BY <1>1, <1>4, <1>6, <2>2, <2>3, <2>4, TakingKeepsInv, Zenon
  <2>6. Promise!read(t)
    BY <1>1, <1>6, <2>1, Zenon
       DEF Takes, Promise!read, Promise!NoInfo, Promise!EndOfStream, NoInfo, End
  <2> QED
    BY <2>5, <2>6, Zenon
<1>7. CASE ~x.ok
  <2>1. returned
    BY <1>4, <1>5, <1>7, Zenon
  <2>2. End \in 0..End
    BY <1>2
  <2>3. ReaderInv'
    BY <1>1, <1>4, <1>7, <2>1, <2>2, AnswerKeepsInv, Zenon
  <2>4. Promise!readNothing(t)
    BY <1>1, <1>7, <2>1, Zenon
       DEF Promise!readNothing, Promise!NoInfo, Promise!EndOfStream, NoInfo, End
  <2> QED
    BY <2>3, <2>4, Zenon
<1> QED
  BY <1>6, <1>7, Zenon

(***************************************************************************)
(* advanceTrack.                                                           *)
(***************************************************************************)
LEMMA SkipStep ==
  ASSUME ReaderInv, NEW t \in Tracks, advanceTrack(t)
  PROVE  ReaderInv' /\ Promise!skip(t)
<1>1. /\ wait[t] = "no" /\ answer[t] # NoInfo /\ answer[t] # End /\ Takes(t)
      /\ Unlock(advanceTrack_l(reader, t), wait)
      /\ file' = file /\ data' = data /\ returned' = returned
  BY Zenon DEF advanceTrack, Running, Takes
<1>2. reader.mExtractorTrackIndex # NoTrack
  BY <1>1, Zenon DEF ReaderInv, Fresh
<1>3. /\ Good(reader, taken) /\ InSequence(reader) /\ Answers(reader)
      /\ reader.ok = TRUE /\ reader.notified = {}
      /\ wait \in [Tracks -> {"no", "asleep", "woken"}]
      /\ data \in [Tracks -> {NoInfo} \cup 0..End]
  BY <1>2, Zenon DEF ReaderInv, Answers
<1>4. Waking(reader, wait)
  BY <1>3, Zenon DEF ReaderInv, Waking
<1>5. wait[t] # "asleep" /\ answer[t] \notin {NoInfo, End}
      /\ data' \in [Tracks -> {NoInfo} \cup 0..End]
  BY <1>1, <1>3
<1>6. ReaderInv'
  BY <1>1, <1>3, <1>4, <1>5, TakingKeepsInv, Zenon
<1>7. Promise!skip(t)
  BY <1>1, Zenon DEF Takes, Promise!skip, Promise!NoInfo, Promise!EndOfStream, NoInfo, End
<1> QED
  BY <1>6, <1>7, Zenon

(***************************************************************************)
(* setEnforceSequentialAccess.                                             *)
(***************************************************************************)
LEMMA SwitchStep ==
  ASSUME ReaderInv, NEW enforce \in BOOLEAN, setEnforceSequentialAccess(enforce)
  PROVE  /\ ReaderInv'
         /\ Promise!giveUpSequentialAccess \/ UNCHANGED Promise!readerVars
<1> DEFINE x == Enforced(reader, enforce)
<1>1. /\ returned' = (returned \/ (reader.mEnforceSequentialAccess /\ ~enforce))
      /\ Unlock(x, wait)
      /\ file' = file /\ taken' = taken /\ answer' = answer /\ data' = data
  BY Zenon DEF setEnforceSequentialAccess
<1>2. /\ file \in Seq(Tracks) /\ taken \in Takens /\ returned \in BOOLEAN
      /\ wait \in [Tracks -> {"no", "asleep", "woken"}]
      /\ answer \in [Tracks -> {NoInfo} \cup 0..End]
      /\ data \in [Tracks -> {NoInfo} \cup 0..End]
      /\ reader.ok = TRUE /\ reader.notified = {}
      /\ ~returned => \A t \in Tracks : answer[t] = End => Gap(t, taken[t], End)
      /\ \A t \in Tracks : wait[t] = "asleep" =>
           /\ reader.mEnforceSequentialAccess /\ ~reader.mEosReached
           /\ reader.mExtractorTrackIndex \notin {NoTrack, t}
      /\ \A t \in Tracks : wait[t] = "woken" => reader.mEnforceSequentialAccess \/ returned
  BY Zenon DEF ReaderInv, Takens
<1>3. returned' \in BOOLEAN /\ (returned => returned')
      /\ (reader.mEnforceSequentialAccess /\ ~enforce => returned')
  BY <1>1, Zenon
<1>4. Promise!giveUpSequentialAccess \/ UNCHANGED Promise!readerVars
  <2>1. returned' = TRUE \/ returned' = returned
    BY <1>1, <1>2
  <2> QED
    BY <1>1, <2>1, Zenon DEF Promise!giveUpSequentialAccess, Promise!readerVars
<1>5. CASE reader.mExtractorTrackIndex = NoTrack
  <2>1. reader \in ReaderStates /\ \A t \in Tracks : answer[t] = NoInfo \/ (answer[t] = End /\ End = 0)
    BY <1>5, Zenon DEF ReaderInv, Fresh
  <2>2. /\ reader' = [x EXCEPT !.notified = {}, !.ok = TRUE]
        /\ wait' = [t \in Tracks |-> IF t \in x.notified /\ wait[t] = "asleep" THEN "woken" ELSE wait[t]]
    BY <1>1, Zenon DEF Unlock
  <2>3. \/ x = [reader EXCEPT !.mEnforceSequentialAccess = enforce]
        \/ ~enforce /\ x = [reader EXCEPT !.mEnforceSequentialAccess = FALSE, !.notified = Tracks]
    BY <1>5, Zenon DEF Enforced
  <2> HIDE DEF x
  <2>4. reader' = [reader EXCEPT !.mEnforceSequentialAccess = enforce]
    BY <1>2, <2>1, <2>2, <2>3 DEF ReaderStates
  <2>5. \A t \in Tracks : wait[t] # "asleep"
    BY <1>2, <1>5, Zenon
  <2>6. wait' = wait
    BY <1>2, <2>2, <2>5
  <2>7. \A t \in Tracks : wait'[t] = "woken" => enforce \/ returned'
    BY <1>2, <1>3, <2>6, Zenon
  <2>8. ReaderInv'
    BY <1>1, <1>2, <1>3, <1>5, <2>1, <2>4, <2>5, <2>6, <2>7, FreshKeepsInv, Zenon
  <2> QED
    BY <1>4, <2>8, Zenon
<1>6. CASE reader.mExtractorTrackIndex # NoTrack
  <2>1. Good(reader, taken) /\ InSequence(reader) /\ Answers(reader)
    BY <1>6, Zenon DEF ReaderInv, Answers
  <2>2. /\ Good(x, taken) /\ InSequence(x)
        /\ \A t \in Tracks : reader.mTrackCursors[t].current.isSet =>
             x.mTrackCursors[t].current = reader.mTrackCursors[t].current
        /\ reader.mEnforceSequentialAccess /\ enforce => x = reader
        /\ reader.mEnforceSequentialAccess /\ ~enforce => x.notified = Tracks
    BY <1>2, <2>1, SwitchKeepsGood, Zenon
  <2> HIDE DEF x
  <2>3. ASSUME NEW t \in Tracks, answer[t] \notin {NoInfo, End}
        PROVE  x.mTrackCursors[t].current = Set(answer[t])
    <3>1. reader.mTrackCursors[t].current = Set(answer[t])
      BY <2>1, <2>3, Zenon DEF Answers
    <3>2. reader.mTrackCursors[t].current.isSet
      BY <3>1 DEF Set
    <3> QED
      BY <2>2, <3>1, <3>2, Zenon
  <2>4. ASSUME NEW t \in Tracks, wait[t] = "asleep", t \notin x.notified
        PROVE  x.mEnforceSequentialAccess /\ ~x.mEosReached /\ x.mExtractorTrackIndex # t
    <3>1. reader.mEnforceSequentialAccess /\ enforce
      BY <1>2, <2>2, <2>4, Zenon
    <3> QED
      BY <1>2, <2>2, <2>4, <3>1, Zenon
  <2>5. ASSUME NEW t \in Tracks, wait[t] = "woken" \/ (wait[t] = "asleep" /\ t \in x.notified)
        PROVE  x.mEnforceSequentialAccess \/ returned'
    BY <1>2, <1>3, <2>2, <2>5, Zenon
  <2>6. ReaderInv'
    BY <1>1, <1>2, <1>3, <2>2, <2>3, <2>4, <2>5, UnlockKeepsInv, Zenon
  <2> QED
    BY <1>4, <2>6, Zenon
<1> QED
  BY <1>5, <1>6, Zenon

(***************************************************************************)
(* Initially nothing was read.                                             *)
(***************************************************************************)
LEMMA InitInv == Init => ReaderInv
<1> SUFFICES ASSUME Init PROVE ReaderInv
  OBVIOUS
<1>1. file \in Seq(Tracks)
  <2>1. PICK n \in 0..MaxSamples : file \in [1..n -> Tracks]
    BY Zenon DEF Init
  <2>2. n \in Nat
    BY BoundsAssumption
  <2> QED
    BY <2>1, <2>2
<1>2. End \in Nat
  BY <1>1, FileFacts, Zenon
<1> DEFINE cursors == [t \in Tracks |-> [previous |-> Unset, current |-> Unset, next |-> Unset]]
<1>3. reader = [at |-> 0, mExtractorTrackIndex |-> NoTrack, mExtractorSampleIndex |-> 0,
                mEosReached |-> FALSE, mEnforceSequentialAccess |-> FALSE,
                mTrackCursors |-> cursors, notified |-> {}, ok |-> TRUE]
  BY Zenon DEF Init, Unset
<1>4. cursors \in [Tracks -> SampleCursor]
  BY DEF Unset, Set, Reset, SampleCursor, Position
<1> HIDE DEF cursors
<1>5. /\ reader \in ReaderStates /\ reader.at = 0 /\ reader.mExtractorSampleIndex = 0
      /\ ~reader.mEosReached /\ reader.mTrackCursors = cursors
      /\ reader.notified = {} /\ reader.ok = TRUE /\ reader.mExtractorTrackIndex = NoTrack
  BY <1>2, <1>3, <1>4 DEF ReaderStates
<1>6. /\ wait \in [Tracks -> {"no", "asleep", "woken"}] /\ returned = FALSE
      /\ taken \in [Tracks -> {NoInfo} \cup 0..(End - 1)]
      /\ answer \in [Tracks -> {NoInfo} \cup 0..End] /\ data \in [Tracks -> {NoInfo} \cup 0..End]
      /\ \A t \in Tracks : wait[t] = "no" /\ taken[t] = NoInfo /\ answer[t] = NoInfo
  BY DEF Init
<1>7. Fresh
  BY <1>5, <1>6, Zenon DEF Fresh, cursors
<1>8. NoInfo # End
  BY <1>2 DEF NoInfo
<1>9. \A t \in Tracks : wait[t] # "asleep" /\ wait[t] # "woken"
  BY <1>6
<1> QED
  BY <1>1, <1>5, <1>6, <1>7, <1>8, <1>9, Zenon DEF ReaderInv

(***************************************************************************)
(* Every step keeps the invariant and is one MediaSampleReader allows.     *)
(***************************************************************************)
LEMMA ReaderStep ==
  ASSUME ReaderInv, [Next]_vars
  PROVE  ReaderInv' /\ [Promise!Next]_(Promise!readerVars)
<1>1. ASSUME NEW t \in Tracks, waitForTrack_l(t)
      PROVE  ReaderInv' /\ UNCHANGED Promise!readerVars
  <2>1. UNCHANGED Promise!readerVars
    BY <1>1, Zenon DEF waitForTrack_l, Promise!readerVars
  <2> QED
    BY <1>1, <2>1, WaitKeepsInv, Zenon
<1>2. ASSUME NEW t \in Tracks, getSampleInfoForTrack(t) PROVE ReaderInv' /\ Promise!Next
  BY <1>2, InfoStep, Zenon DEF Promise!Next
<1>3. ASSUME NEW t \in Tracks, readSampleDataForTrack(t) PROVE ReaderInv' /\ Promise!Next
  BY <1>3, ReadStep, Zenon DEF Promise!Next
<1>4. ASSUME NEW t \in Tracks, advanceTrack(t) PROVE ReaderInv' /\ Promise!Next
  BY <1>4, SkipStep, Zenon DEF Promise!Next
<1>5. ASSUME NEW enforce \in BOOLEAN, setEnforceSequentialAccess(enforce)
      PROVE  ReaderInv' /\ [Promise!Next]_(Promise!readerVars)
  <2>1. /\ ReaderInv'
        /\ Promise!giveUpSequentialAccess \/ UNCHANGED Promise!readerVars
    BY <1>5, SwitchStep, Zenon
  <2> QED
    BY <2>1, Zenon DEF Promise!Next
<1>6. CASE UNCHANGED vars
  <2>1. /\ file' = file /\ reader' = reader /\ wait' = wait /\ taken' = taken
        /\ answer' = answer /\ data' = data /\ returned' = returned
    BY <1>6, Zenon DEF vars
  <2>2. UNCHANGED Promise!readerVars
    BY <2>1, Zenon DEF Promise!readerVars
  <2>3. End' = End /\ ReaderStates' = ReaderStates
    BY <2>1 DEF End, ReaderStates, SampleCursor, Position
  <2>4. Fresh => Fresh'
    BY <2>1, <2>3, Zenon DEF Fresh
  <2>5. Good(reader, taken) => Good(reader, taken)'
    BY <2>1, NextGood, Zenon
  <2>6. InSequence(reader) => InSequence(reader)'
    BY <2>1, Zenon DEF InSequence, NotPassed, IsAtTrack, IsAt
  <2>7. \A t \in Tracks : Gap(t, taken[t], End) => Gap(t, taken[t], End)'
    BY <2>1, <2>3 DEF Gap
  <2>8. ReaderInv'
    BY <2>1, <2>3, <2>4, <2>5, <2>6, <2>7 DEF ReaderInv
  <2> QED
    BY <2>2, <2>8, Zenon
<1> QED
  BY <1>1, <1>2, <1>3, <1>4, <1>5, <1>6, Zenon DEF Next

-----------------------------------------------------------------------------
(* The theorems                                                              *)

(***************************************************************************)
(* The reader's cursors give a right picture of the file after any number  *)
(* of reads, skips and switches of the access mode: see ReaderInv.         *)
(***************************************************************************)
THEOREM ReaderInvariant == Spec => []ReaderInv
<1>1. ReaderInv /\ [Next]_vars => ReaderInv'
  BY ReaderStep, Zenon
<1> QED
  BY <1>1, InitInv, PTL DEF Spec

(***************************************************************************)
(* MediaSampleReaderNDK keeps the promises of MediaSampleReader: for every *)
(* file and every set of tracks, no sample is repeated, left out or mixed  *)
(* up, whatever the interleaving of the threads and of the switches.       *)
(***************************************************************************)
THEOREM ReaderImplements == Spec => Implements
<1>1. Init => Promise!Init
  BY Zenon DEF Init, Promise!Init, Promise!Files, NoInfo, Promise!NoInfo
<1>2. ReaderInv /\ [Next]_vars => [Promise!Next]_(Promise!readerVars)
  BY ReaderStep, Zenon
<1> QED
  BY <1>1, <1>2, ReaderInvariant, PTL DEF Spec, Implements, Promise!Spec

(***************************************************************************)
(* Until sequential access is given up, a thread is told the end of the    *)
(* stream only when it has taken every sample of its track.                *)
(***************************************************************************)
THEOREM ReaderEndIsTheEnd == Spec => [](returned \/ EndIsTheEnd)
<1>1. ReaderInv => returned \/ EndIsTheEnd
  <2> SUFFICES ASSUME ReaderInv, ~returned, NEW t \in Tracks, answer[t] = End
               PROVE  Promise!Left(t) = {}
    BY Zenon DEF EndIsTheEnd
  <2>1. file \in Seq(Tracks) /\ Gap(t, taken[t], End)
    BY Zenon DEF ReaderInv
  <2>2. End \in Nat
    BY <2>1, FileFacts, Zenon
  <2> QED
    BY <2>1, <2>2, NothingLeft, Zenon
<1> QED
  BY <1>1, ReaderInvariant, PTL

(***************************************************************************)
(* waitForTrack_l never has all the threads asleep that are not at the end *)
(* of their tracks, if those at the end have taken all their samples.      *)
(***************************************************************************)
THEOREM ReaderSomeoneReads == Spec => []SomeoneReads
<1>1. ReaderInv => SomeoneReads
  <2> SUFFICES ASSUME ReaderInv, EndIsTheEnd, NEW t \in Tracks, answer[t] # End
               PROVE  \E u \in Tracks : Running(u)
    BY Zenon DEF SomeoneReads
  <2>1. CASE wait[t] # "asleep"
    BY <2>1, Zenon DEF Running
  <2>2. CASE wait[t] = "asleep"
    <3> DEFINE u == reader.mExtractorTrackIndex
    <3>1. reader.mEnforceSequentialAccess /\ ~reader.mEosReached /\ u # NoTrack
      BY <2>2, Zenon DEF ReaderInv
    <3>2. file \in Seq(Tracks) /\ taken \in Takens /\ Good(reader, taken) /\ InSequence(reader)
      BY <3>1, Zenon DEF ReaderInv, Takens
    <3>3. u \in Tracks
      BY <3>2, Zenon DEF Good, PositionOK
    <3>4. IsAt(reader, reader.mTrackCursors[u].current)
      BY <3>1, <3>2, Zenon DEF InSequence, IsAtTrack
    <3>5. reader.mTrackCursors[u].current.isSet
      BY <3>4, Zenon DEF IsAt
    <3> DEFINE i == reader.mTrackCursors[u].current.index
    <3>6. Sample(u, i) /\ taken[u] < i
      BY <3>2, <3>3, <3>5, Zenon DEF Good, CursorOK
    <3>7. i \in Promise!Left(u)
      BY <3>6, Zenon DEF Sample, Promise!Left, End, Promise!EndOfStream
    <3>8. answer[u] # End
      BY <3>3, <3>7, Zenon DEF EndIsTheEnd
    <3>9. wait[u] # "asleep"
      BY <3>3, Zenon DEF ReaderInv
    <3> QED
      BY <3>3, <3>8, <3>9, Zenon DEF Running
  <2> QED
    BY <2>1, <2>2, Zenon
<1> QED
  BY <1>1, ReaderInvariant, PTL

(***************************************************************************)
(* The reader and the threads have their types: no cursor is out of bounds *)
(* and the extractor is never said to be at a track that was not selected. *)
(***************************************************************************)
THEOREM ReaderTypeOK == Spec => []TypeOK
<1>1. ReaderInv => TypeOK
  <2> SUFFICES ASSUME ReaderInv PROVE TypeOK
    OBVIOUS
  <2>1. reader \in ReaderStates
    BY Zenon DEF ReaderInv, Fresh, Good
  <2> QED
    BY <2>1, Zenon DEF ReaderInv, TypeOK
<1> QED
  BY <1>1, ReaderInvariant, PTL
=============================================================================
