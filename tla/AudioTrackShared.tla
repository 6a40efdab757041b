-------------------------- MODULE AudioTrackShared --------------------------
(***************************************************************************)
(* The arithmetic of the control block shared by an AudioTrack client and  *)
(* the AudioFlinger server (media/libaudioclient/AudioTrackShared.cpp, a   *)
(* streaming output track).  mFront and mRear are free-running counters of *)
(* the machine's width, used as ring positions modulo mFrameCountP2; mStop *)
(* and mFlush carry a write position and a call counter in one word.       *)
(***************************************************************************)
EXTENDS Integers, FiniteSetsExt

CONSTANTS
    FrameCount,   \* mFrameCount
    FrameCountP2, \* mFrameCount rounded up to a power of two
    Width         \* number of values of an int32_t, a power of two

ASSUME RingAssumption ==
    /\ FrameCount \in Nat \ {0}
    /\ FrameCountP2 \in FrameCount .. 2 * FrameCount
    /\ Width \in Nat \ {0}
    /\ Width % (4 * FrameCountP2) = 0

(* Counters are kept as the unsigned value of the word. *)
Counters == 0 .. Width - 1
overflowBit == 2 * FrameCountP2

(* audio_utils::safe_sub_overflow: the int32_t difference, which is signed. *)
safe_sub(a, b) ==
    LET d == (a - b) % Width IN IF d >= Width \div 2 THEN d - Width ELSE d

Add(a, n) == (a + n) % Width

(* a & mask, a & ~mask for mask = overflowBit - 1 *)
Masked(a) == a % overflowBit
High(a) == a - Masked(a)

FilledInRange(filled) == 0 <= filled /\ filled <= FrameCount

(***************************************************************************)
(* sendStreamingFlushStop: the next value of mStop or mFlush, the counter  *)
(* in the high bits advanced and the write position in the low ones.       *)
(***************************************************************************)
NextMark(mark, rear) == Add(High(mark), overflowBit) + Masked(rear)

(* Variant: the position is not moved up when rear has wrapped. *)
FlushFrontUnwrapped(front, rear, flush) == High(front) + Masked(flush)

(***************************************************************************)
(* flushBufferIfNeeded: the position mFront moves to for a new mFlush.     *)
(***************************************************************************)
FlushFront(front, rear, flush) ==
    LET based == High(front) + Masked(flush)
        wraps == safe_sub(rear, based) >= overflowBit
        newFront == IF wraps THEN Add(based, overflowBit) ELSE based
        filled == safe_sub(rear, based) - (IF wraps THEN overflowBit ELSE 0)
    IN IF FilledInRange(filled) THEN newFront ELSE rear

(* Variant: the stop mark is not moved down when rear has wrapped. *)
GetRearUnwrapped(front, rear, stop, stopLast) ==
    LET newRear == High(rear) + Masked(stop)
    IN IF stop # stopLast /\ FilledInRange(safe_sub(newRear, front))
       THEN newRear ELSE rear

(***************************************************************************)
(* getRear: how far the server may read, the stop mark while one is set.   *)
(***************************************************************************)
GetRear(front, rear, stop, stopLast) ==
    LET based == High(rear) + Masked(stop)
        wraps == safe_sub(based, front) >= overflowBit
        newRear == IF wraps THEN Add(based, -overflowBit) ELSE based
        filled == safe_sub(based, front) - (IF wraps THEN overflowBit ELSE 0)
    IN IF stop # stopLast /\ FilledInRange(filled) THEN newRear ELSE rear

(* The contiguous part of `avail' frames that start at position pos. *)
Part1(pos, avail, ask) == Min({FrameCountP2 - (pos % FrameCountP2), avail, ask})

(* releaseBuffer: the space from which the server wakes the client. *)
WakeMinimum == IF FrameCount \div 2 = 0 THEN 1 ELSE FrameCount \div 2

(* Slots of the ring that hold n frames from position pos on. *)
Slots(pos, n) == {(pos + i) % FrameCountP2 : i \in 0 .. n - 1}
=============================================================================
