----------------------------- MODULE StateQueue -----------------------------
(***************************************************************************)
(* StateQueue of fastpath/StateQueue.cpp: a ring of kN states by which the *)
(* mutator thread hands configurations to the observer thread without a    *)
(* lock.  Pointers into the ring are its indices.                          *)
(***************************************************************************)
EXTENDS Integers

CONSTANTS
    kN,        \* number of states
    States,    \* values of a state
    Initial    \* the observer's state before the first push, sInitial

ASSUME QueueAssumption == kN \in Nat /\ kN >= 4 /\ Initial \in States

VARIABLES
    mStates, mNext, mAck,             \* shared
    mMutating, mExpecting, mIsDirty,  \* the mutator's
    push,                             \* where the mutator is in push()
    mCurrent, mPrevious               \* the observer's

queue == <<mStates, mNext, mAck, mMutating, mExpecting, mIsDirty, push,
           mCurrent, mPrevious>>

Ring == 0 .. kN - 1
nullptr == -1
Pointer == Ring \union {nullptr}
Blocks == {"NEVER", "PUSHED", "ACKED"}

Deref(p) == IF p = nullptr THEN Initial ELSE mStates[p]

QueueInit ==
    /\ mStates = [i \in Ring |-> Initial]
    /\ mNext = nullptr /\ mAck = nullptr
    /\ mMutating = 0 /\ mExpecting = nullptr /\ mIsDirty = FALSE
    /\ push = [at |-> "returned", block |-> "NEVER"]
    /\ mCurrent = nullptr /\ mPrevious = nullptr

PushGoes(at) == push' = [push EXCEPT !.at = at]

(* push(), a mutation or none before it. *)
Push(block) ==
    /\ push.at = "returned"
    /\ push' = [at |-> "called", block |-> block]
    /\ UNCHANGED <<mStates, mNext, mAck, mMutating, mExpecting, mIsDirty,
                   mCurrent, mPrevious>>

(* begin(), modifications in place up to the value s, end(), push() *)
MutateAndPush(s, block) ==
    /\ push.at = "returned"
    /\ mStates' = [mStates EXCEPT ![mMutating] = s]
    /\ mIsDirty' = TRUE
    /\ push' = [at |-> "called", block |-> block]
    /\ UNCHANGED <<mNext, mAck, mMutating, mExpecting, mCurrent, mPrevious>>

(* Variant: push() publishes without waiting for the prior push. *)
PriorIsIgnored == TRUE

PriorIsAcked == mExpecting = nullptr \/ mAck = mExpecting

PushClean ==
    /\ push.at = "called" /\ ~mIsDirty
    /\ PushGoes("pushed")
    /\ UNCHANGED <<mStates, mNext, mAck, mMutating, mExpecting, mIsDirty,
                   mCurrent, mPrevious>>

(* BLOCK_NEVER, the prior push not yet acknowledged: remains dirty *)
WouldBlock ==
    /\ push.at = "called" /\ mIsDirty /\ push.block = "NEVER" /\ ~PriorIsAcked
    /\ PushGoes("returned")
    /\ UNCHANGED <<mStates, mNext, mAck, mMutating, mExpecting, mIsDirty,
                   mCurrent, mPrevious>>

After(p) == IF p + 1 >= kN THEN 0 ELSE p + 1

Publish ==
    /\ push.at = "called" /\ mIsDirty /\ PriorIsAcked
    /\ mNext' = mMutating
    /\ mExpecting' = mMutating
    /\ mMutating' = After(mMutating)
    /\ PushGoes("published")
    /\ UNCHANGED <<mStates, mAck, mIsDirty, mCurrent, mPrevious>>

CopyForward ==
    /\ push.at = "published"
    /\ mStates' = [mStates EXCEPT ![mMutating] = mStates[mExpecting]]
    /\ mIsDirty' = FALSE
    /\ PushGoes("pushed")
    /\ UNCHANGED <<mNext, mAck, mMutating, mExpecting, mCurrent, mPrevious>>

(* the wait of BLOCK_UNTIL_ACKED *)
PushReturns ==
    /\ push.at = "pushed"
    /\ push.block = "ACKED" => PriorIsAcked
    /\ mExpecting' = IF push.block = "ACKED" THEN nullptr ELSE mExpecting
    /\ PushGoes("returned")
    /\ UNCHANGED <<mStates, mNext, mAck, mMutating, mIsDirty, mCurrent, mPrevious>>

InPush == PushClean \/ WouldBlock \/ Publish \/ CopyForward \/ PushReturns

(* poll(), and the observer's shift of its two pointers. *)
poll ==
    /\ mNext # mCurrent
    /\ mAck' = mNext /\ mCurrent' = mNext /\ mPrevious' = mCurrent
    /\ UNCHANGED <<mStates, mNext, mMutating, mExpecting, mIsDirty, push>>

QueueNext ==
    \/ \E block \in Blocks : Push(block) \/ \E s \in States : MutateAndPush(s, block)
    \/ InPush
    \/ poll
QueueSpec == QueueInit /\ [][QueueNext]_queue

-----------------------------------------------------------------------------
(***************************************************************************)
(* The ring implements the promise: the slot that begin(), the caller and  *)
(* the copy in push() write is none of those the observer may still read.  *)
(***************************************************************************)
Promise == INSTANCE StateQueuePromise WITH
    pushed <- Deref(mNext), current <- Deref(mCurrent), previous <- Deref(mPrevious)
KeepsItsPromise == Promise!Spec
=============================================================================
