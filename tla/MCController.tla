---------------------------- MODULE MCController ----------------------------
(* Small instances of TranscodingSessionController for TLC.                *)
EXTENDS TranscodingSessionController, TLC

CONSTANTS a, b, off   \* uids

OneUid == {a}
TwoUids == {a, b}

(* The uids of applications are alike, and sessions have the same ones to    *)
(* choose from.                                                              *)
UidSymmetry == Permutations(Uids)

TwoKeys == 1..2
ThreeKeys == 1..3

(* Two clients: the first submits sessions 1 and 2, the second submits 3. *)
MCClientOf == [k \in Keys |-> IF k = 3 THEN 2 ELSE 1]
(* Sessions are submitted on behalf of other uids. *)
MCCallingUid == [k \in Keys |-> OFFLINE_UID]

(* The pacer is out of the way, or limits every uid. *)
AllMtp == Uids \cup {OFFLINE_UID}
NoMtp == {}
=============================================================================
