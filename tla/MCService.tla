------------------------------ MODULE MCService ------------------------------
(* Small instances of TranscodingService for TLC.                          *)
EXTENDS TranscodingService

CONSTANTS a, off   \* uids

OneUid == {a}
TwoKeys == 1..2
MCClientOf == [k \in Keys |-> 1]
MCCallingUid == [k \in Keys |-> OFFLINE_UID]
NoMtp == {}
AllMtp == Uids \cup {OFFLINE_UID}
=============================================================================
