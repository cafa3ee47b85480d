---------------------------- MODULE RecorderLock ----------------------------
(***************************************************************************)
(* What recording on command promises the clients of gwc: one of them at a *)
(* time holds the recorder, and only the holder gives it back.             *)
(***************************************************************************)
CONSTANTS Client, Nobody

VARIABLE holder

Init == holder = Nobody

Acquire(c) == holder = Nobody /\ holder' = c

\* A stop of the client, or the end of its session.
Release(c) == holder = c /\ holder' = Nobody

Next == \E c \in Client : Acquire(c) \/ Release(c)

Spec == Init /\ [][Next]_holder
=============================================================================
