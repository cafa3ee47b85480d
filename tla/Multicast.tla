------------------------------ MODULE Multicast ------------------------------
(***************************************************************************)
(* What a receiver of the camera's encoded stream is promised: from when   *)
(* it joins until it leaves it gets every sample of every source once, at  *)
(* the same time as every other member.                                    *)
(***************************************************************************)
EXTENDS Naturals

CONSTANTS Receiver, Source

VARIABLES
    member,  \* who receives
    got      \* samples each member has had of each source since it joined

vars == <<member, got>>

Init ==
    /\ member = {}
    /\ got = [r \in Receiver |-> [s \in Source |-> 0]]

Join(r) ==
    /\ r \notin member
    /\ member' = member \cup {r}
    /\ got' = [got EXCEPT ![r] = [s \in Source |-> 0]]

Leave(r) ==
    /\ r \in member
    /\ member' = member \ {r}
    /\ UNCHANGED got

Publish(s) ==
    /\ got' = [r \in Receiver |->
                 IF r \in member THEN [got[r] EXCEPT ![s] = @ + 1] ELSE got[r]]
    /\ UNCHANGED member

Next ==
    \/ \E r \in Receiver : Join(r) \/ Leave(r)
    \/ \E s \in Source : Publish(s)

Spec == Init /\ [][Next]_vars
=============================================================================
