------------------------------ MODULE Presence ------------------------------
(***************************************************************************)
(* What admission promises to the rooms: an account is online through at   *)
(* most one game connection, and nobody takes that connection's place      *)
(* before it has gone.                                                     *)
(***************************************************************************)
CONSTANTS Users, Links, None

VARIABLE online

Init == online = [u \in Users |-> None]

Enter(u, l) ==
    /\ online[u] = None
    /\ \A v \in Users : online[v] # l
    /\ online' = [online EXCEPT ![u] = l]

\* Several accounts can go at once: maintenance releases every stale grant.
Depart(S) ==
    /\ \A u \in S : online[u] # None
    /\ online' = [u \in Users |-> IF u \in S THEN None ELSE online[u]]

Next == \/ \E u \in Users, l \in Links : Enter(u, l)
        \/ \E S \in SUBSET Users : Depart(S)

Spec == Init /\ [][Next]_online
=============================================================================
