----------------------------- MODULE MCAccounts -----------------------------
(***************************************************************************)
(* An instance for TLC of the accounts and of the client processes bound   *)
(* to logins; the configuration gives the constants.  The two share no     *)
(* variable (the end of a session is an environment step of the bridge),   *)
(* so a behaviour is one of one part; the configuration names coroutines    *)
(* and connections alike, and one permutation of the names serves both.    *)
(***************************************************************************)
EXTENDS NativeBridge

VARIABLE part

MCInit ==
    /\ part \in {"accounts", "bridge"}
    /\ Init /\ BridgeInit

MCNext ==
    \/ part = "accounts" /\ Next /\ UNCHANGED <<part, bridgeVars>>
    \/ part = "bridge" /\ BridgeNext /\ UNCHANGED <<part, vars>>

MCSpec == MCInit /\ [][MCNext]_<<part, vars, bridgeVars>>

Symmetry == Permutations(Calls) \cup Permutations(Links) \cup Permutations(Uids)
=============================================================================
