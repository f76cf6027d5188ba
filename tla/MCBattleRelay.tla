--------------------------- MODULE MCBattleRelay ---------------------------
(* The battles of BattleRelay and HostModes for TLC; the configuration     *)
(* gives the other constants.                                              *)
EXTENDS HostModes

CONSTANTS t1, t2, t3

\* Two waves: a monster of each of two templates, then one; t3 is of no wave.
MCWaves == <<(t1 :> 1 @@ t2 :> 1 @@ t3 :> 0), (t1 :> 1 @@ t2 :> 0 @@ t3 :> 0)>>
\* Two groups that share a monster; one block is behind both.
MCGroups == (1 :> [spawns |-> <<t1, t2>>, limit |-> 1, block |-> "front"])
         @@ (2 :> [spawns |-> <<t1>>, limit |-> 1, block |-> "front"])

Symmetry == Permutations(Members \ {Host})
=============================================================================
