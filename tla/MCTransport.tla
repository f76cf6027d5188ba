---------------------------- MODULE MCTransport ----------------------------
(* Instances of Transport for TLC; the configuration gives constants.      *)
EXTENDS Transport, TLC

Symmetry == Permutations(Sockets) \cup Permutations(Addresses) \cup Permutations(Users)
              \cup Permutations(Identities) \cup Permutations(Players)
=============================================================================
