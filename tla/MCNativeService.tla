-------------------------- MODULE MCNativeService --------------------------
(* Instances of NativeService for TLC; the configurations give constants.  *)
EXTENDS NativeService, TLC

Symmetry == Permutations(Grants) \cup Permutations(Links) \cup Permutations(Peers)
              \cup Permutations(Users)
=============================================================================
