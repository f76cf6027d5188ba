------------------------------ MODULE MCRoomHub ------------------------------
(* Instances of RoomHub for TLC; the configurations give the constants.    *)
EXTENDS RoomHub, TLC

\* For configurations in which every role belongs to all users or to nobody.
Symmetry == Permutations(Users) \cup Permutations(Conns)

\* For configurations with fixed creators whose role sets do not tell the
\* other users apart.
PeerSymmetry == Permutations(Users \ Creators) \cup Permutations(Conns)
=============================================================================
