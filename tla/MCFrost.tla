------------------------------ MODULE MCFrost ------------------------------
(***************************************************************************)
(* Instance of the FROST coordinator.                                      *)
(***************************************************************************)
EXTENDS FrostProperties, TLC

\* No definition tells two connections, participants or commitments apart.
FrostSymmetry ==
    Permutations(Conn) \cup Permutations(Participant) \cup Permutations(Commitment)
=============================================================================
