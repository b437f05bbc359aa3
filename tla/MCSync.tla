------------------------------- MODULE MCSync -------------------------------
(***************************************************************************)
(* Instances of SyncNode.  The peers are interchangeable.                  *)
(***************************************************************************)
EXTENDS SyncProperties, TLC

Interchangeable == Permutations(Peer)
=============================================================================
