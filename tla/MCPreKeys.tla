----------------------------- MODULE MCPreKeys ------------------------------
(***************************************************************************)
(* Instances of PreKeys for TLC.  The peers are interchangeable.           *)
(***************************************************************************)
EXTENDS PreKeys, TLC

PeerSymmetry == Permutations(Peers)
=============================================================================
