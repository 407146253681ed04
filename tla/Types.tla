------------------------------- MODULE Types --------------------------------
(***************************************************************************)
(* The vocabulary of types.go and envelope.go that several modules share.  *)
(***************************************************************************)
CONSTANT None      \* nil, a missing map entry, ok = false

TrustStates == {"undecided", "trusted", "untrusted"}

(* omemo.KeyExchange: what the responder needs to complete X3DH.            *)
KeyExchange(ik, ek, spkID, opkID) ==
    [identityKey |-> ik, ephemeralKey |-> ek, signedPreKeyID |-> spkID, preKeyID |-> opkID]
=============================================================================
