----------------------------- MODULE MCHealing ------------------------------
(***************************************************************************)
(* Instances of Healing for TLC: two devices with one goroutine each.      *)
(***************************************************************************)
EXTENDS Healing, TLC

CONSTANTS da, db, p1, p2

AB == {da, db}
HomeAB == p1 :> da @@ p2 :> db
Trusting == [d \in Devices |-> [ik \in IdentityKeys |-> "trusted"]]
=============================================================================
