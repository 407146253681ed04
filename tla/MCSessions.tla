----------------------------- MODULE MCSessions -----------------------------
(***************************************************************************)
(* Instances of Sessions for TLC: two or three devices, few goroutines.    *)
(***************************************************************************)
EXTENDS Sessions, TLC

CONSTANTS da, db, dc, p1, p2, p3

AB == {da, db}
ABC == {da, db, dc}
HomeAAB == p1 :> da @@ p2 :> da @@ p3 :> db
HomeAB == p1 :> da @@ p2 :> db
Undecided == [d \in Devices |-> [ik \in IdentityKeys |-> "undecided"]]
OnlyAUndecided == [d \in Devices |-> [ik \in IdentityKeys |->
                      IF d = da THEN "undecided" ELSE "trusted"]]
TrustFirst == [d \in Devices |-> [ik \in IdentityKeys |->
                  IF ik[2] = 1 THEN "trusted" ELSE "undecided"]]
Trusting == [d \in Devices |-> [ik \in IdentityKeys |-> "trusted"]]
=============================================================================
