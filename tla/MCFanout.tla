------------------------------ MODULE MCFanout ------------------------------
(***************************************************************************)
(* Instances of Fanout for TLC: the local account with two devices and a   *)
(* contact with two, which have the same IDs and change their order.       *)
(***************************************************************************)
EXTENDS Fanout, TLC

CONSTANTS me, bob, p1, p2

Accounts == {me, bob}
LocalDevice == [jid |-> me, id |-> 1]
SharedIDs == me :> << <<1, 2>> >> @@ bob :> << <<1, 2>>, <<2, 1>> >>

(* Both accounts have published; the Store has the contact's list and not   *)
(* the own one.                                                             *)
First == [j \in JIDs |-> 1]
Contacts == [j \in JIDs |-> IF j = bob THEN 1 ELSE 0]

(* One of the contact's devices is blocked, one is trusted, the own ones    *)
(* are undecided.                                                           *)
MixedTrust == [d \in Devices |-> CASE d = [jid |-> bob, id |-> 1] -> "untrusted"
                                    [] d = [jid |-> bob, id |-> 2] -> "trusted"
                                    [] OTHER -> "undecided"]
=============================================================================
