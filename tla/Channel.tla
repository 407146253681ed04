------------------------------ MODULE Channel -------------------------------
(***************************************************************************)
(* What the session life cycle promises the application: a channel over    *)
(* which every message is sent once and delivered at most once.            *)
(***************************************************************************)
EXTENDS BagsExt, Bags

VARIABLES
    sent,     \* messages that have gone out
    got       \* bag of the messages handed to the application

Init == sent = {} /\ got = EmptyBag

Send(m) == /\ sent' = sent \cup {m}
           /\ UNCHANGED got

Deliver(m) == /\ m \notin DOMAIN got
              /\ got' = BagAdd(got, m)
              /\ UNCHANGED sent

Next == \/ \E m \in sent' \ sent : Send(m)
        \/ \E m \in sent : Deliver(m)

Spec == Init /\ [][Next]_<<sent, got>>
=============================================================================
