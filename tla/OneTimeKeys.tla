---------------------------- MODULE OneTimeKeys -----------------------------
(***************************************************************************)
(* What a pool of one-time prekeys promises: a key enters the pool once,   *)
(* as a new key, and leaves it only by being used, which happens once.     *)
(***************************************************************************)
CONSTANT Key

VARIABLES
    live,     \* the keys in the pool
    spent     \* the keys that have been used

Init == live \subseteq Key /\ spent = {}

(* A batch of new keys; a key that was ever used does not come back.        *)
Add(batch) ==
    /\ batch \cap (live \cup spent) = {}
    /\ live' = live \cup batch
    /\ UNCHANGED spent

Use(k) ==
    /\ k \in live
    /\ live' = live \ {k}
    /\ spent' = spent \cup {k}

Next == Add(live' \ live) \/ \E k \in live : Use(k)

Spec == Init /\ [][Next]_<<live, spent>>
=============================================================================
