--------------------------- MODULE PreKeysProofs ----------------------------
(***************************************************************************)
(* Theorems about PreKeys, for every number of goroutines, peers and keys. *)
(***************************************************************************)
EXTENDS PreKeys, TLAPS

(* The uint32 increment stays in range, and below the ID space it does not wrap. *)
LEMMA Increment ==
    ASSUME NEW i \in Ids
    PROVE  /\ (i + 1) % IdSpace \in Ids
           /\ i + 1 < IdSpace => (i + 1) % IdSpace = i + 1
  BY IdSpaceAssumption DEF Ids

(* A finished call is well typed.                                           *)
LEMMA IdleType == Idle \in Ops
  <1>1. 0 \in Ids /\ NoPreKeys \in Pools
    BY IdSpaceAssumption DEF NoPreKeys, Pools, Ids
  <1> QED BY <1>1 DEF Ops, Idle

(* So is every call record that the actions build from another one.         *)
LEMMA CallType ==
    ASSUME NEW c \in Ops
    PROVE  /\ \A id \in Ids : [c EXCEPT !.pc = "rotate", !.id = id] \in Ops
           /\ \A n \in Nat : [c EXCEPT !.pc = "generate", !.todo = n] \in Ops
           /\ \A n \in Nat, recs \in Pools : [c EXCEPT !.todo = n, !.recs = recs] \in Ops
           /\ \A spk \in SPKs : [c EXCEPT !.pc = "pool", !.spk = spk] \in Ops
           /\ c.pc = "pool" => \A recs \in Pools : [c EXCEPT !.pc = "publish", !.recs = recs] \in Ops
           /\ \A kx \in Handshakes : [c EXCEPT !.pc = "stale", !.kx = kx] \in Ops
           /\ \A kx \in Handshakes, spk \in SPKs :
                 [c EXCEPT !.pc = "consume", !.kx = kx, !.spk = spk] \in Ops
           /\ c.pc = "stale" => \A spk \in SPKs : [c EXCEPT !.pc = "consume", !.spk = spk] \in Ops
  BY PreKeysAssumption DEF Ops

(* The types of the parts of a well-typed state.                            *)
LEMMA Parts ==
    ASSUME TypeOK
    PROVE  /\ store.currentSPK \in SPKs /\ store.preKeys \in Pools
           /\ store.staleSPK \in SPKs \cup {None}
           /\ \A p \in Procs : op[p] \in Ops /\ op[p].recs \in Pools /\ op[p].id \in Ids
           /\ \A p \in Procs : /\ op[p].pc \in {"stale", "consume"} => op[p].kx \in Handshakes
                               /\ op[p].pc \in {"pool", "publish", "consume"} => op[p].spk \in SPKs
  BY DEF TypeOK, Stores, Ops

(* Type correctness: whatever the goroutines and the peers do, the prekey   *)
(* fields of the Store and the calls in progress keep their types.          *)
THEOREM TypeCorrect == Spec => []TypeOK
  <1>1. Init => TypeOK
    <2> SUFFICES ASSUME Init PROVE TypeOK
      OBVIOUS
    <2> USE IdSpaceAssumption, PreKeysAssumption DEF Init, SPKs, Ids, Keys
    <2>1. store \in Stores
      BY DEF Stores, Pools
    <2>2. bundle \in [spk : SPKs, preKey : SPKs \cup {None}]
      BY <2>1 DEF FirstOf, Stores, Pools
    <2>3. op \in [Procs -> Ops]
      BY IdleType
    <2> QED BY <2>1, <2>2, <2>3 DEF TypeOK
  <1>2. TypeOK /\ [Next]_vars => TypeOK'
    <2> SUFFICES ASSUME TypeOK, [Next]_vars PROVE TypeOK'
      OBVIOUS
    <2>1. ASSUME NEW p \in Procs, RotateRead(p) PROVE TypeOK'
      <3>1. (store.currentSPK.id + 1) % IdSpace \in Ids
        BY Parts, Increment DEF SPKs
      <3>2. [Idle EXCEPT !.pc = "rotate", !.id = (store.currentSPK.id + 1) % IdSpace] \in Ops
        BY <3>1, IdleType, CallType
      <3> QED BY <2>1, <3>2 DEF RotateRead, TypeOK
    <2>2. ASSUME NEW p \in Procs, RotateStore(p) PROVE TypeOK'
      <3>1. [id |-> op[p].id, key |-> fresh] \in SPKs
        BY Parts DEF SPKs, TypeOK, Keys
      <3>2. store' \in Stores
        BY <2>2, <3>1 DEF RotateStore, RotateSPK, Stores, TypeOK
      <3>3. fresh' \in Nat
        BY <2>2 DEF RotateStore, TypeOK
      <3> QED BY <2>2, <3>2, <3>3, IdleType DEF RotateStore, TypeOK
    <2>3. ASSUME NEW p \in Procs, NEW n \in 0 .. MaxBatch, GenerateStart(p, n) PROVE TypeOK'
      <3>1. n \in Nat
        BY PreKeysAssumption
      <3>2. [Idle EXCEPT !.pc = "generate", !.todo = n] \in Ops
        BY <3>1, IdleType, CallType
      <3> QED BY <2>3, <3>2 DEF GenerateStart, TypeOK
    <2>4. ASSUME NEW p \in Procs, GenerateOne(p) PROVE TypeOK'
      <3> DEFINE recs == [op[p].recs EXCEPT ![NextPreKeyID(store)] = fresh]
      <3>1. NextPreKeyID(store) \in Ids
        BY Increment DEF NextPreKeyID, Stores, TypeOK
      <3>2. store' \in Stores
        BY <2>4, <3>1 DEF GenerateOne, AllocPreKeyID, Stores, TypeOK
      <3>3. op[p].todo - 1 \in Nat
        BY <2>4 DEF GenerateOne, Ops, TypeOK
      <3>4. recs \in Pools
        BY <3>1, Parts DEF Pools, TypeOK, Keys
      <3>5. [op[p] EXCEPT !.todo = op[p].todo - 1, !.recs = recs] \in Ops
        BY <3>3, <3>4, Parts, CallType
      <3>6. op' = [op EXCEPT ![p] = [op[p] EXCEPT !.todo = op[p].todo - 1, !.recs = recs]]
        BY <2>4 DEF GenerateOne
      <3> QED BY <2>4, <3>2, <3>5, <3>6 DEF GenerateOne, TypeOK
    <2>5. ASSUME NEW p \in Procs, CallFails(p) PROVE TypeOK'
      BY <2>5, IdleType DEF CallFails, TypeOK
    <2>6. ASSUME NEW p \in Procs, GeneratePut(p) PROVE TypeOK'
      <3>1. store' \in Stores
        BY <2>6, Parts DEF GeneratePut, PutPreKeys, Pools, Stores, TypeOK
      <3> QED BY <2>6, <3>1, IdleType DEF GeneratePut, TypeOK
    <2>7. ASSUME NEW p \in Procs, BundleReadSPK(p) PROVE TypeOK'
      <3>1. [Idle EXCEPT !.pc = "pool", !.spk = store.currentSPK] \in Ops
        BY Parts, IdleType, CallType
      <3> QED BY <2>7, <3>1 DEF BundleReadSPK, TypeOK
    <2>8. ASSUME NEW p \in Procs, BundleReadPool(p) PROVE TypeOK'
      <3>1. [op[p] EXCEPT !.pc = "publish", !.recs = store.preKeys] \in Ops
        BY <2>8, Parts, CallType DEF BundleReadPool
      <3>2. op' = [op EXCEPT ![p] = [op[p] EXCEPT !.pc = "publish", !.recs = store.preKeys]]
        BY <2>8 DEF BundleReadPool
      <3> QED BY <2>8, <3>1, <3>2 DEF BundleReadPool, TypeOK
    <2>9. ASSUME NEW p \in Procs, Publish(p) PROVE TypeOK'
      <3>1. bundle' \in [spk : SPKs, preKey : SPKs \cup {None}]
        BY <2>9, Parts DEF Publish, FirstOf, Pools, SPKs
      <3> QED BY <2>9, <3>1, IdleType DEF Publish, TypeOK
    <2>11. ASSUME NEW p \in Procs, NEW kx \in handshakes, Receive(p, kx) PROVE TypeOK'
      <3>1. /\ [Idle EXCEPT !.pc = "consume", !.kx = kx, !.spk = store.currentSPK] \in Ops
            /\ [Idle EXCEPT !.pc = "stale", !.kx = kx] \in Ops
        BY Parts, IdleType, CallType DEF TypeOK
      <3> QED BY <2>11, <3>1 DEF Receive, TypeOK
    <2>12. ASSUME NEW p \in Procs, LookupStale(p) PROVE TypeOK'
      <3>1. store.staleSPK # None =>
               [op[p] EXCEPT !.pc = "consume", !.spk = store.staleSPK] \in Ops
        BY <2>12, Parts, CallType DEF LookupStale
      <3> QED BY <2>12, <3>1, IdleType DEF LookupStale, TypeOK
    <2>13. ASSUME NEW p \in Procs, Consume(p) PROVE TypeOK'
      <3>1. op[p].kx.opk.id \in Ids
        BY <2>13, Parts DEF Consume, Handshakes, SPKs
      <3>2. store.preKeys[op[p].kx.opk.id] \in Keys \cup {None}
        BY <3>1, Parts DEF Pools
      <3>3. spent' \in SUBSET Keys
        BY <2>13, <3>2 DEF Consume, TypeOK
      <3>4. [store EXCEPT !.preKeys[op[p].kx.opk.id] = None] \in Stores
        BY <3>1 DEF Pools, Stores, TypeOK
      <3>5. store' \in Stores
        BY <2>13, <3>4 DEF Consume, ConsumePreKey, TypeOK
      <3> QED BY <2>13, <3>3, <3>5, IdleType DEF Consume, TypeOK
    <2>14. ASSUME NEW q \in Peers, PeerStarts(q) PROVE TypeOK'
      BY <2>14 DEF PeerStarts, Handshakes, TypeOK
    <2>15. CASE UNCHANGED vars
      BY <2>15 DEF vars, TypeOK
    <2> QED BY <2>1, <2>2, <2>3, <2>4, <2>5, <2>6, <2>7, <2>8, <2>9, <2>11,
               <2>12, <2>13, <2>14, <2>15 DEF Next
  <1> QED BY <1>1, <1>2, PTL DEF Spec

-----------------------------------------------------------------------------
(* One-time prekeys *)

LEMMA PoolTypes ==
    ASSUME TypeOK
    PROVE  /\ store.nextPreKeyID \in Ids /\ fresh \in Nat /\ MaxKeys \in Nat
           /\ spent \subseteq Nat
           /\ Ids \subseteq Nat
           /\ \A i \in Ids : store.preKeys[i] \in Nat \cup {None}
           /\ \A p \in Procs, i \in Ids : op[p].recs[i] \in Nat \cup {None}
           /\ None \notin Nat
  BY PreKeysAssumption, IdSpaceAssumption, Parts DEF TypeOK, Stores, Ids, Pools, Ops, Keys

(* A step that neither touches the pool, the watermark and the spent keys   *)
(* nor adds a record to a batch preserves the invariant.                    *)
LEMMA OneTimeFrame ==
    ASSUME TypeOK, TypeOK', OneTimeInv,
           store'.preKeys = store.preKeys, store'.nextPreKeyID = store.nextPreKeyID,
           spent' = spent, fresh <= fresh', fresh' <= MaxKeys,
           \A q \in Procs, i \in Ids : Generating(q)' /\ op'[q].recs[i] # None =>
                Generating(q) /\ op[q].recs[i] = op'[q].recs[i]
    PROVE  OneTimeInv'
  <1> USE DEF OneTimeInv
  <1>f. fresh' \in Nat
    BY DEF TypeOK
  <1>1. Watermark'
    BY <1>f, PoolTypes DEF Watermark
  <1>2. SpentKeys'
    BY <1>f, PoolTypes DEF SpentKeys
  <1>3. PoolKeys'
    BY <1>f, PoolTypes DEF PoolKeys
  <1>4. BatchKeys'
    <2> SUFFICES ASSUME NEW p \in Procs, NEW i \in Ids, Generating(p)', op'[p].recs[i] # None
                 PROVE  BatchOK(p, i)'
      BY DEF BatchKeys
    <2>1. Generating(p) /\ op[p].recs[i] = op'[p].recs[i]
      OBVIOUS
    <2>2. BatchOK(p, i)
      BY <2>1 DEF BatchKeys
    <2>3. op'[p].recs[i] < fresh'
      BY <2>1, <2>2, <1>f, PoolTypes DEF BatchOK
    <2> QED BY <2>1, <2>2, <2>3 DEF BatchOK
  <1> QED BY <1>1, <1>2, <1>3, <1>4

(* generateOneTimePreKeys draws an ID above the watermark and a new key, so *)
(* the record is in nobody's way.                                           *)
LEMMA OneTimeGenerateOne ==
    ASSUME TypeOK, TypeOK', OneTimeInv, NEW p \in Procs, GenerateOne(p)
    PROVE  OneTimeInv'
  <1> USE DEF OneTimeInv
  <1> DEFINE n == store.nextPreKeyID + 1
  <1>n. n \in Ids /\ NextPreKeyID(store) = n /\ fresh < MaxKeys
    BY PoolTypes, PreKeysAssumption, IdSpaceAssumption, Increment
       DEF GenerateOne, Watermark, NextPreKeyID, Ids
  <1>a. /\ store'.preKeys = store.preKeys /\ store'.nextPreKeyID = n
        /\ fresh' = fresh + 1 /\ spent' = spent
    BY <1>n DEF GenerateOne, AllocPreKeyID, TypeOK, Stores
  <1>o. /\ \A q \in Procs \ {p} : op'[q] = op[q]
        /\ Generating(p)
        /\ op'[p].recs[n] = fresh
        /\ \A i \in Ids \ {n} : op'[p].recs[i] = op[p].recs[i]
    BY <1>n, Parts DEF GenerateOne, TypeOK, Ops, Pools, Generating
  <1>1. Watermark'
    BY <1>n, <1>a, PoolTypes DEF Watermark
  <1>2. SpentKeys'
    BY <1>a, PoolTypes DEF SpentKeys
  <1>3. PoolKeys'
    BY <1>a, PoolTypes DEF PoolKeys
  <1>4. BatchKeys'
    <2> SUFFICES ASSUME NEW q \in Procs, NEW i \in Ids, Generating(q)', op'[q].recs[i] # None
                 PROVE  BatchOK(q, i)'
      BY DEF BatchKeys
    <2>f. /\ \A j \in Ids : store.preKeys[j] # fresh
          /\ store.preKeys[n] = None
          /\ fresh \notin spent
      BY <1>n, PoolTypes DEF PoolKeys, SpentKeys
    <2>g. \A r \in Procs : Generating(r) =>
             op[r].recs[n] = None /\ \A j \in Ids : op[r].recs[j] # fresh
      BY <1>n, PoolTypes DEF BatchKeys, BatchOK
    <2>1. CASE q = p /\ i = n
      BY <2>1, <2>f, <2>g, <1>n, <1>a, <1>o, PoolTypes DEF BatchOK, Generating
    <2>2. CASE ~(q = p /\ i = n)
      <3>1. Generating(q) /\ op'[q].recs[i] = op[q].recs[i]
        BY <2>2, <1>o DEF Generating
      <3>2. BatchOK(q, i)
        BY <3>1 DEF BatchKeys
      <3>3. i # n
        BY <3>2, PoolTypes DEF BatchOK
      <3>4. /\ i <= store'.nextPreKeyID
            /\ op'[q].recs[i] < fresh'
        BY <3>1, <3>2, <1>a, PoolTypes DEF BatchOK
      <3>5. \A j \in Ids : op'[q].recs[j] = op'[q].recs[i] => j = i
        BY <3>1, <3>2, <2>g, <1>o DEF BatchOK
      <3>6. \A r \in Procs \ {q} : Generating(r)' =>
               op'[r].recs[i] = None /\ \A j \in Ids : op'[r].recs[j] # op'[q].recs[i]
        BY <3>1, <3>2, <3>3, <2>g, <1>o DEF BatchOK, Generating
      <3> QED BY <3>1, <3>2, <3>4, <3>5, <3>6, <1>a DEF BatchOK
    <2> QED BY <2>1, <2>2
  <1> QED BY <1>1, <1>2, <1>3, <1>4

(* PutPreKeys moves a batch into the pool.                                  *)
LEMMA OneTimeGeneratePut ==
    ASSUME TypeOK, TypeOK', OneTimeInv, NEW p \in Procs, GeneratePut(p)
    PROVE  OneTimeInv'
  <1> USE DEF OneTimeInv
  <1>a. /\ \A i \in Ids : store'.preKeys[i] = IF op[p].recs[i] # None THEN op[p].recs[i]
                                                                     ELSE store.preKeys[i]
        /\ store'.nextPreKeyID = store.nextPreKeyID
        /\ fresh' = fresh /\ spent' = spent
    BY DEF GeneratePut, PutPreKeys, TypeOK, Stores
  <1>o. /\ \A q \in Procs \ {p} : op'[q] = op[q]
        /\ Generating(p) /\ ~Generating(p)'
    BY DEF GeneratePut, TypeOK, Generating, Idle
  <1>b. \A i \in Ids : op[p].recs[i] # None => BatchOK(p, i)
    BY <1>o DEF BatchKeys
  <1>1. Watermark'
    BY <1>a DEF Watermark
  <1>2. SpentKeys'
    BY <1>a DEF SpentKeys
  <1>3. PoolKeys'
    BY <1>a, <1>b DEF PoolKeys, BatchOK
  <1>4. BatchKeys'
    <2> SUFFICES ASSUME NEW q \in Procs, NEW i \in Ids, Generating(q)', op'[q].recs[i] # None
                 PROVE  BatchOK(q, i)'
      BY DEF BatchKeys
    <2>1. q # p /\ Generating(q) /\ op'[q] = op[q]
      BY <1>o DEF Generating
    <2>2. BatchOK(q, i)
      BY <2>1 DEF BatchKeys
    <2>3. /\ store'.preKeys[i] = None
          /\ \A j \in Ids : store'.preKeys[j] # op'[q].recs[i]
      BY <2>1, <2>2, <1>a, <1>o DEF BatchOK
    <2>4. \A r \in Procs \ {q} : Generating(r)' => r # p /\ Generating(r) /\ op'[r] = op[r]
      BY <1>o DEF Generating
    <2> QED BY <2>1, <2>2, <2>3, <2>4, <1>a DEF BatchOK
  <1> QED BY <1>1, <1>2, <1>3, <1>4

(* ConsumePreKey takes the key out of the pool in the step that spends it.  *)
LEMMA OneTimeConsume ==
    ASSUME TypeOK, TypeOK', OneTimeInv, NEW p \in Procs, Consume(p)
    PROVE  OneTimeInv'
  <1> USE DEF OneTimeInv
  <1> DEFINE id == op[p].kx.opk.id
  <1>i. id \in Ids
    BY Parts DEF Consume, Handshakes, SPKs
  <1>o. /\ \A q \in Procs \ {p} : op'[q] = op[q]
        /\ ~Generating(p) /\ ~Generating(p)'
        /\ fresh' = fresh
    <2>1. op[p].pc = "consume" /\ fresh' = fresh
      BY DEF Consume
    <2>2. op' = [op EXCEPT ![p] = Idle]
      BY DEF Consume
    <2>3. op'[p].pc = "idle" /\ \A q \in Procs \ {p} : op'[q] = op[q]
      BY <2>2 DEF TypeOK, Idle
    <2> QED BY <2>1, <2>3 DEF Generating
  <1>1. CASE store.preKeys[id] = None
    <2>1. store' = store /\ spent' = spent
      BY <1>1 DEF Consume
    <2> QED BY <2>1, <1>o, PoolTypes, OneTimeFrame DEF Generating, Watermark
  <1>2. CASE store.preKeys[id] # None
    <2>a. /\ store'.preKeys[id] = None
          /\ \A i \in Ids \ {id} : store'.preKeys[i] = store.preKeys[i]
          /\ store'.nextPreKeyID = store.nextPreKeyID
          /\ spent' = spent \cup {store.preKeys[id]}
      <3>1. /\ store' = [store EXCEPT !.preKeys[id] = None]
            /\ spent' = spent \cup {store.preKeys[id]}
        BY <1>2 DEF Consume, ConsumePreKey
      <3> QED BY <3>1, <1>i, Parts DEF TypeOK, Stores, Pools
    <2>1. Watermark'
      BY <2>a, <1>o DEF Watermark
    <2>2. SpentKeys'
      BY <2>a, <1>i, <1>o, <1>2 DEF SpentKeys, PoolKeys
    <2>3. PoolKeys'
      BY <2>a, <1>i, <1>o, <1>2 DEF PoolKeys
    <2>4. BatchKeys'
      BY <2>a, <1>i, <1>o, <1>2 DEF BatchKeys, BatchOK, Generating
    <2> QED BY <2>1, <2>2, <2>3, <2>4
  <1> QED BY <1>1, <1>2

LEMMA OneTimeStep ==
    ASSUME TypeOK, TypeOK', OneTimeInv, [Next]_vars
    PROVE  OneTimeInv'
  <1>t. fresh \in Nat /\ fresh <= MaxKeys
    BY DEF OneTimeInv, Watermark, TypeOK
  <1>i. ASSUME NEW p \in Procs, op'[p].pc # "generate", \A q \in Procs \ {p} : op'[q] = op[q]
        PROVE  \A q \in Procs, i \in Ids : Generating(q)' /\ op'[q].recs[i] # None =>
                  Generating(q) /\ op[q].recs[i] = op'[q].recs[i]
    BY <1>i DEF Generating
  <1>s. ASSUME UNCHANGED <<store, fresh, spent>>, NEW p \in Procs,
               op'[p].pc # "generate", \A q \in Procs \ {p} : op'[q] = op[q]
        PROVE  OneTimeInv'
    <2>1. store'.preKeys = store.preKeys /\ store'.nextPreKeyID = store.nextPreKeyID
      BY <1>s
    <2>2. spent' = spent /\ fresh <= fresh' /\ fresh' <= MaxKeys
      BY <1>s, <1>t
    <2>3. \A q \in Procs, i \in Ids : Generating(q)' /\ op'[q].recs[i] # None =>
                  Generating(q) /\ op[q].recs[i] = op'[q].recs[i]
      BY <1>s, <1>i
    <2> QED BY <2>1, <2>2, <2>3, OneTimeFrame
  <1>1. ASSUME NEW p \in Procs, RotateRead(p) PROVE OneTimeInv'
    <2>1. op'[p].pc # "generate" /\ \A q \in Procs \ {p} : op'[q] = op[q]
      BY <1>1 DEF RotateRead, TypeOK, Idle
    <2> QED BY <1>1, <2>1, <1>s DEF RotateRead
  <1>2. ASSUME NEW p \in Procs, RotateStore(p) PROVE OneTimeInv'
    <2>1. /\ store'.preKeys = store.preKeys /\ store'.nextPreKeyID = store.nextPreKeyID
          /\ spent' = spent /\ fresh <= fresh' /\ fresh' <= MaxKeys
      BY <1>2, <1>t, PreKeysAssumption DEF RotateStore, RotateSPK, TypeOK, Stores
    <2>2. op'[p].pc # "generate" /\ \A q \in Procs \ {p} : op'[q] = op[q]
      BY <1>2 DEF RotateStore, TypeOK, Idle
    <2> QED BY <2>1, <2>2, <1>i, OneTimeFrame
  <1>3. ASSUME NEW p \in Procs, NEW n \in 0 .. MaxBatch, GenerateStart(p, n) PROVE OneTimeInv'
    <2>1. /\ \A q \in Procs \ {p} : op'[q] = op[q]
          /\ \A i \in Ids : op'[p].recs[i] = None
      BY <1>3 DEF GenerateStart, TypeOK, Idle, NoPreKeys
    <2> QED BY <1>3, <1>t, <2>1, OneTimeFrame DEF GenerateStart, Generating
  <1>4. ASSUME NEW p \in Procs, CallFails(p) PROVE OneTimeInv'
    <2>1. op'[p].pc # "generate" /\ \A q \in Procs \ {p} : op'[q] = op[q]
      BY <1>4 DEF CallFails, TypeOK, Idle
    <2> QED BY <1>4, <2>1, <1>s DEF CallFails
  <1>5. ASSUME NEW p \in Procs, BundleReadSPK(p) PROVE OneTimeInv'
    <2>1. op'[p].pc # "generate" /\ \A q \in Procs \ {p} : op'[q] = op[q]
      BY <1>5 DEF BundleReadSPK, TypeOK, Idle
    <2> QED BY <1>5, <2>1, <1>s DEF BundleReadSPK
  <1>6. ASSUME NEW p \in Procs, BundleReadPool(p) PROVE OneTimeInv'
    <2>1. op'[p].pc # "generate" /\ \A q \in Procs \ {p} : op'[q] = op[q]
      BY <1>6, Parts DEF BundleReadPool, TypeOK, Ops
    <2> QED BY <1>6, <2>1, <1>s DEF BundleReadPool
  <1>7. ASSUME NEW p \in Procs, Publish(p) PROVE OneTimeInv'
    <2>1. op'[p].pc # "generate" /\ \A q \in Procs \ {p} : op'[q] = op[q]
      BY <1>7 DEF Publish, TypeOK, Idle
    <2> QED BY <1>7, <2>1, <1>s DEF Publish
  <1>9. ASSUME NEW p \in Procs, NEW kx \in handshakes, Receive(p, kx) PROVE OneTimeInv'
    <2>1. op'[p].pc # "generate" /\ \A q \in Procs \ {p} : op'[q] = op[q]
      BY <1>9 DEF Receive, TypeOK, Idle
    <2> QED BY <1>9, <2>1, <1>s DEF Receive
  <1>10. ASSUME NEW p \in Procs, LookupStale(p) PROVE OneTimeInv'
    <2>1. op'[p].pc # "generate" /\ \A q \in Procs \ {p} : op'[q] = op[q]
      BY <1>10, Parts DEF LookupStale, TypeOK, Idle, Ops
    <2> QED BY <1>10, <2>1, <1>s DEF LookupStale
  <1>11. ASSUME NEW q \in Peers, PeerStarts(q) PROVE OneTimeInv'
    BY <1>11, <1>t, OneTimeFrame DEF PeerStarts, Generating
  <1>12. CASE UNCHANGED vars
    BY <1>12, <1>t, OneTimeFrame DEF vars, Generating
  <1> QED BY <1>1, <1>2, <1>3, <1>4, <1>5, <1>6, <1>7, <1>9, <1>10, <1>11, <1>12,
             OneTimeGenerateOne, OneTimeGeneratePut, OneTimeConsume DEF Next

LEMMA OneTimeInvariant == Spec => []OneTimeInv
  <1>1. Init => OneTimeInv
    <2> SUFFICES ASSUME Init PROVE OneTimeInv
      OBVIOUS
    <2> USE PreKeysAssumption, IdSpaceAssumption DEF Init, Keys
    <2>1. Watermark /\ SpentKeys
      BY DEF Watermark, SpentKeys
    <2>2. PoolKeys
      <3>1. Ids \subseteq Nat
        BY DEF Ids
      <3>2. /\ \A i \in Ids : store.preKeys[i] # None => i \in 1 .. PoolSize /\ store.preKeys[i] = i
            /\ store.nextPreKeyID = PoolSize /\ fresh = PoolSize + 1 /\ spent = {}
        OBVIOUS
      <3>3. \A i \in Ids : store.preKeys[i] # None =>
               i <= store.nextPreKeyID /\ store.preKeys[i] < fresh /\ store.preKeys[i] \notin spent
        <4> HIDE DEF Init
        <4> QED BY <3>1, <3>2
      <3>4. \A i, j \in Ids : store.preKeys[i] # None /\ store.preKeys[j] = store.preKeys[i] => j = i
        BY <3>2
      <3> QED BY <3>3, <3>4 DEF PoolKeys
    <2>3. BatchKeys
      BY DEF BatchKeys, Generating, Idle
    <2> QED BY <2>1, <2>2, <2>3 DEF OneTimeInv
  <1> QED BY <1>1, OneTimeStep, TypeCorrect, PTL DEF Spec

(* A one-time prekey completes at most one handshake, for every number of   *)
(* goroutines generating, publishing and consuming at once: once spent, a   *)
(* key is neither in the pool nor in a batch on its way there.              *)
THEOREM OneTimeCorrect == Spec => []OneTime
  <1>1. TypeOK /\ OneTimeInv => OneTime
    BY PoolTypes DEF OneTime, OneTimeInv, PoolKeys, BatchKeys, BatchOK, Generating
  <1> QED BY <1>1, OneTimeInvariant, TypeCorrect, PTL

(* Concurrent GenerateOneTimePreKeys calls never overwrite a prekey that is *)
(* still in the pool: it leaves only when ConsumePreKey spends it.          *)
THEOREM NoLivePreKeyLostCorrect == Spec => NoLivePreKeyLost
  <1> DEFINE Lost == \A i \in Ids :
                        store.preKeys[i] # None /\ store'.preKeys[i] # store.preKeys[i] =>
                           store'.preKeys[i] = None /\ store.preKeys[i] \in spent'
  <1>1. TypeOK /\ OneTimeInv /\ [Next]_vars => [Lost]_vars
    <2> SUFFICES ASSUME TypeOK, OneTimeInv, Next PROVE Lost
      OBVIOUS
    <2>1. ASSUME store'.preKeys = store.preKeys PROVE Lost
      BY <2>1
    <2>2. ASSUME NEW p \in Procs, RotateStore(p) PROVE Lost
      BY <2>2 DEF RotateStore, RotateSPK, TypeOK, Stores
    <2>3. ASSUME NEW p \in Procs, GenerateOne(p) PROVE Lost
      BY <2>3 DEF GenerateOne, AllocPreKeyID, TypeOK, Stores
    <2>4. ASSUME NEW p \in Procs, GeneratePut(p) PROVE Lost
      BY <2>4 DEF GeneratePut, PutPreKeys, TypeOK, Stores, OneTimeInv, BatchKeys, BatchOK, Generating
    <2>5. ASSUME NEW p \in Procs, Consume(p) PROVE Lost
      <3>1. op[p].kx.opk.id \in Ids
        BY <2>5, Parts DEF Consume, Handshakes, SPKs
      <3>2. CASE store' = store
        BY <3>2
      <3>3. CASE /\ store' = [store EXCEPT !.preKeys[op[p].kx.opk.id] = None]
                 /\ spent' = spent \cup {store.preKeys[op[p].kx.opk.id]}
        BY <3>1, <3>3, Parts DEF TypeOK, Stores, Pools
      <3> QED BY <2>5, <3>2, <3>3 DEF Consume, ConsumePreKey
    <2> QED BY <2>1, <2>2, <2>3, <2>4, <2>5
            DEF Next, RotateRead, GenerateStart, CallFails, BundleReadSPK, BundleReadPool,
                Publish, Receive, LookupStale, PeerStarts
  <1> QED BY <1>1, OneTimeInvariant, TypeCorrect, PTL DEF Spec, NoLivePreKeyLost

(* What the refinement mapping sees of a pool.                              *)
LEMMA LiveKeysIn ==
    \A k : k \in LiveKeys <=> \E i \in Ids : store.preKeys[i] # None /\ store.preKeys[i] = k
  BY DEF LiveKeys, PreKeyIDs

(* Every step of the prekey calls is a step of the abstract pool, or leaves *)
(* it alone: PutPreKeys adds a batch of new keys, ConsumePreKey uses one.   *)
LEMMA PoolStep ==
    ASSUME TypeOK, OneTimeInv, [Next]_vars
    PROVE  Pool!Next \/ UNCHANGED <<LiveKeys, spent>>
  <1>1. ASSUME store'.preKeys = store.preKeys, spent' = spent
        PROVE  UNCHANGED <<LiveKeys, spent>>
    BY <1>1 DEF LiveKeys, PreKeyIDs
  <1>2. ASSUME NEW p \in Procs, GeneratePut(p) PROVE Pool!Next
    <2>a. /\ \A i \in Ids : store'.preKeys[i] = IF op[p].recs[i] # None THEN op[p].recs[i]
                                                                      ELSE store.preKeys[i]
          /\ spent' = spent
      BY <1>2 DEF GeneratePut, PutPreKeys, TypeOK, Stores
    <2>b. \A i \in Ids : op[p].recs[i] # None => BatchOK(p, i)
      BY <1>2 DEF GeneratePut, OneTimeInv, BatchKeys, Generating
    <2>c. \A k \in LiveKeys : k \in LiveKeys'
      <3> SUFFICES ASSUME NEW i \in Ids, store.preKeys[i] # None
                   PROVE  store.preKeys[i] \in LiveKeys'
        BY LiveKeysIn
      <3>1. store'.preKeys[i] = store.preKeys[i]
        BY <2>a, <2>b DEF BatchOK
      <3> QED BY <3>1 DEF LiveKeys, PreKeyIDs
    <2>d. \A k \in LiveKeys' : k \notin LiveKeys => k \notin spent
      <3> SUFFICES ASSUME NEW i \in Ids, store'.preKeys[i] # None, store'.preKeys[i] \notin LiveKeys
                   PROVE  store'.preKeys[i] \notin spent
        BY DEF LiveKeys, PreKeyIDs
      <3>1. op[p].recs[i] # None /\ store'.preKeys[i] = op[p].recs[i]
        BY <2>a, LiveKeysIn
      <3> QED BY <3>1, <2>b DEF BatchOK
    <2> QED BY <2>a, <2>c, <2>d DEF Pool!Next, Pool!Add
  <1>3. ASSUME NEW p \in Procs, Consume(p)
        PROVE  Pool!Next \/ UNCHANGED <<LiveKeys, spent>>
    <2> DEFINE id == op[p].kx.opk.id
    <2>i. id \in Ids
      BY <1>3, Parts DEF Consume, Handshakes, SPKs
    <2>1. CASE store.preKeys[id] = None
      BY <1>1, <1>3, <2>1 DEF Consume
    <2>2. CASE store.preKeys[id] # None
      <3>1. /\ store' = [store EXCEPT !.preKeys[id] = None]
            /\ spent' = spent \cup {store.preKeys[id]}
        BY <1>3, <2>2 DEF Consume, ConsumePreKey
      <3>2. /\ store'.preKeys[id] = None
            /\ \A i \in Ids \ {id} : store'.preKeys[i] = store.preKeys[i]
        BY <3>1, <2>i, Parts DEF TypeOK, Stores, Pools
      <3>3. \A i \in Ids : store.preKeys[i] = store.preKeys[id] => i = id
        BY <2>i, <2>2 DEF OneTimeInv, PoolKeys
      <3>4. LiveKeys' = LiveKeys \ {store.preKeys[id]}
        <4>1. \A k \in LiveKeys' : k \in LiveKeys /\ k # store.preKeys[id]
          BY <3>2, <3>3, <2>i DEF LiveKeys, PreKeyIDs
        <4>2. \A k \in LiveKeys : k # store.preKeys[id] => k \in LiveKeys'
          BY <3>2, <2>i DEF LiveKeys, PreKeyIDs
        <4> QED BY <4>1, <4>2
      <3>5. store.preKeys[id] \in LiveKeys
        BY <2>i, <2>2, LiveKeysIn
      <3> QED BY <3>1, <3>4, <3>5 DEF Pool!Next, Pool!Use
    <2> QED BY <2>1, <2>2
  <1>4. ASSUME NEW p \in Procs, RotateStore(p) \/ GenerateOne(p)
        PROVE  UNCHANGED <<LiveKeys, spent>>
    BY <1>1, <1>4 DEF RotateStore, RotateSPK, GenerateOne, AllocPreKeyID, TypeOK, Stores
  <1>5. ASSUME NEW p \in Procs,
               \/ RotateRead(p) \/ (\E n \in 0 .. MaxBatch : GenerateStart(p, n)) \/ CallFails(p)
               \/ BundleReadSPK(p) \/ BundleReadPool(p) \/ Publish(p)
               \/ (\E kx \in handshakes : Receive(p, kx)) \/ LookupStale(p)
        PROVE  UNCHANGED <<LiveKeys, spent>>
    <2>1. store' = store /\ spent' = spent
      BY <1>5 DEF RotateRead, GenerateStart, CallFails, BundleReadSPK, BundleReadPool,
                  Publish, Receive, LookupStale
    <2> QED BY <2>1, <1>1
  <1>6. ASSUME UNCHANGED vars \/ \E q \in Peers : PeerStarts(q)
        PROVE  UNCHANGED <<LiveKeys, spent>>
    BY <1>1, <1>6 DEF vars, PeerStarts
  <1> QED BY <1>2, <1>3, <1>4, <1>5, <1>6, Zenon DEF Next

(* The prekey calls implement the abstract pool for every number of         *)
(* goroutines and every batch size: no interleaving of generation,          *)
(* consumption, rotation and publication brings a used one-time prekey      *)
(* back, uses one twice, or loses one that nobody used.                     *)
THEOREM PoolRefinement == Spec => ImplementsPool
  <1>1. Init => Pool!Init
    <2> SUFFICES ASSUME Init PROVE LiveKeys \subseteq Keys /\ spent = {}
      BY DEF Pool!Init
    <2>1. \A i \in Ids : store.preKeys[i] # None => store.preKeys[i] \in Nat
      BY PreKeysAssumption DEF Init, Ids
    <2> QED BY <2>1 DEF Init, LiveKeys, PreKeyIDs, Keys
  <1>2. TypeOK /\ OneTimeInv /\ [Next]_vars => [Pool!Next]_<<LiveKeys, spent>>
    BY PoolStep
  <1> QED BY <1>1, <1>2, OneTimeInvariant, TypeCorrect, PTL DEF Spec, ImplementsPool, Pool!Spec

-----------------------------------------------------------------------------
(* Both ends of a handshake use the same keys *)

(* What one step can do to the call of one goroutine.                       *)
CallMove(q) ==
    \/ op'[q] = op[q]
    \/ op'[q].pc \in {"idle", "generate"}
    \/ op'[q].pc = "rotate" /\ q \in Rotators /\ op'[q].id = (store.currentSPK.id + 1) % IdSpace
    \/ op'[q].pc = "pool" /\ op'[q].spk = store.currentSPK
    \/ /\ op'[q].pc = "publish" /\ op[q].pc = "pool"
       /\ op'[q].spk = op[q].spk /\ op'[q].recs = store.preKeys
    \/ op'[q].pc = "stale" /\ op'[q].kx \in handshakes
    \/ /\ op'[q].pc = "consume" /\ op'[q].kx \in handshakes
       /\ op'[q].spk = store.currentSPK /\ op'[q].spk.id = op'[q].kx.spk.id
    \/ /\ op'[q].pc = "consume" /\ op[q].pc = "stale" /\ op'[q].kx = op[q].kx
       /\ store.staleSPK # None
       /\ op'[q].spk = store.staleSPK /\ op'[q].spk.id = op'[q].kx.spk.id

LEMMA CallStep ==
    ASSUME TypeOK, [Next]_vars
    PROVE  \A q \in Procs : CallMove(q)
  <1>1. ASSUME NEW p \in Procs, RotateRead(p) PROVE \A q \in Procs : CallMove(q)
    <2>1. CallMove(p) /\ \A q \in Procs \ {p} : op'[q] = op[q]
      BY <1>1, Parts DEF RotateRead, CallMove, TypeOK, Idle
    <2> QED BY <2>1 DEF CallMove
  <1>2. ASSUME NEW p \in Procs, RotateStore(p) PROVE \A q \in Procs : CallMove(q)
    <2>1. CallMove(p) /\ \A q \in Procs \ {p} : op'[q] = op[q]
      BY <1>2, Parts DEF RotateStore, CallMove, TypeOK, Idle
    <2> QED BY <2>1 DEF CallMove
  <1>3. ASSUME NEW p \in Procs, NEW n \in 0 .. MaxBatch, GenerateStart(p, n) PROVE \A q \in Procs : CallMove(q)
    <2>1. CallMove(p) /\ \A q \in Procs \ {p} : op'[q] = op[q]
      BY <1>3, Parts DEF GenerateStart, CallMove, TypeOK, Idle
    <2> QED BY <2>1 DEF CallMove
  <1>4. ASSUME NEW p \in Procs, GenerateOne(p) PROVE \A q \in Procs : CallMove(q)
    <2>1. CallMove(p) /\ \A q \in Procs \ {p} : op'[q] = op[q]
      BY <1>4, Parts DEF GenerateOne, CallMove, TypeOK, Ops
    <2> QED BY <2>1 DEF CallMove
  <1>5. ASSUME NEW p \in Procs, CallFails(p) PROVE \A q \in Procs : CallMove(q)
    <2>1. CallMove(p) /\ \A q \in Procs \ {p} : op'[q] = op[q]
      BY <1>5, Parts DEF CallFails, CallMove, TypeOK, Idle
    <2> QED BY <2>1 DEF CallMove
  <1>6. ASSUME NEW p \in Procs, GeneratePut(p) PROVE \A q \in Procs : CallMove(q)
    <2>1. CallMove(p) /\ \A q \in Procs \ {p} : op'[q] = op[q]
      BY <1>6, Parts DEF GeneratePut, CallMove, TypeOK, Idle
    <2> QED BY <2>1 DEF CallMove
  <1>7. ASSUME NEW p \in Procs, BundleReadSPK(p) PROVE \A q \in Procs : CallMove(q)
    <2>1. CallMove(p) /\ \A q \in Procs \ {p} : op'[q] = op[q]
      BY <1>7, Parts DEF BundleReadSPK, CallMove, TypeOK, Idle
    <2> QED BY <2>1 DEF CallMove
  <1>8. ASSUME NEW p \in Procs, BundleReadPool(p) PROVE \A q \in Procs : CallMove(q)
    <2>1. CallMove(p) /\ \A q \in Procs \ {p} : op'[q] = op[q]
      BY <1>8, Parts DEF BundleReadPool, CallMove, TypeOK, Ops
    <2> QED BY <2>1 DEF CallMove
  <1>9. ASSUME NEW p \in Procs, Publish(p) PROVE \A q \in Procs : CallMove(q)
    <2>1. CallMove(p) /\ \A q \in Procs \ {p} : op'[q] = op[q]
      BY <1>9, Parts DEF Publish, CallMove, TypeOK, Idle
    <2> QED BY <2>1 DEF CallMove
  <1>11. ASSUME NEW p \in Procs, NEW kx \in handshakes, Receive(p, kx) PROVE \A q \in Procs : CallMove(q)
    <2>1. CallMove(p) /\ \A q \in Procs \ {p} : op'[q] = op[q]
      BY <1>11, Parts DEF Receive, CallMove, TypeOK, Idle
    <2> QED BY <2>1 DEF CallMove
  <1>12. ASSUME NEW p \in Procs, LookupStale(p) PROVE \A q \in Procs : CallMove(q)
    <2>1. CallMove(p) /\ \A q \in Procs \ {p} : op'[q] = op[q]
      BY <1>12, Parts DEF LookupStale, CallMove, TypeOK, Idle, Ops
    <2> QED BY <2>1 DEF CallMove
  <1>13. ASSUME NEW p \in Procs, Consume(p) PROVE \A q \in Procs : CallMove(q)
    <2>0. op' = [op EXCEPT ![p] = Idle]
      BY <1>13 DEF Consume
    <2>1. CallMove(p) /\ \A q \in Procs \ {p} : op'[q] = op[q]
      BY <2>0 DEF CallMove, TypeOK, Idle
    <2> QED BY <2>1 DEF CallMove
  <1>14. ASSUME NEW r \in Peers, PeerStarts(r) PROVE \A q \in Procs : CallMove(q)
    BY <1>14 DEF PeerStarts, CallMove
  <1>15. CASE UNCHANGED vars
    BY <1>15 DEF vars, CallMove
  <1> QED BY <1>1, <1>2, <1>3, <1>4, <1>5, <1>6, <1>7, <1>8, <1>9, <1>11, <1>12,
             <1>13, <1>14, <1>15 DEF Next

(* A reference to a prekey stays good.                                      *)
LEMMA RefFrame ==
    ASSUME TypeOK, TypeOK', NEW id \in Ids, NEW key, RefOK(id, key),
           store.nextPreKeyID <= store'.nextPreKeyID,
           store'.preKeys[id] \in {None, store.preKeys[id]},
           \A q \in Procs : Generating(q)' /\ op'[q].recs[id] # None =>
              Generating(q) /\ op[q].recs[id] # None
    PROVE  RefOK(id, key)'
  <1>1. id <= store'.nextPreKeyID
    <2>1. store'.nextPreKeyID \in Nat /\ store.nextPreKeyID \in Nat /\ id \in Nat
      BY PoolTypes, IdSpaceAssumption DEF TypeOK, Stores, Ids
    <2> QED BY <2>1 DEF RefOK
  <1> QED BY <1>1 DEF RefOK

LEMMA RefStep ==
    ASSUME TypeOK, TypeOK', OneTimeInv, [Next]_vars, NEW id \in Ids, NEW key, RefOK(id, key)
    PROVE  RefOK(id, key)'
  <1> DEFINE NoBatch == \A q \in Procs : Generating(q)' /\ op'[q].recs[id] # None =>
                           Generating(q) /\ op[q].recs[id] # None
  <1>n. store.nextPreKeyID <= store.nextPreKeyID /\ Ids \subseteq Nat
    BY PoolTypes
  <1>s. ASSUME store'.preKeys = store.preKeys, store'.nextPreKeyID = store.nextPreKeyID,
               NEW p \in Procs, op'[p].pc # "generate", \A q \in Procs \ {p} : op'[q] = op[q]
        PROVE  RefOK(id, key)'
    <2>1. NoBatch
      BY <1>s DEF Generating
    <2> QED BY <1>s, <1>n, <2>1, RefFrame
  <1>1. ASSUME NEW p \in Procs, RotateRead(p) PROVE RefOK(id, key)'
    <2>1. op'[p].pc # "generate" /\ \A q \in Procs \ {p} : op'[q] = op[q]
      BY <1>1, Parts DEF RotateRead, TypeOK, Idle
    <2> QED BY <1>1, <2>1, <1>s DEF RotateRead
  <1>2. ASSUME NEW p \in Procs, RotateStore(p) PROVE RefOK(id, key)'
    <2>1. op'[p].pc # "generate" /\ \A q \in Procs \ {p} : op'[q] = op[q]
      BY <1>2 DEF RotateStore, TypeOK, Idle
    <2>2. store'.preKeys = store.preKeys /\ store'.nextPreKeyID = store.nextPreKeyID
      BY <1>2 DEF RotateStore, RotateSPK, TypeOK, Stores
    <2> QED BY <2>1, <2>2, <1>s
  <1>3. ASSUME NEW p \in Procs, NEW n \in 0 .. MaxBatch, GenerateStart(p, n) PROVE RefOK(id, key)'
    <2>1. NoBatch
      BY <1>3 DEF GenerateStart, TypeOK, Idle, NoPreKeys, Generating
    <2> QED BY <1>3, <1>n, <2>1, RefFrame DEF GenerateStart
  <1>4. ASSUME NEW p \in Procs, GenerateOne(p) PROVE RefOK(id, key)'
    <2>1. /\ NextPreKeyID(store) = store.nextPreKeyID + 1
          /\ store'.nextPreKeyID = store.nextPreKeyID + 1
          /\ store'.preKeys = store.preKeys
      BY <1>4, PoolTypes, PreKeysAssumption, IdSpaceAssumption, Increment
         DEF GenerateOne, AllocPreKeyID, NextPreKeyID, OneTimeInv, Watermark, Ids, TypeOK, Stores
    <2>2. id # NextPreKeyID(store) /\ store.nextPreKeyID <= store'.nextPreKeyID
      BY <2>1, PoolTypes DEF RefOK
    <2>3. NoBatch
      BY <1>4, <2>2, Parts DEF GenerateOne, TypeOK, Ops, Pools, Generating
    <2> QED BY <2>1, <2>2, <2>3, RefFrame
  <1>5. ASSUME NEW p \in Procs, CallFails(p) PROVE RefOK(id, key)'
    <2>1. op'[p].pc # "generate" /\ \A q \in Procs \ {p} : op'[q] = op[q]
      BY <1>5, Parts DEF CallFails, TypeOK, Idle
    <2> QED BY <1>5, <2>1, <1>s DEF CallFails
  <1>6. ASSUME NEW p \in Procs, GeneratePut(p) PROVE RefOK(id, key)'
    <2>1. NoBatch
      BY <1>6 DEF GeneratePut, TypeOK, Idle, Generating
    <2>2. store'.nextPreKeyID = store.nextPreKeyID /\ store'.preKeys[id] = store.preKeys[id]
      BY <1>6 DEF GeneratePut, PutPreKeys, TypeOK, Stores, RefOK, Generating
    <2> QED BY <1>n, <2>1, <2>2, RefFrame
  <1>7. ASSUME NEW p \in Procs, BundleReadSPK(p) PROVE RefOK(id, key)'
    <2>1. op'[p].pc # "generate" /\ \A q \in Procs \ {p} : op'[q] = op[q]
      BY <1>7, Parts DEF BundleReadSPK, TypeOK, Idle
    <2> QED BY <1>7, <2>1, <1>s DEF BundleReadSPK
  <1>8. ASSUME NEW p \in Procs, BundleReadPool(p) PROVE RefOK(id, key)'
    <2>1. op'[p].pc # "generate" /\ \A q \in Procs \ {p} : op'[q] = op[q]
      BY <1>8, Parts DEF BundleReadPool, TypeOK, Ops
    <2> QED BY <1>8, <2>1, <1>s DEF BundleReadPool
  <1>9. ASSUME NEW p \in Procs, Publish(p) PROVE RefOK(id, key)'
    <2>1. op'[p].pc # "generate" /\ \A q \in Procs \ {p} : op'[q] = op[q]
      BY <1>9, Parts DEF Publish, TypeOK, Idle
    <2> QED BY <1>9, <2>1, <1>s DEF Publish
  <1>11. ASSUME NEW p \in Procs, NEW kx \in handshakes, Receive(p, kx) PROVE RefOK(id, key)'
    <2>1. op'[p].pc # "generate" /\ \A q \in Procs \ {p} : op'[q] = op[q]
      BY <1>11, Parts DEF Receive, TypeOK, Idle
    <2> QED BY <1>11, <2>1, <1>s DEF Receive
  <1>12. ASSUME NEW p \in Procs, LookupStale(p) PROVE RefOK(id, key)'
    <2>1. op'[p].pc # "generate" /\ \A q \in Procs \ {p} : op'[q] = op[q]
      BY <1>12, Parts DEF LookupStale, TypeOK, Idle, Ops
    <2> QED BY <1>12, <2>1, <1>s DEF LookupStale
  <1>13. ASSUME NEW p \in Procs, Consume(p) PROVE RefOK(id, key)'
    <2>1. op' = [op EXCEPT ![p] = Idle]
      BY <1>13 DEF Consume
    <2>2. NoBatch
      BY <2>1 DEF TypeOK, Idle, Generating
    <2>3. store' = store \/ store' = [store EXCEPT !.preKeys[op[p].kx.opk.id] = None]
      BY <1>13 DEF Consume, ConsumePreKey
    <2>4. /\ store'.nextPreKeyID = store.nextPreKeyID
          /\ store'.preKeys[id] \in {None, store.preKeys[id]}
      BY <2>3, Parts DEF TypeOK, Stores, Pools
    <2> QED BY <1>n, <2>2, <2>4, RefFrame
  <1>14. ASSUME NEW r \in Peers, PeerStarts(r) PROVE RefOK(id, key)'
    BY <1>14 DEF PeerStarts, RefOK, Generating
  <1>15. CASE UNCHANGED vars
    BY <1>15 DEF vars, RefOK, Generating
  <1> QED BY <1>1, <1>2, <1>3, <1>4, <1>5, <1>6, <1>7, <1>8, <1>9, <1>11, <1>12,
             <1>13, <1>14, <1>15 DEF Next

(* What one step can do to the signed prekeys, the bundle and the handshakes. *)
LEMMA SharedStep ==
    ASSUME TypeOK, [Next]_vars
    PROVE  /\ \/ store'.currentSPK = store.currentSPK /\ store'.staleSPK = store.staleSPK
              \/ \E p \in Procs : RotateStore(p)
           /\ \/ bundle' = bundle
              \/ \E p \in Procs : Publish(p)
           /\ \A h \in handshakes' : \/ h \in handshakes
                                     \/ bundle.preKey # None /\ h.spk = bundle.spk /\ h.opk = bundle.preKey
           /\ handshakes \subseteq handshakes'
           /\ fresh <= fresh'
  <1> DEFINE Same == store'.currentSPK = store.currentSPK /\ store'.staleSPK = store.staleSPK
  <1>f. fresh \in Nat
    BY DEF TypeOK
  <1>1. ASSUME NEW p \in Procs, GenerateOne(p) PROVE Same
    BY <1>1 DEF GenerateOne, AllocPreKeyID, TypeOK, Stores
  <1>2. ASSUME NEW p \in Procs, GeneratePut(p) PROVE Same
    BY <1>2 DEF GeneratePut, PutPreKeys, TypeOK, Stores
  <1>3. ASSUME NEW p \in Procs, Consume(p) PROVE Same
    BY <1>3 DEF Consume, ConsumePreKey, TypeOK, Stores
  <1>4. Same \/ \E p \in Procs : RotateStore(p)
    BY <1>1, <1>2, <1>3 DEF Next, vars, RotateRead, GenerateStart, CallFails, BundleReadSPK,
       BundleReadPool, Publish, Receive, LookupStale, PeerStarts
  <1>5. bundle' = bundle \/ \E p \in Procs : Publish(p)
    BY DEF Next, vars, RotateRead, RotateStore, GenerateStart, GenerateOne, CallFails, GeneratePut,
       BundleReadSPK, BundleReadPool, Receive, LookupStale, Consume, PeerStarts
  <1>6. handshakes' = handshakes \/ \E r \in Peers : PeerStarts(r)
    BY DEF Next, vars, RotateRead, RotateStore, GenerateStart, GenerateOne, CallFails, GeneratePut,
       BundleReadSPK, BundleReadPool, Publish, Receive, LookupStale, Consume
  <1>7. /\ handshakes \subseteq handshakes'
        /\ \A h \in handshakes' : \/ h \in handshakes
                                  \/ bundle.preKey # None /\ h.spk = bundle.spk /\ h.opk = bundle.preKey
    BY <1>6 DEF PeerStarts
  <1>8. fresh' = fresh \/ fresh' = fresh + 1
    BY DEF Next, vars, RotateRead, RotateStore, GenerateStart, GenerateOne, CallFails, GeneratePut,
       BundleReadSPK, BundleReadPool, Publish, Receive, LookupStale, Consume, PeerStarts
  <1>9. fresh <= fresh'
    BY <1>f, <1>8
  <1> QED BY <1>4, <1>5, <1>7, <1>9

LEMMA PreKeyRefsStep ==
    ASSUME TypeOK, TypeOK', OneTimeInv, PreKeyRefs, [Next]_vars
    PROVE  PreKeyRefs'
  <1>1. (bundle.preKey # None => RefOK(bundle.preKey.id, bundle.preKey.key))'
    <2> SUFFICES ASSUME bundle'.preKey # None
                 PROVE  RefOK(bundle.preKey.id, bundle.preKey.key)'
      OBVIOUS
    <2>1. PICK i \in Ids, k \in Keys : bundle'.preKey = [id |-> i, key |-> k]
      BY DEF TypeOK, SPKs
    <2>2. RefOK(i, k)
      <3>1. CASE bundle' = bundle
        BY <2>1, <3>1 DEF PreKeyRefs
      <3>2. ASSUME NEW p \in Procs, Publish(p) PROVE RefOK(i, k)
        <4>1. PICK j \in Ids : /\ op[p].recs[j] # None
                               /\ bundle'.preKey = [id |-> j, key |-> op[p].recs[j]]
          BY <3>2 DEF Publish, FirstOf
        <4>2. j = i /\ op[p].recs[j] = k
          BY <2>1, <4>1
        <4> QED BY <3>2, <4>1, <4>2 DEF Publish, PreKeyRefs
      <3> QED BY <3>1, <3>2, SharedStep
    <2>3. RefOK(i, k)'
      BY <2>2, RefStep
    <2> QED BY <2>1, <2>3 DEF RefOK
  <1>2. (\A h \in handshakes : RefOK(h.opk.id, h.opk.key))'
    <2> SUFFICES ASSUME NEW h \in handshakes' PROVE RefOK(h.opk.id, h.opk.key)'
      OBVIOUS
    <2>1. h.opk.id \in Ids
      BY DEF TypeOK, Handshakes, SPKs
    <2>2. RefOK(h.opk.id, h.opk.key)
      BY SharedStep DEF PreKeyRefs
    <2> QED BY <2>1, <2>2, RefStep
  <1>3. (\A p \in Procs : op[p].pc \in {"stale", "consume"} => op[p].kx \in handshakes)'
    BY CallStep, SharedStep DEF CallMove, PreKeyRefs
  <1>4. (\A p \in Procs, i \in Ids :
            op[p].pc = "publish" /\ op[p].recs[i] # None => RefOK(i, op[p].recs[i]))'
    <2> SUFFICES ASSUME NEW p \in Procs, NEW i \in Ids, op'[p].pc = "publish", op'[p].recs[i] # None
                 PROVE  RefOK(i, op[p].recs[i])'
      OBVIOUS
    <2>1. PICK k : k = op'[p].recs[i]
      OBVIOUS
    <2>2. RefOK(i, k)
      <3>1. CASE op'[p] = op[p]
        BY <2>1, <3>1 DEF PreKeyRefs
      <3>2. CASE op'[p].recs = store.preKeys
        <4>1. i <= store.nextPreKeyID
          BY <3>2 DEF OneTimeInv, PoolKeys
        <4>2. \A q \in Procs : Generating(q) => op[q].recs[i] = None
          BY <3>2 DEF OneTimeInv, BatchKeys, BatchOK
        <4> QED BY <2>1, <3>2, <4>1, <4>2 DEF RefOK
      <3> QED BY <3>1, <3>2, CallStep DEF CallMove
    <2>3. RefOK(i, k)'
      BY <2>2, RefStep
    <2> QED BY <2>1, <2>3 DEF RefOK
  <1> QED BY <1>1, <1>2, <1>3, <1>4 DEF PreKeyRefs

(* RotateSignedPreKey by the only rotator stores the next ID, unwrapped.    *)
LEMMA RotateNext ==
    ASSUME TypeOK, OneTimeInv, SpkRefs, NEW p \in Procs, RotateStore(p)
    PROVE  /\ store'.currentSPK = [id |-> store.currentSPK.id + 1, key |-> fresh]
           /\ store'.staleSPK = store.currentSPK
           /\ fresh' = fresh + 1
           /\ store.currentSPK.id \in Nat /\ fresh \in Nat
  <1>1. store.currentSPK.id \in Ids /\ fresh \in Nat /\ Ids \subseteq Nat
    BY Parts, PoolTypes DEF SPKs
  <1>2. op[p].id = store.currentSPK.id + 1
    <2>1. op[p].id = (store.currentSPK.id + 1) % IdSpace
      BY DEF SpkRefs, RotateStore
    <2>2. store.currentSPK.id <= fresh /\ fresh < MaxKeys
      BY DEF SpkRefs, RotateStore
    <2>b. /\ MaxKeys \in Nat /\ IdSpace \in Nat /\ MaxKeys < IdSpace
          /\ store.currentSPK.id \in Nat
      BY <1>1, PreKeysAssumption, IdSpaceAssumption
    <2>3. store.currentSPK.id + 1 < IdSpace
      BY <1>1, <2>2, <2>b
    <2> QED BY <1>1, <2>1, <2>3, Increment
  <1>3. store.currentSPK # None
    BY Parts, PreKeysAssumption
  <1> QED BY <1>1, <1>2, <1>3 DEF RotateStore, RotateSPK, TypeOK, Stores

LEMMA SpkStep ==
    ASSUME TypeOK, OneTimeInv, SpkRefs, [Next]_vars, NEW s \in SPKs, SpkOK(s)
    PROVE  SpkOK(s)'
  <1>1. CASE store'.currentSPK = store.currentSPK /\ store'.staleSPK = store.staleSPK
    BY <1>1 DEF SpkOK
  <1>2. ASSUME NEW p \in Procs, RotateStore(p) PROVE SpkOK(s)'
    <2>1. s.id \in Nat
      BY PoolTypes DEF SPKs
    <2> QED BY <1>2, <2>1, RotateNext DEF SpkOK
  <1> QED BY <1>1, <1>2, SharedStep

LEMMA SpkRefsStep ==
    ASSUME TypeOK, TypeOK', OneTimeInv, PreKeyRefs, SpkRefs, SingleRotator, [Next]_vars
    PROVE  SpkRefs'
  <1>t. /\ fresh \in Nat /\ fresh' \in Nat /\ store.currentSPK \in SPKs /\ bundle.spk \in SPKs
        /\ store.currentSPK.id \in Nat /\ store'.currentSPK \in SPKs
        /\ \A h \in handshakes : h.spk \in SPKs
        /\ Ids \subseteq Nat
    BY Parts, PoolTypes DEF TypeOK, Handshakes, SPKs, Stores
  <1>1. (store.currentSPK.id <= fresh)'
    <2>1. CASE store'.currentSPK = store.currentSPK
      BY <1>t, <2>1, SharedStep DEF SpkRefs
    <2>2. ASSUME NEW p \in Procs, RotateStore(p) PROVE (store.currentSPK.id <= fresh)'
      BY <2>2, RotateNext DEF SpkRefs
    <2> QED BY <2>1, <2>2, SharedStep
  <1>2. SpkOK(store.currentSPK)'
    <2>1. CASE store'.currentSPK = store.currentSPK /\ store'.staleSPK = store.staleSPK
      BY <2>1 DEF SpkRefs, SpkOK
    <2>2. ASSUME NEW p \in Procs, RotateStore(p) PROVE SpkOK(store.currentSPK)'
      BY <2>2, RotateNext DEF SpkOK
    <2> QED BY <2>1, <2>2, SharedStep
  <1>3. SpkOK(bundle.spk)'
    <2>1. PICK s : s = bundle'.spk
      OBVIOUS
    <2>2. s \in SPKs /\ SpkOK(s)
      <3>1. CASE bundle' = bundle
        BY <2>1, <3>1, <1>t DEF SpkRefs
      <3>2. ASSUME NEW p \in Procs, Publish(p) PROVE s \in SPKs /\ SpkOK(s)
        BY <2>1, <3>2, Parts DEF Publish, SpkRefs
      <3> QED BY <3>1, <3>2, SharedStep
    <2>3. SpkOK(s)'
      BY <2>2, SpkStep
    <2> QED BY <2>1, <2>3 DEF SpkOK
  <1>4. (\A h \in handshakes : SpkOK(h.spk))'
    <2> SUFFICES ASSUME NEW h \in handshakes' PROVE SpkOK(h.spk)'
      OBVIOUS
    <2>1. h.spk \in SPKs /\ SpkOK(h.spk)
      BY <1>t, SharedStep DEF SpkRefs
    <2> QED BY <2>1, SpkStep
  <1>5. (\A p \in Procs : op[p].pc \in {"pool", "publish"} => SpkOK(op[p].spk))'
    <2> SUFFICES ASSUME NEW p \in Procs, op'[p].pc \in {"pool", "publish"}
                 PROVE  SpkOK(op[p].spk)'
      OBVIOUS
    <2>1. PICK s : s = op'[p].spk
      OBVIOUS
    <2>2. s \in SPKs /\ SpkOK(s)
      BY <2>1, <1>t, CallStep, Parts DEF CallMove, SpkRefs
    <2>3. SpkOK(s)'
      BY <2>2, SpkStep
    <2> QED BY <2>1, <2>3 DEF SpkOK
  <1>6. (\A p \in Procs : op[p].pc = "consume" => op[p].spk.key = op[p].kx.spk.key)'
    <2> SUFFICES ASSUME NEW p \in Procs, op'[p].pc = "consume"
                 PROVE  op'[p].spk.key = op'[p].kx.spk.key
      OBVIOUS
    <2>1. CASE op'[p] = op[p]
      BY <2>1 DEF SpkRefs
    <2>2. CASE op'[p] # op[p]
      <3>1. SpkOK(op'[p].kx.spk)
        BY <2>2, CallStep DEF CallMove, SpkRefs, PreKeyRefs
      <3> QED BY <2>2, <3>1, CallStep DEF CallMove, SpkOK
    <2> QED BY <2>1, <2>2
  <1>7. (\A p \in Procs : op[p].pc = "rotate" =>
            p \in Rotators /\ op[p].id = (store.currentSPK.id + 1) % IdSpace)'
    <2> SUFFICES ASSUME NEW p \in Procs, op'[p].pc = "rotate"
                 PROVE  p \in Rotators /\ op'[p].id = (store'.currentSPK.id + 1) % IdSpace
      OBVIOUS
    <2>1. p \in Rotators /\ op'[p].id = (store.currentSPK.id + 1) % IdSpace
      BY CallStep DEF CallMove, SpkRefs
    <2>2. ASSUME NEW q \in Procs, RotateStore(q) PROVE FALSE
      <3>1. op'[q].pc = "idle" /\ q \in Rotators
        BY <2>2 DEF RotateStore, Idle, TypeOK, SpkRefs
      <3> QED BY <2>1, <3>1 DEF SingleRotator
    <2> QED BY <2>1, <2>2, SharedStep
  <1> QED BY <1>1, <1>2, <1>3, <1>4, <1>5, <1>6, <1>7 DEF SpkRefs

(* As long as one goroutine rotates the signed prekey, the IDs in a         *)
(* handshake resolve to the keys the peer used, however many rotations,     *)
(* publications and generations lie between the peer's fetch and the        *)
(* handshake, and however they interleave with DecryptMessage.              *)
THEOREM SameKeysCorrect == SingleRotator => (Spec => []SameKeys)
  <1> SUFFICES ASSUME SingleRotator PROVE Spec => []SameKeys
    OBVIOUS
  <1>1. Init => PreKeyRefs /\ SpkRefs
    <2> SUFFICES ASSUME Init PROVE PreKeyRefs /\ SpkRefs
      OBVIOUS
    <2>1. PreKeyRefs
      BY PreKeysAssumption, IdSpaceAssumption
         DEF Init, PreKeyRefs, RefOK, FirstOf, Generating, Idle, Ids, Keys
    <2>2. SpkRefs
      BY PreKeysAssumption, IdSpaceAssumption DEF Init, SpkRefs, SpkOK, Idle, FirstOf
    <2> QED BY <2>1, <2>2
  <1>2. TypeOK /\ TypeOK' /\ OneTimeInv /\ PreKeyRefs /\ SpkRefs /\ [Next]_vars
           => PreKeyRefs' /\ SpkRefs'
    BY PreKeyRefsStep, SpkRefsStep
  <1>3. PreKeyRefs /\ SpkRefs => SameKeys
    BY DEF PreKeyRefs, SpkRefs, SameKeys, RefOK
  <1> QED BY <1>1, <1>2, <1>3, TypeCorrect, OneTimeInvariant, PTL DEF Spec
=============================================================================
