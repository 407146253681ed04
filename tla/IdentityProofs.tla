--------------------------- MODULE IdentityProofs ---------------------------
(***************************************************************************)
(* Theorems about Identity, for every pool size and number of attempts.    *)
(***************************************************************************)
EXTENDS Identity, TLAPS

(* The uint32 increment stays in range, and does not wrap below MaxKeys.    *)
LEMMA Increment ==
    ASSUME NEW i \in Ids
    PROVE  /\ (i + 1) % IdSpace \in Ids
           /\ i < MaxKeys => (i + 1) % IdSpace = i + 1
  BY IdSpaceAssumption, IdentityAssumption DEF Ids

(* The parts of a well-typed state, and the constants of the set-up.        *)
LEMMA Parts ==
    ASSUME TypeOK
    PROVE  /\ fresh \in Keys /\ fresh + 1 \in Nat /\ 1 \in Ids
           /\ NoInit \in Inits /\ NextPreKeyID(store) \in Ids
           /\ store.currentSPK \in SPKs \cup {None} /\ store.staleSPK \in SPKs \cup {None}
           /\ init.todo \in Nat
  <1>1. NoPreKeys \in [Ids -> Keys \cup {None}] /\ 1 \in Ids
    BY IdSpaceAssumption DEF NoPreKeys, Ids
  <1> QED BY <1>1, Increment DEF TypeOK, Keys, NoInit, Inits, NextPreKeyID, Stores

(* A signed prekey record takes its place in the Store.                     *)
LEMMA RotateType ==
    ASSUME NEW s \in Stores, NEW spk \in SPKs
    PROVE  RotateSPK(s, spk) \in Stores
  BY DEF RotateSPK, Stores

(* Set-up, rotation and publication keep every field and every call typed.  *)
LEMMA TypeStep ==
    ASSUME TypeOK, AttemptInv, [Next]_vars
    PROVE  TypeOK'
  <1>1. CASE SetIdentityKeyPair
    BY <1>1, Parts DEF SetIdentityKeyPair, PutIdentityKeyPair, TypeOK, Stores, Inits
  <1>2. CASE SetLocalDevice
    BY <1>2, Parts DEF SetLocalDevice, PutLocalDevice, TypeOK, Stores, Inits, LocalDevices
  <1>3. CASE StoreSignedPreKey
    <2>1. init.idKey \in Keys
      BY <1>3 DEF StoreSignedPreKey, AttemptInv, TypeOK, Inits
    <2>2. [id |-> 1, key |-> fresh, signer |-> init.idKey] \in SPKs
      BY <2>1, Parts DEF SPKs
    <2>3. store' \in Stores
      BY <1>3, <2>2, RotateType DEF StoreSignedPreKey, TypeOK
    <2>4. init' \in Inits
      BY <1>3, IdentityAssumption DEF StoreSignedPreKey, TypeOK, Inits
    <2> QED BY <1>3, <2>3, <2>4, Parts DEF StoreSignedPreKey, TypeOK
  <1>4. CASE AllocatePreKey
    <2>0. /\ init.todo - 1 \in Nat
          /\ [init.recs EXCEPT ![NextPreKeyID(store)] = fresh] \in [Ids -> Keys \cup {None}]
      BY <1>4, Parts DEF AllocatePreKey, TypeOK, Inits
    <2>1. init' \in Inits
      BY <1>4, <2>0 DEF AllocatePreKey, TypeOK, Inits
    <2>2. store' \in Stores
      BY <1>4, Parts DEF AllocatePreKey, AllocPreKeyID, TypeOK, Stores
    <2> QED BY <1>4, <2>1, <2>2, Parts DEF AllocatePreKey, TypeOK
  <1>5. ASSUME StorePool \/ StorePoolUnheard PROVE TypeOK'
    <2>1. PutPreKeys(store, init.recs) \in Stores
      BY DEF PutPreKeys, TypeOK, Stores, Inits
    <2> QED BY <1>5, <2>1, Parts DEF StorePool, StorePoolUnheard, TypeOK
  <1>6. CASE Interrupted
    BY <1>6, Parts DEF Interrupted, TypeOK
  <1>7. CASE NewManager
    BY <1>7 DEF NewManager, TypeOK, Managers, Stores
  <1>8. CASE RotateSignedPreKey
    <2> DEFINE cur == IF store.currentSPK = None THEN 0 ELSE store.currentSPK.id
    <2>1. cur \in Ids /\ manager.identityKey \in Keys
      BY <1>8, Parts, IdSpaceAssumption DEF RotateSignedPreKey, TypeOK, SPKs, Ids, Managers
    <2>2. [id |-> (cur + 1) % IdSpace, key |-> fresh, signer |-> manager.identityKey] \in SPKs
      BY <2>1, Parts, Increment DEF SPKs
    <2>3. store' \in Stores
      BY <1>8, <2>2, RotateType DEF RotateSignedPreKey, TypeOK
    <2> QED BY <1>8, <2>3, Parts DEF RotateSignedPreKey, TypeOK
  <1>9. CASE PublishBundle
    <2>1. {store.preKeys[i] : i \in PreKeyIDs(store)} \in SUBSET Keys
      BY DEF PreKeyIDs, TypeOK, Stores
    <2>2. manager.identityKey \in Keys /\ manager.localDevice \in LocalDevices
      BY <1>9 DEF PublishBundle, TypeOK, Managers
    <2>3. bundle' \in Bundles
      BY <1>9, <2>1, <2>2, Parts DEF PublishBundle, Bundles
    <2> QED BY <1>9, <2>3 DEF PublishBundle, TypeOK
  <1>10. ASSUME NEW id \in Ids, ReceiveHandshake(id) PROVE TypeOK'
    <2>1. store.preKeys[id] \in Keys
      BY <1>10 DEF ReceiveHandshake, TypeOK, Stores
    <2>2. store' \in Stores
      BY <1>10 DEF ReceiveHandshake, ConsumePreKey, TypeOK, Stores
    <2> QED BY <1>10, <2>1, <2>2 DEF ReceiveHandshake, TypeOK
  <1>11. CASE UNCHANGED vars
    BY <1>11 DEF vars, TypeOK
  <1> QED BY <1>1, <1>2, <1>3, <1>4, <1>5, <1>6, <1>7, <1>8, <1>9, <1>10, <1>11 DEF Next

(* What an attempt relies on stays true while it makes its store calls; a   *)
(* new attempt starts with a new identity key, and an interrupted one is    *)
(* over.                                                                    *)
LEMMA AttemptStep ==
    ASSUME TypeOK, AttemptInv, ManagerInv, [Next]_vars
    PROVE  AttemptInv'
  <1>1. CASE SetIdentityKeyPair
    BY <1>1, Parts, IdentityAssumption
       DEF SetIdentityKeyPair, PutIdentityKeyPair, AttemptInv, TypeOK, Stores, NoInit
  <1>2. CASE SetLocalDevice
    BY <1>2, IdentityAssumption
       DEF SetLocalDevice, PutLocalDevice, AttemptInv, TypeOK, Stores, Inits
  <1>3. CASE StoreSignedPreKey
    <2>1. /\ init'.pc = "pool" /\ init'.todo = PoolSize /\ init'.idKey = init.idKey
          /\ initialised' = initialised
      BY <1>3 DEF StoreSignedPreKey, TypeOK, Inits
    <2>2. /\ store'.currentSPK = [id |-> 1, key |-> fresh, signer |-> init.idKey]
          /\ store'.identityKey = store.identityKey /\ store'.localDevice = store.localDevice
      BY <1>3 DEF StoreSignedPreKey, RotateSPK, TypeOK, Stores
    <2>3. init.idKey \in Keys
      BY <1>3 DEF StoreSignedPreKey, AttemptInv, TypeOK, Inits
    <2>4. store'.currentSPK # None
      BY <2>2, <2>3, Parts, IdentityAssumption DEF SPKs
    <2> QED BY <1>3, <2>1, <2>2, <2>4, IdentityAssumption DEF StoreSignedPreKey, AttemptInv
  <1>4. CASE AllocatePreKey
    <2>1. /\ init'.pc = "pool" /\ init'.idKey = init.idKey
          /\ init'.recs[NextPreKeyID(store)] = fresh
          /\ initialised' = initialised
      BY <1>4, Parts DEF AllocatePreKey, TypeOK, Inits
    <2>2. /\ store'.currentSPK = store.currentSPK
          /\ store'.identityKey = store.identityKey /\ store'.localDevice = store.localDevice
      BY <1>4 DEF AllocatePreKey, AllocPreKeyID, TypeOK, Stores
    <2>3. \E i \in Ids : init'.recs[i] # None
      BY <2>1, Parts, IdentityAssumption
    <2> QED BY <1>4, <2>1, <2>2, <2>3 DEF AllocatePreKey, AttemptInv
  <1>5. CASE StorePool \/ StorePoolUnheard \/ Interrupted
    BY <1>5 DEF StorePool, StorePoolUnheard, Interrupted, AttemptInv, NoInit
  <1>6. CASE NewManager
    BY <1>6 DEF NewManager, AttemptInv
  <1>7. CASE RotateSignedPreKey
    <2>1. init.pc = "idle" /\ init' = init
      BY <1>7 DEF RotateSignedPreKey, AttemptInv, ManagerInv
    <2> QED BY <2>1 DEF AttemptInv
  <1>8. CASE PublishBundle
    BY <1>8 DEF PublishBundle, AttemptInv
  <1>9. ASSUME NEW id \in Ids, ReceiveHandshake(id) PROVE AttemptInv'
    <2>1. init.pc = "idle" /\ init' = init
      BY <1>9 DEF ReceiveHandshake, AttemptInv, ManagerInv
    <2> QED BY <2>1 DEF AttemptInv
  <1>10. CASE UNCHANGED vars
    BY <1>10 DEF vars, AttemptInv
  <1> QED BY <1>1, <1>2, <1>3, <1>4, <1>5, <1>6, <1>7, <1>8, <1>9, <1>10 DEF Next

(* RotateSignedPreKey leaves a record behind.                               *)
LEMMA RotatedRecord ==
    ASSUME TypeOK, RotateSignedPreKey
    PROVE  store'.currentSPK # None
  <1>1. store'.currentSPK \in SPKs
    <2> DEFINE cur == IF store.currentSPK = None THEN 0 ELSE store.currentSPK.id
               spk == [id |-> (cur + 1) % IdSpace, key |-> fresh, signer |-> manager.identityKey]
    <2>1. cur \in Ids /\ manager.identityKey \in Keys
      BY Parts, IdSpaceAssumption DEF RotateSignedPreKey, TypeOK, SPKs, Ids, Managers
    <2>2. spk \in SPKs
      BY <2>1, Parts, Increment DEF SPKs
    <2>3. store'.currentSPK = spk
      BY DEF RotateSignedPreKey, RotateSPK, TypeOK, Stores
    <2> QED BY <2>2, <2>3
  <1> QED BY <1>1, IdentityAssumption

(* InitIdentity returns nil over a complete Store, and nothing a Manager    *)
(* does takes anything away from it but one-time prekeys.                   *)
LEMMA CompleteStep ==
    ASSUME TypeOK, AttemptInv, CompleteInv, ManagerInv, [Next]_vars
    PROVE  CompleteInv'
  <1>1. CASE SetIdentityKeyPair \/ SetLocalDevice \/ StoreSignedPreKey \/ AllocatePreKey
             \/ StorePoolUnheard
    <2>1. ~initialised'
      BY <1>1 DEF SetIdentityKeyPair, SetLocalDevice, StoreSignedPreKey, AllocatePreKey,
                  StorePoolUnheard, AttemptInv
    <2> QED BY <2>1 DEF CompleteInv
  <1>2. CASE StorePool
    <2>1. /\ store'.identityKey = store.identityKey /\ store'.localDevice = store.localDevice
          /\ store'.currentSPK = store.currentSPK
          /\ \A i \in Ids : init.recs[i] # None => store'.preKeys[i] = init.recs[i]
      BY <1>2 DEF StorePool, PutPreKeys, TypeOK, Stores
    <2>2. \E i \in Ids : init.recs[i] # None
      BY <1>2, IdentityAssumption DEF StorePool, AttemptInv
    <2> QED BY <1>2, <2>1, <2>2 DEF StorePool, AttemptInv, CompleteInv
  <1>3. CASE Interrupted \/ NewManager \/ PublishBundle
    BY <1>3 DEF Interrupted, NewManager, PublishBundle, CompleteInv
  <1>4. CASE RotateSignedPreKey
    <2>1. /\ store'.identityKey = store.identityKey /\ store'.localDevice = store.localDevice
          /\ store'.preKeys = store.preKeys
          /\ store'.currentSPK.signer = manager.identityKey
      BY <1>4 DEF RotateSignedPreKey, RotateSPK, TypeOK, Stores
    <2>2. store'.currentSPK # None
      BY <1>4, RotatedRecord
    <2> QED BY <1>4, <2>1, <2>2 DEF RotateSignedPreKey, ManagerInv, CompleteInv
  <1>5. ASSUME NEW id \in Ids, ReceiveHandshake(id) PROVE CompleteInv'
    <2>1. /\ store'.identityKey = store.identityKey /\ store'.localDevice = store.localDevice
          /\ store'.currentSPK = store.currentSPK
      BY <1>5 DEF ReceiveHandshake, ConsumePreKey, TypeOK, Stores
    <2>2. used' # {} /\ initialised' = initialised
      BY <1>5 DEF ReceiveHandshake
    <2> QED BY <2>1, <2>2 DEF CompleteInv
  <1>6. CASE UNCHANGED vars
    BY <1>6 DEF vars, CompleteInv
  <1> QED BY <1>1, <1>2, <1>3, <1>4, <1>5, <1>6 DEF Next

(* A Manager is made over a complete Store and keeps its identity; what it  *)
(* publishes is usable.                                                     *)
LEMMA ManagerStep ==
    ASSUME TypeOK, AttemptInv, CompleteInv, ManagerInv, [Next]_vars
    PROVE  ManagerInv'
  <1>1. CASE SetIdentityKeyPair \/ SetLocalDevice \/ StoreSignedPreKey \/ AllocatePreKey
             \/ StorePoolUnheard \/ StorePool
    <2>1. ~initialised /\ manager' = manager /\ bundle' = bundle /\ used' = used
      BY <1>1 DEF SetIdentityKeyPair, SetLocalDevice, StoreSignedPreKey, AllocatePreKey,
                  StorePoolUnheard, StorePool, AttemptInv
    <2> QED BY <2>1 DEF ManagerInv, UsableBundle
  <1>2. CASE Interrupted
    BY <1>2 DEF Interrupted, ManagerInv, UsableBundle
  <1>3. CASE NewManager
    BY <1>3 DEF NewManager, ManagerInv, UsableBundle
  <1>4. CASE RotateSignedPreKey
    <2>1. store'.identityKey = store.identityKey /\ store'.localDevice = store.localDevice
      BY <1>4 DEF RotateSignedPreKey, RotateSPK, TypeOK, Stores
    <2> QED BY <1>4, <2>1 DEF RotateSignedPreKey, ManagerInv, UsableBundle
  <1>5. CASE PublishBundle
    <2>1. initialised /\ manager.identityKey = store.identityKey
          /\ manager.localDevice = store.localDevice
      BY <1>5 DEF PublishBundle, ManagerInv
    <2>2. {store.preKeys[i] : i \in PreKeyIDs(store)} # {} \/ used # {}
      BY <2>1 DEF CompleteInv, PreKeyIDs
    <2>3. UsableBundle'
      BY <1>5, <2>1, <2>2 DEF PublishBundle, CompleteInv, UsableBundle
    <2> QED BY <1>5, <2>1, <2>3 DEF PublishBundle, ManagerInv
  <1>6. ASSUME NEW id \in Ids, ReceiveHandshake(id) PROVE ManagerInv'
    <2>1. store'.identityKey = store.identityKey /\ store'.localDevice = store.localDevice
      BY <1>6 DEF ReceiveHandshake, ConsumePreKey, TypeOK, Stores
    <2> QED BY <1>6, <2>1 DEF ReceiveHandshake, ManagerInv, UsableBundle
  <1>7. CASE UNCHANGED vars
    BY <1>7 DEF vars, ManagerInv, UsableBundle
  <1> QED BY <1>1, <1>2, <1>3, <1>4, <1>5, <1>6, <1>7 DEF Next

(* IDs grow at each rotation, and the first one is 1.                       *)
LEMMA SpkStep ==
    ASSUME TypeOK, AttemptInv, CompleteInv, ManagerInv, SpkInv, [Next]_vars
    PROVE  SpkInv'
  <1>1. CASE SetIdentityKeyPair \/ SetLocalDevice \/ AllocatePreKey \/ StorePoolUnheard \/ StorePool
    <2>1. ~initialised /\ bundle' = bundle
      BY <1>1 DEF SetIdentityKeyPair, SetLocalDevice, AllocatePreKey,
                  StorePoolUnheard, StorePool, AttemptInv
    <2>2. /\ store'.currentSPK = store.currentSPK
          /\ fresh' \in {fresh, fresh + 1} /\ fresh' <= MaxKeys
      BY <1>1, Parts, IdentityAssumption
         DEF SetIdentityKeyPair, SetLocalDevice, AllocatePreKey, StorePoolUnheard, StorePool,
             PutIdentityKeyPair, PutLocalDevice, AllocPreKeyID, PutPreKeys, TypeOK, Stores, SpkInv, Keys
    <2> QED BY <2>1, <2>2, Parts, IdentityAssumption DEF SpkInv, ManagerInv, SPKs, Ids, Keys
  <1>2. CASE StoreSignedPreKey
    <2>1. ~initialised /\ bundle' = bundle /\ fresh' = fresh + 1 /\ fresh < MaxKeys
      BY <1>2 DEF StoreSignedPreKey, AttemptInv
    <2>2. store'.currentSPK.id = 1
      BY <1>2 DEF StoreSignedPreKey, RotateSPK, TypeOK, Stores
    <2> QED BY <2>1, <2>2, Parts, IdentityAssumption DEF SpkInv, ManagerInv, Keys
  <1>3. CASE Interrupted \/ NewManager
    BY <1>3 DEF Interrupted, NewManager, SpkInv
  <1>4. CASE RotateSignedPreKey
    <2>1. /\ store.currentSPK # None /\ store.currentSPK \in SPKs
          /\ fresh < MaxKeys /\ fresh' = fresh + 1 /\ bundle' = bundle
      BY <1>4, Parts DEF RotateSignedPreKey, ManagerInv, CompleteInv
    <2>2. store.currentSPK.id \in Ids /\ store.currentSPK.id < MaxKeys
      BY <2>1, Parts, IdentityAssumption DEF SPKs, SpkInv, Keys, Ids
    <2>3. /\ store'.currentSPK.id = store.currentSPK.id + 1
          /\ store'.staleSPK = store.currentSPK
      BY <1>4, <2>1, <2>2, Increment DEF RotateSignedPreKey, RotateSPK, TypeOK, Stores
    <2>4. bundle # None => bundle.spk.id \in Ids
      BY DEF ManagerInv, UsableBundle, TypeOK, Bundles, SPKs
    <2> QED BY <2>1, <2>2, <2>3, <2>4, Parts, IdentityAssumption DEF SpkInv, Ids, Keys
  <1>5. CASE PublishBundle
    <2>1. store.currentSPK \in SPKs
      BY <1>5, Parts DEF PublishBundle, ManagerInv, CompleteInv
    <2>2. /\ bundle'.spk = store.currentSPK
          /\ UNCHANGED <<store, fresh>>
      BY <1>5 DEF PublishBundle
    <2> QED BY <2>1, <2>2 DEF SpkInv, SPKs, Ids
  <1>6. ASSUME NEW id \in Ids, ReceiveHandshake(id) PROVE SpkInv'
    <2>1. store'.currentSPK = store.currentSPK /\ store'.staleSPK = store.staleSPK
      BY <1>6 DEF ReceiveHandshake, ConsumePreKey, TypeOK, Stores
    <2> QED BY <1>6, <2>1 DEF ReceiveHandshake, SpkInv
  <1>7. CASE UNCHANGED vars
    BY <1>7 DEF vars, SpkInv
  <1> QED BY <1>1, <1>2, <1>3, <1>4, <1>5, <1>6, <1>7 DEF Next

(* The set-up invariant holds in every reachable state.                     *)
LEMMA SetUpInvariant == Spec => [](TypeOK /\ SetUpInv)
  <1>1. Init => TypeOK /\ SetUpInv
    <2> SUFFICES ASSUME Init PROVE TypeOK /\ SetUpInv
      OBVIOUS
    <2>1. NoPreKeys \in [Ids -> Keys \cup {None}] /\ 0 \in Ids
      BY IdSpaceAssumption DEF NoPreKeys, Ids
    <2>2. TypeOK
      BY <2>1 DEF Init, TypeOK, Stores, Inits, NoInit, LocalDevices
    <2>3. AttemptInv /\ CompleteInv /\ ManagerInv
      BY DEF Init, AttemptInv, CompleteInv, ManagerInv, UsableBundle, NoInit
    <2>4. SpkInv
      BY IdentityAssumption DEF Init, SpkInv
    <2> QED BY <2>2, <2>3, <2>4 DEF SetUpInv
  <1>2. TypeOK /\ SetUpInv /\ [Next]_vars => (TypeOK /\ SetUpInv)'
    BY TypeStep, AttemptStep, CompleteStep, ManagerStep, SpkStep DEF SetUpInv
  <1> QED BY <1>1, <1>2, PTL DEF Spec

(* The Store, the set-up in progress and the bundle keep their types.       *)
THEOREM TypeCorrect == Spec => []TypeOK
  BY SetUpInvariant, PTL

(* Whatever attempts of InitIdentity were interrupted, and wherever: what a *)
(* Manager publishes names its device, is signed by its identity key and    *)
(* has one-time prekeys, unless handshakes have used them up.               *)
THEOREM UsableBundleCorrect == Spec => []UsableBundle
  <1>1. SetUpInv => UsableBundle
    BY DEF SetUpInv, ManagerInv
  <1> QED BY <1>1, SetUpInvariant, PTL

(* signedPreKeyByID finds the published signed prekey as long as the Store  *)
(* has it, although interrupted attempts and rotations store others.        *)
THEOREM SignedPreKeyFoundCorrect == Spec => []SignedPreKeyFound
  <1>1. TypeOK /\ SetUpInv => SignedPreKeyFound
    <2> SUFFICES ASSUME TypeOK, SetUpInv, bundle # None
                 PROVE  SignedPreKeyByID(store, bundle.spk.id) =
                          IF bundle.spk \in {store.currentSPK, store.staleSPK} THEN bundle.spk ELSE None
      BY DEF SignedPreKeyFound
    <2>1. /\ store.currentSPK # None /\ bundle.spk # None
          /\ bundle.spk.id = store.currentSPK.id => bundle.spk = store.currentSPK
          /\ store.staleSPK # None /\ store.staleSPK.id = bundle.spk.id
             /\ bundle.spk.id # store.currentSPK.id => store.staleSPK = bundle.spk
      BY DEF SetUpInv, ManagerInv, CompleteInv, SpkInv, UsableBundle
    <2>2. CASE store.currentSPK.id = bundle.spk.id
      BY <2>1, <2>2 DEF SignedPreKeyByID
    <2>3. CASE store.currentSPK.id # bundle.spk.id /\ store.staleSPK # None
               /\ store.staleSPK.id = bundle.spk.id
      BY <2>1, <2>3 DEF SignedPreKeyByID
    <2>4. CASE store.currentSPK.id # bundle.spk.id
               /\ ~(store.staleSPK # None /\ store.staleSPK.id = bundle.spk.id)
      BY <2>1, <2>4 DEF SignedPreKeyByID
    <2> QED BY <2>2, <2>3, <2>4
  <1> QED BY <1>1, SetUpInvariant, PTL
=============================================================================
