------------------------------ MODULE Identity ------------------------------
(***************************************************************************)
(* Setting up a device: InitIdentity store call by store call, with crashes *)
(* and errors between them and further attempts after them, NewManager, and *)
(* what the Manager then publishes.                                        *)
(***************************************************************************)
EXTENDS MemStore

CONSTANTS
    PoolSize,     \* DefaultPreKeyCount
    MaxKeys       \* bound: key pairs generated

VARIABLES
    store,        \* the Store's identity and prekey fields
    fresh,        \* key pairs generated so far; the next one is called fresh
    init,         \* the InitIdentity call in progress
    initialised,  \* the application has seen InitIdentity return nil
    manager,      \* what NewManager returned: None while there is no Manager
    used,         \* one-time prekeys that handshakes have consumed
    bundle        \* the published bundle (external: XMPP PEP)

vars == <<store, fresh, init, initialised, manager, used, bundle>>

Keys == Nat
SPKs == [id : Ids, key : Keys, signer : Keys]
LocalDevices == {"device", None}      \* there is one device to be set up
Stores == [identityKey : Keys \cup {None}, localDevice : LocalDevices,
           currentSPK : SPKs \cup {None}, staleSPK : SPKs \cup {None},
           preKeys : [Ids -> Keys \cup {None}], nextPreKeyID : Ids]
Inits == [pc : {"idle", "device", "spk", "pool"}, idKey : Keys \cup {None}, todo : Nat,
          recs : [Ids -> Keys \cup {None}]]
Managers == [identityKey : Keys \cup {None}, localDevice : LocalDevices]
Bundles == [device : LocalDevices, identityKey : Keys, spk : SPKs \cup {None}, preKeys : SUBSET Keys]

ASSUME IdentityAssumption ==
    /\ PoolSize \in Nat \ {0} /\ MaxKeys \in Nat
    /\ PoolSize + 2 <= MaxKeys /\ MaxKeys < IdSpace
    /\ None \notin Keys /\ None \notin SPKs /\ None \notin Managers /\ None \notin Bundles
    /\ None # "device"

(* Bound: an attempt is interrupted only if there are keys for another one. *)
OneMoreAttempt == fresh + PoolSize + 2 <= MaxKeys

NoInit == [pc |-> "idle", idKey |-> None, todo |-> 0, recs |-> NoPreKeys]

(* memstore.New *)
Init ==
    /\ store = [identityKey |-> None, localDevice |-> None, currentSPK |-> None,
                staleSPK |-> None, preKeys |-> NoPreKeys, nextPreKeyID |-> 0]
    /\ fresh = 0
    /\ init = NoInit
    /\ initialised = FALSE
    /\ manager = None
    /\ used = {}
    /\ bundle = None

-----------------------------------------------------------------------------
(* InitIdentity, "exactly once for a new Store, before NewManager": again   *)
(* only if the application has not seen it succeed.                         *)

SetIdentityKeyPair ==
    /\ init.pc = "idle" /\ ~initialised /\ manager = None /\ fresh < MaxKeys
    /\ store' = PutIdentityKeyPair(store, fresh)
    /\ fresh' = fresh + 1
    /\ init' = [NoInit EXCEPT !.pc = "device", !.idKey = fresh]
    /\ UNCHANGED <<initialised, manager, used, bundle>>

SetLocalDevice ==
    /\ init.pc = "device"
    /\ store' = PutLocalDevice(store, "device")
    /\ init' = [init EXCEPT !.pc = "spk"]
    /\ UNCHANGED <<fresh, initialised, manager, used, bundle>>

(* Mutant: a Store that has a signed prekey keeps it.                       *)
StoreSignedPreKeyOnce ==
    /\ init.pc = "spk" /\ fresh < MaxKeys
    /\ store' = IF store.currentSPK # None THEN store
                ELSE RotateSPK(store, [id |-> 1, key |-> fresh, signer |-> init.idKey])
    /\ fresh' = fresh + 1
    /\ init' = [init EXCEPT !.pc = "pool", !.todo = PoolSize]
    /\ UNCHANGED <<initialised, manager, used, bundle>>

(* GenerateSignedPreKey, signed with this attempt's identity key, stored    *)
(* under ID 1 by RotateSignedPreKey.                                        *)
StoreSignedPreKey ==
    /\ init.pc = "spk" /\ fresh < MaxKeys
    /\ store' = RotateSPK(store, [id |-> 1, key |-> fresh, signer |-> init.idKey])
    /\ fresh' = fresh + 1
    /\ init' = [init EXCEPT !.pc = "pool", !.todo = PoolSize]
    /\ UNCHANGED <<initialised, manager, used, bundle>>

(* Mutant: one more iteration.                                              *)
AllocatePreKeyOneMore ==
    /\ init.pc = "pool" /\ init.todo >= 0 /\ fresh < MaxKeys
    /\ store' = AllocPreKeyID(store)
    /\ fresh' = fresh + 1
    /\ init' = [init EXCEPT !.todo = @ - 1, !.recs[NextPreKeyID(store)] = fresh]
    /\ UNCHANGED <<initialised, manager, used, bundle>>

(* generateOneTimePreKeys: one iteration, and the end.                      *)
AllocatePreKey ==
    /\ init.pc = "pool" /\ init.todo > 0 /\ fresh < MaxKeys
    /\ store' = AllocPreKeyID(store)
    /\ fresh' = fresh + 1
    /\ init' = [init EXCEPT !.todo = @ - 1, !.recs[NextPreKeyID(store)] = fresh]
    /\ UNCHANGED <<initialised, manager, used, bundle>>

(* PutPreKeys, and InitIdentity returns nil.                                *)
StorePool ==
    /\ init.pc = "pool" /\ init.todo = 0
    /\ store' = PutPreKeys(store, init.recs)
    /\ init' = NoInit
    /\ initialised' = TRUE
    /\ UNCHANGED <<fresh, manager, used, bundle>>

(* The pool is stored, but the error or crash comes before the application  *)
(* has heard of it.                                                         *)
StorePoolUnheard ==
    /\ init.pc = "pool" /\ init.todo = 0 /\ OneMoreAttempt
    /\ store' = PutPreKeys(store, init.recs)
    /\ init' = NoInit
    /\ UNCHANGED <<fresh, initialised, manager, used, bundle>>

(* A store call fails, or the process ends: what was stored stays.          *)
Interrupted ==
    /\ manager # None \/ (init.pc # "idle" /\ OneMoreAttempt)
    /\ init' = NoInit
    /\ manager' = None
    /\ UNCHANGED <<store, fresh, initialised, used, bundle>>

-----------------------------------------------------------------------------
(* The Manager *)

(* NewManager, by an application that waits until InitIdentity has returned *)
(* nil.  It checks nothing: it takes whatever the Store holds.              *)
NewManager ==
    /\ manager = None /\ init.pc = "idle" /\ initialised
    /\ manager' = [identityKey |-> store.identityKey, localDevice |-> store.localDevice]
    /\ UNCHANGED <<store, fresh, init, initialised, used, bundle>>

(* Manager.RotateSignedPreKey.                                              *)
RotateSignedPreKey ==
    LET cur == IF store.currentSPK = None THEN 0 ELSE store.currentSPK.id IN
    /\ manager # None /\ manager.identityKey # None /\ fresh < MaxKeys
    /\ store' = RotateSPK(store, [id |-> (cur + 1) % IdSpace, key |-> fresh,
                                  signer |-> manager.identityKey])
    /\ fresh' = fresh + 1
    /\ UNCHANGED <<init, initialised, manager, used, bundle>>

(* DecryptMessage completes a handshake that names the one-time prekey id.  *)
ReceiveHandshake(id) ==
    /\ manager # None /\ store.preKeys[id] # None
    /\ store' = ConsumePreKey(store, id)
    /\ used' = used \cup {store.preKeys[id]}
    /\ UNCHANGED <<fresh, init, initialised, manager, bundle>>

(* Manager.PublishBundle; IdentityPublicKey fails without an identity key.  *)
PublishBundle ==
    /\ manager # None /\ manager.identityKey # None
    /\ bundle' = [device      |-> manager.localDevice,
                  identityKey |-> manager.identityKey,
                  spk         |-> store.currentSPK,
                  preKeys     |-> {store.preKeys[i] : i \in PreKeyIDs(store)}]
    /\ UNCHANGED <<store, fresh, init, initialised, manager, used>>

-----------------------------------------------------------------------------
(* Mutant: the stale record first.                                          *)
StaleFirst(s, id) ==
    CASE s.staleSPK # None /\ s.staleSPK.id = id -> s.staleSPK
      [] ~(s.staleSPK # None /\ s.staleSPK.id = id) /\ s.currentSPK.id = id -> s.currentSPK
      [] OTHER -> None

(* Manager.signedPreKeyByID.                                                *)
SignedPreKeyByID(s, id) ==
    CASE s.currentSPK # None /\ s.currentSPK.id = id -> s.currentSPK
      [] ~(s.currentSPK # None /\ s.currentSPK.id = id)
         /\ s.staleSPK # None /\ s.staleSPK.id = id  -> s.staleSPK
      [] OTHER -> None

Next == \/ SetIdentityKeyPair \/ SetLocalDevice \/ StoreSignedPreKey
        \/ AllocatePreKey \/ StorePool \/ StorePoolUnheard \/ Interrupted
        \/ NewManager \/ RotateSignedPreKey \/ PublishBundle
        \/ \E id \in Ids : ReceiveHandshake(id)

Spec == Init /\ [][Next]_vars

-----------------------------------------------------------------------------
(* Properties *)

(* Type invariant of the Store, the set-up in progress and the bundle.      *)
TypeOK ==
    /\ store \in Stores
    /\ fresh \in Nat
    /\ init \in Inits
    /\ initialised \in BOOLEAN
    /\ manager \in Managers \cup {None}
    /\ used \in SUBSET Keys
    /\ bundle \in Bundles \cup {None}

(* Whatever attempts were cut short before the one that succeeded, a peer   *)
(* can start a session from what is published: PublishBundle's bundle names *)
(* the device, its signed prekey carries the signature of its identity key, *)
(* and there are one-time prekeys, unless handshakes have used them up.     *)
UsableBundle ==
    bundle # None =>
        /\ bundle.device # None
        /\ bundle.spk # None /\ bundle.spk.signer = bundle.identityKey
        /\ bundle.preKeys # {} \/ used # {}

(* A handshake made from the published bundle finds the signed prekey it    *)
(* was made with as long as the Store has it, although an interrupted       *)
(* set-up may have left another one under the same ID 1.                    *)
SignedPreKeyFound ==
    bundle # None /\ bundle.spk # None =>
        SignedPreKeyByID(store, bundle.spk.id) =
            IF bundle.spk \in {store.currentSPK, store.staleSPK} THEN bundle.spk ELSE None

-----------------------------------------------------------------------------
(* The inductive invariants behind UsableBundle and SignedPreKeyFound *)

(* What each step of InitIdentity relies on: the attempt in progress is the *)
(* one whose identity key, device and signed prekey the Store has, and its  *)
(* batch is not empty once it is complete.                                  *)
AttemptInv ==
    /\ init.pc # "idle" => /\ init.idKey # None /\ init.idKey = store.identityKey
                           /\ ~initialised
    /\ init.pc \in {"spk", "pool"} => store.localDevice # None
    /\ init.pc = "pool" =>
          /\ store.currentSPK # None /\ store.currentSPK.signer = init.idKey
          /\ init.todo < PoolSize => \E i \in Ids : init.recs[i] # None

(* What a Store holds after InitIdentity has returned nil.                  *)
CompleteInv ==
    initialised =>
        /\ store.identityKey # None /\ store.localDevice # None
        /\ store.currentSPK # None /\ store.currentSPK.signer = store.identityKey
        /\ (\E i \in Ids : store.preKeys[i] # None) \/ used # {}

(* A Manager, and what it has published, belong to such a Store.            *)
ManagerInv ==
    /\ manager # None => /\ initialised
                         /\ manager.identityKey = store.identityKey
                         /\ manager.localDevice = store.localDevice
    /\ bundle # None => initialised
    /\ UsableBundle

(* Signed prekey IDs grow by one at each rotation and do not wrap, so that  *)
(* the record under the ID of the published one is the published one.       *)
SpkInv ==
    /\ fresh <= MaxKeys
    /\ store.currentSPK # None => store.currentSPK.id <= fresh
    /\ bundle # None =>
          /\ bundle.spk.id <= store.currentSPK.id
          /\ bundle.spk.id = store.currentSPK.id => bundle.spk = store.currentSPK
          /\ store.staleSPK # None /\ store.staleSPK.id = bundle.spk.id
             /\ bundle.spk.id # store.currentSPK.id => store.staleSPK = bundle.spk

SetUpInv == AttemptInv /\ CompleteInv /\ ManagerInv /\ SpkInv
=============================================================================
