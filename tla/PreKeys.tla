------------------------------ MODULE PreKeys -------------------------------
(***************************************************************************)
(* One device's own key material: signed prekey, one-time prekey pool and  *)
(* published bundle, under concurrent calls of RotateSignedPreKey,         *)
(* GenerateOneTimePreKeys, PublishBundle and the handshake half of         *)
(* DecryptMessage.  None of these takes a common lock: each is cut into    *)
(* one action per store or transport call.                                 *)
(***************************************************************************)
EXTENDS MemStore

CONSTANTS
    Procs,       \* goroutines
    Rotators,    \* the goroutines that call RotateSignedPreKey
    Peers,       \* devices that start sessions with this one
    PoolSize,    \* one-time prekeys InitIdentity generates (DefaultPreKeyCount)
    MaxBatch,    \* bound: the n of GenerateOneTimePreKeys
    MaxKeys      \* bound: key pairs generated; below the ID space

VARIABLES
    store,       \* the Store's prekey fields
    fresh,       \* key pairs generated so far; the next one is called fresh
    bundle,      \* the bundle on the server (external: XMPP PEP)
    op,          \* op[p]: the call goroutine p is executing
    handshakes,  \* key exchanges peers have sent; delivered at any time, any number of times
    spent        \* one-time keys that have completed a handshake

vars == <<store, fresh, bundle, op, handshakes, spent>>

Keys == Nat
SPKs == [id : Ids, key : Keys]
Pools == [Ids -> Keys \cup {None}]
Handshakes == [peer : Peers, spk : SPKs, opk : SPKs]
Stores == [currentSPK : SPKs, staleSPK : SPKs \cup {None}, preKeys : Pools, nextPreKeyID : Ids]

ASSUME PreKeysAssumption ==
    /\ Rotators \subseteq Procs
    /\ PoolSize \in Nat /\ MaxBatch \in Nat /\ MaxKeys \in Nat
    /\ PoolSize < MaxKeys /\ MaxKeys < IdSpace
    /\ None \notin Keys /\ None \notin SPKs /\ None \notin Handshakes

Idle == [pc |-> "idle", id |-> 0, todo |-> 0, recs |-> NoPreKeys, spk |-> None, kx |-> None]

Ops == {c \in [pc : {"idle", "rotate", "generate", "pool", "publish", "stale", "consume"},
               id : Ids, todo : Nat, recs : Pools, spk : SPKs \cup {None},
               kx : Handshakes \cup {None}] :
          /\ c.pc \in {"pool", "publish", "consume"} => c.spk # None
          /\ c.pc \in {"stale", "consume"} => c.kx # None}

(* What a published bundle tells a peer: the signed prekey, and the first   *)
(* one-time prekey, the only one getOrCreateActiveSession looks at.         *)
FirstOf(pool) == IF \A i \in Ids : pool[i] = None THEN {None}
                 ELSE {[id |-> i, key |-> pool[i]] : i \in {j \in Ids : pool[j] # None}}

Init ==
    /\ store = [currentSPK   |-> [id |-> 1, key |-> 0],
                staleSPK     |-> None,
                preKeys      |-> [i \in Ids |-> IF i \in 1 .. PoolSize THEN i ELSE None],
                nextPreKeyID |-> PoolSize]
    /\ fresh = PoolSize + 1
    /\ \E pk \in FirstOf(store.preKeys) : bundle = [spk |-> store.currentSPK, preKey |-> pk]
    /\ op = [p \in Procs |-> Idle]
    /\ handshakes = {}
    /\ spent = {}

-----------------------------------------------------------------------------
(* RotateSignedPreKey: nextSignedPreKeyID reads, Store.RotateSignedPreKey writes *)

(* Mutant: the new signed prekey takes the current one's ID.                *)
RotateReadSame(p) ==
    /\ p \in Rotators /\ op[p].pc = "idle"
    /\ op' = [op EXCEPT ![p] = [Idle EXCEPT !.pc = "rotate", !.id = store.currentSPK.id]]
    /\ UNCHANGED <<store, fresh, bundle, handshakes, spent>>

RotateRead(p) ==
    /\ p \in Rotators /\ op[p].pc = "idle"
    /\ op' = [op EXCEPT ![p] = [Idle EXCEPT !.pc = "rotate",
                                                  !.id = (store.currentSPK.id + 1) % IdSpace]]
    /\ UNCHANGED <<store, fresh, bundle, handshakes, spent>>

RotateStore(p) ==
    /\ op[p].pc = "rotate" /\ fresh < MaxKeys
    /\ store' = RotateSPK(store, [id |-> op[p].id, key |-> fresh])
    /\ fresh' = fresh + 1
    /\ op' = [op EXCEPT ![p] = Idle]
    /\ UNCHANGED <<bundle, handshakes, spent>>

-----------------------------------------------------------------------------
(* generateOneTimePreKeys *)

GenerateStart(p, n) ==
    /\ op[p].pc = "idle"
    /\ op' = [op EXCEPT ![p] = [Idle EXCEPT !.pc = "generate", !.todo = n]]
    /\ UNCHANGED <<store, fresh, bundle, handshakes, spent>>

(* One iteration: NextPreKeyID and a new key pair.                          *)
GenerateOne(p) ==
    /\ op[p].pc = "generate" /\ op[p].todo > 0 /\ fresh < MaxKeys
    /\ store' = AllocPreKeyID(store)
    /\ fresh' = fresh + 1
    /\ op' = [op EXCEPT ![p].todo = @ - 1, ![p].recs[NextPreKeyID(store)] = fresh]
    /\ UNCHANGED <<bundle, handshakes, spent>>

GeneratePut(p) ==
    /\ op[p].pc = "generate" /\ op[p].todo = 0
    /\ store' = PutPreKeys(store, op[p].recs)
    /\ op' = [op EXCEPT ![p] = Idle]
    /\ UNCHANGED <<fresh, bundle, handshakes, spent>>

-----------------------------------------------------------------------------
(* PublishBundle: Bundle reads the signed prekey, then the pool; then the   *)
(* transport publishes.                                                     *)

BundleReadSPK(p) ==
    /\ op[p].pc = "idle"
    /\ op' = [op EXCEPT ![p] = [Idle EXCEPT !.pc = "pool", !.spk = store.currentSPK]]
    /\ UNCHANGED <<store, fresh, bundle, handshakes, spent>>

BundleReadPool(p) ==
    /\ op[p].pc = "pool"
    /\ op' = [op EXCEPT ![p].pc = "publish", ![p].recs = store.preKeys]
    /\ UNCHANGED <<store, fresh, bundle, handshakes, spent>>

Publish(p) ==
    /\ op[p].pc = "publish"
    /\ \E pk \in FirstOf(op[p].recs) : bundle' = [spk |-> op[p].spk, preKey |-> pk]
    /\ op' = [op EXCEPT ![p] = Idle]
    /\ UNCHANGED <<store, fresh, handshakes, spent>>

-----------------------------------------------------------------------------
(* A peer fetches the bundle and starts a session (external).               *)
PeerStarts(q) ==
    /\ bundle.preKey # None
    /\ handshakes' = handshakes \cup {[peer |-> q, spk |-> bundle.spk, opk |-> bundle.preKey]}
    /\ UNCHANGED <<store, fresh, bundle, op, spent>>

(* DecryptMessage with a KeyExchange: signedPreKeyByID reads the current    *)
(* record and, if that is not it, the stale one; then ConsumePreKey.  One   *)
(* call per sender at a time (its device lock).                             *)
Receive(p, kx) ==
    LET cur == store.currentSPK IN
    /\ op[p].pc = "idle"
    /\ \A q \in Procs : op[q].kx # None => op[q].kx.peer # kx.peer   \* the sender's device lock
    /\ op' = [op EXCEPT ![p] =
                IF cur.id = kx.spk.id
                THEN [Idle EXCEPT !.pc = "consume", !.kx = kx, !.spk = cur]
                ELSE [Idle EXCEPT !.pc = "stale", !.kx = kx]]
    /\ UNCHANGED <<store, fresh, bundle, handshakes, spent>>

(* Mutant: goes on when neither record has the ID.                          *)
LookupStaleUnchecked(p) ==
    LET stale == store.staleSPK IN
    /\ op[p].pc = "stale"
    /\ op' = [op EXCEPT ![p] = [@ EXCEPT
                !.pc  = "consume",
                !.spk = IF stale # None /\ stale.id = op[p].kx.spk.id THEN stale ELSE None]]
    /\ UNCHANGED <<store, fresh, bundle, handshakes, spent>>

LookupStale(p) ==
    LET stale == store.staleSPK IN
    /\ op[p].pc = "stale"
    /\ op' = [op EXCEPT ![p] =
                IF stale # None /\ stale.id = op[p].kx.spk.id
                THEN [@ EXCEPT !.pc = "consume", !.spk = stale]
                ELSE Idle]
    /\ UNCHANGED <<store, fresh, bundle, handshakes, spent>>

Consume(p) ==
    LET id == op[p].kx.opk.id IN
    /\ op[p].pc = "consume"
    /\ \/ /\ store.preKeys[id] # None
          /\ store' = ConsumePreKey(store, id)
          /\ spent' = spent \cup {store.preKeys[id]}
          /\ op' = [op EXCEPT ![p] = Idle]
       \/ /\ store.preKeys[id] = None
          /\ op' = [op EXCEPT ![p] = Idle]
          /\ UNCHANGED <<store, spent>>
    /\ UNCHANGED <<fresh, bundle, handshakes>>

-----------------------------------------------------------------------------
(* The store or transport call that p is at returns an error, and so does   *)
(* p's call.  What it has written stays: IDs that were allocated are lost.  *)
CallFails(p) ==
    /\ op[p].pc # "idle"
    /\ op' = [op EXCEPT ![p] = Idle]
    /\ UNCHANGED <<store, fresh, bundle, handshakes, spent>>

-----------------------------------------------------------------------------
Next ==
    \/ \E p \in Procs :
          \/ RotateRead(p) \/ RotateStore(p)
          \/ \E n \in 0 .. MaxBatch : GenerateStart(p, n)
          \/ GenerateOne(p) \/ GeneratePut(p)
          \/ BundleReadSPK(p) \/ BundleReadPool(p) \/ Publish(p)
          \/ \E kx \in handshakes : Receive(p, kx)
          \/ LookupStale(p) \/ Consume(p)
          \/ CallFails(p)
    \/ \E q \in Peers : PeerStarts(q)

Spec == Init /\ [][Next]_vars

-----------------------------------------------------------------------------
(* Properties *)

(* Type invariant of the prekey fields and of the calls in progress.        *)
TypeOK ==
    /\ store \in Stores
    /\ fresh \in Nat
    /\ bundle \in [spk : SPKs, preKey : SPKs \cup {None}]
    /\ op \in [Procs -> Ops]
    /\ handshakes \in SUBSET Handshakes
    /\ spent \in SUBSET Keys

(* A one-time prekey completes one handshake: no key that did is in the     *)
(* pool, or in a batch about to be put there, however generation,           *)
(* consumption and redelivery interleave.                                   *)
OneTime ==
    \A k \in spent :
        /\ \A i \in Ids : store.preKeys[i] # k
        /\ \A p \in Procs : op[p].pc = "generate" => \A i \in Ids : op[p].recs[i] # k

(* An unconsumed prekey is never replaced: whatever GenerateOneTimePreKeys  *)
(* calls do concurrently, a prekey leaves the pool only through             *)
(* ConsumePreKey (the collision TestNextPreKeyIDSurvivesConsumption guards).*)
NoLivePreKeyLost ==
    [][\A i \in Ids : store.preKeys[i] # None /\ store'.preKeys[i] # store.preKeys[i] =>
          store'.preKeys[i] = None /\ store.preKeys[i] \in spent']_vars

(* The prekey calls implement a pool of one-time keys: no interleaving of   *)
(* them brings a used key back, lets two handshakes use one key, or makes   *)
(* an unused key disappear.                                                 *)
LiveKeys == {store.preKeys[i] : i \in PreKeyIDs(store)}
Pool == INSTANCE OneTimeKeys WITH Key <- Keys, live <- LiveKeys
ImplementsPool == Pool!Spec

(* Both ends of a handshake use the same keys: when the IDs a peer sent     *)
(* resolve, they resolve to the signed prekey and the one-time prekey the   *)
(* peer took from the bundle, even if it was published before a rotation.   *)
SameKeys ==
    \A p \in Procs : op[p].pc = "consume" =>
        /\ op[p].spk.key = op[p].kx.spk.key
        /\ store.preKeys[op[p].kx.opk.id] \in {None, op[p].kx.opk.key}

-----------------------------------------------------------------------------
(* The inductive invariants behind OneTime, NoLivePreKeyLost and SameKeys *)

Generating(p) == op[p].pc = "generate"

(* Every allocated ID stands for a key pair, so the watermark cannot wrap   *)
(* before MaxKeys key pairs have been generated.                            *)
Watermark == store.nextPreKeyID < fresh /\ fresh <= MaxKeys

SpentKeys == \A k \in spent : k < fresh

(* The pool holds unspent keys under allocated IDs, each under one ID.      *)
PoolKeys ==
    \A i \in Ids : store.preKeys[i] # None =>
        /\ i <= store.nextPreKeyID
        /\ store.preKeys[i] < fresh
        /\ store.preKeys[i] \notin spent
        /\ \A j \in Ids : store.preKeys[j] = store.preKeys[i] => j = i

(* So does a batch that is still being generated, under IDs and with keys   *)
(* that are neither in the pool nor in another batch.                       *)
BatchOK(p, i) ==
    /\ i <= store.nextPreKeyID
    /\ op[p].recs[i] < fresh
    /\ op[p].recs[i] \notin spent
    /\ store.preKeys[i] = None
    /\ \A j \in Ids : store.preKeys[j] # op[p].recs[i]
    /\ \A j \in Ids : op[p].recs[j] = op[p].recs[i] => j = i
    /\ \A q \in Procs \ {p} : Generating(q) =>
          /\ op[q].recs[i] = None
          /\ \A j \in Ids : op[q].recs[j] # op[p].recs[i]

BatchKeys ==
    \A p \in Procs, i \in Ids : Generating(p) /\ op[p].recs[i] # None => BatchOK(p, i)

OneTimeInv == Watermark /\ SpentKeys /\ PoolKeys /\ BatchKeys

(* A prekey a peer or a snapshot of the pool refers to has been allocated;  *)
(* its ID leads to that key or to none, and to none in a batch to come.     *)
RefOK(id, key) ==
    /\ id <= store.nextPreKeyID
    /\ store.preKeys[id] \in {None, key}
    /\ \A p \in Procs : Generating(p) => op[p].recs[id] = None

PreKeyRefs ==
    /\ bundle.preKey # None => RefOK(bundle.preKey.id, bundle.preKey.key)
    /\ \A h \in handshakes : RefOK(h.opk.id, h.opk.key)
    /\ \A p \in Procs : op[p].pc \in {"stale", "consume"} => op[p].kx \in handshakes
    /\ \A p \in Procs, i \in Ids :
          op[p].pc = "publish" /\ op[p].recs[i] # None => RefOK(i, op[p].recs[i])

(* Only one goroutine rotates the signed prekey.                            *)
SingleRotator == \A p, q \in Rotators : p = q

(* A signed prekey that is published, sent or in use: its ID has been       *)
(* allocated, and the current and the stale record agree with it.           *)
SpkOK(s) ==
    /\ s.id <= store.currentSPK.id
    /\ s.id = store.currentSPK.id => s.key = store.currentSPK.key
    /\ store.staleSPK # None /\ s.id = store.staleSPK.id => s.key = store.staleSPK.key

SpkRefs ==
    /\ store.currentSPK.id <= fresh
    /\ SpkOK(store.currentSPK)
    /\ SpkOK(bundle.spk)
    /\ \A h \in handshakes : SpkOK(h.spk)
    /\ \A p \in Procs : op[p].pc \in {"pool", "publish"} => SpkOK(op[p].spk)
    /\ \A p \in Procs : op[p].pc = "consume" => op[p].spk.key = op[p].kx.spk.key
    /\ \A p \in Procs : op[p].pc = "rotate" =>
          p \in Rotators /\ op[p].id = (store.currentSPK.id + 1) % IdSpace
=============================================================================
