------------------------------ MODULE Sessions ------------------------------
(***************************************************************************)
(* The session life cycle of manager.go: several devices, each running one *)
(* Manager over its own Store, several goroutines per Manager, and an      *)
(* unreliable message path between them.                                   *)
(*                                                                         *)
(* A goroutine runs one of three calls at a time: encryptForDevice (one    *)
(* iteration of EncryptMessage / EncryptKeyTransport), DecryptMessage or   *)
(* ResetSession.  A call is cut into one action per store or transport     *)
(* call that another goroutine, the application or a crash can come        *)
(* between; what happens between two cuts touches only goroutine-local     *)
(* data or store entries guarded by the device lock the goroutine holds.   *)
(*                                                                         *)
(* Messages: `sent' only grows and any message of it may be handed to its  *)
(* recipient at any time, any number of times, or never: loss, delay,      *)
(* reordering and duplication.                                             *)
(***************************************************************************)
EXTENDS Signal, MemStore, Bags, BagsExt

CONSTANTS
    Devices,        \* omemo.Device values, one Manager each
    Procs,          \* goroutines calling into the Managers
    Home,           \* Home[p]: the device whose Manager p calls
    Resolvers,      \* devices whose Manager was built WithTrustResolver
    InitTrust,      \* InitTrust[d]: the trust decisions d's user starts with
    Blockers,       \* devices whose user may reject an identity key at any time
    Restartable,    \* devices whose process may crash and be restarted
    Unreliable,     \* devices whose Store may return an error from any call
    Reinstallable,  \* devices that may come back with a new Store
    Maintainers,    \* devices that rotate their signed prekey and top up the pool
    Publishers,     \* devices that republish their bundle
    MaxGen,         \* bound: installations per device
    PoolSize,       \* one-time prekeys InitIdentity generates (DefaultPreKeyCount)
    MaxKeys,        \* bound: key pairs a device generates
    MaxSent         \* bound: messages produced

VARIABLES
    store,          \* store[d]: device d's Store
    bundles,        \* bundles[d]: what d last published (external: XMPP PEP)
    fresh,          \* fresh[d]: number of key pairs d has generated
    lock,           \* lock[d][e]: holder of Manager d's mutex for device e
    call,           \* call[p]: the call goroutine p is executing
    made,           \* messages encrypted: the ratchet has moved on for them
    sent,           \* messages that have left: EncryptMessage returned them
    opened,         \* messages decrypted: the ratchet has moved on for them
    accepted        \* bag of the messages DecryptMessage returned

vars == <<store, bundles, fresh, lock, call, made, sent, opened, accepted>>

-----------------------------------------------------------------------------
(* Values *)

Gens == 1 .. MaxGen
IdentityKeys == Devices \X Gens
Keys == Devices \X Nat           \* <<d, n>>: the n-th key pair d generated
SPKs == [id : Ids, key : Keys, signer : IdentityKeys]
PreKeyRefs == [id : Ids, key : Keys]
Roots == [ini : IdentityKeys, resp : IdentityKeys, spk : Keys, opk : Keys, ek : Keys]
KeyExchanges == [identityKey : IdentityKeys, ephemeralKey : Keys,
                 signedPreKeyID : Ids, preKeyID : Ids]
SessionStates == [root : Roots, role : {"active", "passive"}, sent : Nat,
                  recv : SUBSET Nat, pending : KeyExchanges \cup {None}]
Data == [root : Roots, from : {"active", "passive"}, n : Nat,
         pre : KeyExchanges \cup {None}]
Messages == [from : Devices, to : Devices, data : Data, kx : KeyExchanges \cup {None}]
Bundles == [identityKey : IdentityKeys, signedPreKey : SPKs,
            preKey : PreKeyRefs \cup {None}]
Stores == [identityKey : IdentityKeys, currentSPK : SPKs, staleSPK : SPKs \cup {None},
           preKeys : [Ids -> Keys \cup {None}], nextPreKeyID : Ids,
           sessions : [Devices -> SessionStates \cup {None}],
           trust : [IdentityKeys -> TrustStates],
           remoteID : [Devices -> IdentityKeys \cup {None}]]

ASSUME SessionsAssumption ==
    /\ Home \in [Procs -> Devices]
    /\ InitTrust \in [Devices -> [IdentityKeys -> TrustStates]]
    /\ MaxGen \in Nat \ {0} /\ PoolSize \in Nat /\ MaxKeys \in Nat /\ MaxSent \in Nat
    /\ PoolSize < IdSpace /\ MaxKeys < IdSpace

ASSUME NoneAssumption ==
    None \notin KeyExchanges \cup SessionStates \cup SPKs \cup PreKeyRefs
                \cup IdentityKeys \cup Keys \cup Bundles \cup Messages
                \cup Procs \cup Devices

-----------------------------------------------------------------------------
(* Calls *)

Idle == [pc |-> "idle", dev |-> None, msg |-> None, sess |-> None, kx |-> None, spk |-> None,
         barred |-> {}]

EncryptPCs == {"encLock", "fetch", "trust", "resolve", "encrypt"}
DecryptPCs == {"decLock", "consume", "identify", "decrypt", "payload"}
WaitPCs    == {"encLock", "decLock", "resetLock"}
LockedPCs  == (EncryptPCs \cup DecryptPCs) \ WaitPCs
PCs        == LockedPCs \cup WaitPCs \cup {"idle", "enveloped"}

Calls == [pc : PCs, dev : Devices \cup {None}, msg : Messages \cup {None},
          sess : SessionStates \cup {None}, kx : KeyExchanges \cup {None},
          spk : Keys \cup {None},
          barred : SUBSET IdentityKeys]   \* history: keys rejected when the call got the lock

(* Mutants: a new mutex on every call; one mutex for the whole Manager.     *)
FreeAlways(p) == TRUE
FreeGlobal(p) == \A e \in Devices : lock[Home[p]][e] = None

(* deviceLock(dev).Lock() and the deferred Unlock.                          *)
Free(p) == lock[Home[p]][call[p].dev] = None
Acquire(p) == lock' = [lock EXCEPT ![Home[p]][call[p].dev] = p]
Return(p) == /\ lock' = [lock EXCEPT ![Home[p]][call[p].dev] = None]
             /\ call' = [call EXCEPT ![p] = Idle]

(* A new Store after InitIdentity, and the number of key pairs that takes.  *)
NewStore(d, gen, k) ==
    [identityKey  |-> <<d, gen>>,
     currentSPK   |-> [id |-> 1, key |-> <<d, k>>, signer |-> <<d, gen>>],
     staleSPK     |-> None,
     preKeys      |-> [i \in Ids |-> IF i \in 1 .. PoolSize THEN <<d, k + i>> ELSE None],
     nextPreKeyID |-> PoolSize,
     sessions     |-> [e \in Devices |-> None],
     trust        |-> InitTrust[d],
     remoteID     |-> [e \in Devices |-> None]]

KeysPerStore == PoolSize + 1

(* Manager.Bundle.  The one-time prekeys come out of a Go map, so any of    *)
(* them may be the first; no consumer in this library looks further.        *)
BundleOf(s) ==
    {[identityKey  |-> s.identityKey,
      signedPreKey |-> s.currentSPK,
      preKey       |-> pk] :
        pk \in IF PreKeyIDs(s) = {} THEN {None}
               ELSE {[id |-> i, key |-> s.preKeys[i]] : i \in PreKeyIDs(s)}}

(* signedPreKeyByID: the current record, else the stale one, else an error. *)
SignedPreKeyByID(s, id) ==
    CASE s.currentSPK.id = id -> s.currentSPK.key
      [] s.currentSPK.id # id /\ s.staleSPK # None /\ s.staleSPK.id = id -> s.staleSPK.key
      [] OTHER -> None

Init ==
    /\ store = [d \in Devices |-> NewStore(d, 1, 0)]
    /\ bundles \in {b \in [Devices -> UNION {BundleOf(store[d]) : d \in Devices}] :
                       \A d \in Devices : b[d] \in BundleOf(store[d])}
    /\ fresh = [d \in Devices |-> KeysPerStore]
    /\ lock = [d \in Devices |-> [e \in Devices |-> None]]
    /\ call = [p \in Procs |-> Idle]
    /\ made = {}
    /\ sent = {}
    /\ opened = {}
    /\ accepted = EmptyBag

-----------------------------------------------------------------------------
(* encryptForDevice, for one device of the recipient list *)

(* The application calls EncryptMessage or EncryptKeyTransport; the loop of *)
(* encrypt skips the local device.                                          *)
BeginEncrypt(p, dev) ==
    /\ call[p].pc = "idle"
    /\ dev # Home[p]
    /\ Cardinality(made) + Cardinality({q \in Procs : call[q].pc \in EncryptPCs}) < MaxSent
    /\ call' = [call EXCEPT ![p] = [Idle EXCEPT !.pc = "encLock", !.dev = dev]]
    /\ UNCHANGED <<store, bundles, fresh, lock, made, sent, opened, accepted>>

(* Takes the device lock; getOrCreateActiveSession looks for a session.     *)
EncryptLock(p) ==
    LET sess == store[Home[p]].sessions[call[p].dev] IN
    /\ call[p].pc = "encLock"
    /\ Free(p)
    /\ Acquire(p)
    /\ call' = [call EXCEPT ![p].pc   = IF sess = None THEN "fetch" ELSE "trust",
                            ![p].sess = sess,
                            ![p].barred = {ik \in IdentityKeys : store[Home[p]].trust[ik] = "untrusted"}]
    /\ UNCHANGED <<store, bundles, fresh, made, sent, opened, accepted>>

(* Mutant: stores the session before the handshake has gone out.            *)
FetchBundleStoring(p) ==
    LET d  == Home[p]
        b  == bundles[call[p].dev]
        ek == <<d, fresh[d]>>
        sess == NewActiveSession(store[d].identityKey, b, ek)
    IN
    /\ call[p].pc = "fetch" /\ fresh[d] < MaxKeys /\ b.preKey # None
    /\ b.signedPreKey.signer = b.identityKey
    /\ fresh' = [fresh EXCEPT ![d] = @ + 1]
    /\ store' = [store EXCEPT ![d] =
                   PutSession(PutRemoteIdentityKey(@, call[p].dev, b.identityKey), call[p].dev, sess)]
    /\ call' = [call EXCEPT
                  ![p].pc   = "trust",
                  ![p].sess = sess,
                  ![p].kx   = KeyExchange(store[d].identityKey, ek, b.signedPreKey.id, b.preKey.id)]
    /\ UNCHANGED <<bundles, lock, made, sent, opened, accepted>>

(* Mutant: keeps the first identity key it ever saw for a device.           *)
FetchBundlePinned(p) ==
    LET d  == Home[p]
        b  == bundles[call[p].dev]
        ek == <<d, fresh[d]>>
    IN
    /\ call[p].pc = "fetch" /\ fresh[d] < MaxKeys /\ b.preKey # None
    /\ b.signedPreKey.signer = b.identityKey
    /\ fresh' = [fresh EXCEPT ![d] = @ + 1]
    /\ store' = [store EXCEPT ![d].remoteID[call[p].dev] = IF @ = None THEN b.identityKey ELSE @]
    /\ call' = [call EXCEPT
                  ![p].pc   = "trust",
                  ![p].sess = NewActiveSession(store[d].identityKey, b, ek),
                  ![p].kx   = KeyExchange(store[d].identityKey, ek, b.signedPreKey.id, b.preKey.id)]
    /\ UNCHANGED <<bundles, lock, made, sent, opened, accepted>>

(* No session: FetchBundle, X3DH against the first one-time prekey, which   *)
(* begins with the signature of the signed prekey, and PutRemoteIdentityKey.*)
(* The new session stays in memory.                                         *)
FetchBundle(p) ==
    LET d  == Home[p]
        b  == bundles[call[p].dev]
        ek == <<d, fresh[d]>>
    IN
    /\ call[p].pc = "fetch"
    /\ fresh[d] < MaxKeys
    /\ b.preKey # None
    /\ b.signedPreKey.signer = b.identityKey
    /\ fresh' = [fresh EXCEPT ![d] = @ + 1]
    /\ store' = [store EXCEPT ![d] = PutRemoteIdentityKey(@, call[p].dev, b.identityKey)]
    /\ call' = [call EXCEPT
                  ![p].pc   = "trust",
                  ![p].sess = NewActiveSession(store[d].identityKey, b, ek),
                  ![p].kx   = KeyExchange(store[d].identityKey, ek, b.signedPreKey.id, b.preKey.id)]
    /\ UNCHANGED <<bundles, lock, made, sent, opened, accepted>>

(* Mutant: an error return without the Unlock.                              *)
FetchFailsHolding(p) ==
    /\ call[p].pc = "fetch"
    /\ call' = [call EXCEPT ![p] = Idle]
    /\ UNCHANGED <<store, bundles, fresh, lock, made, sent, opened, accepted>>

(* The transport fails, the bundle has no one-time prekeys left, or X3DH    *)
(* rejects its signature.                                                   *)
FetchFails(p) ==
    /\ call[p].pc = "fetch"
    /\ Return(p)
    /\ UNCHANGED <<store, bundles, fresh, made, sent, opened, accepted>>

(* Mutant: only a rejection stops the call.                                 *)
CheckTrustLenient(p) ==
    LET s == store[Home[p]] IN
    /\ call[p].pc = "trust"
    /\ \/ /\ s.trust[s.remoteID[call[p].dev]] # "untrusted"
          /\ call' = [call EXCEPT ![p].pc = "encrypt"]
          /\ UNCHANGED lock
       \/ /\ s.trust[s.remoteID[call[p].dev]] = "untrusted"
          /\ Return(p)
    /\ UNCHANGED <<store, bundles, fresh, made, sent, opened, accepted>>

(* Mutant: a session that exists already is taken to be trusted.            *)
CheckTrustOnce(p) ==
    /\ call[p].pc = "trust"
    /\ \/ /\ call[p].kx = None \/ store[Home[p]].trust[store[Home[p]].remoteID[call[p].dev]] = "trusted"
          /\ call' = [call EXCEPT ![p].pc = "encrypt"]
          /\ UNCHANGED lock
       \/ /\ call[p].kx # None
          /\ store[Home[p]].trust[store[Home[p]].remoteID[call[p].dev]] = "undecided"
          /\ call' = [call EXCEPT ![p].pc = "resolve"]
          /\ UNCHANGED lock
       \/ /\ call[p].kx # None
          /\ store[Home[p]].trust[store[Home[p]].remoteID[call[p].dev]] = "untrusted"
          /\ Return(p)
    /\ UNCHANGED <<store, bundles, fresh, made, sent, opened, accepted>>

(* checkTrust on the identity key stored for the device; it is an error if  *)
(* there is none.                                                           *)
CheckTrust(p) ==
    LET s     == store[Home[p]]
        idKey == s.remoteID[call[p].dev]
        state == IF idKey = None THEN None ELSE s.trust[idKey]
    IN
    /\ call[p].pc = "trust"
    /\ \/ /\ state = "trusted"
          /\ call' = [call EXCEPT ![p].pc = "encrypt"]
          /\ UNCHANGED lock
       \/ /\ state = "undecided" /\ Home[p] \in Resolvers
          /\ call' = [call EXCEPT ![p].pc = "resolve"]
          /\ UNCHANGED lock
       \/ /\ state \in {None, "untrusted"} \/ (state = "undecided" /\ Home[p] \notin Resolvers)
          /\ Return(p)
    /\ UNCHANGED <<store, bundles, fresh, made, sent, opened, accepted>>

(* The TrustResolver callback returns nil: the decision is persisted.       *)
ResolverTrusts(p) ==
    LET d == Home[p] IN
    /\ call[p].pc = "resolve"
    /\ store' = [store EXCEPT ![d] = SetTrust(@, @.remoteID[call[p].dev], "trusted")]
    /\ call' = [call EXCEPT ![p].pc = "encrypt"]
    /\ UNCHANGED <<bundles, fresh, lock, made, sent, opened, accepted>>

(* The TrustResolver callback returns an error: nothing is persisted.       *)
ResolverDeclines(p) ==
    /\ call[p].pc = "resolve"
    /\ Return(p)
    /\ UNCHANGED <<store, bundles, fresh, made, sent, opened, accepted>>

(* Mutant: stores the session as it was loaded.                             *)
EncryptAndPutOld(p) ==
    LET d == Home[p]
        c == call[p]
        m == [from |-> d, to |-> c.dev, data |-> Encrypt(c.sess), kx |-> c.kx]
    IN
    /\ c.pc = "encrypt"
    /\ store' = [store EXCEPT ![d] = PutSession(@, c.dev, Marshal(c.sess))]
    /\ made' = made \cup {m}
    /\ lock' = [lock EXCEPT ![d][c.dev] = None]
    /\ call' = [call EXCEPT ![p] = [Idle EXCEPT !.pc = "enveloped", !.dev = c.dev, !.msg = m]]
    /\ UNCHANGED <<bundles, fresh, sent, opened, accepted>>

(* Session.Encrypt and putSession; encryptForDevice releases the lock and   *)
(* returns the RecipientKey to the loop of encrypt.                         *)
EncryptAndPut(p) ==
    LET d == Home[p]
        c == call[p]
        m == [from |-> d, to |-> c.dev, data |-> Encrypt(c.sess), kx |-> c.kx]
    IN
    /\ c.pc = "encrypt"
    /\ store' = [store EXCEPT ![d] = PutSession(@, c.dev, Marshal(AfterEncrypt(c.sess)))]
    /\ made' = made \cup {m}
    /\ lock' = [lock EXCEPT ![d][c.dev] = None]
    /\ call' = [call EXCEPT ![p] = [Idle EXCEPT !.pc = "enveloped", !.dev = c.dev, !.msg = m]]
    /\ UNCHANGED <<bundles, fresh, sent, opened, accepted>>

(* The loop is through with the other devices, their bundles and their      *)
(* TrustResolvers: encrypt returns the envelope and the message leaves.     *)
ReturnEnvelope(p) ==
    /\ call[p].pc = "enveloped"
    /\ sent' = sent \cup {call[p].msg}
    /\ call' = [call EXCEPT ![p] = Idle]
    /\ UNCHANGED <<store, bundles, fresh, lock, made, opened, accepted>>

-----------------------------------------------------------------------------
(* DecryptMessage, once the RecipientKey for this device has been picked *)

BeginDecrypt(p, m) ==
    /\ call[p].pc = "idle"
    /\ m.to = Home[p]
    /\ call' = [call EXCEPT ![p] = [Idle EXCEPT !.pc = "decLock", !.dev = m.from, !.msg = m]]
    /\ UNCHANGED <<store, bundles, fresh, lock, made, sent, opened, accepted>>

(* Takes the sender's device lock.  getOrCreateSessionForIncoming: without  *)
(* a KeyExchange an existing session is needed (else ErrUnknownSession),    *)
(* with one the signed prekey it names (else an error).                     *)
DecryptLock(p) ==
    LET m    == call[p].msg
        s    == store[Home[p]]
        sess == s.sessions[m.from]
    IN
    /\ call[p].pc = "decLock"
    /\ Free(p)
    /\ \/ /\ m.kx = None
          /\ sess # None
          /\ Acquire(p)
          /\ call' = [call EXCEPT ![p].pc = "decrypt", ![p].sess = sess]
       \/ /\ m.kx # None
          /\ SignedPreKeyByID(s, HandshakeOf(m).signedPreKeyID) # None
          /\ Acquire(p)
          /\ call' = [call EXCEPT ![p].pc  = "consume",
                                  ![p].spk = SignedPreKeyByID(s, HandshakeOf(m).signedPreKeyID)]
       \/ /\ \/ m.kx = None /\ sess = None
             \/ m.kx # None /\ SignedPreKeyByID(s, HandshakeOf(m).signedPreKeyID) = None
          /\ call' = [call EXCEPT ![p] = Idle]
          /\ UNCHANGED lock
    /\ UNCHANGED <<store, bundles, fresh, made, sent, opened, accepted>>

(* ConsumePreKey and X3DH as the responding party, or ConsumePreKey fails.  *)
Consume(p) ==
    LET d  == Home[p]
        kx == HandshakeOf(call[p].msg)
        s  == store[d]
    IN
    /\ call[p].pc = "consume"
    /\ \/ /\ s.preKeys[kx.preKeyID] # None
          /\ store' = [store EXCEPT ![d] = ConsumePreKey(@, kx.preKeyID)]
          /\ call' = [call EXCEPT
                        ![p].pc   = "identify",
                        ![p].sess = NewPassiveSession(s.identityKey, kx, call[p].spk,
                                                      s.preKeys[kx.preKeyID])]
          /\ UNCHANGED lock
       \/ /\ s.preKeys[kx.preKeyID] = None
          /\ Return(p)
          /\ UNCHANGED store
    /\ UNCHANGED <<bundles, fresh, made, sent, opened, accepted>>

(* Mutant: does not store the identity key.                                 *)
IdentifyNot(p) ==
    /\ call[p].pc = "identify"
    /\ call' = [call EXCEPT ![p].pc = "decrypt"]
    /\ UNCHANGED <<store, bundles, fresh, lock, made, sent, opened, accepted>>

(* PutRemoteIdentityKey with the key the handshake claims.                  *)
Identify(p) ==
    LET d == Home[p]
        m == call[p].msg
    IN
    /\ call[p].pc = "identify"
    /\ store' = [store EXCEPT ![d] = PutRemoteIdentityKey(@, m.from, HandshakeOf(m).identityKey)]
    /\ call' = [call EXCEPT ![p].pc = "decrypt"]
    /\ UNCHANGED <<bundles, fresh, lock, made, sent, opened, accepted>>

(* Mutant: a session that exists is not replaced by a handshake's.          *)
DecryptAndPutKeeping(p) ==
    LET d == Home[p]
        c == call[p]
        keep == c.msg.kx # None /\ store[d].sessions[c.msg.from] # None
    IN
    /\ c.pc = "decrypt"
    /\ \/ /\ CanDecrypt(c.sess, c.msg.data)
          /\ store' = IF keep THEN store
                       ELSE [store EXCEPT ![d] =
                               PutSession(@, c.msg.from, Marshal(AfterDecrypt(c.sess, c.msg.data)))]
          /\ opened' = opened \cup {c.msg}
          /\ call' = [call EXCEPT ![p] = [Idle EXCEPT !.pc = "payload", !.dev = c.dev, !.msg = c.msg]]
          /\ UNCHANGED lock
       \/ /\ ~CanDecrypt(c.sess, c.msg.data)
          /\ Return(p)
          /\ UNCHANGED <<store, opened>>
    /\ UNCHANGED <<bundles, fresh, made, sent, accepted>>

(* Session.Decrypt and putSession; a failed Decrypt stores nothing.         *)
DecryptAndPut(p) ==
    LET d == Home[p]
        c == call[p]
    IN
    /\ c.pc = "decrypt"
    /\ \/ /\ CanDecrypt(c.sess, c.msg.data)
          /\ store' = [store EXCEPT ![d] =
                         PutSession(@, c.msg.from, Marshal(AfterDecrypt(c.sess, c.msg.data)))]
          /\ opened' = opened \cup {c.msg}
          /\ call' = [call EXCEPT ![p] = [Idle EXCEPT !.pc = "payload", !.dev = c.dev, !.msg = c.msg]]
          /\ UNCHANGED lock
       \/ /\ ~CanDecrypt(c.sess, c.msg.data)
          /\ Return(p)
          /\ UNCHANGED <<store, opened>>
    /\ UNCHANGED <<bundles, fresh, made, sent, accepted>>

(* DecryptPayload succeeds, or there is no payload: the message is handed   *)
(* to the application.  Its error is CallFails.                             *)
DecryptPayload(p) ==
    /\ call[p].pc = "payload"
    /\ accepted' = BagAdd(accepted, call[p].msg)
    /\ Return(p)
    /\ UNCHANGED <<store, bundles, fresh, made, sent, opened>>

-----------------------------------------------------------------------------
(* ResetSession *)

BeginReset(p, dev) ==
    /\ call[p].pc = "idle"
    /\ dev # Home[p]
    /\ call' = [call EXCEPT ![p] = [Idle EXCEPT !.pc = "resetLock", !.dev = dev]]
    /\ UNCHANGED <<store, bundles, fresh, lock, made, sent, opened, accepted>>

(* Lock, DeleteSession, Unlock: one store call inside the critical section. *)
Reset(p) ==
    /\ call[p].pc = "resetLock"
    /\ Free(p)
    /\ store' = [store EXCEPT ![Home[p]] = DeleteSession(@, call[p].dev)]
    /\ call' = [call EXCEPT ![p] = Idle]
    /\ UNCHANGED <<bundles, fresh, lock, made, sent, opened, accepted>>

-----------------------------------------------------------------------------
(* Prekey maintenance.  One maintenance goroutine per device, so that no    *)
(* other writer comes between the store calls of one of these calls; the    *)
(* module PreKeys takes them apart.                                         *)

RotateSignedPreKey(d) ==
    /\ d \in Maintainers /\ fresh[d] < MaxKeys
    /\ store' = [store EXCEPT ![d] =
                   RotateSPK(@, [id |-> (@.currentSPK.id + 1) % IdSpace, key |-> <<d, fresh[d]>>,
                                 signer |-> @.identityKey])]
    /\ fresh' = [fresh EXCEPT ![d] = @ + 1]
    /\ UNCHANGED <<bundles, lock, call, made, sent, opened, accepted>>

(* GenerateOneTimePreKeys with n = 1.                                       *)
GenerateOneTimePreKey(d) ==
    LET s == store[d] IN
    /\ d \in Maintainers /\ fresh[d] < MaxKeys
    /\ store' = [store EXCEPT ![d] =
                   PutPreKeys(AllocPreKeyID(s), [NoPreKeys EXCEPT ![NextPreKeyID(s)] = <<d, fresh[d]>>])]
    /\ fresh' = [fresh EXCEPT ![d] = @ + 1]
    /\ UNCHANGED <<bundles, lock, call, made, sent, opened, accepted>>

(* Mutant: the one-time prekey published before is kept.                    *)
PublishBundleOldPreKey(d) ==
    /\ d \in Publishers
    /\ bundles' = [bundles EXCEPT ![d].identityKey = store[d].identityKey,
                                  ![d].signedPreKey = store[d].currentSPK]
    /\ UNCHANGED <<store, fresh, lock, call, made, sent, opened, accepted>>

PublishBundle(d) ==
    /\ d \in Publishers
    /\ \E b \in BundleOf(store[d]) : bundles' = [bundles EXCEPT ![d] = b]
    /\ UNCHANGED <<store, fresh, lock, call, made, sent, opened, accepted>>

-----------------------------------------------------------------------------
(* The world around a Manager *)

(* The user rejects an identity key: TrustStore.SetTrust, no device lock.   *)
(* The decision on the own key is never looked up.                          *)
UserBlocks(d, ik) ==
    /\ d \in Blockers /\ ik[1] # d
    /\ store[d].trust[ik] # "untrusted"
    /\ store' = [store EXCEPT ![d] = SetTrust(@, ik, "untrusted")]
    /\ UNCHANGED <<bundles, fresh, lock, call, made, sent, opened, accepted>>

(* Mutant: an error return without the Unlock.                              *)
CallFailsHolding(p) ==
    /\ Home[p] \in Unreliable
    /\ call[p].pc \in LockedPCs
    /\ call' = [call EXCEPT ![p] = Idle]
    /\ UNCHANGED <<store, bundles, fresh, lock, made, sent, opened, accepted>>

(* A store call returns an error, or X3DH, the ratchet or DecryptPayload    *)
(* does: the deferred Unlock runs and the error goes to the caller.  What   *)
(* earlier store calls of the same call have written stays written.         *)
CallFails(p) ==
    /\ Home[p] \in Unreliable
    /\ call[p].pc \in LockedPCs
    /\ Return(p)
    /\ UNCHANGED <<store, bundles, fresh, made, sent, opened, accepted>>

(* A process ends: its goroutines and mutexes are gone.                     *)
Dead(d) == /\ call' = [p \in Procs |-> IF Home[p] = d THEN Idle ELSE call[p]]
           /\ lock' = [lock EXCEPT ![d] = [e \in Devices |-> None]]

(* Crash in the middle of a call, then NewManager over the surviving Store. *)
Restart(d) ==
    /\ d \in Restartable
    /\ \E p \in Procs : Home[p] = d /\ call[p].pc \in LockedPCs \cup {"enveloped"}
    /\ Dead(d)
    /\ UNCHANGED <<store, bundles, fresh, made, sent, opened, accepted>>

(* The same device (JID and ID) with a new Store: InitIdentity, NewManager. *)
(* PublishBundle is the application's next step; until then the old bundle  *)
(* stays published.                                                         *)
Reinstall(d) ==
    /\ d \in Reinstallable
    /\ store[d].identityKey[2] < MaxGen
    /\ store' = [store EXCEPT ![d] = NewStore(d, @.identityKey[2] + 1, fresh[d])]
    /\ fresh' = [fresh EXCEPT ![d] = @ + KeysPerStore]
    /\ Dead(d)
    /\ UNCHANGED <<bundles, made, sent, opened, accepted>>

-----------------------------------------------------------------------------
Begin(p) ==
    \/ \E dev \in Devices : BeginEncrypt(p, dev) \/ BeginReset(p, dev)
    \/ \E m \in sent : BeginDecrypt(p, m)

LockStep(p) == EncryptLock(p) \/ DecryptLock(p) \/ Reset(p)

Step(p) == \/ FetchBundle(p) \/ FetchFails(p) \/ CheckTrust(p) \/ EncryptAndPut(p)
           \/ Consume(p) \/ Identify(p) \/ DecryptAndPut(p) \/ DecryptPayload(p)

ResolverStep(p) == ResolverTrusts(p) \/ ResolverDeclines(p)

Maintenance(d) == RotateSignedPreKey(d) \/ GenerateOneTimePreKey(d) \/ PublishBundle(d)

Environment(d) == \/ \E ik \in IdentityKeys : UserBlocks(d, ik)
                  \/ Restart(d) \/ Reinstall(d)

Next == \/ \E p \in Procs : \/ Begin(p) \/ LockStep(p) \/ Step(p) \/ ResolverStep(p)
                             \/ ReturnEnvelope(p) \/ CallFails(p)
        \/ \E d \in Devices : Maintenance(d) \/ Environment(d)

Spec == Init /\ [][Next]_vars

(* Goroutines are scheduled and store and transport calls return: weak      *)
(* fairness.  sync.Mutex hands over to a waiter that has starved for 1 ms:  *)
(* strong fairness of lock acquisition.  The TrustResolver may wait for a   *)
(* user forever, for this device or for a later one of the same envelope,   *)
(* and nobody has to call anything: no fairness.                            *)
Fairness == \A p \in Procs : WF_vars(Step(p)) /\ SF_vars(LockStep(p))

FairSpec == Spec /\ Fairness

-----------------------------------------------------------------------------
(* Properties *)

(* Type invariant: every field of every Store and every call in progress    *)
(* has the type the Go code gives it.                                       *)
TypeOK ==
    /\ store \in [Devices -> Stores]
    /\ bundles \in [Devices -> Bundles]
    /\ fresh \in [Devices -> Nat]
    /\ lock \in [Devices -> [Devices -> Procs \cup {None}]]
    /\ call \in [Procs -> Calls]
    /\ made \in SUBSET Messages /\ sent \in SUBSET Messages /\ opened \in SUBSET Messages
    /\ IsABag(accepted) /\ DOMAIN accepted \subseteq Messages

(* A ratchet position is used for one message only: when encryptForDevice   *)
(* is about to encrypt, nothing has ever been encrypted, sent or not, at the*)
(* same position of the same end of the same session.  Rests on the device  *)
(* lock from loading to storing the session, on storing it before the key   *)
(* is returned, and on a one-time prekey answering a single handshake.      *)
NoPositionReuse ==
    \A p \in Procs : call[p].pc = "encrypt" =>
        \A m \in made : ~ /\ m.data.root = call[p].sess.root
                          /\ m.data.from = call[p].sess.role
                          /\ m.data.n = call[p].sess.sent

(* DecryptMessage never returns the same message twice, however often the   *)
(* network delivers it and to however many goroutines: a session message is *)
(* in the stored ratchet state, a handshake has used up its one-time prekey.*)
AtMostOnce == \A m \in DOMAIN accepted : accepted[m] = 1

(* A device never refuses what the far end of its session encrypted: a      *)
(* message that has not been opened yet, and that starts a session with     *)
(* the present installation or belongs to the session in hand, opens.  The  *)
(* IDs of a KeyExchange lead to the keys the initiator used, and the two    *)
(* ends never play the same role.                                           *)
SessionsAgree ==
    \A p \in Procs :
        LET c == call[p] IN
        /\ c.pc = "decrypt"
        /\ \/ c.msg.kx # None /\ c.msg.data.root.resp = store[Home[p]].identityKey
           \/ c.sess.root = c.msg.data.root
        /\ c.msg \notin opened
        => CanDecrypt(c.sess, c.msg.data)

(* The session life cycle implements an end-to-end channel: every message   *)
(* goes out once, is handed to the application at most once, and only after *)
(* it was sent, whatever the network repeats or the devices forget.         *)
Chan == INSTANCE Channel WITH got <- accepted
ImplementsChannel == Chan!Spec

(* A KeyExchange accompanies exactly the first message encrypted under an   *)
(* initiator's session (envelope.go), and in v1 exactly then is the key     *)
(* data a PreKeyWhisperMessage: an attempt that was declined, failed or was *)
(* interrupted before putSession has left no session behind, so the next    *)
(* one makes a handshake of its own.                                        *)
KeyExchangeOnFirst ==
    \A m \in made :
        /\ (m.kx # None) <=> (m.data.from = "active" /\ m.data.n = 0)
        /\ m.data.pre = (IF Protocol = "v1" THEN m.kx ELSE None)

(* While nobody works on a device, the identity key stored for it is the    *)
(* one at the other end of the session stored for it, so that checkTrust    *)
(* looks at the key encryptForDevice encrypts to.                           *)
SessionIdentity ==
    \A d, e \in Devices :
        LET sess == store[d].sessions[e] IN
        lock[d][e] = None /\ sess # None => store[d].remoteID[e] = PeerIdentity(sess)

(* Nothing is encrypted to an identity key the user has not accepted: when  *)
(* encryptForDevice gets to Session.Encrypt, the key at the other end of    *)
(* the session it holds is trusted (in runs where no user takes a decision  *)
(* back between the check and the encryption).                              *)
TrustedSend ==
    \A p \in Procs : call[p].pc = "encrypt" =>
        store[Home[p]].trust[PeerIdentity(call[p].sess)] = "trusted"

(* "Such a device is always skipped" (types.go): a call that started after  *)
(* an identity key was rejected never encrypts under a session with it.     *)
BlockedSkipped ==
    \A p \in Procs : call[p].pc = "encrypt" =>
        PeerIdentity(call[p].sess) \notin call[p].barred

(* "Such a device is always skipped regardless of a resolver" (errors.go):  *)
(* a rejection stays until the user takes it back; no action here does.    *)
BlockSticks ==
    [][\A d \in Devices, ik \in IdentityKeys :
          /\ store[d].trust[ik] = "untrusted"
          /\ store'[d].identityKey = store[d].identityKey
          => store'[d].trust[ik] = "untrusted"]_vars

(* A goroutine that waits for a device lock waits for one that is at work   *)
(* on that very device and waits for no lock itself: every early return,    *)
(* failed store call, declining resolver and crash has released the lock it *)
(* held, and no two calls wait for each other.                              *)
WaitsForWork ==
    \A p \in Procs : call[p].pc \in WaitPCs /\ ~Free(p) =>
        \E q \in Procs : /\ Home[q] = Home[p] /\ call[q].dev = call[p].dev
                         /\ call[q].pc \in LockedPCs

(* "Encrypting or decrypting for different devices proceeds independently": *)
(* a call is through with a device unless a TrustResolver is being waited   *)
(* for on the very same device of the very same Manager.                    *)
Waiting(p) == \E q \in Procs : /\ call[q].pc = "resolve"
                               /\ Home[q] = Home[p] /\ call[q].dev = call[p].dev

CallsReturn == \A p \in Procs :
    (call[p].pc # "idle") ~> (call[p].pc \in {"idle", "enveloped"} \/ Waiting(p))
=============================================================================
