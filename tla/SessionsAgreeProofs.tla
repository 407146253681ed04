------------------------ MODULE SessionsAgreeProofs -------------------------
(***************************************************************************)
(* The two ends of a session agree: the IDs in a handshake lead the        *)
(* installation it was made for to the keys the initiator used, and what   *)
(* the far end of a session encrypts opens.                                *)
(***************************************************************************)
EXTENDS SessionsProofs

-----------------------------------------------------------------------------
(* The invariant *)

(* The counters of a Store are bounded by the key pairs generated, so that  *)
(* no uint32 has wrapped; IDs grow.                                         *)
IdsOK(d) ==
    /\ store[d].nextPreKeyID < fresh[d] /\ store[d].currentSPK.id <= fresh[d]
    /\ \A i \in Ids : store[d].preKeys[i] # None => i <= store[d].nextPreKeyID
    /\ store[d].staleSPK # None => store[d].staleSPK.id < store[d].currentSPK.id

(* An ID that the present installation of d has given out for a key leads   *)
(* to that key or, when the prekey has been used or dropped, to nothing.    *)
PreKeyOK(d, id, k) == id <= store[d].nextPreKeyID /\ store[d].preKeys[id] \in {None, k}

SpkOK(d, id, k) ==
    /\ id <= store[d].currentSPK.id
    /\ id = store[d].currentSPK.id => k = store[d].currentSPK.key
    /\ store[d].staleSPK # None /\ id = store[d].staleSPK.id => k = store[d].staleSPK.key

(* Nobody refers to an installation of d that is still to come, and who     *)
(* refers to the present one has IDs from it.                               *)
Since(d, ik, P) == ik[2] <= store[d].identityKey[2] /\ (ik = store[d].identityKey => P)

BundleOK(d, b) ==
    Since(d, b.identityKey,
          /\ SpkOK(d, b.signedPreKey.id, b.signedPreKey.key)
          /\ b.preKey # None => PreKeyOK(d, b.preKey.id, b.preKey.key))

KxOK(d, kx, r) ==
    Since(d, r.resp, SpkOK(d, kx.signedPreKeyID, r.spk) /\ PreKeyOK(d, kx.preKeyID, r.opk))

(* The IDs that are around: published, in a handshake under way or made.    *)
RefsInv ==
    \A d \in Devices :
        /\ IdsOK(d)
        /\ BundleOK(d, bundles[d])
        /\ \A p \in Procs : call[p].pc \in SendPCs /\ call[p].kx # None /\ call[p].dev = d
              => KxOK(d, call[p].kx, call[p].sess.root)
        /\ \A m \in made : m.kx # None /\ m.to = d => KxOK(d, m.kx, m.data.root)

(* The session a responder has made of a handshake is the initiator's, if   *)
(* the handshake is for this installation.                                  *)
Mine(p) == call[p].msg.data.root.resp = store[Home[p]].identityKey

HandshakeOK(p) ==
    /\ call[p].pc = "consume" /\ Mine(p) => call[p].spk = call[p].msg.data.root.spk
    /\ call[p].pc \in {"identify", "decrypt"} /\ call[p].msg.kx # None =>
          /\ call[p].sess.role = "passive" /\ call[p].sess.recv = {}
          /\ call[p].sess.root.ini = call[p].msg.kx.identityKey
          /\ Mine(p) => call[p].sess.root = call[p].msg.data.root

HandshakeInv == \A p \in Procs : HandshakeOK(p)

(* A position has one message, and a session remembers opened messages.     *)
UniqueInv ==
    \A m, n \in made : m.data.root = n.data.root /\ m.data.from = n.data.from /\ m.data.n = n.data.n => m = n

ReceivedOK(s) ==
    \A n \in s.recv : \E m \in opened :
        m.data.root = s.root /\ m.data.from # s.role /\ m.data.n = n

ReceivedInv == \A d, e \in Devices : \A s \in InHand(d, e) : ReceivedOK(s)

AgreeInv == RefsInv /\ HandshakeInv /\ UniqueInv /\ ReceivedInv

-----------------------------------------------------------------------------
(* What a step does to the prekeys of a Store *)

SameIds(s, t) ==
    /\ t.identityKey = s.identityKey
    /\ t.currentSPK = s.currentSPK /\ t.staleSPK = s.staleSPK /\ t.nextPreKeyID = s.nextPreKeyID
    /\ \A i \in Ids : t.preKeys[i] \in {s.preKeys[i], None}

IdMove(d) == \/ SameIds(store[d], store'[d])
             \/ RotateSignedPreKey(d) \/ GenerateOneTimePreKey(d)
             \/ Reinstall(d)

(* Only maintenance and reinstallation give out IDs.                        *)
LEMMA SameIdsOps ==
    ASSUME NEW s \in Stores, NEW e, NEW x, NEW t
    PROVE  /\ SameIds(s, s)
           /\ SameIds(s, PutSession(s, e, x)) /\ SameIds(s, DeleteSession(s, e))
           /\ SameIds(s, SetTrust(s, x, t)) /\ SameIds(s, PutRemoteIdentityKey(s, e, x))
           /\ SameIds(s, ConsumePreKey(s, x))
  <1>1. /\ SameIds(s, s)
        /\ SameIds(s, PutSession(s, e, x)) /\ SameIds(s, DeleteSession(s, e))
    BY DEF SameIds, PutSession, DeleteSession, Stores
  <1>2. SameIds(s, SetTrust(s, x, t)) /\ SameIds(s, PutRemoteIdentityKey(s, e, x))
    BY DEF SameIds, SetTrust, PutRemoteIdentityKey, Stores
  <1>3. SameIds(s, ConsumePreKey(s, x))
    BY DEF SameIds, ConsumePreKey, Stores
  <1> QED BY <1>1, <1>2, <1>3

(* Every step changes the prekeys of every Store as IdMove says.            *)
LEMMA IdStep ==
    ASSUME TypeOK, [Next]_vars
    PROVE  \A d \in Devices : IdMove(d)
  <1> DEFINE Done == \A d \in Devices : IdMove(d)
  <1>1. CASE UNCHANGED store
    BY <1>1, SameIdsOps, Parts DEF IdMove
  <1>2. ASSUME NEW d \in Devices, NEW t, store' = [store EXCEPT ![d] = t],
               SameIds(store[d], t) \/ RotateSignedPreKey(d) \/ GenerateOneTimePreKey(d) \/ Reinstall(d)
        PROVE  Done
    <2> SUFFICES ASSUME NEW c \in Devices PROVE IdMove(c)
      OBVIOUS
    <2>1. CASE c = d
      BY <1>2, <2>1 DEF IdMove, TypeOK
    <2>2. CASE c # d
      <3>1. store'[c] = store[c]
        BY <1>2, <2>2 DEF TypeOK
      <3> QED BY <3>1, SameIdsOps, Parts DEF IdMove
    <2> QED BY <2>1, <2>2
  <1>3. ASSUME NEW p \in Procs, Reset(p) PROVE Done
    <2>1. SameIds(store[Home[p]], DeleteSession(store[Home[p]], call[p].dev))
      BY Parts, SameIdsOps
    <2>2. store' = [store EXCEPT ![Home[p]] = DeleteSession(store[Home[p]], call[p].dev)]
      BY <1>3 DEF Reset
    <2> QED BY <1>2, <2>1, <2>2, Parts
  <1>4. ASSUME NEW p \in Procs, FetchBundle(p) PROVE Done
    <2>1. PICK x : store' = [store EXCEPT ![Home[p]] = PutRemoteIdentityKey(store[Home[p]], call[p].dev, x)]
      BY <1>4 DEF FetchBundle
    <2>2. SameIds(store[Home[p]], PutRemoteIdentityKey(store[Home[p]], call[p].dev, x))
      BY Parts, SameIdsOps
    <2> QED BY <1>2, <2>1, <2>2, Parts
  <1>5. ASSUME NEW p \in Procs, EncryptAndPut(p) PROVE Done
    <2>1. PICK x : store' = [store EXCEPT ![Home[p]] = PutSession(store[Home[p]], call[p].dev, x)]
      BY <1>5 DEF EncryptAndPut
    <2>2. SameIds(store[Home[p]], PutSession(store[Home[p]], call[p].dev, x))
      BY Parts, SameIdsOps
    <2> QED BY <1>2, <2>1, <2>2, Parts
  <1>6. ASSUME NEW p \in Procs, Consume(p) PROVE Done
    <2>1. PICK x : UNCHANGED store \/ store' = [store EXCEPT ![Home[p]] = ConsumePreKey(store[Home[p]], x)]
      BY <1>6 DEF Consume
    <2>2. SameIds(store[Home[p]], ConsumePreKey(store[Home[p]], x))
      BY Parts, SameIdsOps
    <2> QED BY <1>1, <1>2, <2>1, <2>2, Parts
  <1>7. ASSUME NEW p \in Procs, Identify(p) PROVE Done
    <2>1. PICK e, x : store' = [store EXCEPT ![Home[p]] = PutRemoteIdentityKey(store[Home[p]], e, x)]
      BY <1>7 DEF Identify
    <2>2. SameIds(store[Home[p]], PutRemoteIdentityKey(store[Home[p]], e, x))
      BY Parts, SameIdsOps
    <2> QED BY <1>2, <2>1, <2>2, Parts
  <1>8. ASSUME NEW p \in Procs, DecryptAndPut(p) PROVE Done
    <2>1. PICK e, x : UNCHANGED store \/ store' = [store EXCEPT ![Home[p]] = PutSession(store[Home[p]], e, x)]
      BY <1>8 DEF DecryptAndPut
    <2>2. SameIds(store[Home[p]], PutSession(store[Home[p]], e, x))
      BY Parts, SameIdsOps
    <2> QED BY <1>1, <1>2, <2>1, <2>2, Parts
  <1>9. ASSUME NEW p \in Procs, ResolverTrusts(p) PROVE Done
    <2>1. PICK x : store' = [store EXCEPT ![Home[p]] = SetTrust(store[Home[p]], x, "trusted")]
      BY <1>9 DEF ResolverTrusts
    <2>2. SameIds(store[Home[p]], SetTrust(store[Home[p]], x, "trusted"))
      BY Parts, SameIdsOps
    <2> QED BY <1>2, <2>1, <2>2, Parts
  <1>10. ASSUME NEW d \in Devices, NEW ik \in IdentityKeys, UserBlocks(d, ik) PROVE Done
    <2>1. store' = [store EXCEPT ![d] = SetTrust(store[d], ik, "untrusted")]
      BY <1>10 DEF UserBlocks
    <2>2. SameIds(store[d], SetTrust(store[d], ik, "untrusted"))
      BY Parts, SameIdsOps
    <2> QED BY <1>2, <2>1, <2>2
  <1>11. ASSUME NEW d \in Devices, RotateSignedPreKey(d) \/ GenerateOneTimePreKey(d) \/ Reinstall(d)
         PROVE  Done
    <2>1. \E t : store' = [store EXCEPT ![d] = t]
      BY <1>11 DEF RotateSignedPreKey, GenerateOneTimePreKey, Reinstall
    <2> QED BY <1>2, <1>11, <2>1
  <1>12. ASSUME NEW p \in Procs,
                \/ Begin(p) \/ EncryptLock(p) \/ DecryptLock(p) \/ FetchFails(p) \/ CheckTrust(p)
                \/ ResolverDeclines(p) \/ CallFails(p) \/ DecryptPayload(p) \/ ReturnEnvelope(p)
         PROVE  Done
    BY <1>1, <1>12 DEF Begin, BeginEncrypt, BeginReset, BeginDecrypt, EncryptLock, DecryptLock,
                       FetchFails, CheckTrust, ResolverDeclines, CallFails, DecryptPayload, ReturnEnvelope
  <1>13. ASSUME NEW d \in Devices, PublishBundle(d) \/ Restart(d) PROVE Done
    BY <1>1, <1>13 DEF PublishBundle, Restart
  <1>14. CASE UNCHANGED vars
    BY <1>1, <1>14 DEF vars
  <1> QED BY <1>3, <1>4, <1>5, <1>6, <1>7, <1>8, <1>9, <1>10, <1>11, <1>12, <1>13, <1>14
          DEF Next, LockStep, Step, ResolverStep, Maintenance, Environment

(* Below the bound the uint32 increment does not wrap.                       *)
LEMMA NoWrap ==
    ASSUME NEW i \in Nat, NEW n \in Nat, i <= n, n < MaxKeys
    PROVE  (i + 1) % IdSpace = i + 1
  <1>1. i + 1 < IdSpace /\ IdSpace \in Nat /\ IdSpace > 0
    BY SessionsAssumption, IdSpaceAssumption
  <1> QED BY <1>1

(* What an ID leads to never changes, as long as the installation lasts.    *)
LEMMA RefStep ==
    ASSUME TypeOK, TypeOK', NEW d \in Devices, IdsOK(d), IdMove(d), StoreMove(d), ~Reinstall(d)
    PROVE  /\ IdsOK(d)' /\ store'[d].identityKey = store[d].identityKey
           /\ \A id \in Ids, k \in Keys : PreKeyOK(d, id, k) => PreKeyOK(d, id, k)'
           /\ \A id \in Ids, k \in Keys : SpkOK(d, id, k) => SpkOK(d, id, k)'
  <1>1. /\ store[d] \in Stores /\ store'[d] \in Stores /\ fresh[d] \in Nat /\ fresh'[d] \in Nat
        /\ fresh[d] <= fresh'[d]
    BY DEF TypeOK, StoreMove
  <1>2. /\ store[d].nextPreKeyID \in Nat /\ store[d].nextPreKeyID \in Ids
        /\ store[d].currentSPK \in SPKs /\ store[d].currentSPK.id \in Nat /\ store[d].currentSPK.id \in Ids
        /\ store[d].staleSPK # None => store[d].staleSPK.id \in Nat
        /\ \A i \in Ids : i \in Nat
    BY <1>1, StoreParts, IdSpaceAssumption DEF Ids, SPKs
  <1>3. CASE SameIds(store[d], store'[d])
    <2>1. /\ store'[d].identityKey = store[d].identityKey
          /\ store'[d].currentSPK = store[d].currentSPK /\ store'[d].staleSPK = store[d].staleSPK
          /\ store'[d].nextPreKeyID = store[d].nextPreKeyID
          /\ \A i \in Ids : store'[d].preKeys[i] \in {store[d].preKeys[i], None}
      BY <1>3 DEF SameIds
    <2>2. IdsOK(d)'
      BY <1>1, <1>2, <2>1 DEF IdsOK
    <2> QED BY <2>1, <2>2 DEF PreKeyOK, SpkOK
  <1>4. CASE RotateSignedPreKey(d)
    <2>1. PICK n : n = [id |-> (store[d].currentSPK.id + 1) % IdSpace, key |-> <<d, fresh[d]>>,
                         signer |-> store[d].identityKey]
      OBVIOUS
    <2>2. fresh[d] < MaxKeys /\ fresh'[d] = fresh[d] + 1 /\ store'[d] = RotateSPK(store[d], n)
      BY <1>4, <2>1 DEF RotateSignedPreKey, TypeOK
    <2>3. (store[d].currentSPK.id + 1) % IdSpace = store[d].currentSPK.id + 1
      BY <1>1, <1>2, <2>2, NoWrap DEF IdsOK
    <2>4. store[d].currentSPK # None
      BY <1>2, NoneAssumption
    <2>5. /\ store'[d].identityKey = store[d].identityKey /\ store'[d].currentSPK = n /\ store'[d].staleSPK = store[d].currentSPK
          /\ store'[d].nextPreKeyID = store[d].nextPreKeyID /\ store'[d].preKeys = store[d].preKeys
      BY <1>1, <2>2, <2>4 DEF RotateSPK, Stores
    <2>6. n.id = store[d].currentSPK.id + 1
      BY <2>1, <2>3
    <2>7. IdsOK(d)'
      BY <1>1, <1>2, <2>2, <2>5, <2>6 DEF IdsOK
    <2>8. \A id \in Ids, k \in Keys : PreKeyOK(d, id, k) => PreKeyOK(d, id, k)'
      BY <2>5 DEF PreKeyOK
    <2>9. \A id \in Ids, k \in Keys : SpkOK(d, id, k) => SpkOK(d, id, k)'
      BY <1>2, <2>5, <2>6 DEF SpkOK
    <2> QED BY <2>5, <2>7, <2>8, <2>9
  <1>5. CASE GenerateOneTimePreKey(d)
    <2>1. PICK i, k : i = NextPreKeyID(store[d]) /\ k = <<d, fresh[d]>>
      OBVIOUS
    <2>2. /\ fresh[d] < MaxKeys /\ fresh'[d] = fresh[d] + 1
          /\ store'[d] = PutPreKeys(AllocPreKeyID(store[d]), [NoPreKeys EXCEPT ![i] = k])
      BY <1>5, <2>1 DEF GenerateOneTimePreKey, TypeOK
    <2>3. i = store[d].nextPreKeyID + 1
      <3>1. store[d].nextPreKeyID <= fresh[d]
        BY <1>1, <1>2 DEF IdsOK
      <3> QED BY <1>1, <1>2, <2>1, <2>2, <3>1, NoWrap DEF NextPreKeyID
    <2>4. k \in Keys
      BY <1>1, <2>1 DEF Keys
    <2>5. i \in Ids /\ store'[d].preKeys = [store[d].preKeys EXCEPT ![i] = k]
      BY <1>1, <2>1, <2>2, <2>4, GenerateOp
    <2>6. /\ store'[d].identityKey = store[d].identityKey
          /\ store'[d].currentSPK = store[d].currentSPK /\ store'[d].staleSPK = store[d].staleSPK
          /\ store'[d].nextPreKeyID = i
      BY <1>1, <2>1, <2>2 DEF PutPreKeys, AllocPreKeyID, Stores
    <2>7. \A j \in Ids : store'[d].preKeys[j] = IF j = i THEN k ELSE store[d].preKeys[j]
      BY <1>1, <2>5, StoreParts
    <2>8. IdsOK(d)'
      <3>1. store'[d].nextPreKeyID < fresh'[d] /\ store'[d].currentSPK.id <= fresh'[d]
        BY <1>1, <1>2, <2>2, <2>3, <2>6 DEF IdsOK
      <3>2. ASSUME NEW j \in Ids, store'[d].preKeys[j] # None PROVE j <= store'[d].nextPreKeyID
        <4>1. j \in Nat /\ (j # i => store[d].preKeys[j] # None)
          BY <1>2, <2>7, <3>2
        <4>2. j # i => j <= store[d].nextPreKeyID
          BY <4>1 DEF IdsOK
        <4> QED BY <1>2, <2>3, <2>6, <4>1, <4>2
      <3>3. store'[d].staleSPK # None => store'[d].staleSPK.id < store'[d].currentSPK.id
        BY <2>6 DEF IdsOK
      <3> QED BY <3>1, <3>2, <3>3 DEF IdsOK
    <2>9. \A id \in Ids, key \in Keys : PreKeyOK(d, id, key) => PreKeyOK(d, id, key)'
      BY <1>2, <2>3, <2>6, <2>7 DEF PreKeyOK
    <2>10. \A id \in Ids, key \in Keys : SpkOK(d, id, key) => SpkOK(d, id, key)'
      BY <2>6 DEF SpkOK
    <2> QED BY <2>6, <2>8, <2>9, <2>10
  <1> QED BY <1>3, <1>4, <1>5 DEF IdMove

(* A new installation starts with IDs of its own, and is one that nobody    *)
(* has referred to.                                                         *)
LEMMA NewInstallation ==
    ASSUME TypeOK, NEW d \in Devices, Reinstall(d)
    PROVE  /\ IdsOK(d)'
           /\ store[d].identityKey[2] < store'[d].identityKey[2]
           /\ store[d].identityKey[2] \in Nat /\ store'[d].identityKey[2] \in Nat
  <1>1. /\ store[d] \in Stores /\ fresh[d] \in Nat
        /\ store[d].identityKey[2] \in Nat
    BY Parts, StoreParts DEF IdentityKeys, Gens
  <1>2. PICK g, k : g = store[d].identityKey[2] + 1 /\ k = fresh[d]
    OBVIOUS
  <1>3. store' = [store EXCEPT ![d] = NewStore(d, g, k)] /\ fresh' = [fresh EXCEPT ![d] = @ + KeysPerStore]
    BY <1>2 DEF Reinstall
  <1>4. store'[d] = NewStore(d, g, k) /\ fresh'[d] = fresh[d] + KeysPerStore
    BY <1>3 DEF TypeOK
  <1>5. /\ store'[d].identityKey = <<d, g>>
        /\ store'[d].currentSPK.id = 1 /\ store'[d].staleSPK = None /\ store'[d].nextPreKeyID = PoolSize
        /\ \A i \in Ids : store'[d].preKeys[i] # None => i \in 1 .. PoolSize
    BY <1>4 DEF NewStore
  <1>6. PoolSize \in Nat /\ KeysPerStore = PoolSize + 1 /\ \A i \in 1 .. PoolSize : i <= PoolSize
    BY SessionsAssumption DEF KeysPerStore
  <1>7. IdsOK(d)'
    BY <1>1, <1>4, <1>5, <1>6 DEF IdsOK
  <1> QED BY <1>1, <1>2, <1>5, <1>7

-----------------------------------------------------------------------------
(* The two steps that make sessions *)

(* FetchBundle makes its session, and the KeyExchange, of what is published.*)
LEMMA FetchStep ==
    ASSUME Inv, NEW p \in Procs, FetchBundle(p)
    PROVE  LET c == call'[p]
               b == bundles[call[p].dev]
           IN /\ call[p].dev \in Devices /\ call[p].pc = "fetch" /\ b \in Bundles /\ b.preKey # None
              /\ c.pc = "trust" /\ c.dev = call[p].dev /\ c.barred = call[p].barred
              /\ c.sess.role = "active" /\ c.sess.root.resp = b.identityKey
              /\ c.kx.signedPreKeyID = b.signedPreKey.id /\ c.sess.root.spk = b.signedPreKey.key
              /\ c.kx.preKeyID = b.preKey.id /\ c.sess.root.opk = b.preKey.key
  <1>1. PICK d, e : d = Home[p] /\ e = call[p].dev
    OBVIOUS
  <1>2. e \in Devices /\ d \in Devices /\ fresh[d] \in Nat /\ call[p].pc = "fetch"
    BY <1>1, Parts DEF FetchBundle, Inv, CallInv, CallOK
  <1>3. PICK b, ek, ik : b = bundles[e] /\ ek = <<d, fresh[d]>> /\ ik = store[d].identityKey
    OBVIOUS
  <1>4. b \in Bundles /\ b.preKey # None /\ ek \in Keys /\ ik \in IdentityKeys
    BY <1>1, <1>2, <1>3, Parts, StoreParts DEF FetchBundle, Keys, Inv
  <1>5. PICK n, kx : /\ n = NewActiveSession(ik, b, ek)
                     /\ kx = KeyExchange(ik, ek, b.signedPreKey.id, b.preKey.id)
    OBVIOUS
  <1>6. /\ n.role = "active" /\ n.root.resp = b.identityKey
        /\ kx.signedPreKeyID = b.signedPreKey.id /\ n.root.spk = b.signedPreKey.key
        /\ kx.preKeyID = b.preKey.id /\ n.root.opk = b.preKey.key
    BY <1>4, <1>5, ActiveSession
  <1>7. call' = [call EXCEPT ![p] = [call[p] EXCEPT !.pc = "trust", !.sess = n, !.kx = kx]]
    BY <1>1, <1>3, <1>5 DEF FetchBundle
  <1>8. /\ call'[p].pc = "trust" /\ call'[p].dev = e /\ call'[p].barred = call[p].barred
        /\ call'[p].sess = n /\ call'[p].kx = kx
    BY <1>1, <1>7, Parts DEF Inv, TypeOK, Calls
  <1> QED BY <1>1, <1>2, <1>3, <1>4, <1>6, <1>8

(* Consume makes its session of the handshake and of its own keys.          *)
LEMMA ConsumeStep ==
    ASSUME Inv, NEW p \in Procs, Consume(p), call'[p].pc = "identify"
    PROVE  LET c == call'[p]
               m == call[p].msg
               d == Home[p]
           IN /\ call[p].pc = "consume" /\ c.msg = m /\ c.dev = call[p].dev /\ m \in made /\ m.kx \in KeyExchanges
              /\ c.sess.role = "passive" /\ c.sess.recv = {} /\ c.sess.root \in Roots
              /\ c.sess.root.ini = m.kx.identityKey /\ c.sess.root.ek = m.kx.ephemeralKey
              /\ c.sess.root.resp = store[d].identityKey /\ c.sess.root.spk = call[p].spk
              /\ c.sess.root.opk = store[d].preKeys[m.kx.preKeyID]
              /\ store[d].preKeys[m.kx.preKeyID] # None
  <1>1. call[p].pc = "consume"
    BY DEF Consume
  <1>2. PICK d, m, kx, ik, spk, k :
           /\ d = Home[p] /\ m = call[p].msg /\ kx = HandshakeOf(m) /\ ik = store[d].identityKey
           /\ spk = call[p].spk /\ k = store[d].preKeys[kx.preKeyID]
    OBVIOUS
  <1>3. d \in Devices /\ m \in made /\ m.kx # None
    BY <1>1, <1>2, Parts DEF Inv, CallInv, CallOK, DecryptPCs, DeliveryInv
  <1>4. kx \in KeyExchanges /\ kx = m.kx /\ spk \in Keys
    BY <1>1, <1>2, <1>3, CallHandshake, Parts DEF Inv, CallInv, CallOK, KeyExchangeInv, DecryptPCs
  <1>5. call' # [call EXCEPT ![p] = Idle]
    BY DEF Inv, TypeOK, Idle
  <1>6. PICK n : n = NewPassiveSession(ik, kx, spk, k)
    OBVIOUS
  <1>7. k # None /\ call' = [call EXCEPT ![p] = [call[p] EXCEPT !.pc = "identify", !.sess = n]]
    BY <1>2, <1>5, <1>6 DEF Consume, Return
  <1>8. kx.preKeyID \in Ids /\ store[d] \in Stores
    BY <1>3, <1>4, Parts DEF KeyExchanges, Inv
  <1>9. k \in Keys /\ ik \in IdentityKeys
    BY <1>2, <1>7, <1>8, StoreParts
  <1>10. /\ n \in SessionStates /\ n.role = "passive" /\ n.recv = {} /\ n.root.ini = kx.identityKey
         /\ n.root.resp = ik /\ n.root.spk = spk /\ n.root.opk = k /\ n.root.ek = kx.ephemeralKey
    BY <1>4, <1>6, <1>9, PassiveSession
  <1>11. n.root \in Roots
    BY <1>10 DEF SessionStates
  <1>12. call'[p].sess = n /\ call'[p].msg = m /\ call'[p].dev = call[p].dev
    BY <1>2, <1>7, Parts DEF Inv, TypeOK, Calls
  <1> QED BY <1>1, <1>2, <1>3, <1>4, <1>7, <1>10, <1>11, <1>12

-----------------------------------------------------------------------------
(* The IDs that are around *)

(* A reference to device d stays good, whatever d does.                     *)
LEMMA RefKept ==
    ASSUME TypeOK, TypeOK', NEW d \in Devices, IdsOK(d), IdMove(d), StoreMove(d)
    PROVE  /\ IdsOK(d)'
           /\ \A kx \in KeyExchanges, r \in Roots : KxOK(d, kx, r) => KxOK(d, kx, r)'
           /\ \A b \in Bundles : BundleOK(d, b) => BundleOK(d, b)'
  <1>1. /\ \A r \in Roots : r.resp[2] \in Nat
        /\ \A b \in Bundles : b.identityKey[2] \in Nat
    BY DEF Roots, Bundles, IdentityKeys, Gens
  <1>2. CASE Reinstall(d)
    <2>1. /\ IdsOK(d)' /\ store[d].identityKey[2] < store'[d].identityKey[2]
          /\ store[d].identityKey[2] \in Nat /\ store'[d].identityKey[2] \in Nat
      BY <1>2, NewInstallation
    <2>2. ASSUME NEW ik, ik[2] \in Nat, ik[2] <= store[d].identityKey[2]
          PROVE  ik[2] <= store'[d].identityKey[2] /\ ik # store'[d].identityKey
      BY <2>1, <2>2
    <2> QED BY <1>1, <2>1, <2>2 DEF KxOK, BundleOK, Since
  <1>3. CASE ~Reinstall(d)
    <2>1. /\ IdsOK(d)' /\ store'[d].identityKey = store[d].identityKey
          /\ \A id \in Ids, k \in Keys : PreKeyOK(d, id, k) => PreKeyOK(d, id, k)'
          /\ \A id \in Ids, k \in Keys : SpkOK(d, id, k) => SpkOK(d, id, k)'
      BY <1>3, RefStep
    <2>2. ASSUME NEW kx \in KeyExchanges, NEW r \in Roots, KxOK(d, kx, r) PROVE KxOK(d, kx, r)'
      <3>1. PICK i, j, k, l : i = kx.signedPreKeyID /\ j = kx.preKeyID /\ k = r.spk /\ l = r.opk
        OBVIOUS
      <3>2. i \in Ids /\ j \in Ids /\ k \in Keys /\ l \in Keys
        BY <3>1 DEF KeyExchanges, Roots
      <3>3. SpkOK(d, i, k) /\ PreKeyOK(d, j, l) => SpkOK(d, i, k)' /\ PreKeyOK(d, j, l)'
        BY <2>1, <3>2
      <3> QED BY <2>1, <2>2, <3>1, <3>3 DEF KxOK, Since
    <2>3. ASSUME NEW b \in Bundles, BundleOK(d, b) PROVE BundleOK(d, b)'
      <3>1. PICK i, k, j, l :
               i = b.signedPreKey.id /\ k = b.signedPreKey.key /\ j = b.preKey.id /\ l = b.preKey.key
        OBVIOUS
      <3>2. i \in Ids /\ k \in Keys /\ (b.preKey # None => j \in Ids /\ l \in Keys)
        BY <3>1 DEF Bundles, SPKs, PreKeyRefs
      <3>3. /\ SpkOK(d, i, k) => SpkOK(d, i, k)'
            /\ b.preKey # None /\ PreKeyOK(d, j, l) => PreKeyOK(d, j, l)'
        BY <2>1, <3>2
      <3> QED BY <2>1, <2>3, <3>1, <3>3 DEF BundleOK, Since
    <2> QED BY <2>1, <2>2, <2>3
  <1> QED BY <1>2, <1>3

(* The IDs go on leading where they led.                                    *)
LEMMA RefsStep ==
    ASSUME Inv, RefsInv, TypeOK', \A d \in Devices : StoreMove(d) /\ IdMove(d), SharedMove,
           \A p \in Procs : CallOK(p)' /\ CallMove(p)
    PROVE  RefsInv'
  <1> USE DEF Inv
  <1> SUFFICES ASSUME NEW d \in Devices
               PROVE  /\ IdsOK(d)'
                      /\ BundleOK(d, bundles[d])'
                      /\ \A p \in Procs : call'[p].pc \in SendPCs /\ call'[p].kx # None /\ call'[p].dev = d
                            => KxOK(d, call[p].kx, call[p].sess.root)'
                      /\ \A m \in made' : m.kx # None /\ m.to = d => KxOK(d, m.kx, m.data.root)'
    BY DEF RefsInv
  <1>1. IdsOK(d) /\ store[d] \in Stores /\ bundles[d] \in Bundles
    BY Parts DEF RefsInv
  <1>2. /\ IdsOK(d)'
        /\ \A kx \in KeyExchanges, r \in Roots : KxOK(d, kx, r) => KxOK(d, kx, r)'
        /\ \A b \in Bundles : BundleOK(d, b) => BundleOK(d, b)'
    BY <1>1, RefKept
  <1>3. ASSUME NEW kx \in KeyExchanges, NEW r \in Roots, KxOK(d, kx, r) PROVE KxOK(d, kx, r)'
    BY <1>2, <1>3
  <1>4. PICK b : b = bundles'[d]
    OBVIOUS
  <1>5. BundleOK(d, b)'
    <2>1. CASE bundles'[d] = bundles[d]
      <3>1. b \in Bundles /\ BundleOK(d, b)
        BY <1>1, <1>4, <2>1 DEF RefsInv
      <3> QED BY <1>2, <3>1
    <2>2. CASE bundles'[d] \in BundleOf(store[d]) /\ UNCHANGED <<store, fresh>>
      <3>1. /\ b.identityKey = store[d].identityKey /\ b.signedPreKey = store[d].currentSPK
            /\ b.preKey # None =>
                 \E i \in Ids : store[d].preKeys[i] # None /\ b.preKey.id = i /\ b.preKey.key = store[d].preKeys[i]
        BY <1>1, <1>4, <2>2, BundleType
      <3>2. /\ store[d].currentSPK.id \in Nat
            /\ store[d].staleSPK # None => store[d].staleSPK.id \in Nat
            /\ store[d].identityKey[2] \in Nat
        BY <1>1, StoreParts, IdSpaceAssumption DEF SPKs, Ids, IdentityKeys, Gens
      <3>3. SpkOK(d, store[d].currentSPK.id, store[d].currentSPK.key)
        BY <1>1, <3>2 DEF SpkOK, IdsOK
      <3>4. b.preKey # None => PreKeyOK(d, b.preKey.id, b.preKey.key)
        BY <1>1, <3>1 DEF PreKeyOK, IdsOK
      <3>5. BundleOK(d, b)
        BY <3>1, <3>2, <3>3, <3>4 DEF BundleOK, Since
      <3> QED BY <2>2, <3>5 DEF BundleOK, Since, PreKeyOK, SpkOK
    <2> QED BY <2>1, <2>2 DEF SharedMove
  <1>6. ASSUME NEW p \in Procs, call'[p].pc \in SendPCs, call'[p].kx # None, call'[p].dev = d
        PROVE  KxOK(d, call[p].kx, call[p].sess.root)'
    <2>1. PICK kx, r : kx = call'[p].kx /\ r = call'[p].sess.root
      OBVIOUS
    <2>2. kx \in KeyExchanges /\ r \in Roots
      <3>1. call'[p] \in Calls /\ call'[p].sess # None
        BY <1>6 DEF TypeOK, CallOK, SessionPCs
      <3>2. call'[p].sess \in SessionStates /\ call'[p].kx \in KeyExchanges
        BY <1>6, <3>1 DEF Calls
      <3> QED BY <2>1, <3>2 DEF SessionStates
    <2>3. KxOK(d, kx, r)
      <3>1. CASE call'[p] = call[p] \/ GoesOn(p)
        <4>1. call[p].pc \in SendPCs /\ call[p].dev = d /\ kx = call[p].kx /\ r = call[p].sess.root
          BY <1>6, <2>1, <3>1 DEF GoesOn, SendPCs
        <4> QED BY <1>6, <2>1, <4>1 DEF RefsInv
      <3>2. CASE FetchBundle(p)
        <4>1. /\ bundles[d].preKey # None /\ r.resp = bundles[d].identityKey
              /\ kx.signedPreKeyID = bundles[d].signedPreKey.id /\ r.spk = bundles[d].signedPreKey.key
              /\ kx.preKeyID = bundles[d].preKey.id /\ r.opk = bundles[d].preKey.key
          BY <1>6, <2>1, <3>2, FetchStep
        <4> QED BY <4>1 DEF RefsInv, BundleOK, KxOK, Since
      <3>3. CASE Loads(p)
        BY <1>6, <3>3 DEF Loads, SendPCs
      <3> QED BY <1>6, <3>1, <3>2, <3>3 DEF CallMove, Ends, Opens, Looks, SendPCs, WaitPCs
    <2>4. KxOK(d, kx, r)'
      BY <1>3, <2>2, <2>3
    <2> QED BY <2>1, <2>4 DEF KxOK, Since
  <1>7. ASSUME NEW m \in made', m.kx # None, m.to = d PROVE KxOK(d, m.kx, m.data.root)'
    <2>1. m.kx \in KeyExchanges /\ m.data.root \in Roots
      BY <1>7 DEF TypeOK, Messages, Data
    <2>2. CASE m \in made
      BY <1>3, <1>7, <2>1, <2>2 DEF RefsInv
    <2>3. ASSUME NEW p \in Procs, EncryptAndPut(p), m \notin made PROVE KxOK(d, m.kx, m.data.root)'
      <3>1. m.to = call[p].dev /\ m.kx = call[p].kx /\ m.data.root = call[p].sess.root
        BY <2>3, SendStep
      <3>2. call[p].pc = "encrypt"
        BY <2>3 DEF EncryptAndPut
      <3>3. KxOK(d, m.kx, m.data.root)
        BY <1>7, <3>1, <3>2 DEF RefsInv, SendPCs
      <3> QED BY <1>3, <2>1, <3>3
    <2> QED BY <2>2, <2>3 DEF SharedMove
  <1>8. BundleOK(d, bundles[d])'
    BY <1>4, <1>5 DEF BundleOK, Since, SpkOK, PreKeyOK
  <1> QED BY <1>2, <1>6, <1>7, <1>8

-----------------------------------------------------------------------------
(* Handshakes *)

(* signedPreKeyByID finds the signed prekey that the initiator used.        *)
LEMMA LookupOp ==
    ASSUME NEW d, NEW id, NEW k, SpkOK(d, id, k), SignedPreKeyByID(store[d], id) # None
    PROVE  SignedPreKeyByID(store[d], id) = k
  <1>1. CASE store[d].currentSPK.id = id
    BY <1>1 DEF SignedPreKeyByID, SpkOK
  <1>2. CASE store[d].currentSPK.id # id /\ store[d].staleSPK # None /\ store[d].staleSPK.id = id
    BY <1>2 DEF SignedPreKeyByID, SpkOK
  <1>3. CASE store[d].currentSPK.id # id /\ ~(store[d].staleSPK # None /\ store[d].staleSPK.id = id)
    BY <1>3 DEF SignedPreKeyByID
  <1> QED BY <1>1, <1>2, <1>3

(* An installation makes the initiator's session of a handshake for it.     *)
LEMMA SameSession ==
    ASSUME Inv, RefsInv, HandshakeInv, NEW p \in Procs, Consume(p), call'[p].pc = "identify",
           Mine(p)
    PROVE  call'[p].sess.root = call[p].msg.data.root
  <1> USE DEF Inv
  <1>1. PICK d, m, r : d = Home[p] /\ m = call[p].msg /\ r = call'[p].sess.root
    OBVIOUS
  <1>2. /\ call[p].pc = "consume" /\ m \in made /\ m.kx \in KeyExchanges /\ r \in Roots
        /\ r.ini = m.kx.identityKey /\ r.ek = m.kx.ephemeralKey
        /\ r.resp = store[d].identityKey /\ r.spk = call[p].spk
        /\ r.opk = store[d].preKeys[m.kx.preKeyID] /\ store[d].preKeys[m.kx.preKeyID] # None
    BY <1>1, ConsumeStep
  <1>3. m.to = d /\ m.kx # None /\ d \in Devices
    BY <1>1, <1>2, Parts DEF CallInv, CallOK, DecryptPCs
  <1>4. PICK o \in Roots : o = m.data.root
    BY <1>2 DEF TypeOK, Messages, Data
  <1>5. /\ m.data.from = "active" /\ EndOf(m.from, m.to, m.data.from, o)
        /\ r.ini = o.ini /\ r.ek = o.ek
    BY <1>2, <1>3, <1>4 DEF MessageInv, KeyExchangeInv, KeyExchangeOnFirst
  <1>6. r.spk = o.spk
    BY <1>1, <1>2, <1>3, <1>4 DEF HandshakeInv, HandshakeOK
  <1>7. r.resp = o.resp
    BY <1>1, <1>2, <1>4 DEF Mine
  <1>8. r.opk = o.opk
    BY <1>2, <1>3, <1>4, <1>7 DEF RefsInv, KxOK, Since, PreKeyOK
  <1>9. r = o
    BY <1>2, <1>4, <1>5, <1>6, <1>7, <1>8 DEF Roots
  <1> QED BY <1>1, <1>4, <1>9

(* A reinstalled device has forgotten its calls.                            *)
LEMMA ReinstallEnds ==
    ASSUME Inv, NEW d, Reinstall(d), NEW p \in Procs, Home[p] = d
    PROVE  call'[p].pc = "idle"
  BY DEF Reinstall, Dead, Idle

(* The session of a handshake is the initiator's, at the right installation.*)
LEMMA HandshakeStep ==
    ASSUME Inv, RefsInv, HandshakeInv, TypeOK', \A d \in Devices : StoreMove(d) /\ IdMove(d),
           \A p \in Procs : CallOK(p)' /\ CallMove(p)
    PROVE  HandshakeInv'
  <1> USE DEF Inv
  <1> SUFFICES ASSUME NEW p \in Procs PROVE HandshakeOK(p)'
    BY DEF HandshakeInv
  <1>0. ASSUME call'[p].pc # "idle"
        PROVE  store'[Home[p]].identityKey = store[Home[p]].identityKey
    <2>1. Home[p] \in Devices /\ ~Reinstall(Home[p])
      BY <1>0, Parts, ReinstallEnds
    <2> QED BY <2>1, RefStep DEF RefsInv
  <1>1. ASSUME call'[p].pc = "consume", Mine(p)'
        PROVE  call'[p].spk = call'[p].msg.data.root.spk
    <2>1. CASE call'[p] = call[p]
      BY <1>0, <1>1, <2>1 DEF HandshakeInv, HandshakeOK, Mine
    <2>2. CASE Looks(p)
      <3>1. PICK d, m : d = Home[p] /\ m = call[p].msg
        OBVIOUS
      <3>2. /\ call[p].pc = "decLock" /\ call'[p].msg = m /\ m.kx # None
            /\ call'[p].spk = SignedPreKeyByID(store[d], HandshakeOf(m).signedPreKeyID)
            /\ call'[p].spk # None
        BY <1>1, <2>2, <3>1 DEF Looks, CallOK
      <3>3. m \in made /\ m.to = d /\ HandshakeOf(m) = m.kx
        BY <3>1, <3>2, CallHandshake DEF CallInv, CallOK, DecryptPCs, KeyExchangeInv, DeliveryInv
      <3>4. m.data.root.resp = store[d].identityKey /\ d \in Devices
        BY <1>0, <1>1, <3>1, <3>2, Parts DEF Mine
      <3>5. SpkOK(d, m.kx.signedPreKeyID, m.data.root.spk)
        BY <3>2, <3>3, <3>4 DEF RefsInv, KxOK, Since
      <3> QED BY <3>2, <3>3, <3>5, LookupOp
    <2> QED BY <1>1, <2>1, <2>2, FetchStep DEF CallMove, Ends, Opens, Loads, GoesOn, WaitPCs, SendPCs
  <1>2. ASSUME call'[p].pc \in {"identify", "decrypt"}, call'[p].msg.kx # None
        PROVE  /\ call'[p].sess.role = "passive" /\ call'[p].sess.recv = {}
               /\ call'[p].sess.root.ini = call'[p].msg.kx.identityKey
               /\ Mine(p)' => call'[p].sess.root = call'[p].msg.data.root
    <2>1. CASE call'[p] = call[p]
      BY <1>0, <1>2, <2>1 DEF HandshakeInv, HandshakeOK, Mine
    <2>2. CASE GoesOn(p)
      <3>1. call[p].pc = "identify" /\ call'[p].sess = call[p].sess /\ call'[p].msg = call[p].msg
        BY <1>2, <2>2 DEF GoesOn, SendPCs
      <3> QED BY <1>0, <1>2, <3>1 DEF HandshakeInv, HandshakeOK, Mine
    <2>3. CASE Consume(p) /\ call'[p].pc = "identify"
      <3>1. /\ call'[p].msg = call[p].msg
            /\ call'[p].sess.role = "passive" /\ call'[p].sess.recv = {}
            /\ call'[p].sess.root.ini = call[p].msg.kx.identityKey
        BY <2>3, ConsumeStep
      <3>2. Mine(p)' => Mine(p)
        BY <1>0, <2>3, <3>1 DEF Mine
      <3> QED BY <2>3, <3>1, <3>2, SameSession
    <2>4. CASE Loads(p)
      BY <1>2, <2>4 DEF Loads
    <2> QED BY <1>2, <2>1, <2>2, <2>3, <2>4, FetchStep DEF CallMove, Ends, Opens, Looks, WaitPCs
  <1> QED BY <1>1, <1>2 DEF HandshakeOK

-----------------------------------------------------------------------------
(* What a session has opened *)

(* A position has one message.                                              *)
LEMMA UniqueStep ==
    ASSUME Inv, UniqueInv, TypeOK', SharedMove
    PROVE  UniqueInv'
  <1> USE DEF Inv
  <1>1. CASE made' = made
    BY <1>1 DEF UniqueInv
  <1>2. ASSUME NEW p \in Procs, EncryptAndPut(p) PROVE UniqueInv'
    <2>1. PICK m \in Messages :
            /\ made' = made \cup {m} /\ m.data.root = call[p].sess.root
            /\ m.data.from = call[p].sess.role /\ m.data.n = call[p].sess.sent
      BY <1>2, SendStep
    <2>2. call[p].pc = "encrypt"
      BY <1>2 DEF EncryptAndPut
    <2>3. Unused(call[p].sess) /\ call[p].sess.sent \in Nat
      BY <2>2, CallSession DEF SessionPCs, SendPCs, SessionOK, SessionStates
    <2>4. ASSUME NEW n \in made, n.data.root = m.data.root, n.data.from = m.data.from,
                 n.data.n = m.data.n
          PROVE  FALSE
      BY <2>1, <2>3, <2>4 DEF Unused
    <2> QED BY <2>1, <2>4 DEF UniqueInv
  <1> QED BY <1>1, <1>2 DEF SharedMove

(* What a session remembers has been opened.                                *)
LEMMA ReceivedStep ==
    ASSUME Inv, ReceivedInv, TypeOK', \A d \in Devices : StoreMove(d), SharedMove,
           \A p \in Procs : CallOK(p)' /\ CallMove(p),
           NEW d \in Devices, NEW e \in Devices, NEW s \in InHand(d, e)'
    PROVE  ReceivedOK(s)'
  <1> USE DEF Inv
  <1>1. ASSUME NEW p \in Procs, DecryptAndPut(p), Puts(p)
        PROVE  /\ CanDecrypt(call[p].sess, call[p].msg.data)
               /\ opened' = opened \cup {call[p].msg}
    BY <1>1 DEF DecryptAndPut, Puts, EncryptAndPut
  <1>2. opened \subseteq opened'
    BY <1>1 DEF SharedMove
  <1>3. ASSUME NEW p \in Procs, Home[p] = d, call[p].dev = e, Puts(p) PROVE ReceivedOK(s)'
    <2>1. s = store'[d].sessions[e]
      BY <1>3, PutAlone
    <2>2. PICK x, m : x = call[p].sess /\ m = call[p].msg
      OBVIOUS
    <2>3. /\ call[p].pc \in SessionPCs /\ s.root = x.root /\ s.role = x.role
          /\ EncryptAndPut(p) => s.recv = x.recv
          /\ DecryptAndPut(p) => s.recv = x.recv \cup {m.data.n}
      BY <1>3, <2>1, <2>2, PutStep
    <2>4. ReceivedOK(x)
      BY <1>3, <2>2, <2>3, CallSession DEF ReceivedInv
    <2>5. CASE EncryptAndPut(p)
      BY <1>2, <2>3, <2>4, <2>5 DEF ReceivedOK
    <2>6. CASE DecryptAndPut(p)
      <3>1. m \in opened' /\ m.data.root = s.root /\ m.data.from # s.role
        BY <1>1, <1>3, <2>2, <2>3, <2>6 DEF CanDecrypt
      <3> QED BY <1>2, <2>3, <2>4, <2>6, <3>1 DEF ReceivedOK
    <2> QED BY <1>3, <2>5, <2>6 DEF Puts
  <1>4. ASSUME \A p \in Procs : Puts(p) => ~(Home[p] = d /\ call[p].dev = e)
        PROVE  ReceivedOK(s)'
    <2>1. CASE s \in InHand(d, e)
      BY <1>2, <2>1 DEF ReceivedInv, ReceivedOK
    <2>2. ASSUME NEW p \in Procs, Home[p] = d, call[p].dev = e, s = call'[p].sess,
                 FetchBundle(p) \/ (Consume(p) /\ call'[p].pc = "identify")
          PROVE  ReceivedOK(s)'
      <3>1. s.recv = {}
        BY <2>2, NewActive, NewPassive
      <3> QED BY <3>1 DEF ReceivedOK
    <2> QED BY <1>4, <2>1, <2>2, HandStep
  <1> QED BY <1>3, <1>4

-----------------------------------------------------------------------------
(* The theorem *)

(* The IDs of a new Store lead to its keys, and nothing has been encrypted. *)
LEMMA InitAgree == Init => AgreeInv
  <1> SUFFICES ASSUME Init PROVE AgreeInv
    OBVIOUS
  <1>1. Inv
    BY InitInv
  <1>2. /\ call = [p \in Procs |-> Idle] /\ made = {} /\ opened = {}
        /\ fresh = [d \in Devices |-> KeysPerStore]
    BY DEF Init
  <1>3. ASSUME NEW d \in Devices
        PROVE  IdsOK(d) /\ BundleOK(d, bundles[d])
    <2>1. store[d] = NewStore(d, 1, 0) /\ bundles[d] \in BundleOf(store[d]) /\ store[d] \in Stores
      BY <1>1, Parts DEF Init, Inv
    <2>2. /\ store[d].currentSPK.id = 1 /\ store[d].staleSPK = None /\ store[d].nextPreKeyID = PoolSize
          /\ \A i \in Ids : store[d].preKeys[i] = IF i \in 1 .. PoolSize THEN <<d, 0 + i>> ELSE None
      BY <2>1 DEF NewStore
    <2>3. PoolSize \in Nat /\ fresh[d] = PoolSize + 1
      BY <1>2, SessionsAssumption DEF KeysPerStore
    <2>4. IdsOK(d)
      <3>1. \A i \in Ids : store[d].preKeys[i] # None => i \in 1 .. PoolSize
        BY <2>2
      <3>2. \A i \in 1 .. PoolSize : i <= PoolSize
        BY <2>3
      <3> QED BY <2>2, <2>3, <3>1, <3>2 DEF IdsOK
    <2>5. /\ bundles[d].identityKey = store[d].identityKey
          /\ bundles[d].signedPreKey = store[d].currentSPK
          /\ bundles[d].preKey # None =>
               \E i \in Ids : /\ store[d].preKeys[i] # None
                              /\ bundles[d].preKey.id = i /\ bundles[d].preKey.key = store[d].preKeys[i]
      BY <2>1, BundleType
    <2>6. SpkOK(d, bundles[d].signedPreKey.id, bundles[d].signedPreKey.key)
      BY <2>2, <2>5 DEF SpkOK
    <2>7. bundles[d].preKey # None => PreKeyOK(d, bundles[d].preKey.id, bundles[d].preKey.key)
      BY <2>4, <2>5 DEF PreKeyOK, IdsOK
    <2>8. store[d].identityKey[2] \in Nat
      BY <2>1, StoreParts DEF IdentityKeys, Gens
    <2> QED BY <2>4, <2>5, <2>6, <2>7, <2>8 DEF BundleOK, Since
  <1>4. RefsInv
    BY <1>2, <1>3 DEF RefsInv, Idle, SendPCs
  <1>5. HandshakeInv /\ UniqueInv
    BY <1>2 DEF HandshakeInv, HandshakeOK, UniqueInv, Idle
  <1>6. ReceivedInv
    <2>1. \A d, e \in Devices : store[d].sessions[e] = None
      <3> SUFFICES ASSUME NEW d \in Devices, NEW e \in Devices PROVE store[d].sessions[e] = None
        OBVIOUS
      <3>1. store[d] = NewStore(d, 1, 0)
        BY DEF Init
      <3> QED BY <3>1 DEF NewStore
    <2> QED BY <1>2, <2>1 DEF ReceivedInv, InHand, Idle, SessionPCs, SendPCs
  <1> QED BY <1>4, <1>5, <1>6 DEF AgreeInv

(* The agreement invariant is inductive, relative to Inv.                   *)
LEMMA AgreeStep == Inv /\ AgreeInv /\ [Next]_vars => AgreeInv'
  <1> SUFFICES ASSUME Inv, AgreeInv, [Next]_vars PROVE AgreeInv'
    OBVIOUS
  <1>1. KeyExchangeOnFirst /\ TypeOK /\ CallInv /\ KeysInv /\ MessageInv /\ DeliveryInv
    BY DEF Inv, KeyExchangeInv
  <1>2. TypeOK'
    BY <1>1, TypeStep
  <1>3. \A p \in Procs : CallOK(p)' /\ CallMove(p)
    BY <1>1, CallStep
  <1>4. (\A d \in Devices : StoreMove(d)) /\ SharedMove /\ (\A d \in Devices : IdMove(d))
    BY <1>1, <1>2, StoreStep, SharedStep, IdStep
  <1>5. RefsInv' /\ HandshakeInv' /\ UniqueInv'
    BY <1>2, <1>3, <1>4, RefsStep, HandshakeStep, UniqueStep DEF AgreeInv
  <1>6. ReceivedInv'
    BY <1>2, <1>3, <1>4, ReceivedStep DEF AgreeInv, ReceivedInv
  <1> QED BY <1>5, <1>6 DEF AgreeInv

(* Both invariants together.                                                *)
THEOREM AgreeInvariant == Spec => [](Inv /\ AgreeInv)
  <1>1. Init => Inv /\ AgreeInv
    BY InitInv, InitAgree
  <1>2. Inv /\ AgreeInv /\ [Next]_vars => (Inv /\ AgreeInv)'
    BY InvStep, AgreeStep
  <1> QED BY <1>1, <1>2, PTL DEF Spec

(* The two invariants imply the agreement of the two ends.                  *)
LEMMA InvSessionsAgree ==
    ASSUME Inv, AgreeInv
    PROVE  SessionsAgree
  <1> SUFFICES ASSUME NEW p \in Procs, call[p].pc = "decrypt",
                      \/ call[p].msg.kx # None /\ Mine(p)
                      \/ call[p].sess.root = call[p].msg.data.root,
                      call[p].msg \notin opened
               PROVE  CanDecrypt(call[p].sess, call[p].msg.data)
    BY DEF SessionsAgree, Mine
  <1>1. PICK d, e, s, m : d = Home[p] /\ e = call[p].dev /\ s = call[p].sess /\ m = call[p].msg
    OBVIOUS
  <1>2. /\ d \in Devices /\ e \in Devices /\ s \in SessionStates /\ s \in InHand(d, e)
        /\ EndOf(d, e, s.role, s.root)
    BY <1>1, CallSession DEF SessionPCs, SessionOK
  <1>3. m \in made /\ m.to = d /\ m.from = e /\ d # e
    BY <1>1 DEF Inv, CallInv, CallOK, DecryptPCs, DeliveryInv
  <1>4. m.data.root = s.root
    BY <1>1 DEF AgreeInv, HandshakeInv, HandshakeOK
  <1>5. m.data.from \in {"active", "passive"} /\ s.role \in {"active", "passive"}
    BY <1>2, <1>3 DEF Inv, TypeOK, Messages, Data, SessionStates
  <1>6. m.data.from # s.role
    <2>1. EndOf(e, d, m.data.from, s.root)
      BY <1>3, <1>4 DEF Inv, MessageInv
    <2> QED BY <1>2, <1>3, <1>5, <2>1 DEF EndOf
  <1>7. ASSUME m.data.n \in s.recv PROVE FALSE
    <2>1. PICK n \in opened : n.data.root = s.root /\ n.data.from # s.role /\ n.data.n = m.data.n
      BY <1>2, <1>7 DEF AgreeInv, ReceivedInv, ReceivedOK
    <2>2. n \in made
      BY <1>1 DEF Inv, DeliveryInv
    <2>3. n.data.from \in {"active", "passive"}
      BY <2>2 DEF Inv, TypeOK, Messages, Data
    <2>4. n.data.from = m.data.from
      BY <1>5, <1>6, <2>1, <2>3
    <2>5. n = m
      BY <1>3, <1>4, <2>1, <2>2, <2>4 DEF AgreeInv, UniqueInv
    <2> QED BY <1>1, <2>5
  <1> QED BY <1>1, <1>4, <1>6, <1>7 DEF CanDecrypt

(* A device never refuses what the far end of its session encrypted.        *)
(* Rotation, top-up, use of prekeys, stale bundles, repeated and reordered  *)
(* messages, crashes, store errors and reinstallations never make the IDs   *)
(* of a handshake lead the installation it was made for to other keys.      *)
THEOREM SessionsAgreeCorrect == Spec => []SessionsAgree
  <1>1. Inv /\ AgreeInv => SessionsAgree
    BY InvSessionsAgree
  <1> QED BY <1>1, AgreeInvariant, PTL
=============================================================================
