---------------------------- MODULE SessionsSteps ---------------------------
(***************************************************************************)
(* The inductive invariant of Sessions, and what one step of Sessions does *)
(* to the calls in progress and to the Stores: the lemmas that the         *)
(* theorems about Sessions rest on.                                        *)
(***************************************************************************)
EXTENDS Sessions, TLAPS

-----------------------------------------------------------------------------
(* The inductive invariant *)

SendPCs == {"trust", "resolve", "encrypt"}
SessionPCs == SendPCs \cup {"identify", "decrypt"}

(* A call works on another device, a call past the lock holds it, and what  *)
(* a step takes for granted was put there by the step before.               *)
CallOK(p) ==
    LET c == call[p] IN
    /\ c.pc # "idle" => c.dev \in Devices /\ c.dev # Home[p]
    /\ c.pc \in LockedPCs => lock[Home[p]][c.dev] = p
    /\ c.pc = "encLock" => c.kx = None
    /\ c.pc = "enveloped" => c.msg \in made
    /\ c.pc \in DecryptPCs => c.msg \in sent /\ c.msg.to = Home[p] /\ c.msg.from = c.dev
    /\ c.pc \in SessionPCs => c.sess # None
    /\ c.pc \in {"consume", "identify"} => c.msg.kx # None
    /\ c.pc = "consume" => c.spk # None

CallInv == \A p \in Procs : CallOK(p)

(* The key pair k has been generated; the one-time prekey k is in no pool.  *)
Old(k) == k[2] < fresh[k[1]]
Spent(k) == \A d \in Devices, i \in Ids : store[d].preKeys[i] # k

(* A device that is never reinstalled has one identity.                     *)
GenOK(ik) == ik[1] \in Reinstallable \/ ik[2] = 1

(* The keys in a Store and in what it published are the device's own.       *)
KeysInv ==
    \A d \in Devices :
        /\ store[d].identityKey[1] = d /\ GenOK(store[d].identityKey)
        /\ \A i \in Ids : store[d].preKeys[i] # None =>
              store[d].preKeys[i][1] = d /\ Old(store[d].preKeys[i])
        /\ \A i, j \in Ids : store[d].preKeys[i] # None /\ store[d].preKeys[i] = store[d].preKeys[j]
              => i = j
        /\ bundles[d].identityKey[1] = d /\ GenOK(bundles[d].identityKey)
        /\ bundles[d].preKey # None => Old(bundles[d].preKey.key)

(* The session with root r at device d, for device e: d's end belongs to d  *)
(* and the other to e, its keys exist, and at the responding end the        *)
(* one-time prekey has been taken out of the pool.                          *)
EndOf(d, e, role, r) ==
    /\ role = "active"  => r.ini[1] = d /\ r.resp[1] = e
    /\ role = "passive" => r.resp[1] = d /\ r.ini[1] = e /\ Spent(r.opk)
    /\ GenOK(r.ini) /\ GenOK(r.resp) /\ Old(r.opk) /\ Old(r.ek)

MessageInv ==
    \A m \in made :
        /\ m.from # m.to
        /\ EndOf(m.from, m.to, m.data.from, m.data.root)
        /\ m.kx # None => m.kx.identityKey = m.data.root.ini /\ m.kx.ephemeralKey = m.data.root.ek

AcceptedInv ==
    \A m \in opened : m.data.from = "active" => Spent(m.data.root.opk)

(* What has left was encrypted, what was opened had left, what was handed   *)
(* to the application was opened, once, and not by a call that has still to *)
(* hand it over.                                                            *)
DeliveryInv ==
    /\ sent \subseteq made /\ opened \subseteq sent /\ DOMAIN accepted \subseteq opened
    /\ AtMostOnce
    /\ \A p \in Procs : call[p].pc = "payload" => call[p].msg \in opened \ DOMAIN accepted

(* The KeyExchange of a session goes with its first message and no other.   *)
FirstOut(s, kx) ==
    /\ kx # None <=> s.role = "active" /\ s.sent = 0
    /\ s.pending = IF Protocol = "v1" THEN kx ELSE None
    /\ kx # None => kx.identityKey = s.root.ini /\ kx.ephemeralKey = s.root.ek

KeyExchangeInv ==
    /\ KeyExchangeOnFirst
    /\ \A p \in Procs : call[p].pc \in SendPCs => FirstOut(call[p].sess, call[p].kx)
    /\ \A p \in Procs : call[p].pc \in {"identify", "decrypt"} =>
          ~(call[p].sess.role = "active" /\ call[p].sess.sent = 0)
    /\ \A d, e \in Devices : store[d].sessions[e] # None => FirstOut(store[d].sessions[e], None)

(* The sessions d has for e: the stored one, and one a call has in hand.    *)
InHand(d, e) ==
    ({store[d].sessions[e]} \cup
     {call[p].sess : p \in {q \in Procs : Home[q] = d /\ call[q].dev = e /\ call[q].pc \in SessionPCs}})
    \ {None}

(* What the sessions in hand will send next is new, and what was opened     *)
(* under them they will not open again.                                     *)
Unused(s) == \A m \in made : m.data.root = s.root /\ m.data.from = s.role => m.data.n < s.sent
Opened(s) == \A m \in opened :
                m.data.root = s.root /\ m.data.from # s.role => m.data.n \in s.recv

SessionOK(d, e, s) == EndOf(d, e, s.role, s.root) /\ Unused(s) /\ Opened(s)

SessionInv == \A d, e \in Devices : \A s \in InHand(d, e) : SessionOK(d, e, s)

Inv == /\ TypeOK /\ CallInv /\ KeysInv /\ MessageInv /\ AcceptedInv /\ DeliveryInv
       /\ KeyExchangeInv /\ SessionInv

-----------------------------------------------------------------------------
(* Types of what the operators build *)

(* The types of the fields of a Store.                                      *)
LEMMA StoreParts ==
    ASSUME NEW s \in Stores
    PROVE  /\ s.identityKey \in IdentityKeys
           /\ s.currentSPK \in SPKs /\ s.staleSPK \in SPKs \cup {None}
           /\ s.preKeys \in [Ids -> Keys \cup {None}] /\ s.nextPreKeyID \in Ids
           /\ s.sessions \in [Devices -> SessionStates \cup {None}]
           /\ s.trust \in [IdentityKeys -> TrustStates]
           /\ s.remoteID \in [Devices -> IdentityKeys \cup {None}]
  BY DEF Stores

(* PutSession and DeleteSession write one entry of sessions.                *)
LEMMA SessionOps ==
    ASSUME NEW s \in Stores, NEW e \in Devices, NEW x \in SessionStates
    PROVE  /\ PutSession(s, e, x) \in Stores
           /\ PutSession(s, e, x).sessions = [s.sessions EXCEPT ![e] = x]
           /\ PutSession(s, e, x).identityKey = s.identityKey
           /\ PutSession(s, e, x).preKeys = s.preKeys
  BY DEF PutSession, Stores

(* DeleteSession clears one entry of sessions.                              *)
LEMMA DeleteOp ==
    ASSUME NEW s \in Stores, NEW e \in Devices
    PROVE  /\ DeleteSession(s, e) \in Stores
           /\ DeleteSession(s, e).sessions = [s.sessions EXCEPT ![e] = None]
           /\ DeleteSession(s, e).identityKey = s.identityKey
           /\ DeleteSession(s, e).preKeys = s.preKeys
  BY DEF DeleteSession, Stores

(* SetTrust and PutRemoteIdentityKey leave sessions and keys alone.         *)
LEMMA TrustOps ==
    ASSUME NEW s \in Stores, NEW ik \in IdentityKeys, NEW t \in TrustStates
    PROVE  /\ SetTrust(s, ik, t) \in Stores
           /\ SetTrust(s, ik, t).sessions = s.sessions
           /\ SetTrust(s, ik, t).identityKey = s.identityKey
           /\ SetTrust(s, ik, t).preKeys = s.preKeys
  BY DEF SetTrust, Stores

(* PutRemoteIdentityKey leaves sessions and keys alone.                     *)
LEMMA RemoteOp ==
    ASSUME NEW s \in Stores, NEW ik \in IdentityKeys, NEW e \in Devices
    PROVE  /\ PutRemoteIdentityKey(s, e, ik) \in Stores
           /\ PutRemoteIdentityKey(s, e, ik).sessions = s.sessions
           /\ PutRemoteIdentityKey(s, e, ik).identityKey = s.identityKey
           /\ PutRemoteIdentityKey(s, e, ik).preKeys = s.preKeys
  BY DEF PutRemoteIdentityKey, Stores

(* ConsumePreKey clears one entry of the pool.                              *)
LEMMA ConsumeOp ==
    ASSUME NEW s \in Stores, NEW i \in Ids
    PROVE  /\ ConsumePreKey(s, i) \in Stores
           /\ ConsumePreKey(s, i).sessions = s.sessions
           /\ ConsumePreKey(s, i).identityKey = s.identityKey
           /\ ConsumePreKey(s, i).preKeys = [s.preKeys EXCEPT ![i] = None]
  BY DEF ConsumePreKey, Stores

(* The uint32 increment stays in range.                                     *)
LEMMA Increment ==
    ASSUME NEW i \in Ids
    PROVE  (i + 1) % IdSpace \in Ids
  BY IdSpaceAssumption DEF Ids

(* Rotation leaves the pool alone, generation writes one entry of it.       *)
LEMMA RotateOp ==
    ASSUME NEW s \in Stores, NEW k \in Keys
    PROVE  LET t == RotateSPK(s, [id |-> (s.currentSPK.id + 1) % IdSpace, key |-> k,
                                  signer |-> s.identityKey]) IN
           /\ t \in Stores
           /\ t.sessions = s.sessions
           /\ t.identityKey = s.identityKey
           /\ t.preKeys = s.preKeys
  <1>1. (s.currentSPK.id + 1) % IdSpace \in Ids
    BY StoreParts, Increment DEF SPKs
  <1>2. PICK n : n = [id |-> (s.currentSPK.id + 1) % IdSpace, key |-> k, signer |-> s.identityKey]
    OBVIOUS
  <1>3. n \in SPKs
    BY <1>1, <1>2, StoreParts DEF SPKs
  <1> QED BY <1>2, <1>3 DEF RotateSPK, Stores

(* GenerateOneTimePreKeys puts one new key under the next ID.               *)
LEMMA GenerateOp ==
    ASSUME NEW s \in Stores, NEW k \in Keys
    PROVE  LET t == PutPreKeys(AllocPreKeyID(s), [NoPreKeys EXCEPT ![NextPreKeyID(s)] = k]) IN
           /\ t \in Stores
           /\ t.sessions = s.sessions
           /\ t.identityKey = s.identityKey
           /\ NextPreKeyID(s) \in Ids
           /\ t.preKeys = [s.preKeys EXCEPT ![NextPreKeyID(s)] = k]
  <1>1. NextPreKeyID(s) \in Ids
    BY StoreParts, Increment DEF NextPreKeyID
  <1>2. PICK a : a = AllocPreKeyID(s)
    OBVIOUS
  <1>3. a \in Stores /\ a.sessions = s.sessions /\ a.identityKey = s.identityKey /\ a.preKeys = s.preKeys
    BY <1>1, <1>2 DEF AllocPreKeyID, Stores
  <1>4. PICK r : r = [NoPreKeys EXCEPT ![NextPreKeyID(s)] = k]
    OBVIOUS
  <1>5. k # None
    BY NoneAssumption
  <1>6. \A i \in Ids : r[i] = IF i = NextPreKeyID(s) THEN k ELSE None
    BY <1>1, <1>4 DEF NoPreKeys
  <1>7. PICK q : q = [i \in Ids |-> IF r[i] # None THEN r[i] ELSE a.preKeys[i]]
    OBVIOUS
  <1>8. q = [s.preKeys EXCEPT ![NextPreKeyID(s)] = k] /\ q \in [Ids -> Keys \cup {None}]
    BY <1>1, <1>3, <1>5, <1>6, <1>7, StoreParts
  <1>9. PutPreKeys(a, r) = [a EXCEPT !.preKeys = q]
    BY <1>7 DEF PutPreKeys
  <1>10. [a EXCEPT !.preKeys = q] \in Stores
    BY <1>3, <1>8 DEF Stores
  <1>11. /\ [a EXCEPT !.preKeys = q].sessions = a.sessions
         /\ [a EXCEPT !.preKeys = q].identityKey = a.identityKey
         /\ [a EXCEPT !.preKeys = q].preKeys = q
    BY <1>3 DEF Stores
  <1> QED BY <1>1, <1>2, <1>3, <1>4, <1>8, <1>9, <1>10, <1>11

(* A new Store has no sessions, and PoolSize new one-time prekeys.          *)
LEMMA NewStoreOp ==
    ASSUME NEW d \in Devices, NEW g \in Gens, NEW k \in Nat
    PROVE  /\ NewStore(d, g, k) \in Stores
           /\ NewStore(d, g, k).identityKey = <<d, g>>
           /\ \A e \in Devices : NewStore(d, g, k).sessions[e] = None
           /\ \A i \in Ids : NewStore(d, g, k).preKeys[i] =
                 IF i \in 1 .. PoolSize THEN <<d, k + i>> ELSE None
  <1>1. <<d, g>> \in IdentityKeys
    BY DEF IdentityKeys
  <1>2. [id |-> 1, key |-> <<d, k>>, signer |-> <<d, g>>] \in SPKs
    BY <1>1, IdSpaceAssumption DEF SPKs, Ids, Keys
  <1>3. [i \in Ids |-> IF i \in 1 .. PoolSize THEN <<d, k + i>> ELSE None] \in [Ids -> Keys \cup {None}]
    BY IdSpaceAssumption DEF Ids, Keys
  <1>4. PoolSize \in Ids /\ InitTrust[d] \in [IdentityKeys -> TrustStates]
    BY SessionsAssumption, IdSpaceAssumption DEF Ids
  <1> QED BY <1>1, <1>2, <1>3, <1>4 DEF NewStore, Stores

(* A bundle is made of the parts of the Store.                              *)
LEMMA BundleType ==
    ASSUME NEW s \in Stores, NEW b \in BundleOf(s)
    PROVE  /\ b \in Bundles
           /\ b.identityKey = s.identityKey /\ b.signedPreKey = s.currentSPK
           /\ b.preKey # None =>
                 \E i \in Ids : s.preKeys[i] # None /\ b.preKey.id = i /\ b.preKey.key = s.preKeys[i]
  <1>1. PICK pk \in IF PreKeyIDs(s) = {} THEN {None}
                    ELSE {[id |-> i, key |-> s.preKeys[i]] : i \in PreKeyIDs(s)} :
           b = [identityKey |-> s.identityKey, signedPreKey |-> s.currentSPK, preKey |-> pk]
    BY DEF BundleOf
  <1>2. \/ pk = None
        \/ \E i \in Ids : s.preKeys[i] # None /\ pk = [id |-> i, key |-> s.preKeys[i]]
    BY DEF PreKeyIDs
  <1>3. pk \in PreKeyRefs \cup {None}
    BY <1>2, StoreParts DEF PreKeyRefs
  <1>4. b \in Bundles
    BY <1>1, <1>3, StoreParts DEF Bundles
  <1>5. b.preKey = pk /\ b.identityKey = s.identityKey /\ b.signedPreKey = s.currentSPK
    BY <1>1
  <1> QED BY <1>2, <1>4, <1>5

(* The fields of a new session, at either end.                              *)
LEMMA ActiveSession ==
    ASSUME NEW ik \in IdentityKeys, NEW b \in Bundles, b.preKey # None, NEW ek \in Keys
    PROVE  LET s  == NewActiveSession(ik, b, ek)
               kx == KeyExchange(ik, ek, b.signedPreKey.id, b.preKey.id)
           IN /\ s \in SessionStates /\ kx \in KeyExchanges
              /\ s.root.ini = ik /\ s.root.resp = b.identityKey
              /\ s.root.spk = b.signedPreKey.key /\ s.root.opk = b.preKey.key /\ s.root.ek = ek
              /\ s.role = "active" /\ s.sent = 0 /\ s.recv = {}
              /\ s.pending = IF Protocol = "v1" THEN kx ELSE None
              /\ kx.identityKey = ik /\ kx.ephemeralKey = ek
              /\ kx.signedPreKeyID = b.signedPreKey.id /\ kx.preKeyID = b.preKey.id
  <1>1. /\ b.identityKey \in IdentityKeys /\ b.signedPreKey.id \in Ids /\ b.signedPreKey.key \in Keys
        /\ b.preKey.id \in Ids /\ b.preKey.key \in Keys
    BY DEF Bundles, SPKs, PreKeyRefs
  <1>2. PICK kx : kx = KeyExchange(ik, ek, b.signedPreKey.id, b.preKey.id)
    OBVIOUS
  <1>3. /\ kx \in KeyExchanges /\ kx.identityKey = ik /\ kx.ephemeralKey = ek
        /\ kx.signedPreKeyID = b.signedPreKey.id /\ kx.preKeyID = b.preKey.id
    BY <1>1, <1>2 DEF KeyExchange, KeyExchanges
  <1>4. PICK r : r = X3DH(ik, b.identityKey, b.signedPreKey.key, b.preKey.key, ek)
    OBVIOUS
  <1>5. /\ r \in Roots /\ r.ini = ik /\ r.resp = b.identityKey
        /\ r.spk = b.signedPreKey.key /\ r.opk = b.preKey.key /\ r.ek = ek
    BY <1>1, <1>4 DEF X3DH, Roots
  <1>6. NewActiveSession(ik, b, ek) =
           [root |-> r, role |-> "active", sent |-> 0, recv |-> {},
            pending |-> IF Protocol = "v1" THEN kx ELSE None]
    BY <1>2, <1>4 DEF NewActiveSession
  <1>7. NewActiveSession(ik, b, ek) \in SessionStates
    BY <1>3, <1>5, <1>6 DEF SessionStates
  <1> QED BY <1>2, <1>3, <1>5, <1>6, <1>7

(* The fields of the session a responder makes of a handshake.              *)
LEMMA PassiveSession ==
    ASSUME NEW ik \in IdentityKeys, NEW kx \in KeyExchanges, NEW spk \in Keys, NEW opk \in Keys
    PROVE  LET s == NewPassiveSession(ik, kx, spk, opk) IN
           /\ s \in SessionStates
           /\ s.root.ini = kx.identityKey /\ s.root.resp = ik
           /\ s.root.opk = opk /\ s.root.ek = kx.ephemeralKey /\ s.root.spk = spk
           /\ s.role = "passive" /\ s.sent = 0 /\ s.recv = {} /\ s.pending = None
  <1>1. kx.identityKey \in IdentityKeys /\ kx.ephemeralKey \in Keys
    BY DEF KeyExchanges
  <1>2. PICK r : r = X3DH(kx.identityKey, ik, spk, opk, kx.ephemeralKey)
    OBVIOUS
  <1>3. r \in Roots /\ r.ini = kx.identityKey /\ r.resp = ik /\ r.opk = opk /\ r.ek = kx.ephemeralKey
        /\ r.spk = spk
    BY <1>1, <1>2 DEF X3DH, Roots
  <1>4. NewPassiveSession(ik, kx, spk, opk) =
           [root |-> r, role |-> "passive", sent |-> 0, recv |-> {}, pending |-> None]
    BY <1>2 DEF NewPassiveSession
  <1>5. NewPassiveSession(ik, kx, spk, opk) \in SessionStates
    BY <1>3, <1>4 DEF SessionStates
  <1> QED BY <1>3, <1>4, <1>5

(* What is stored after Encrypt and after Decrypt.                          *)
LEMMA StoredSession ==
    ASSUME NEW s \in SessionStates
    PROVE  /\ Marshal(AfterEncrypt(s)) \in SessionStates
           /\ Marshal(AfterEncrypt(s)).root = s.root /\ Marshal(AfterEncrypt(s)).role = s.role
           /\ Marshal(AfterEncrypt(s)).sent = s.sent + 1 /\ Marshal(AfterEncrypt(s)).recv = s.recv
           /\ Marshal(AfterEncrypt(s)).pending = None
           /\ \A data \in Data :
                 /\ Marshal(AfterDecrypt(s, data)) \in SessionStates
                 /\ Marshal(AfterDecrypt(s, data)).root = s.root
                 /\ Marshal(AfterDecrypt(s, data)).role = s.role
                 /\ Marshal(AfterDecrypt(s, data)).sent = s.sent
                 /\ Marshal(AfterDecrypt(s, data)).recv = s.recv \cup {data.n}
                 /\ Marshal(AfterDecrypt(s, data)).pending = None
  <1>1. PICK n : n = s.sent + 1
    OBVIOUS
  <1>2. n \in Nat
    BY <1>1 DEF SessionStates
  <1>3. PICK t : t = [s EXCEPT !.sent = n, !.pending = None]
    OBVIOUS
  <1>4. t = AfterEncrypt(s)
    BY <1>1, <1>3 DEF AfterEncrypt
  <1>5. /\ t \in SessionStates
        /\ t.root = s.root /\ t.role = s.role /\ t.sent = s.sent + 1 /\ t.recv = s.recv
    BY <1>1, <1>2, <1>3 DEF SessionStates
  <1>6. /\ Marshal(t) \in SessionStates
        /\ Marshal(t).root = t.root /\ Marshal(t).role = t.role
        /\ Marshal(t).sent = t.sent /\ Marshal(t).recv = t.recv /\ Marshal(t).pending = None
    BY <1>5 DEF Marshal, SessionStates
  <1>7. ASSUME NEW data \in Data
        PROVE  /\ Marshal(AfterDecrypt(s, data)) \in SessionStates
               /\ Marshal(AfterDecrypt(s, data)).root = s.root
               /\ Marshal(AfterDecrypt(s, data)).role = s.role
               /\ Marshal(AfterDecrypt(s, data)).sent = s.sent
               /\ Marshal(AfterDecrypt(s, data)).recv = s.recv \cup {data.n}
               /\ Marshal(AfterDecrypt(s, data)).pending = None
    <2>1. data.n \in Nat
      BY DEF Data
    <2>2. PICK u : u = AfterDecrypt(s, data)
      OBVIOUS
    <2>3. /\ u \in SessionStates
          /\ u.root = s.root /\ u.role = s.role /\ u.sent = s.sent /\ u.recv = s.recv \cup {data.n}
      BY <2>1, <2>2 DEF AfterDecrypt, SessionStates
    <2>4. /\ Marshal(u) \in SessionStates
          /\ Marshal(u).root = u.root /\ Marshal(u).role = u.role
          /\ Marshal(u).sent = u.sent /\ Marshal(u).recv = u.recv /\ Marshal(u).pending = None
      BY <2>3 DEF Marshal, SessionStates
    <2> QED BY <2>2, <2>3, <2>4
  <1> QED BY <1>4, <1>5, <1>6, <1>7

(* The message Encrypt produces.                                            *)
LEMMA MessageType ==
    ASSUME NEW s \in SessionStates, NEW d \in Devices, NEW e \in Devices,
           NEW kx \in KeyExchanges \cup {None}
    PROVE  /\ [from |-> d, to |-> e, data |-> Encrypt(s), kx |-> kx] \in Messages
           /\ Encrypt(s).root = s.root /\ Encrypt(s).from = s.role
           /\ Encrypt(s).n = s.sent /\ Encrypt(s).pre = s.pending
  <1>1. /\ Encrypt(s) \in Data
        /\ Encrypt(s).root = s.root /\ Encrypt(s).from = s.role
        /\ Encrypt(s).n = s.sent /\ Encrypt(s).pre = s.pending
    BY DEF Encrypt, SessionStates, Data
  <1> QED BY <1>1 DEF Messages

(* A message that goes with a KeyExchange carries a handshake.              *)
LEMMA HandshakeType ==
    ASSUME NEW m \in Messages, m.kx # None,
           m.data.pre = IF Protocol = "v1" THEN m.kx ELSE None
    PROVE  HandshakeOf(m) \in KeyExchanges /\ HandshakeOf(m) = m.kx
  BY ProtocolAssumption DEF HandshakeOf, Messages

(* The bag of accepted messages grows by the one that is handed over.       *)
LEMMA BagGrows ==
    ASSUME NEW b, IsABag(b), NEW m
    PROVE  /\ IsABag(BagAdd(b, m)) /\ DOMAIN BagAdd(b, m) = DOMAIN b \cup {m}
           /\ m \notin DOMAIN b => BagAdd(b, m)[m] = 1
           /\ \A e \in DOMAIN b : e # m => BagAdd(b, m)[e] = b[e]
  BY DEF IsABag, BagAdd

(* A finished call is well typed.                                           *)
LEMMA IdleType == Idle \in Calls
  BY DEF Idle, Calls, PCs

(* The call records that keep only the device and the message.              *)
LEMMA BeginType ==
    ASSUME NEW e \in Devices
    PROVE  /\ [Idle EXCEPT !.pc = "encLock", !.dev = e] \in Calls
           /\ [Idle EXCEPT !.pc = "resetLock", !.dev = e] \in Calls
           /\ \A pc \in PCs, m \in Messages : [Idle EXCEPT !.pc = pc, !.dev = e, !.msg = m] \in Calls
  BY DEF Idle, Calls, PCs, LockedPCs, EncryptPCs, DecryptPCs, WaitPCs

(* A call record stays well typed under the updates the actions make.       *)
LEMMA CallType ==
    ASSUME NEW c \in Calls
    PROVE  /\ \A pc \in PCs : [c EXCEPT !.pc = pc] \in Calls
           /\ \A pc \in PCs, s \in SessionStates \cup {None} : [c EXCEPT !.pc = pc, !.sess = s] \in Calls
           /\ \A pc \in PCs, s \in SessionStates \cup {None}, b \in SUBSET IdentityKeys :
                 [c EXCEPT !.pc = pc, !.sess = s, !.barred = b] \in Calls
           /\ \A pc \in PCs, s \in SessionStates \cup {None}, kx \in KeyExchanges :
                 [c EXCEPT !.pc = pc, !.sess = s, !.kx = kx] \in Calls
           /\ \A pc \in PCs, k \in Keys : [c EXCEPT !.pc = pc, !.spk = k] \in Calls
  BY DEF Calls

(* The types of the parts of a well-typed state.                            *)
LEMMA Parts ==
    ASSUME TypeOK
    PROVE  /\ \A d \in Devices : store[d] \in Stores /\ bundles[d] \in Bundles /\ fresh[d] \in Nat
           /\ \A p \in Procs : call[p] \in Calls /\ Home[p] \in Devices
           /\ \A p \in Procs : /\ call[p].sess \in SessionStates \cup {None}
                               /\ call[p].kx \in KeyExchanges \cup {None}
                               /\ call[p].msg \in Messages \cup {None}
                               /\ call[p].spk \in Keys \cup {None}
           /\ \A d, e \in Devices : store[d].sessions[e] \in SessionStates \cup {None}
  <1>1. /\ \A d \in Devices : store[d] \in Stores /\ bundles[d] \in Bundles /\ fresh[d] \in Nat
        /\ \A p \in Procs : call[p] \in Calls /\ Home[p] \in Devices
    BY SessionsAssumption DEF TypeOK
  <1>2. \A p \in Procs : /\ call[p].sess \in SessionStates \cup {None}
                         /\ call[p].kx \in KeyExchanges \cup {None}
                         /\ call[p].msg \in Messages \cup {None}
                         /\ call[p].spk \in Keys \cup {None}
    BY <1>1 DEF Calls
  <1>3. \A d, e \in Devices : store[d].sessions[e] \in SessionStates \cup {None}
    BY <1>1, StoreParts
  <1> QED BY <1>1, <1>2, <1>3

-----------------------------------------------------------------------------
(* Type correctness *)

(* Return, and the end of a process, keep the types.                        *)
LEMMA ReturnType ==
    ASSUME TypeOK, NEW p \in Procs, Return(p)
    PROVE  /\ lock' \in [Devices -> [Devices -> Procs \cup {None}]]
           /\ call' \in [Procs -> Calls]
  BY IdleType, Parts DEF TypeOK, Return

(* Taking the device lock keeps the type of the lock table.                 *)
LEMMA AcquireType ==
    ASSUME TypeOK, NEW p \in Procs, Acquire(p)
    PROVE  lock' \in [Devices -> [Devices -> Procs \cup {None}]]
  BY Parts DEF TypeOK, Acquire

(* The end of a process keeps the types of calls and locks.                 *)
LEMMA DeadType ==
    ASSUME TypeOK, NEW d \in Devices, Dead(d)
    PROVE  /\ lock' \in [Devices -> [Devices -> Procs \cup {None}]]
           /\ call' \in [Procs -> Calls]
  BY IdleType, Parts DEF TypeOK, Dead

(* The handshake of the message that a call is working on.                  *)
LEMMA CallHandshake ==
    ASSUME TypeOK, CallInv, DeliveryInv, KeyExchangeOnFirst, NEW p \in Procs,
           call[p].pc \in DecryptPCs
    PROVE  /\ call[p].msg \in Messages /\ call[p].msg.data \in Data
           /\ call[p].msg.from \in Devices /\ call[p].msg.to \in Devices
           /\ call[p].msg.kx # None => HandshakeOf(call[p].msg) \in KeyExchanges
                                       /\ HandshakeOf(call[p].msg) = call[p].msg.kx
  <1>1. call[p].msg \in made
    BY DEF CallInv, CallOK, DeliveryInv
  <1>2. call[p].msg \in Messages
    BY <1>1 DEF TypeOK
  <1>3. call[p].msg.data \in Data /\ call[p].msg.from \in Devices /\ call[p].msg.to \in Devices
    BY <1>2 DEF Messages
  <1>4. call[p].msg.data.pre = IF Protocol = "v1" THEN call[p].msg.kx ELSE None
    BY <1>1 DEF KeyExchangeOnFirst
  <1> QED BY <1>2, <1>3, <1>4, HandshakeType

(* A step to another program counter.                                       *)
LEMMA PcType ==
    ASSUME TypeOK, NEW p \in Procs, NEW pc \in PCs, call' = [call EXCEPT ![p].pc = pc]
    PROVE  call' \in [Procs -> Calls]
  <1>1. [call[p] EXCEPT !.pc = pc] \in Calls
    BY Parts, CallType
  <1>2. call' = [call EXCEPT ![p] = [call[p] EXCEPT !.pc = pc]]
    OBVIOUS
  <1> QED BY <1>1, <1>2 DEF TypeOK

(* The program counters are different program counters.                     *)
LEMMA Counters ==
    /\ {"fetch", "trust", "resolve", "encrypt", "consume", "identify", "decrypt", "payload"} = LockedPCs
    /\ DecryptPCs = {"decLock", "consume", "identify", "decrypt", "payload"}
    /\ LockedPCs \subseteq PCs /\ WaitPCs \subseteq PCs /\ {"idle", "enveloped"} \subseteq PCs
    /\ SessionPCs \subseteq LockedPCs
  BY DEF LockedPCs, PCs, EncryptPCs, DecryptPCs, WaitPCs, SessionPCs, SendPCs

(* Type correctness is kept by every step.  The handshake of an incoming    *)
(* message has its type because the message went out with one.              *)
LEMMA TypeStep ==
    ASSUME TypeOK, CallInv, DeliveryInv, KeyExchangeOnFirst, [Next]_vars
    PROVE  TypeOK'
  <1> USE Counters
  <1>1. ASSUME NEW p \in Procs, NEW e \in Devices, BeginEncrypt(p, e) PROVE TypeOK'
    BY <1>1, BeginType DEF BeginEncrypt, TypeOK
  <1>2. ASSUME NEW p \in Procs, NEW e \in Devices, BeginReset(p, e) PROVE TypeOK'
    BY <1>2, BeginType DEF BeginReset, TypeOK
  <1>3. ASSUME NEW p \in Procs, NEW m \in sent, BeginDecrypt(p, m) PROVE TypeOK'
    <2>1. m \in Messages /\ m.from \in Devices
      BY DEF TypeOK, Messages
    <2>2. [Idle EXCEPT !.pc = "decLock", !.dev = m.from, !.msg = m] \in Calls
      BY <2>1, BeginType DEF WaitPCs
    <2> QED BY <1>3, <2>2 DEF BeginDecrypt, TypeOK
  <1>4. ASSUME NEW p \in Procs, EncryptLock(p) PROVE TypeOK'
    <2> DEFINE sess == store[Home[p]].sessions[call[p].dev]
               pc   == IF sess = None THEN "fetch" ELSE "trust"
               b    == {ik \in IdentityKeys : store[Home[p]].trust[ik] = "untrusted"}
    <2>1. call[p].dev \in Devices
      BY <1>4 DEF EncryptLock, CallInv, CallOK
    <2>2. sess \in SessionStates \cup {None} /\ pc \in PCs /\ b \in SUBSET IdentityKeys
      BY <2>1, Parts
    <2>3. [call[p] EXCEPT !.pc = pc, !.sess = sess, !.barred = b] \in Calls
      BY <2>2, Parts, CallType
    <2>4. call' = [call EXCEPT ![p] = [call[p] EXCEPT !.pc = pc, !.sess = sess, !.barred = b]]
      BY <1>4 DEF EncryptLock
    <2>5. lock' \in [Devices -> [Devices -> Procs \cup {None}]]
      BY <1>4, AcquireType DEF EncryptLock
    <2>6. call' \in [Procs -> Calls]
      BY <2>3, <2>4 DEF TypeOK
    <2> QED BY <1>4, <2>5, <2>6 DEF EncryptLock, TypeOK
  <1>5. ASSUME NEW p \in Procs, DecryptLock(p) PROVE TypeOK'
    <2> DEFINE m == call[p].msg
               s == store[Home[p]]
    <2>1. m \in Messages /\ m.from \in Devices /\ (m.kx # None => HandshakeOf(m) \in KeyExchanges)
      BY <1>5, CallHandshake DEF DecryptLock
    <2>2. s \in Stores
      BY Parts
    <2>3. CASE /\ m.kx = None /\ Acquire(p)
               /\ call' = [call EXCEPT ![p].pc = "decrypt", ![p].sess = s.sessions[m.from]]
      <3>1. [call[p] EXCEPT !.pc = "decrypt", !.sess = s.sessions[m.from]] \in Calls
        BY <2>1, Parts, CallType
      <3>2. call' = [call EXCEPT ![p] = [call[p] EXCEPT !.pc = "decrypt", !.sess = s.sessions[m.from]]]
        BY <2>3
      <3> QED BY <1>5, <2>3, <3>1, <3>2, AcquireType DEF DecryptLock, TypeOK
    <2>4. CASE /\ m.kx # None /\ Acquire(p)
               /\ SignedPreKeyByID(s, HandshakeOf(m).signedPreKeyID) # None
               /\ call' = [call EXCEPT ![p].pc  = "consume",
                                       ![p].spk = SignedPreKeyByID(s, HandshakeOf(m).signedPreKeyID)]
      <3> DEFINE k == SignedPreKeyByID(s, HandshakeOf(m).signedPreKeyID)
      <3>1. s.currentSPK.key \in Keys /\ (s.staleSPK # None => s.staleSPK.key \in Keys)
        BY <2>2, StoreParts DEF SPKs
      <3>2. k \in Keys
        BY <2>4, <3>1 DEF SignedPreKeyByID
      <3>3. [call[p] EXCEPT !.pc = "consume", !.spk = k] \in Calls
        BY <3>2, Parts, CallType
      <3>4. call' = [call EXCEPT ![p] = [call[p] EXCEPT !.pc = "consume", !.spk = k]]
        BY <2>4
      <3> HIDE DEF k
      <3> QED BY <1>5, <2>4, <3>3, <3>4, AcquireType DEF DecryptLock, TypeOK
    <2>5. CASE call' = [call EXCEPT ![p] = Idle] /\ UNCHANGED lock
      BY <1>5, <2>5, IdleType DEF DecryptLock, TypeOK
    <2> QED BY <1>5, <2>3, <2>4, <2>5 DEF DecryptLock
  <1>6. ASSUME NEW p \in Procs, Reset(p) PROVE TypeOK'
    <2>1. call[p].dev \in Devices
      BY <1>6 DEF Reset, CallInv, CallOK
    <2>2. DeleteSession(store[Home[p]], call[p].dev) \in Stores
      BY <2>1, Parts, DeleteOp
    <2> QED BY <1>6, <2>2, IdleType DEF Reset, TypeOK
  <1>7. ASSUME NEW p \in Procs, FetchBundle(p) PROVE TypeOK'
    <2> DEFINE d  == Home[p]
               b  == bundles[call[p].dev]
               ek == <<d, fresh[d]>>
               s  == NewActiveSession(store[d].identityKey, b, ek)
               kx == KeyExchange(store[d].identityKey, ek, b.signedPreKey.id, b.preKey.id)
    <2>1. call[p].dev \in Devices /\ d \in Devices
      BY <1>7, Parts DEF FetchBundle, CallInv, CallOK
    <2>2. b \in Bundles /\ b.preKey # None /\ ek \in Keys /\ store[d].identityKey \in IdentityKeys
      BY <1>7, <2>1, Parts, StoreParts DEF FetchBundle, Keys
    <2>3. s \in SessionStates /\ kx \in KeyExchanges
      BY <2>2, ActiveSession
    <2>4. [call[p] EXCEPT !.pc = "trust", !.sess = s, !.kx = kx] \in Calls
      BY <2>3, Parts, CallType
    <2>5. call' = [call EXCEPT ![p] = [call[p] EXCEPT !.pc = "trust", !.sess = s, !.kx = kx]]
      BY <1>7 DEF FetchBundle
    <2>6. b.identityKey \in IdentityKeys
      BY <2>2 DEF Bundles
    <2>7. PutRemoteIdentityKey(store[d], call[p].dev, b.identityKey) \in Stores
      BY <2>1, <2>6, Parts, RemoteOp
    <2>8. store' \in [Devices -> Stores]
      BY <1>7, <2>7 DEF FetchBundle, TypeOK
    <2>9. fresh' \in [Devices -> Nat]
      BY <1>7, <2>1 DEF FetchBundle, TypeOK
    <2>10. call' \in [Procs -> Calls]
      BY <2>4, <2>5 DEF TypeOK
    <2> QED BY <1>7, <2>8, <2>9, <2>10 DEF FetchBundle, TypeOK
  <1>8. ASSUME NEW p \in Procs, FetchFails(p) PROVE TypeOK'
    BY <1>8, ReturnType DEF FetchFails, TypeOK
  <1>9. ASSUME NEW p \in Procs, CheckTrust(p) PROVE TypeOK'
    <2>1. CASE Return(p)
      BY <1>9, <2>1, ReturnType DEF CheckTrust, TypeOK
    <2>2. ASSUME NEW pc \in PCs, call' = [call EXCEPT ![p].pc = pc], UNCHANGED lock
          PROVE  TypeOK'
      BY <1>9, <2>2, PcType DEF CheckTrust, TypeOK
    <2> QED BY <1>9, <2>1, <2>2 DEF CheckTrust
  <1>10. ASSUME NEW p \in Procs, EncryptAndPut(p) PROVE TypeOK'
    <2> DEFINE d == Home[p]
               c == call[p]
               m == [from |-> d, to |-> c.dev, data |-> Encrypt(c.sess), kx |-> c.kx]
    <2>1. c.dev \in Devices /\ d \in Devices /\ c.sess \in SessionStates
      BY <1>10, Parts DEF EncryptAndPut, CallInv, CallOK, SessionPCs, SendPCs
    <2>2. m \in Messages
      BY <2>1, Parts, MessageType
    <2>3. PutSession(store[d], c.dev, Marshal(AfterEncrypt(c.sess))) \in Stores
      BY <2>1, Parts, StoredSession, SessionOps
    <2>4. store' \in [Devices -> Stores]
      BY <1>10, <2>3 DEF EncryptAndPut, TypeOK
    <2>5. made' \in SUBSET Messages
      BY <1>10, <2>2 DEF EncryptAndPut, TypeOK
    <2>6. [Idle EXCEPT !.pc = "enveloped", !.dev = c.dev, !.msg = m] \in Calls
      BY <2>1, <2>2, BeginType
    <2>7. /\ call' = [call EXCEPT ![p] = [Idle EXCEPT !.pc = "enveloped", !.dev = c.dev, !.msg = m]]
          /\ lock' = [lock EXCEPT ![d][c.dev] = None]
          /\ UNCHANGED <<bundles, fresh, sent, opened, accepted>>
      BY <1>10 DEF EncryptAndPut
    <2> HIDE DEF m
    <2>8. call' \in [Procs -> Calls]
      BY <2>6, <2>7 DEF TypeOK
    <2>9. lock' \in [Devices -> [Devices -> Procs \cup {None}]]
      BY <2>7 DEF TypeOK
    <2> QED BY <2>4, <2>5, <2>7, <2>8, <2>9 DEF TypeOK
  <1>11. ASSUME NEW p \in Procs, Consume(p) PROVE TypeOK'
    <2> DEFINE d  == Home[p]
               kx == HandshakeOf(call[p].msg)
               s  == store[d]
               n  == NewPassiveSession(s.identityKey, kx, call[p].spk, s.preKeys[kx.preKeyID])
    <2>1. kx \in KeyExchanges
      BY <1>11, CallHandshake DEF Consume, CallInv, CallOK
    <2>2. s \in Stores /\ kx.preKeyID \in Ids
      BY <2>1, Parts DEF KeyExchanges
    <2>3. CASE Return(p) /\ UNCHANGED store
      BY <1>11, <2>3, ReturnType DEF Consume, TypeOK
    <2>4. CASE /\ s.preKeys[kx.preKeyID] # None
               /\ store' = [store EXCEPT ![d] = ConsumePreKey(@, kx.preKeyID)]
               /\ call' = [call EXCEPT ![p].pc = "identify", ![p].sess = n]
               /\ UNCHANGED lock
      <3>1. call[p].spk \in Keys
        BY <1>11, Parts DEF Consume, CallInv, CallOK
      <3>2. s.preKeys[kx.preKeyID] \in Keys /\ s.identityKey \in IdentityKeys
        BY <2>2, <2>4, StoreParts
      <3>3. n \in SessionStates
        BY <2>1, <3>1, <3>2, PassiveSession
      <3>4. [call[p] EXCEPT !.pc = "identify", !.sess = n] \in Calls
        BY <3>3, Parts, CallType
      <3>5. call' = [call EXCEPT ![p] = [call[p] EXCEPT !.pc = "identify", !.sess = n]]
        BY <2>4
      <3>6. call' \in [Procs -> Calls]
        BY <3>4, <3>5 DEF TypeOK
      <3>7. ConsumePreKey(s, kx.preKeyID) \in Stores
        BY <2>2, ConsumeOp
      <3>8. store' \in [Devices -> Stores]
        BY <2>4, <3>7 DEF TypeOK
      <3> QED BY <1>11, <2>4, <3>6, <3>8 DEF Consume, TypeOK
    <2> QED BY <1>11, <2>3, <2>4 DEF Consume
  <1>12. ASSUME NEW p \in Procs, Identify(p) PROVE TypeOK'
    <2> DEFINE m == call[p].msg
    <2>1. m.from \in Devices /\ HandshakeOf(m) \in KeyExchanges
      BY <1>12, CallHandshake DEF Identify, CallInv, CallOK
    <2>2. HandshakeOf(m).identityKey \in IdentityKeys
      BY <2>1 DEF KeyExchanges
    <2>3. PutRemoteIdentityKey(store[Home[p]], m.from, HandshakeOf(m).identityKey) \in Stores
      BY <2>1, <2>2, Parts, RemoteOp
    <2>4. store' \in [Devices -> Stores]
      BY <1>12, <2>3 DEF Identify, TypeOK
    <2>5. call' \in [Procs -> Calls]
      BY <1>12, PcType DEF Identify
    <2> QED BY <1>12, <2>4, <2>5 DEF Identify, TypeOK
  <1>13. ASSUME NEW p \in Procs, DecryptAndPut(p) PROVE TypeOK'
    <2> DEFINE c == call[p]
    <2>1. c.msg \in Messages /\ c.msg.data \in Data /\ c.msg.from \in Devices /\ c.sess \in SessionStates
      BY <1>13, CallHandshake, Parts DEF DecryptAndPut, CallInv, CallOK, SessionPCs
    <2>2. PutSession(store[Home[p]], c.msg.from, Marshal(AfterDecrypt(c.sess, c.msg.data))) \in Stores
      BY <2>1, Parts, StoredSession, SessionOps
    <2>3. store' \in [Devices -> Stores]
      BY <1>13, <2>2 DEF DecryptAndPut, TypeOK
    <2>4. opened' \in SUBSET Messages
      BY <1>13, <2>1 DEF DecryptAndPut, TypeOK
    <2>5. CASE Return(p)
      BY <1>13, <2>3, <2>4, <2>5, ReturnType DEF DecryptAndPut, TypeOK
    <2>6. CASE /\ call' = [call EXCEPT ![p] = [Idle EXCEPT !.pc = "payload", !.dev = c.dev, !.msg = c.msg]]
               /\ UNCHANGED lock
      <3>1. c.dev \in Devices
        BY <1>13 DEF DecryptAndPut, CallInv, CallOK
      <3>2. [Idle EXCEPT !.pc = "payload", !.dev = c.dev, !.msg = c.msg] \in Calls
        BY <2>1, <3>1, BeginType
      <3>3. call' \in [Procs -> Calls]
        BY <2>6, <3>2 DEF TypeOK
      <3> QED BY <1>13, <2>3, <2>4, <2>6, <3>3 DEF DecryptAndPut, TypeOK
    <2> QED BY <1>13, <2>5, <2>6 DEF DecryptAndPut
  <1>24. ASSUME NEW p \in Procs, DecryptPayload(p) PROVE TypeOK'
    <2>1. call[p].msg \in Messages
      BY <1>24, CallHandshake DEF DecryptPayload
    <2>2. IsABag(accepted) /\ DOMAIN accepted \subseteq Messages
      BY DEF TypeOK
    <2>3. accepted' = BagAdd(accepted, call[p].msg)
      BY <1>24 DEF DecryptPayload
    <2>4. IsABag(accepted') /\ DOMAIN accepted' \subseteq Messages
      <3>1. /\ IsABag(BagAdd(accepted, call[p].msg))
            /\ DOMAIN BagAdd(accepted, call[p].msg) = DOMAIN accepted \cup {call[p].msg}
        BY <2>2, BagGrows
      <3> QED BY <2>1, <2>2, <2>3, <3>1
    <2> QED BY <1>24, <2>4, ReturnType DEF DecryptPayload, TypeOK
  <1>25. ASSUME NEW p \in Procs, ReturnEnvelope(p) PROVE TypeOK'
    <2>1. call[p].msg \in Messages
      BY <1>25 DEF ReturnEnvelope, CallInv, CallOK, TypeOK
    <2> QED BY <1>25, <2>1, IdleType DEF ReturnEnvelope, TypeOK
  <1>14. ASSUME NEW p \in Procs, ResolverTrusts(p) PROVE TypeOK'
    <2> DEFINE s == store[Home[p]]
    <2>1. s \in Stores /\ call[p].dev \in Devices
      BY <1>14, Parts DEF ResolverTrusts, CallInv, CallOK
    <2>2. ASSUME NEW ik, s.trust \in [IdentityKeys -> TrustStates]
          PROVE  SetTrust(s, ik, "trusted") \in Stores
      BY <2>1 DEF SetTrust, Stores, TrustStates
    <2>3. store' \in [Devices -> Stores]
      BY <1>14, <2>1, <2>2, StoreParts DEF ResolverTrusts, TypeOK
    <2>4. call' \in [Procs -> Calls]
      BY <1>14, PcType DEF ResolverTrusts
    <2> QED BY <1>14, <2>3, <2>4 DEF ResolverTrusts, TypeOK
  <1>15. ASSUME NEW p \in Procs, ResolverDeclines(p) PROVE TypeOK'
    BY <1>15, ReturnType DEF ResolverDeclines, TypeOK
  <1>16. ASSUME NEW p \in Procs, CallFails(p) PROVE TypeOK'
    BY <1>16, ReturnType DEF CallFails, TypeOK
  <1>17. ASSUME NEW d \in Devices, RotateSignedPreKey(d) PROVE TypeOK'
    <2>1. <<d, fresh[d]>> \in Keys
      BY Parts DEF Keys
    <2>2. store' \in [Devices -> Stores]
      BY <1>17, <2>1, Parts, RotateOp DEF RotateSignedPreKey, TypeOK
    <2> QED BY <1>17, <2>2 DEF RotateSignedPreKey, TypeOK
  <1>18. ASSUME NEW d \in Devices, GenerateOneTimePreKey(d) PROVE TypeOK'
    <2>1. <<d, fresh[d]>> \in Keys
      BY Parts DEF Keys
    <2>2. store' \in [Devices -> Stores]
      BY <1>18, <2>1, Parts, GenerateOp DEF GenerateOneTimePreKey, TypeOK
    <2> QED BY <1>18, <2>2 DEF GenerateOneTimePreKey, TypeOK
  <1>19. ASSUME NEW d \in Devices, PublishBundle(d) PROVE TypeOK'
    BY <1>19, Parts, BundleType DEF PublishBundle, TypeOK
  <1>20. ASSUME NEW d \in Devices, NEW ik \in IdentityKeys, UserBlocks(d, ik) PROVE TypeOK'
    <2>1. SetTrust(store[d], ik, "untrusted") \in Stores
      BY Parts, TrustOps DEF TrustStates
    <2> QED BY <1>20, <2>1 DEF UserBlocks, TypeOK
  <1>21. ASSUME NEW d \in Devices, Restart(d) PROVE TypeOK'
    BY <1>21, DeadType DEF Restart, TypeOK
  <1>22. ASSUME NEW d \in Devices, Reinstall(d) PROVE TypeOK'
    <2>1. store[d].identityKey[2] + 1 \in Gens
      BY <1>22, Parts, StoreParts, SessionsAssumption DEF Reinstall, IdentityKeys, Gens
    <2>2. NewStore(d, store[d].identityKey[2] + 1, fresh[d]) \in Stores
      BY <2>1, Parts, NewStoreOp
    <2>3. store' \in [Devices -> Stores]
      BY <1>22, <2>2 DEF Reinstall, TypeOK
    <2>4. fresh' \in [Devices -> Nat]
      BY <1>22, SessionsAssumption DEF Reinstall, TypeOK, KeysPerStore
    <2> QED BY <1>22, <2>3, <2>4, DeadType DEF Reinstall, TypeOK
  <1>23. CASE UNCHANGED vars
    BY <1>23 DEF vars, TypeOK
  <1> QED BY <1>1, <1>2, <1>3, <1>4, <1>5, <1>6, <1>7, <1>8, <1>9, <1>10, <1>11, <1>12, <1>13,
             <1>14, <1>15, <1>16, <1>17, <1>18, <1>19, <1>20, <1>21, <1>22, <1>23, <1>24, <1>25
          DEF Next, Begin, LockStep, Step, ResolverStep, Maintenance, Environment

-----------------------------------------------------------------------------
(* What a step does to the calls *)

(* A call that has got the lock takes the stored session in hand, or looks  *)
(* for the keys of a new one; later it goes on with the session it has.     *)
Loads(p) ==
    /\ call'[p].pc \in {"trust", "decrypt"}
    /\ call'[p].dev = call[p].dev
    /\ call'[p].sess = store[Home[p]].sessions[call[p].dev]
    /\ call'[p].pc = "trust" => call'[p].kx = None /\ EncryptLock(p)
    /\ call'[p].pc = "decrypt" => call'[p].msg = call[p].msg /\ call[p].msg.kx = None /\ DecryptLock(p)

Looks(p) ==
    /\ call'[p].pc = "consume" /\ call[p].pc = "decLock"
    /\ call'[p].dev = call[p].dev /\ call'[p].msg = call[p].msg /\ call[p].msg.kx # None
    /\ call'[p].spk = SignedPreKeyByID(store[Home[p]], HandshakeOf(call[p].msg).signedPreKeyID)

GoesOn(p) ==
    /\ \/ call[p].pc \in SendPCs /\ call'[p].pc \in SendPCs /\ (CheckTrust(p) \/ ResolverTrusts(p))
       \/ call[p].pc = "identify" /\ call'[p].pc = "decrypt" /\ Identify(p)
    /\ call'[p].dev = call[p].dev /\ call'[p].sess = call[p].sess
    /\ call'[p].kx = call[p].kx /\ call'[p].msg = call[p].msg /\ call'[p].barred = call[p].barred

(* DecryptMessage has stored the session and goes on to the payload.        *)
Opens(p) ==
    /\ DecryptAndPut(p) /\ CanDecrypt(call[p].sess, call[p].msg.data)
    /\ call'[p].pc = "payload" /\ call'[p].dev = call[p].dev /\ call'[p].msg = call[p].msg

(* A call begins, is through with the session, or ends; with a session in   *)
(* hand DecryptMessage ends when the session does not open the message, in  *)
(* an error of the Store, or with the process.                              *)
Ends(p) ==
    /\ call'[p].pc \in WaitPCs \cup {"idle", "enveloped"}
    /\ call[p].pc = "decrypt" =>
          DecryptAndPut(p) \/ Home[p] \in Unreliable \cup Restartable \cup Reinstallable

CallMove(p) ==
    \/ call'[p] = call[p]
    \/ Ends(p) \/ Opens(p)
    \/ Looks(p) \/ (EncryptLock(p) /\ call'[p].pc = "fetch")
    \/ Loads(p) \/ GoesOn(p)
    \/ FetchBundle(p) \/ (Consume(p) /\ call'[p].pc = "identify")

(* A call that a step of another one does not touch.                        *)
LEMMA CallKept ==
    ASSUME NEW p \in Procs, CallOK(p), call'[p] = call[p], sent \subseteq sent', made \subseteq made',
           call[p].pc \in LockedPCs => lock'[Home[p]][call[p].dev] = p
    PROVE  CallOK(p)' /\ CallMove(p)
  BY DEF CallOK, CallMove

(* A step inside the critical section.                                      *)
LEMMA LockKept ==
    ASSUME NEW p \in Procs, CallInv, UNCHANGED lock, sent \subseteq sent', made \subseteq made', NEW c,
           call' = [call EXCEPT ![p] = c], TypeOK
    PROVE  \A q \in Procs \ {p} : CallOK(q)' /\ CallMove(q)
  <1> SUFFICES ASSUME NEW q \in Procs \ {p} PROVE CallOK(q)' /\ CallMove(q)
    OBVIOUS
  <1>1. call'[q] = call[q] /\ (call[q].pc \in LockedPCs => lock'[Home[q]][call[q].dev] = q)
    BY DEF CallInv, CallOK, TypeOK
  <1> QED BY <1>1, CallKept DEF CallInv

(* Taking the lock, which nobody held.                                      *)
LEMMA LockTaken ==
    ASSUME NEW p \in Procs, CallInv, TypeOK, call[p].dev \in Devices, UNCHANGED <<made, sent>>,
           Free(p), Acquire(p), NEW c, call' = [call EXCEPT ![p] = c]
    PROVE  /\ \A q \in Procs \ {p} : CallOK(q)' /\ CallMove(q)
           /\ lock'[Home[p]][call[p].dev] = p
  <1>1. lock'[Home[p]][call[p].dev] = p
    BY Parts DEF Acquire, TypeOK
  <1>2. ASSUME NEW q \in Procs \ {p} PROVE CallOK(q)' /\ CallMove(q)
    <2>1. call'[q] = call[q] /\ CallOK(q)
      BY DEF CallInv, TypeOK
    <2>2. ASSUME call[q].pc \in LockedPCs PROVE lock'[Home[q]][call[q].dev] = q
      <3>1. lock[Home[q]][call[q].dev] = q /\ q # None /\ call[q].dev \in Devices
        BY <2>1, <2>2, NoneAssumption DEF CallOK, LockedPCs, EncryptPCs, DecryptPCs, WaitPCs
      <3>2. ~(Home[q] = Home[p] /\ call[q].dev = call[p].dev)
        BY <3>1 DEF Free
      <3> QED BY <3>1, <3>2, Parts DEF Acquire, TypeOK
    <2> QED BY <2>1, <2>2, CallKept
  <1> QED BY <1>1, <1>2

(* The deferred Unlock, by the goroutine that held the lock: the others are *)
(* left alone.                                                              *)
LEMMA Unlocked ==
    ASSUME NEW p \in Procs, CallInv, TypeOK, call[p].pc \in LockedPCs,
           sent \subseteq sent', made \subseteq made', NEW c, call' = [call EXCEPT ![p] = c],
           lock' = [lock EXCEPT ![Home[p]][call[p].dev] = None]
    PROVE  \A q \in Procs \ {p} : CallOK(q)' /\ CallMove(q)
  <1> SUFFICES ASSUME NEW q \in Procs \ {p} PROVE CallOK(q)' /\ CallMove(q)
    OBVIOUS
  <1>1. call'[q] = call[q] /\ CallOK(q)
    BY DEF CallInv, TypeOK
  <1>2. ASSUME call[q].pc \in LockedPCs PROVE lock'[Home[q]][call[q].dev] = q
    <2>1. lock[Home[q]][call[q].dev] = q /\ call[q].dev \in Devices
      BY <1>1, <1>2 DEF CallOK, LockedPCs, EncryptPCs, DecryptPCs, WaitPCs
    <2>2. lock[Home[p]][call[p].dev] = p
      BY DEF CallInv, CallOK
    <2>3. ~(Home[q] = Home[p] /\ call[q].dev = call[p].dev)
      BY <2>1, <2>2
    <2> QED BY <2>1, <2>3, Parts DEF TypeOK
  <1> QED BY <1>1, <1>2, CallKept

(* The call ends with the Unlock.                                           *)
LEMMA LockReturned ==
    ASSUME NEW p \in Procs, CallInv, TypeOK, call[p].pc \in LockedPCs, UNCHANGED <<made, sent>>, Return(p),
           call[p].pc # "decrypt" \/ DecryptAndPut(p) \/ Home[p] \in Unreliable
    PROVE  \A q \in Procs : CallOK(q)' /\ CallMove(q)
  <1>1. CallOK(p)' /\ CallMove(p)
    <2>1. call'[p] = Idle
      BY DEF Return, TypeOK
    <2> QED BY <2>1 DEF CallOK, CallMove, Ends, Idle, LockedPCs, EncryptPCs, DecryptPCs, SessionPCs, SendPCs, WaitPCs
  <1> QED BY <1>1, Unlocked DEF Return

(* The end of a process: its calls are gone, those of other devices go on.  *)
LEMMA LocksGone ==
    ASSUME NEW d \in Restartable \cup Reinstallable, CallInv, TypeOK, UNCHANGED <<made, sent>>, Dead(d), d \in Devices
    PROVE  \A q \in Procs : CallOK(q)' /\ CallMove(q)
  <1>1. ASSUME NEW q \in Procs, Home[q] = d PROVE CallOK(q)' /\ CallMove(q)
    <2>1. call'[q] = Idle
      BY <1>1 DEF Dead
    <2> QED BY <1>1, <2>1 DEF CallOK, CallMove, Ends, Idle, LockedPCs, EncryptPCs, DecryptPCs, SessionPCs, SendPCs, WaitPCs
  <1>2. ASSUME NEW q \in Procs, Home[q] # d PROVE CallOK(q)' /\ CallMove(q)
    <2>1. call'[q] = call[q] /\ CallOK(q)
      BY <1>2 DEF CallInv, Dead
    <2>2. lock'[Home[q]] = lock[Home[q]]
      BY <1>2, Parts DEF Dead, TypeOK
    <2> QED BY <2>1, <2>2, CallKept DEF CallOK
  <1> QED BY <1>1, <1>2

(* A step to the next program counter, with the same session in hand.       *)
LEMMA PcMove ==
    ASSUME TypeOK, CallInv, NEW p \in Procs, UNCHANGED <<lock, made, sent>>,
           GoesOn(p), \A q \in Procs \ {p} : call'[q] = call[q]
    PROVE  \A q \in Procs : CallOK(q)' /\ CallMove(q)
  <1>1. CallOK(p)' /\ CallMove(p)
    BY Counters DEF CallOK, CallMove, GoesOn, CallInv, SendPCs, SessionPCs
  <1>2. ASSUME NEW q \in Procs \ {p} PROVE CallOK(q)' /\ CallMove(q)
    BY CallKept DEF CallInv, CallOK
  <1> QED BY <1>1, <1>2

(* Every step moves every call as CallMove says, and leaves it as CallOK    *)
(* says: goroutines of one Manager keep out of each other's way.            *)
LEMMA CallStep ==
    ASSUME TypeOK, CallInv, DeliveryInv, KeyExchangeOnFirst, MessageInv, [Next]_vars
    PROVE  \A q \in Procs : CallOK(q)' /\ CallMove(q)
  <1> DEFINE Done == \A q \in Procs : CallOK(q)' /\ CallMove(q)
  <1> USE Counters DEF WaitPCs, SessionPCs, SendPCs
  <1>1. ASSUME NEW p \in Procs, NEW e \in Devices, BeginEncrypt(p, e) PROVE Done
    <2>1. call'[p] = [Idle EXCEPT !.pc = "encLock", !.dev = e]
      BY <1>1 DEF BeginEncrypt, TypeOK
    <2>2. CallOK(p)' /\ CallMove(p)
      BY <1>1, <2>1 DEF BeginEncrypt, CallOK, CallMove, Ends, Idle
    <2> QED BY <1>1, <2>2, LockKept DEF BeginEncrypt
  <1>2. ASSUME NEW p \in Procs, NEW e \in Devices, BeginReset(p, e) PROVE Done
    <2>1. call'[p] = [Idle EXCEPT !.pc = "resetLock", !.dev = e]
      BY <1>2 DEF BeginReset, TypeOK
    <2>2. CallOK(p)' /\ CallMove(p)
      BY <1>2, <2>1 DEF BeginReset, CallOK, CallMove, Ends, Idle
    <2> QED BY <1>2, <2>2, LockKept DEF BeginReset
  <1>3. ASSUME NEW p \in Procs, NEW m \in sent, BeginDecrypt(p, m) PROVE Done
    <2>1. call'[p] = [Idle EXCEPT !.pc = "decLock", !.dev = m.from, !.msg = m]
      BY <1>3 DEF BeginDecrypt, TypeOK
    <2>2. m.from \in Devices /\ m.from # m.to
      BY DEF TypeOK, Messages, MessageInv, DeliveryInv
    <2>3. CallOK(p)' /\ CallMove(p)
      BY <1>3, <2>1, <2>2 DEF BeginDecrypt, CallOK, CallMove, Ends, Idle
    <2> QED BY <1>3, <2>3, LockKept DEF BeginDecrypt
  <1>4. ASSUME NEW p \in Procs, EncryptLock(p) PROVE Done
    <2> DEFINE sess == store[Home[p]].sessions[call[p].dev]
               b    == {ik \in IdentityKeys : store[Home[p]].trust[ik] = "untrusted"}
    <2>1. call[p].dev \in Devices /\ call[p].dev # Home[p] /\ call[p].kx = None
      BY <1>4 DEF EncryptLock, CallInv, CallOK
    <2>2. call' = [call EXCEPT ![p] = [call[p] EXCEPT !.pc   = IF sess = None THEN "fetch" ELSE "trust",
                                                      !.sess = sess, !.barred = b]]
      BY <1>4 DEF EncryptLock
    <2>3. /\ \A q \in Procs \ {p} : CallOK(q)' /\ CallMove(q)
          /\ lock'[Home[p]][call[p].dev] = p
      BY <1>4, <2>1, <2>2, LockTaken DEF EncryptLock
    <2>4. /\ call'[p].pc = IF sess = None THEN "fetch" ELSE "trust"
          /\ call'[p].dev = call[p].dev /\ call'[p].sess = sess /\ call'[p].kx = None
      BY <2>1, <2>2, Parts DEF Calls, TypeOK
    <2>5. CallOK(p)' /\ CallMove(p)
      BY <1>4, <2>1, <2>3, <2>4 DEF CallOK, CallMove, Loads
    <2> QED BY <2>3, <2>5
  <1>5. ASSUME NEW p \in Procs, DecryptLock(p) PROVE Done
    <2> DEFINE m == call[p].msg
               s == store[Home[p]]
    <2>0. UNCHANGED <<made, sent>>
      BY <1>5 DEF DecryptLock
    <2>1. /\ call[p].dev \in Devices /\ call[p].dev # Home[p]
          /\ m \in sent /\ m.to = Home[p] /\ m.from = call[p].dev
      BY <1>5 DEF DecryptLock, CallInv, CallOK
    <2>2. CASE /\ m.kx = None /\ Acquire(p) /\ s.sessions[m.from] # None
               /\ call' = [call EXCEPT ![p].pc = "decrypt", ![p].sess = s.sessions[m.from]]
      <3>1. call' = [call EXCEPT ![p] = [call[p] EXCEPT !.pc = "decrypt", !.sess = s.sessions[m.from]]]
        BY <2>2
      <3>2. /\ \A q \in Procs \ {p} : CallOK(q)' /\ CallMove(q)
            /\ lock'[Home[p]][call[p].dev] = p
        BY <1>5, <2>1, <2>2, <3>1, LockTaken DEF DecryptLock
      <3>3. /\ call'[p].pc = "decrypt" /\ call'[p].dev = call[p].dev /\ call'[p].msg = m
            /\ call'[p].sess = s.sessions[m.from]
        BY <3>1, Parts DEF Calls, TypeOK
      <3>4. CallOK(p)' /\ CallMove(p)
        BY <1>5, <2>0, <2>1, <2>2, <3>2, <3>3 DEF CallOK, CallMove, Loads
      <3> QED BY <3>2, <3>4
    <2>3. CASE /\ m.kx # None /\ Acquire(p)
               /\ SignedPreKeyByID(s, HandshakeOf(m).signedPreKeyID) # None
               /\ call' = [call EXCEPT ![p].pc  = "consume",
                                       ![p].spk = SignedPreKeyByID(s, HandshakeOf(m).signedPreKeyID)]
      <3>1. PICK k : k = SignedPreKeyByID(s, HandshakeOf(m).signedPreKeyID)
        OBVIOUS
      <3>2. call' = [call EXCEPT ![p] = [call[p] EXCEPT !.pc = "consume", !.spk = k]]
        BY <2>3, <3>1
      <3>3. /\ \A q \in Procs \ {p} : CallOK(q)' /\ CallMove(q)
            /\ lock'[Home[p]][call[p].dev] = p
        BY <1>5, <2>1, <2>3, <3>2, LockTaken DEF DecryptLock
      <3>4. /\ call'[p].pc = "consume" /\ call'[p].dev = call[p].dev /\ call'[p].msg = m
            /\ call'[p].spk = k
        BY <3>2, Parts DEF Calls, TypeOK
      <3>5. call[p].pc = "decLock"
        BY <1>5 DEF DecryptLock
      <3>6. CallOK(p)' /\ CallMove(p)
        BY <2>0, <2>1, <2>3, <3>1, <3>3, <3>4, <3>5 DEF CallOK, CallMove, Looks
      <3> QED BY <3>3, <3>6
    <2>4. CASE call' = [call EXCEPT ![p] = Idle] /\ UNCHANGED lock
      <3>1. CallOK(p)' /\ CallMove(p)
        BY <1>5, <2>4 DEF DecryptLock, CallOK, CallMove, Ends, Idle, TypeOK
      <3> QED BY <1>5, <2>4, <3>1, LockKept DEF DecryptLock
    <2> QED BY <1>5, <2>2, <2>3, <2>4 DEF DecryptLock
  <1>6. ASSUME NEW p \in Procs, Reset(p) PROVE Done
    <2>1. CallOK(p)' /\ CallMove(p)
      BY <1>6 DEF Reset, CallOK, CallMove, Ends, Idle, TypeOK
    <2> QED BY <1>6, <2>1, LockKept DEF Reset
  <1>7. ASSUME NEW p \in Procs, FetchBundle(p) PROVE Done
    <2>1. PICK s, kx : call' = [call EXCEPT ![p] = [call[p] EXCEPT !.pc = "trust", !.sess = s, !.kx = kx]]
                       /\ s = NewActiveSession(store[Home[p]].identityKey, bundles[call[p].dev],
                                               <<Home[p], fresh[Home[p]]>>)
      BY <1>7 DEF FetchBundle
    <2>2. call'[p].pc = "trust" /\ call'[p].dev = call[p].dev /\ call'[p].sess = s
      BY <2>1, Parts DEF Calls, TypeOK
    <2>3. call[p].dev \in Devices /\ call[p].dev # Home[p] /\ lock[Home[p]][call[p].dev] = p
      BY <1>7 DEF FetchBundle, CallInv, CallOK
    <2>4. s # None
      <3>1. /\ bundles[call[p].dev] \in Bundles /\ bundles[call[p].dev].preKey # None
            /\ <<Home[p], fresh[Home[p]]>> \in Keys /\ store[Home[p]].identityKey \in IdentityKeys
        BY <1>7, <2>3, Parts, StoreParts DEF FetchBundle, Keys
      <3> QED BY <2>1, <3>1, ActiveSession, NoneAssumption
    <2>5. UNCHANGED <<lock, made, sent>>
      BY <1>7 DEF FetchBundle
    <2>6. CallOK(p)'
      BY <2>2, <2>3, <2>4, <2>5 DEF CallOK
    <2>7. CallMove(p)
      BY <1>7 DEF CallMove
    <2> QED BY <2>1, <2>5, <2>6, <2>7, LockKept
  <1>8. ASSUME NEW p \in Procs, FetchFails(p) PROVE Done
    BY <1>8, LockReturned DEF FetchFails
  <1>9. ASSUME NEW p \in Procs, CheckTrust(p) PROVE Done
    <2>1. CASE Return(p)
      BY <1>9, <2>1, LockReturned DEF CheckTrust
    <2>2. ASSUME NEW pc \in SendPCs, call' = [call EXCEPT ![p].pc = pc], UNCHANGED lock PROVE Done
      <3>1. call' = [call EXCEPT ![p] = [call[p] EXCEPT !.pc = pc]]
        BY <2>2
      <3>2. GoesOn(p) /\ UNCHANGED <<made, sent>>
        BY <1>9, <3>1, Parts DEF CheckTrust, GoesOn, TypeOK, Calls
      <3> QED BY <2>2, <3>1, <3>2, PcMove
    <2> QED BY <1>9, <2>1, <2>2 DEF CheckTrust
  <1>10. ASSUME NEW p \in Procs, EncryptAndPut(p) PROVE Done
    <2>1. PICK m : m = [from |-> Home[p], to |-> call[p].dev, data |-> Encrypt(call[p].sess), kx |-> call[p].kx]
      OBVIOUS
    <2>2. /\ call' = [call EXCEPT ![p] = [Idle EXCEPT !.pc = "enveloped", !.dev = call[p].dev, !.msg = m]]
          /\ lock' = [lock EXCEPT ![Home[p]][call[p].dev] = None]
          /\ made' = made \cup {m} /\ UNCHANGED sent /\ call[p].pc = "encrypt"
      BY <1>10, <2>1 DEF EncryptAndPut
    <2>3. \A q \in Procs \ {p} : CallOK(q)' /\ CallMove(q)
      BY <2>2, Unlocked
    <2>4. call[p].dev \in Devices /\ call[p].dev # Home[p]
      BY <2>2 DEF CallInv, CallOK
    <2>5. call'[p].pc = "enveloped" /\ call'[p].dev = call[p].dev /\ call'[p].msg = m
      BY <2>2 DEF TypeOK, Idle
    <2>6. CallOK(p)' /\ CallMove(p)
      BY <2>2, <2>4, <2>5 DEF CallOK, CallMove, Ends
    <2> QED BY <2>3, <2>6
  <1>11. ASSUME NEW p \in Procs, Consume(p) PROVE Done
    <2> DEFINE kx == HandshakeOf(call[p].msg)
               s  == store[Home[p]]
    <2>1. CASE Return(p)
      BY <1>11, <2>1, LockReturned DEF Consume
    <2>2. ASSUME NEW n, call' = [call EXCEPT ![p].pc = "identify", ![p].sess = n], UNCHANGED lock,
                 n = NewPassiveSession(s.identityKey, kx, call[p].spk, s.preKeys[kx.preKeyID]),
                 s.preKeys[kx.preKeyID] # None
          PROVE  Done
      <3>1. call' = [call EXCEPT ![p] = [call[p] EXCEPT !.pc = "identify", !.sess = n]]
        BY <2>2
      <3>2. /\ call'[p].pc = "identify" /\ call'[p].dev = call[p].dev /\ call'[p].sess = n
            /\ call'[p].msg = call[p].msg
        BY <3>1, Parts DEF Calls, TypeOK
      <3>3. kx \in KeyExchanges /\ call[p].spk \in Keys
        BY <1>11, CallHandshake, Parts DEF Consume, CallInv, CallOK
      <3>4. s.preKeys[kx.preKeyID] \in Keys /\ s.identityKey \in IdentityKeys
        BY <2>2, <3>3, Parts, StoreParts DEF KeyExchanges
      <3>5. n # None
        BY <2>2, <3>3, <3>4, PassiveSession, NoneAssumption
      <3>6. call[p].pc = "consume" /\ UNCHANGED <<lock, made, sent>>
        BY <1>11, <2>2 DEF Consume
      <3>7. CallOK(p)'
        <4>1. CallOK(p)
          BY DEF CallInv
        <4>2. /\ call[p].dev \in Devices /\ call[p].dev # Home[p] /\ lock[Home[p]][call[p].dev] = p
              /\ call[p].msg \in sent /\ call[p].msg.to = Home[p] /\ call[p].msg.from = call[p].dev
              /\ call[p].msg.kx # None
          BY <3>6, <4>1 DEF CallOK
        <4> QED BY <3>2, <3>5, <3>6, <4>2 DEF CallOK
      <3>8. CallMove(p)
        BY <1>11, <3>2 DEF CallMove
      <3> QED BY <2>2, <3>1, <3>6, <3>7, <3>8, LockKept
    <2> QED BY <1>11, <2>1, <2>2 DEF Consume
  <1>12. ASSUME NEW p \in Procs, Identify(p) PROVE Done
    <2>1. call' = [call EXCEPT ![p] = [call[p] EXCEPT !.pc = "decrypt"]]
      BY <1>12 DEF Identify
    <2>2. GoesOn(p) /\ UNCHANGED <<lock, made, sent>>
      BY <1>12, <2>1, Parts DEF Identify, GoesOn, TypeOK, Calls
    <2> QED BY <2>1, <2>2, PcMove
  <1>13. ASSUME NEW p \in Procs, DecryptAndPut(p) PROVE Done
    <2>1. CASE Return(p)
      BY <1>13, <2>1, LockReturned DEF DecryptAndPut
    <2>2. CASE /\ call' = [call EXCEPT ![p] = [Idle EXCEPT !.pc = "payload", !.dev = call[p].dev,
                                                           !.msg = call[p].msg]]
               /\ UNCHANGED lock /\ CanDecrypt(call[p].sess, call[p].msg.data)
      <3>1. UNCHANGED <<made, sent>> /\ call[p].pc = "decrypt"
        BY <1>13 DEF DecryptAndPut
      <3>2. call'[p].pc = "payload" /\ call'[p].dev = call[p].dev /\ call'[p].msg = call[p].msg
        BY <2>2 DEF TypeOK, Idle
      <3>3. /\ call[p].dev \in Devices /\ call[p].dev # Home[p] /\ lock[Home[p]][call[p].dev] = p
            /\ call[p].msg \in sent /\ call[p].msg.to = Home[p] /\ call[p].msg.from = call[p].dev
        BY <3>1 DEF CallInv, CallOK
      <3>4. CallOK(p)'
        BY <2>2, <3>1, <3>2, <3>3 DEF CallOK
      <3>5. CallMove(p)
        BY <1>13, <2>2, <3>2 DEF CallMove, Opens
      <3> QED BY <2>2, <3>1, <3>4, <3>5, LockKept
    <2> QED BY <1>13, <2>1, <2>2 DEF DecryptAndPut
  <1>14. ASSUME NEW p \in Procs, ResolverTrusts(p) PROVE Done
    <2>1. call' = [call EXCEPT ![p] = [call[p] EXCEPT !.pc = "encrypt"]]
      BY <1>14 DEF ResolverTrusts
    <2>2. GoesOn(p) /\ UNCHANGED <<lock, made, sent>>
      BY <1>14, <2>1, Parts DEF ResolverTrusts, GoesOn, TypeOK, Calls
    <2> QED BY <2>1, <2>2, PcMove
  <1>15. ASSUME NEW p \in Procs, ResolverDeclines(p) \/ CallFails(p) \/ DecryptPayload(p) PROVE Done
    BY <1>15, LockReturned DEF ResolverDeclines, CallFails, DecryptPayload
  <1>20. ASSUME NEW p \in Procs, ReturnEnvelope(p) PROVE Done
    <2>1. CallOK(p)' /\ CallMove(p)
      BY <1>20 DEF ReturnEnvelope, CallOK, CallMove, Ends, Idle, TypeOK
    <2> QED BY <1>20, <2>1, LockKept DEF ReturnEnvelope
  <1>16. ASSUME NEW d \in Devices, Restart(d) \/ Reinstall(d) PROVE Done
    BY <1>16, LocksGone DEF Restart, Reinstall
  <1>17. CASE UNCHANGED <<lock, call, made, sent>>
    BY <1>17, CallKept DEF CallInv, CallOK
  <1>18. CASE UNCHANGED vars
    BY <1>17, <1>18 DEF vars
  <1>19. ASSUME NEW d \in Devices, Maintenance(d) \/ \E ik \in IdentityKeys : UserBlocks(d, ik)
         PROVE  Done
    BY <1>17, <1>19
       DEF Maintenance, RotateSignedPreKey, GenerateOneTimePreKey, PublishBundle, UserBlocks
  <1> QED BY <1>1, <1>2, <1>3, <1>4, <1>5, <1>6, <1>7, <1>8, <1>9, <1>10, <1>11, <1>12, <1>13,
             <1>14, <1>15, <1>16, <1>18, <1>19, <1>20
          DEF Next, Begin, LockStep, Step, ResolverStep, Environment

-----------------------------------------------------------------------------
(* What a step does to the Stores *)

(* A call stores the session it has used.                                   *)
Puts(p) == \/ EncryptAndPut(p)
           \/ DecryptAndPut(p) /\ CanDecrypt(call[p].sess, call[p].msg.data)

(* Identities change by reinstallation only, a pool gets new key pairs      *)
(* only and no two times the same, and a session is what a call stored.     *)
StoreMove(d) ==
    /\ fresh[d] <= fresh'[d]
    /\ \/ store'[d].identityKey = store[d].identityKey
       \/ d \in Reinstallable /\ store'[d].identityKey[1] = d
    /\ \A i \in Ids :
          \/ store'[d].preKeys[i] \in {store[d].preKeys[i], None}
          \/ \E n \in Nat : fresh[d] <= n /\ n < fresh'[d] /\ store'[d].preKeys[i] = <<d, n>>
    /\ \A i, j \in Ids :
          store'[d].preKeys[i] # None /\ store'[d].preKeys[i] = store'[d].preKeys[j] => i = j
    /\ \A e \in Devices :
          \/ store'[d].sessions[e] \in {store[d].sessions[e], None}
          \/ \E p \in Procs : Home[p] = d /\ call[p].dev = e /\ Puts(p)

(* A Store whose keys and sessions a step leaves alone.                     *)
LEMMA StoreKept ==
    ASSUME TypeOK, TypeOK', KeysInv, NEW d \in Devices, fresh[d] <= fresh'[d],
           store'[d].identityKey = store[d].identityKey,
           store'[d].preKeys = store[d].preKeys,
           store'[d].sessions = store[d].sessions
    PROVE  StoreMove(d)
  BY DEF StoreMove, KeysInv

(* Every step changes every Store as StoreMove says.                        *)
LEMMA StoreStep ==
    ASSUME TypeOK, TypeOK', CallInv, DeliveryInv, KeyExchangeOnFirst, KeysInv, [Next]_vars
    PROVE  \A d \in Devices : StoreMove(d)
  <1> DEFINE Done == \A d \in Devices : StoreMove(d)
  <1>1. \A d \in Devices : fresh[d] \in Nat /\ fresh[d] <= fresh[d]
    BY Parts
  <1>2. CASE UNCHANGED <<store, fresh>>
    BY <1>1, <1>2, StoreKept
  <1>3. ASSUME NEW d \in Devices, NEW t, store' = [store EXCEPT ![d] = t], UNCHANGED fresh, StoreMove(d)
        PROVE  Done
    <2> SUFFICES ASSUME NEW c \in Devices \ {d} PROVE StoreMove(c)
      BY <1>3
    <2>1. store'[c] = store[c] /\ fresh'[c] = fresh[c]
      BY <1>3 DEF TypeOK
    <2> QED BY <1>1, <2>1, StoreKept
  <1>4. ASSUME NEW d \in Devices, NEW t, store' = [store EXCEPT ![d] = t], NEW n \in Nat,
               fresh' = [fresh EXCEPT ![d] = @ + n], StoreMove(d)
        PROVE  Done
    <2> SUFFICES ASSUME NEW c \in Devices \ {d} PROVE StoreMove(c)
      BY <1>4
    <2>1. store'[c] = store[c] /\ fresh'[c] = fresh[c]
      BY <1>4 DEF TypeOK
    <2> QED BY <1>1, <2>1, StoreKept
  <1>5. ASSUME NEW p \in Procs, Reset(p) PROVE Done
    <2> DEFINE t == DeleteSession(store[Home[p]], call[p].dev)
    <2>1. call[p].dev \in Devices
      BY <1>5 DEF Reset, CallInv, CallOK
    <2>2. /\ t.sessions = [store[Home[p]].sessions EXCEPT ![call[p].dev] = None]
          /\ t.identityKey = store[Home[p]].identityKey /\ t.preKeys = store[Home[p]].preKeys
      BY <2>1, Parts, DeleteOp
    <2>3. store' = [store EXCEPT ![Home[p]] = t] /\ UNCHANGED fresh
      BY <1>5 DEF Reset
    <2> HIDE DEF t
    <2>4. store'[Home[p]] = t
      BY <2>3, Parts DEF TypeOK
    <2>5. StoreMove(Home[p])
      BY <1>1, <2>1, <2>2, <2>3, <2>4, Parts, StoreParts DEF StoreMove, KeysInv
    <2> QED BY <1>3, <2>3, <2>5, Parts
  <1>6. ASSUME NEW p \in Procs, FetchBundle(p) PROVE Done
    <2> DEFINE d == Home[p]
               t == PutRemoteIdentityKey(store[d], call[p].dev, bundles[call[p].dev].identityKey)
    <2>1. call[p].dev \in Devices /\ d \in Devices
      BY <1>6, Parts DEF FetchBundle, CallInv, CallOK
    <2>2. bundles[call[p].dev].identityKey \in IdentityKeys
      BY <2>1, Parts DEF Bundles
    <2>3. /\ t.sessions = store[d].sessions
          /\ t.identityKey = store[d].identityKey /\ t.preKeys = store[d].preKeys
      BY <2>1, <2>2, Parts, RemoteOp
    <2>4. store' = [store EXCEPT ![d] = t] /\ fresh' = [fresh EXCEPT ![d] = @ + 1]
      BY <1>6 DEF FetchBundle
    <2> HIDE DEF t
    <2>5. store'[d] = t /\ fresh[d] <= fresh'[d]
      BY <1>1, <2>1, <2>4 DEF TypeOK
    <2>6. StoreMove(d)
      BY <2>1, <2>3, <2>5, StoreKept
    <2> QED BY <1>4, <2>1, <2>4, <2>6
  <1>7. ASSUME NEW p \in Procs, EncryptAndPut(p) PROVE Done
    <2> DEFINE d == Home[p]
               t == PutSession(store[d], call[p].dev, Marshal(AfterEncrypt(call[p].sess)))
    <2>1. call[p].dev \in Devices /\ d \in Devices /\ call[p].sess \in SessionStates
      BY <1>7, Parts DEF EncryptAndPut, CallInv, CallOK, SessionPCs, SendPCs
    <2>2. /\ t.sessions = [store[d].sessions EXCEPT ![call[p].dev] = Marshal(AfterEncrypt(call[p].sess))]
          /\ t.identityKey = store[d].identityKey /\ t.preKeys = store[d].preKeys
      BY <2>1, Parts, StoredSession, SessionOps
    <2>3. store' = [store EXCEPT ![d] = t] /\ UNCHANGED fresh
      BY <1>7 DEF EncryptAndPut
    <2>4. Puts(p)
      BY <1>7 DEF Puts
    <2> HIDE DEF t
    <2>5. store'[d] = t
      BY <2>1, <2>3 DEF TypeOK
    <2>6. \A e \in Devices \ {call[p].dev} : store'[d].sessions[e] = store[d].sessions[e]
      BY <2>1, <2>2, <2>5, Parts, StoreParts
    <2>7. StoreMove(d)
      BY <1>1, <2>1, <2>2, <2>3, <2>4, <2>5, <2>6 DEF StoreMove, KeysInv
    <2> QED BY <1>3, <2>1, <2>3, <2>7
  <1>8. ASSUME NEW p \in Procs, Consume(p) PROVE Done
    <2> DEFINE d == Home[p]
               i == HandshakeOf(call[p].msg).preKeyID
               t == ConsumePreKey(store[d], i)
    <2>1. i \in Ids /\ d \in Devices
      BY <1>8, CallHandshake, Parts DEF Consume, CallInv, CallOK, KeyExchanges, DecryptPCs
    <2>2. /\ t.sessions = store[d].sessions /\ t.identityKey = store[d].identityKey
          /\ t.preKeys = [store[d].preKeys EXCEPT ![i] = None]
      BY <2>1, Parts, ConsumeOp
    <2>3. UNCHANGED fresh /\ (UNCHANGED store \/ store' = [store EXCEPT ![d] = t])
      BY <1>8 DEF Consume
    <2> HIDE DEF t, i
    <2>4. CASE store' = [store EXCEPT ![d] = t]
      <3>1. store'[d] = t
        BY <2>1, <2>4 DEF TypeOK
      <3>2. \A j \in Ids : store'[d].preKeys[j] = IF j = i THEN None ELSE store[d].preKeys[j]
        BY <2>1, <2>2, <3>1, Parts, StoreParts
      <3>3. StoreMove(d)
        BY <1>1, <2>1, <2>2, <2>3, <3>1, <3>2 DEF StoreMove, KeysInv
      <3> QED BY <1>3, <2>1, <2>3, <2>4, <3>3
    <2> QED BY <1>2, <2>3, <2>4
  <1>9. ASSUME NEW p \in Procs, Identify(p) PROVE Done
    <2> DEFINE d == Home[p]
               m == call[p].msg
               t == PutRemoteIdentityKey(store[d], m.from, HandshakeOf(m).identityKey)
    <2>1. m.from \in Devices /\ d \in Devices /\ HandshakeOf(m).identityKey \in IdentityKeys
      BY <1>9, CallHandshake, Parts DEF Identify, CallInv, CallOK, KeyExchanges, DecryptPCs
    <2>2. /\ t.sessions = store[d].sessions
          /\ t.identityKey = store[d].identityKey /\ t.preKeys = store[d].preKeys
      BY <2>1, Parts, RemoteOp
    <2>3. store' = [store EXCEPT ![d] = t] /\ UNCHANGED fresh
      BY <1>9 DEF Identify
    <2> HIDE DEF t
    <2>4. store'[d] = t
      BY <2>1, <2>3 DEF TypeOK
    <2>5. StoreMove(d)
      BY <1>1, <2>1, <2>2, <2>3, <2>4, StoreKept
    <2> QED BY <1>3, <2>1, <2>3, <2>5
  <1>10. ASSUME NEW p \in Procs, DecryptAndPut(p) PROVE Done
    <2> DEFINE d == Home[p]
               c == call[p]
               x == Marshal(AfterDecrypt(c.sess, c.msg.data))
               t == PutSession(store[d], c.msg.from, x)
    <2>1. /\ c.dev \in Devices /\ d \in Devices /\ c.sess \in SessionStates
          /\ c.msg.from = c.dev /\ c.msg.data \in Data
      BY <1>10, Parts, CallHandshake DEF DecryptAndPut, CallInv, CallOK, SessionPCs, DecryptPCs
    <2>a. x \in SessionStates
      BY <2>1, StoredSession
    <2>2. /\ t.sessions = [store[d].sessions EXCEPT ![c.dev] = x]
          /\ t.identityKey = store[d].identityKey /\ t.preKeys = store[d].preKeys
      BY <2>1, <2>a, Parts, SessionOps
    <2>3. /\ UNCHANGED fresh
          /\ UNCHANGED store \/ (CanDecrypt(c.sess, c.msg.data) /\ store' = [store EXCEPT ![d] = t])
      BY <1>10 DEF DecryptAndPut
    <2> HIDE DEF t, x
    <2>4. CASE CanDecrypt(c.sess, c.msg.data) /\ store' = [store EXCEPT ![d] = t]
      <3>1. store'[d] = t
        BY <2>1, <2>4 DEF TypeOK
      <3>2. \A e \in Devices \ {c.dev} : store'[d].sessions[e] = store[d].sessions[e]
        BY <2>1, <2>2, <3>1, Parts, StoreParts
      <3>3. Puts(p)
        BY <1>10, <2>4 DEF Puts
      <3>4. StoreMove(d)
        BY <1>1, <2>1, <2>2, <2>3, <3>1, <3>2, <3>3 DEF StoreMove, KeysInv
      <3> QED BY <1>3, <2>1, <2>3, <2>4, <3>4
    <2> QED BY <1>2, <2>3, <2>4
  <1>11. ASSUME NEW p \in Procs, ResolverTrusts(p) PROVE Done
    <2> DEFINE d == Home[p]
               t == SetTrust(store[d], store[d].remoteID[call[p].dev], "trusted")
    <2>1. d \in Devices
      BY Parts
    <2>2. /\ t.sessions = store[d].sessions
          /\ t.identityKey = store[d].identityKey /\ t.preKeys = store[d].preKeys
      BY <2>1, Parts DEF SetTrust, Stores
    <2>3. store' = [store EXCEPT ![d] = t] /\ UNCHANGED fresh
      BY <1>11 DEF ResolverTrusts
    <2> HIDE DEF t
    <2>4. store'[d] = t
      BY <2>1, <2>3 DEF TypeOK
    <2>5. StoreMove(d)
      BY <1>1, <2>1, <2>2, <2>3, <2>4, StoreKept
    <2> QED BY <1>3, <2>1, <2>3, <2>5
  <1>12. ASSUME NEW d \in Devices, RotateSignedPreKey(d) PROVE Done
    <2> DEFINE t == RotateSPK(store[d], [id |-> (store[d].currentSPK.id + 1) % IdSpace,
                                         key |-> <<d, fresh[d]>>, signer |-> store[d].identityKey])
    <2>1. <<d, fresh[d]>> \in Keys
      BY Parts DEF Keys
    <2>2. /\ t.sessions = store[d].sessions
          /\ t.identityKey = store[d].identityKey /\ t.preKeys = store[d].preKeys
      BY <2>1, Parts, RotateOp
    <2>3. store' = [store EXCEPT ![d] = t] /\ fresh' = [fresh EXCEPT ![d] = @ + 1]
      BY <1>12 DEF RotateSignedPreKey
    <2> HIDE DEF t
    <2>4. store'[d] = t /\ fresh[d] <= fresh'[d]
      BY <1>1, <2>3 DEF TypeOK
    <2>5. StoreMove(d)
      BY <2>2, <2>4, StoreKept
    <2> QED BY <1>4, <2>3, <2>5
  <1>13. ASSUME NEW d \in Devices, GenerateOneTimePreKey(d) PROVE Done
    <2> DEFINE k == <<d, fresh[d]>>
               i == NextPreKeyID(store[d])
               t == PutPreKeys(AllocPreKeyID(store[d]), [NoPreKeys EXCEPT ![i] = k])
    <2>1. k \in Keys
      BY Parts DEF Keys
    <2>2. /\ t.sessions = store[d].sessions /\ t.identityKey = store[d].identityKey
          /\ t.preKeys = [store[d].preKeys EXCEPT ![i] = k] /\ i \in Ids
      BY <2>1, Parts, GenerateOp
    <2>3. store' = [store EXCEPT ![d] = t] /\ fresh' = [fresh EXCEPT ![d] = @ + 1]
      BY <1>13 DEF GenerateOneTimePreKey
    <2> HIDE DEF t, i
    <2>4. store'[d] = t /\ fresh'[d] = fresh[d] + 1
      BY <1>1, <2>3 DEF TypeOK
    <2>5. \A j \in Ids : store'[d].preKeys[j] = IF j = i THEN k ELSE store[d].preKeys[j]
      BY <2>2, <2>4, Parts, StoreParts
    <2>6. \A j \in Ids : store[d].preKeys[j] # k
      BY <1>1, NoneAssumption, <2>1 DEF KeysInv, Old
    <2>7. StoreMove(d)
      BY <1>1, <2>2, <2>4, <2>5, <2>6 DEF StoreMove, KeysInv
    <2> QED BY <1>4, <2>3, <2>7
  <1>14. ASSUME NEW d \in Devices, NEW ik \in IdentityKeys, UserBlocks(d, ik) PROVE Done
    <2> DEFINE t == SetTrust(store[d], ik, "untrusted")
    <2>1. /\ t.sessions = store[d].sessions
          /\ t.identityKey = store[d].identityKey /\ t.preKeys = store[d].preKeys
      BY Parts, TrustOps DEF TrustStates
    <2>2. store' = [store EXCEPT ![d] = t] /\ UNCHANGED fresh
      BY <1>14 DEF UserBlocks
    <2> HIDE DEF t
    <2>3. store'[d] = t
      BY <2>2 DEF TypeOK
    <2>4. StoreMove(d)
      BY <1>1, <2>1, <2>2, <2>3, StoreKept
    <2> QED BY <1>3, <2>2, <2>4
  <1>15. ASSUME NEW d \in Devices, Reinstall(d) PROVE Done
    <2> DEFINE g == store[d].identityKey[2] + 1
               t == NewStore(d, g, fresh[d])
    <2>1. g \in Gens
      BY <1>15, Parts, StoreParts, SessionsAssumption DEF Reinstall, IdentityKeys, Gens
    <2>2. /\ t.identityKey = <<d, g>>
          /\ \A e \in Devices : t.sessions[e] = None
          /\ \A i \in Ids : t.preKeys[i] = IF i \in 1 .. PoolSize THEN <<d, fresh[d] + i>> ELSE None
      BY <2>1, <1>1, NewStoreOp
    <2>3. store' = [store EXCEPT ![d] = t] /\ fresh' = [fresh EXCEPT ![d] = @ + KeysPerStore]
      BY <1>15 DEF Reinstall
    <2> HIDE DEF t, g
    <2>4. store'[d] = t /\ fresh'[d] = fresh[d] + KeysPerStore
      BY <1>1, <2>3 DEF TypeOK
    <2>5. KeysPerStore = PoolSize + 1 /\ PoolSize \in Nat /\ KeysPerStore \in Nat
      BY SessionsAssumption DEF KeysPerStore
    <2>6. d \in Reinstallable
      BY <1>15 DEF Reinstall
    <2>7. \A i \in Ids :
             \/ store'[d].preKeys[i] = None
             \/ \E n \in Nat : fresh[d] <= n /\ n < fresh'[d] /\ store'[d].preKeys[i] = <<d, n>>
      <3> SUFFICES ASSUME NEW i \in Ids, store'[d].preKeys[i] # None
                   PROVE  \E n \in Nat : fresh[d] <= n /\ n < fresh'[d] /\ store'[d].preKeys[i] = <<d, n>>
        OBVIOUS
      <3>1. i \in 1 .. PoolSize /\ store'[d].preKeys[i] = <<d, fresh[d] + i>>
        BY <2>2, <2>4
      <3>2. fresh[d] + i \in Nat /\ fresh[d] <= fresh[d] + i /\ fresh[d] + i < fresh'[d]
        BY <1>1, <2>4, <2>5, <3>1
      <3> QED BY <3>1, <3>2
    <2>8. \A i, j \in Ids :
             store'[d].preKeys[i] # None /\ store'[d].preKeys[i] = store'[d].preKeys[j] => i = j
      <3> SUFFICES ASSUME NEW i \in Ids, NEW j \in Ids, store'[d].preKeys[i] # None,
                          store'[d].preKeys[i] = store'[d].preKeys[j]
                   PROVE  i = j
        OBVIOUS
      <3>1. i \in 1 .. PoolSize /\ j \in 1 .. PoolSize /\ <<d, fresh[d] + i>> = <<d, fresh[d] + j>>
        BY <2>2, <2>4
      <3> QED BY <1>1, <2>5, <3>1
    <2>9. StoreMove(d)
      BY <1>1, <2>2, <2>4, <2>5, <2>6, <2>7, <2>8 DEF StoreMove
    <2> QED BY <1>4, <2>3, <2>5, <2>9
  <1>16. ASSUME NEW p \in Procs,
                \/ Begin(p) \/ EncryptLock(p) \/ DecryptLock(p) \/ FetchFails(p) \/ CheckTrust(p)
                \/ ResolverDeclines(p) \/ CallFails(p) \/ DecryptPayload(p) \/ ReturnEnvelope(p)
         PROVE  Done
    BY <1>2, <1>16 DEF Begin, BeginEncrypt, BeginReset, BeginDecrypt, EncryptLock, DecryptLock,
                       FetchFails, CheckTrust, ResolverDeclines, CallFails, DecryptPayload, ReturnEnvelope
  <1>17. ASSUME NEW d \in Devices, PublishBundle(d) \/ Restart(d) PROVE Done
    BY <1>2, <1>17 DEF PublishBundle, Restart
  <1>18. CASE UNCHANGED vars
    BY <1>2, <1>18 DEF vars
  <1> QED BY <1>5, <1>6, <1>7, <1>8, <1>9, <1>10, <1>11, <1>12, <1>13, <1>14, <1>15, <1>16, <1>17, <1>18
          DEF Next, LockStep, Step, ResolverStep, Maintenance, Environment

(* What a step does to the shared sets: one message at a time, and a bundle *)
(* is published from the Store as it is.                                    *)
SharedMove ==
    /\ made' = made \/ \E p \in Procs : EncryptAndPut(p)
    /\ sent' = sent \/ \E p \in Procs : ReturnEnvelope(p)
    /\ opened' = opened \/ \E p \in Procs : DecryptAndPut(p) /\ Puts(p)
    /\ accepted' = accepted \/ \E p \in Procs : DecryptPayload(p)
    /\ \A d \in Devices :
          \/ bundles'[d] = bundles[d]
          \/ bundles'[d] \in BundleOf(store[d]) /\ UNCHANGED <<store, fresh>>

(* Every step changes the shared sets and the bundles as SharedMove says.   *)
LEMMA SharedStep ==
    ASSUME TypeOK, [Next]_vars
    PROVE  SharedMove
  <1>1. CASE UNCHANGED <<made, sent, opened, accepted, bundles>>
    BY <1>1 DEF SharedMove
  <1>2. ASSUME NEW p \in Procs, Begin(p) \/ LockStep(p) \/ ResolverStep(p) \/ CallFails(p)
        PROVE  SharedMove
    BY <1>1, <1>2 DEF Begin, BeginEncrypt, BeginReset, BeginDecrypt, LockStep, EncryptLock, DecryptLock,
                      Reset, ResolverStep, ResolverTrusts, ResolverDeclines, CallFails
  <1>3. ASSUME NEW p \in Procs,
               FetchBundle(p) \/ FetchFails(p) \/ CheckTrust(p) \/ Consume(p) \/ Identify(p)
        PROVE  SharedMove
    BY <1>1, <1>3 DEF FetchBundle, FetchFails, CheckTrust, Consume, Identify
  <1>4. ASSUME NEW p \in Procs, EncryptAndPut(p) PROVE SharedMove
    <2>1. UNCHANGED <<sent, opened, accepted, bundles>>
      BY <1>4 DEF EncryptAndPut
    <2> QED BY <1>4, <2>1 DEF SharedMove
  <1>5. ASSUME NEW p \in Procs, DecryptAndPut(p) PROVE SharedMove
    <2>1. /\ UNCHANGED <<made, sent, accepted, bundles>>
          /\ UNCHANGED opened \/ CanDecrypt(call[p].sess, call[p].msg.data)
      BY <1>5 DEF DecryptAndPut
    <2> QED BY <1>5, <2>1 DEF SharedMove, Puts
  <1>6. ASSUME NEW d \in Devices, PublishBundle(d) PROVE SharedMove
    BY <1>6 DEF PublishBundle, SharedMove, TypeOK
  <1>7. ASSUME NEW d \in Devices,
               RotateSignedPreKey(d) \/ GenerateOneTimePreKey(d) \/ Environment(d)
        PROVE  SharedMove
    BY <1>1, <1>7 DEF RotateSignedPreKey, GenerateOneTimePreKey, Environment, UserBlocks, Restart, Reinstall
  <1>8. CASE UNCHANGED vars
    BY <1>1, <1>8 DEF vars
  <1>9. ASSUME NEW p \in Procs, ReturnEnvelope(p) PROVE SharedMove
    <2>1. UNCHANGED <<made, opened, accepted, bundles>>
      BY <1>9 DEF ReturnEnvelope
    <2> QED BY <1>9, <2>1 DEF SharedMove
  <1>10. ASSUME NEW p \in Procs, DecryptPayload(p) PROVE SharedMove
    <2>1. UNCHANGED <<made, sent, opened, bundles>>
      BY <1>10 DEF DecryptPayload
    <2> QED BY <1>10, <2>1 DEF SharedMove
  <1> QED BY <1>2, <1>3, <1>4, <1>5, <1>6, <1>7, <1>8, <1>9, <1>10 DEF Next, Step, Maintenance

-----------------------------------------------------------------------------
(* Keys *)

(* A key pair that exists goes on existing, and a one-time prekey that is   *)
(* in no pool never comes back into one.                                    *)
LEMMA KeyStep ==
    ASSUME TypeOK, TypeOK', \A d \in Devices : StoreMove(d), NEW k \in Keys, Old(k)
    PROVE  Old(k)' /\ (Spent(k) => Spent(k)')
  <1>1. k[1] \in Devices /\ k[2] \in Nat /\ k = <<k[1], k[2]>>
    BY DEF Keys
  <1>2. fresh[k[1]] \in Nat /\ fresh'[k[1]] \in Nat /\ fresh[k[1]] <= fresh'[k[1]]
    BY <1>1 DEF StoreMove, TypeOK
  <1>3. Old(k)'
    BY <1>1, <1>2 DEF Old
  <1>4. ASSUME Spent(k), NEW d \in Devices, NEW i \in Ids PROVE store'[d].preKeys[i] # k
    <2>1. store[d].preKeys[i] # k /\ None # k
      BY <1>4, NoneAssumption DEF Spent
    <2>2. ASSUME NEW n \in Nat, fresh[d] <= n PROVE <<d, n>> # k
      BY <1>1, <1>2, <2>2 DEF Old
    <2>3. \/ store'[d].preKeys[i] \in {store[d].preKeys[i], None}
          \/ \E n \in Nat : fresh[d] <= n /\ n < fresh'[d] /\ store'[d].preKeys[i] = <<d, n>>
      BY DEF StoreMove
    <2> QED BY <2>1, <2>2, <2>3
  <1> QED BY <1>3, <1>4 DEF Spent

(* The keys of a device stay its own, and no pool holds a key twice.        *)
LEMMA KeysStep ==
    ASSUME Inv, TypeOK', \A d \in Devices : StoreMove(d), SharedMove
    PROVE  KeysInv'
  <1> USE DEF Inv
  <1> SUFFICES ASSUME NEW d \in Devices
               PROVE  /\ store'[d].identityKey[1] = d /\ GenOK(store'[d].identityKey)
                      /\ \A i \in Ids : store'[d].preKeys[i] # None =>
                            store'[d].preKeys[i][1] = d /\ Old(store[d].preKeys[i])'
                      /\ \A i, j \in Ids :
                            store'[d].preKeys[i] # None /\ store'[d].preKeys[i] = store'[d].preKeys[j] => i = j
                      /\ bundles'[d].identityKey[1] = d /\ GenOK(bundles'[d].identityKey)
                      /\ bundles'[d].preKey # None => Old(bundles[d].preKey.key)'
    BY DEF KeysInv, GenOK
  <1>1. store'[d].identityKey[1] = d /\ GenOK(store'[d].identityKey)
    BY DEF StoreMove, KeysInv, GenOK
  <1>2. ASSUME NEW i \in Ids, store'[d].preKeys[i] # None
        PROVE  store'[d].preKeys[i][1] = d /\ Old(store[d].preKeys[i])'
    <2>1. CASE store'[d].preKeys[i] = store[d].preKeys[i]
      <3>1. store[d].preKeys[i] \in Keys /\ store[d].preKeys[i][1] = d /\ Old(store[d].preKeys[i])
        BY <1>2, <2>1, Parts, StoreParts DEF KeysInv
      <3>2. PICK k \in Keys : k = store[d].preKeys[i]
        BY <3>1
      <3>3. Old(k)'
        BY <3>1, <3>2, KeyStep
      <3> QED BY <2>1, <3>1, <3>2, <3>3 DEF Old
    <2>2. ASSUME NEW n \in Nat, fresh[d] <= n, n < fresh'[d], store'[d].preKeys[i] = <<d, n>>
          PROVE  store'[d].preKeys[i][1] = d /\ Old(store[d].preKeys[i])'
      BY <2>2 DEF Old
    <2> QED BY <1>2, <2>1, <2>2 DEF StoreMove
  <1>3. \A i, j \in Ids :
           store'[d].preKeys[i] # None /\ store'[d].preKeys[i] = store'[d].preKeys[j] => i = j
    BY DEF StoreMove
  <1>4. /\ bundles'[d].identityKey[1] = d /\ GenOK(bundles'[d].identityKey)
        /\ bundles'[d].preKey # None => Old(bundles[d].preKey.key)'
    <2>1. CASE bundles'[d] = bundles[d]
      <3>1. ASSUME bundles[d].preKey # None PROVE Old(bundles[d].preKey.key)'
        <4>1. bundles[d].preKey.key \in Keys /\ Old(bundles[d].preKey.key)
          BY <3>1, Parts DEF Bundles, PreKeyRefs, KeysInv
        <4>2. PICK k \in Keys : k = bundles[d].preKey.key
          BY <4>1
        <4>3. Old(k)'
          BY <4>1, <4>2, KeyStep
        <4> QED BY <2>1, <4>2, <4>3 DEF Old
      <3> QED BY <2>1, <3>1 DEF KeysInv
    <2>2. CASE bundles'[d] \in BundleOf(store[d]) /\ UNCHANGED <<store, fresh>>
      <3>1. PICK b : b = bundles'[d]
        OBVIOUS
      <3>2. /\ b.identityKey = store[d].identityKey
            /\ b.preKey # None => \E i \in Ids : store[d].preKeys[i] # None /\ b.preKey.key = store[d].preKeys[i]
        BY <2>2, <3>1, Parts, BundleType
      <3>3. b.preKey # None => Old(b.preKey.key)
        BY <3>2 DEF KeysInv
      <3>4. b.identityKey[1] = d /\ GenOK(b.identityKey)
        BY <3>2 DEF KeysInv
      <3> QED BY <2>2, <3>1, <3>3, <3>4 DEF Old
    <2> QED BY <2>1, <2>2 DEF SharedMove
  <1> QED BY <1>1, <1>2, <1>3, <1>4
=============================================================================
