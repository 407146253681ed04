------------------------ MODULE SessionsTrustProofs -------------------------
(***************************************************************************)
(* checkTrust looks at the key that encryptForDevice encrypts to: the      *)
(* identity key stored for a device is the one at the other end of the     *)
(* session with it.                                                        *)
(***************************************************************************)
EXTENDS SessionsAgreeProofs

-----------------------------------------------------------------------------
(* The invariant *)

(* A device that may meet a reinstalled one is itself never reinstalled,    *)
(* does not crash inside a call, and its Store returns no errors.           *)
Undisturbed ==
    \A d, e \in Devices :
        d # e /\ e \in Reinstallable => d \notin Reinstallable \cup Restartable \cup Unreliable

(* While a handshake is being answered, its identity key is stored already  *)
(* and its session is not.                                                  *)
Answering(d, e) ==
    \E p \in Procs : /\ Home[p] = d /\ call[p].dev = e
                     /\ call[p].pc = "decrypt" /\ call[p].msg.kx # None

PeerOK(d, e) ==
    LET ik   == store[d].remoteID[e]
        sess == store[d].sessions[e]
    IN
    /\ ik # None => ik[1] = e /\ GenOK(ik)
    /\ sess # None => d # e /\ ik # None /\ (Answering(d, e) \/ ik = PeerIdentity(sess))

(* The key a call found, and what it may take for granted about the keys    *)
(* that were rejected when it got the lock.                                 *)
HeldOK(p) ==
    LET s == store[Home[p]]
        c == call[p]
    IN
    /\ c.pc = "fetch" => s.sessions[c.dev] = None
    /\ c.pc \in SendPCs \cup {"decrypt"} => s.remoteID[c.dev] = PeerIdentity(c.sess)
    /\ c.pc \in {"fetch", "trust"} =>
          \A ik \in c.barred : ik[1] = c.dev => s.trust[ik] = "untrusted"
    /\ c.pc \in {"resolve", "encrypt"} => s.remoteID[c.dev] \notin c.barred

PeerInv ==
    /\ \A d, e \in Devices : PeerOK(d, e)
    /\ \A p \in Procs : HeldOK(p)

(* The key a call encrypts to is trusted, where nobody takes a decision     *)
(* back.                                                                    *)
TrustInv == \A p \in Procs :
    call[p].pc = "encrypt" => store[Home[p]].trust[store[Home[p]].remoteID[call[p].dev]] = "trusted"

-----------------------------------------------------------------------------
(* What a step does to identity keys and trust decisions *)

SameTrust(s, t) == t.remoteID = s.remoteID /\ t.trust = s.trust

(* PutRemoteIdentityKey by encryptForDevice and by DecryptMessage.          *)
Learns(p) == \/ FetchBundle(p)
             \/ Identify(p)

(* An identity key is learned under the device lock.  Decisions are the     *)
(* user's and the resolver's, on the key that is stored.                    *)
TrustMove(d) ==
    \/ Reinstall(d)
    \/ SameTrust(store[d], store'[d])
    \/ \E p \in Procs : /\ Home[p] = d /\ Learns(p)
                        /\ store'[d].trust = store[d].trust
                        /\ \A e \in Devices \ {call[p].dev} : store'[d].remoteID[e] = store[d].remoteID[e]
    \/ /\ store'[d].remoteID = store[d].remoteID
       /\ \E ik \in IdentityKeys :
             /\ \A k \in IdentityKeys \ {ik} : store'[d].trust[k] = store[d].trust[k]
             /\ \/ d \in Blockers /\ store'[d].trust[ik] = "untrusted"
                \/ \E p \in Procs : /\ Home[p] = d /\ ResolverTrusts(p)
                                    /\ ik = store[d].remoteID[call[p].dev]
                                    /\ store'[d].trust[ik] = "trusted"

(* The operations on sessions and prekeys leave both alone.                 *)
LEMMA SameTrustOps ==
    ASSUME NEW s \in Stores, NEW e, NEW x, NEW k
    PROVE  /\ SameTrust(s, s)
           /\ SameTrust(s, PutSession(s, e, x)) /\ SameTrust(s, DeleteSession(s, e))
           /\ SameTrust(s, ConsumePreKey(s, x)) /\ SameTrust(s, RotateSPK(s, x))
           /\ SameTrust(s, PutPreKeys(AllocPreKeyID(s), k))
  <1>1. /\ SameTrust(s, s)
        /\ SameTrust(s, PutSession(s, e, x)) /\ SameTrust(s, DeleteSession(s, e))
    BY DEF SameTrust, PutSession, DeleteSession, Stores
  <1>2. SameTrust(s, ConsumePreKey(s, x)) /\ SameTrust(s, RotateSPK(s, x))
    BY DEF SameTrust, ConsumePreKey, RotateSPK, Stores
  <1>3. SameTrust(s, PutPreKeys(AllocPreKeyID(s), k))
    BY DEF SameTrust, PutPreKeys, AllocPreKeyID, Stores
  <1> QED BY <1>1, <1>2, <1>3

(* PutRemoteIdentityKey writes one entry of remoteID.                       *)
LEMMA RemoteWrite ==
    ASSUME NEW s \in Stores, NEW e \in Devices, NEW ik \in IdentityKeys
    PROVE  /\ PutRemoteIdentityKey(s, e, ik).trust = s.trust
           /\ PutRemoteIdentityKey(s, e, ik).remoteID = [s.remoteID EXCEPT ![e] = ik]
  BY DEF PutRemoteIdentityKey, Stores

(* SetTrust writes one entry of trust.                                      *)
LEMMA TrustWrite ==
    ASSUME NEW s \in Stores, NEW ik \in IdentityKeys, NEW t
    PROVE  /\ SetTrust(s, ik, t).remoteID = s.remoteID
           /\ SetTrust(s, ik, t).trust = [s.trust EXCEPT ![ik] = t]
  BY DEF SetTrust, Stores

(* The keys that encryptForDevice and DecryptMessage learn.                 *)
LEMMA FetchLearns ==
    ASSUME Inv, NEW p \in Procs, FetchBundle(p)
    PROVE  LET ik == bundles[call[p].dev].identityKey
               d  == Home[p]
           IN /\ ik \in IdentityKeys
              /\ store' = [store EXCEPT ![d] = PutRemoteIdentityKey(store[d], call[p].dev, ik)]
              /\ store'[d].trust = store[d].trust
              /\ store'[d].remoteID = [store[d].remoteID EXCEPT ![call[p].dev] = ik]
  <1>1. PICK d, e, ik : d = Home[p] /\ e = call[p].dev /\ ik = bundles[e].identityKey
    OBVIOUS
  <1>2. d \in Devices /\ e \in Devices /\ store[d] \in Stores /\ store \in [Devices -> Stores]
    BY <1>1, Parts DEF FetchBundle, Inv, CallInv, CallOK, TypeOK
  <1>3. ik \in IdentityKeys
    BY <1>1, <1>2, Parts DEF Inv, Bundles
  <1>4. store' = [store EXCEPT ![d] = PutRemoteIdentityKey(store[d], e, ik)]
    BY <1>1 DEF FetchBundle
  <1>5. store'[d] = PutRemoteIdentityKey(store[d], e, ik)
    BY <1>2, <1>4
  <1> QED BY <1>1, <1>2, <1>3, <1>4, <1>5, RemoteWrite

(* DecryptMessage learns a key of the sender, the one its handshake names.  *)
LEMMA IdentifyLearns ==
    ASSUME Inv, NEW p \in Procs, Identify(p)
    PROVE  LET ik == call[p].msg.kx.identityKey
               d  == Home[p]
           IN /\ ik \in IdentityKeys /\ ik[1] = call[p].dev /\ GenOK(ik)
              /\ store' = [store EXCEPT ![d] = PutRemoteIdentityKey(store[d], call[p].dev, ik)]
              /\ store'[d].trust = store[d].trust
              /\ store'[d].remoteID = [store[d].remoteID EXCEPT ![call[p].dev] = ik]
  <1>1. PICK d, e, m, ik : d = Home[p] /\ e = call[p].dev /\ m = call[p].msg /\ ik = m.kx.identityKey
    OBVIOUS
  <1>2. call[p].pc = "identify"
    BY DEF Identify
  <1>3. /\ d \in Devices /\ e \in Devices /\ store[d] \in Stores /\ store \in [Devices -> Stores]
        /\ m \in made /\ m.from = e /\ m.kx # None
    BY <1>1, <1>2, Parts DEF Inv, CallInv, CallOK, TypeOK, DecryptPCs, DeliveryInv
  <1>4. HandshakeOf(m) = m.kx /\ m.kx \in KeyExchanges
    BY <1>1, <1>2, <1>3, CallHandshake DEF Inv, KeyExchangeInv, DecryptPCs
  <1>5. ik \in IdentityKeys
    BY <1>1, <1>4 DEF KeyExchanges
  <1>6. /\ m.data.from = "active" /\ EndOf(m.from, m.to, m.data.from, m.data.root)
        /\ ik = m.data.root.ini
    BY <1>1, <1>3 DEF Inv, MessageInv, KeyExchangeInv, KeyExchangeOnFirst
  <1>7. ik[1] = e /\ GenOK(ik)
    BY <1>3, <1>6 DEF EndOf
  <1>8. store' = [store EXCEPT ![d] = PutRemoteIdentityKey(store[d], e, ik)]
    BY <1>1, <1>3, <1>4 DEF Identify
  <1>9. store'[d] = PutRemoteIdentityKey(store[d], e, ik)
    BY <1>3, <1>8
  <1> QED BY <1>1, <1>3, <1>5, <1>7, <1>8, <1>9, RemoteWrite

(* Every step changes identity keys and decisions as TrustMove says.        *)
LEMMA TrustStep ==
    ASSUME Inv, PeerInv, [Next]_vars
    PROVE  \A d \in Devices : TrustMove(d)
  <1> USE DEF Inv
  <1> DEFINE Done == \A d \in Devices : TrustMove(d)
  <1>1. CASE UNCHANGED store
    BY <1>1, SameTrustOps, Parts DEF TrustMove
  <1>2. ASSUME NEW d \in Devices, NEW t, store' = [store EXCEPT ![d] = t], TrustMove(d)
        PROVE  Done
    <2> SUFFICES ASSUME NEW c \in Devices \ {d} PROVE TrustMove(c)
      BY <1>2
    <2>1. store'[c] = store[c]
      BY <1>2 DEF TypeOK
    <2> QED BY <2>1, SameTrustOps, Parts DEF TrustMove
  <1>3. ASSUME NEW d \in Devices, NEW t, store' = [store EXCEPT ![d] = t], SameTrust(store[d], t)
        PROVE  Done
    <2>1. store'[d] = t
      BY <1>3 DEF TypeOK
    <2> QED BY <1>2, <1>3, <2>1 DEF TrustMove
  <1>4. ASSUME NEW p \in Procs, Reset(p) PROVE Done
    <2>1. SameTrust(store[Home[p]], DeleteSession(store[Home[p]], call[p].dev))
      BY Parts, SameTrustOps
    <2>2. store' = [store EXCEPT ![Home[p]] = DeleteSession(store[Home[p]], call[p].dev)]
      BY <1>4 DEF Reset
    <2> QED BY <1>3, <2>1, <2>2, Parts
  <1>5. ASSUME NEW p \in Procs, EncryptAndPut(p) PROVE Done
    <2>1. PICK x : store' = [store EXCEPT ![Home[p]] = PutSession(store[Home[p]], call[p].dev, x)]
      BY <1>5 DEF EncryptAndPut
    <2>2. SameTrust(store[Home[p]], PutSession(store[Home[p]], call[p].dev, x))
      BY Parts, SameTrustOps
    <2> QED BY <1>3, <2>1, <2>2, Parts
  <1>6. ASSUME NEW p \in Procs, Consume(p) PROVE Done
    <2>1. PICK x : UNCHANGED store \/ store' = [store EXCEPT ![Home[p]] = ConsumePreKey(store[Home[p]], x)]
      BY <1>6 DEF Consume
    <2>2. SameTrust(store[Home[p]], ConsumePreKey(store[Home[p]], x))
      BY Parts, SameTrustOps
    <2> QED BY <1>1, <1>3, <2>1, <2>2, Parts
  <1>7. ASSUME NEW p \in Procs, DecryptAndPut(p) PROVE Done
    <2>1. PICK e, x : UNCHANGED store \/ store' = [store EXCEPT ![Home[p]] = PutSession(store[Home[p]], e, x)]
      BY <1>7 DEF DecryptAndPut
    <2>2. SameTrust(store[Home[p]], PutSession(store[Home[p]], e, x))
      BY Parts, SameTrustOps
    <2> QED BY <1>1, <1>3, <2>1, <2>2, Parts
  <1>8. ASSUME NEW d \in Devices, RotateSignedPreKey(d) PROVE Done
    <2>1. PICK x : store' = [store EXCEPT ![d] = RotateSPK(store[d], x)]
      BY <1>8 DEF RotateSignedPreKey
    <2>2. SameTrust(store[d], RotateSPK(store[d], x))
      BY Parts, SameTrustOps
    <2> QED BY <1>3, <2>1, <2>2
  <1>9. ASSUME NEW d \in Devices, GenerateOneTimePreKey(d) PROVE Done
    <2>1. PICK x : store' = [store EXCEPT ![d] = PutPreKeys(AllocPreKeyID(store[d]), x)]
      BY <1>9 DEF GenerateOneTimePreKey
    <2>2. SameTrust(store[d], PutPreKeys(AllocPreKeyID(store[d]), x))
      BY Parts, SameTrustOps
    <2> QED BY <1>3, <2>1, <2>2
  <1>10. ASSUME NEW p \in Procs, Learns(p) PROVE Done
    <2>1. PICK d, e : d = Home[p] /\ e = call[p].dev
      OBVIOUS
    <2>2. d \in Devices /\ e \in Devices /\ store[d].remoteID \in [Devices -> IdentityKeys \cup {None}]
      BY <1>10, <2>1, Parts, StoreParts DEF Learns, FetchBundle, Identify, CallInv, CallOK
    <2>3. PICK ik, t : /\ store' = [store EXCEPT ![d] = t] /\ store'[d].trust = store[d].trust
                       /\ store'[d].remoteID = [store[d].remoteID EXCEPT ![e] = ik]
      <3>1. CASE FetchBundle(p)
        BY <2>1, <3>1, FetchLearns
      <3>2. CASE Identify(p)
        BY <2>1, <3>2, IdentifyLearns
      <3> QED BY <1>10, <3>1, <3>2 DEF Learns
    <2>4. \A f \in Devices \ {e} : store'[d].remoteID[f] = store[d].remoteID[f]
      BY <2>2, <2>3
    <2>5. TrustMove(d)
      BY <1>10, <2>1, <2>3, <2>4 DEF TrustMove
    <2> QED BY <1>2, <2>2, <2>3, <2>5
  <1>11. ASSUME NEW d \in Devices, NEW ik \in IdentityKeys, NEW t, store' = [store EXCEPT ![d] = SetTrust(store[d], ik, t)]
         PROVE  /\ store'[d].remoteID = store[d].remoteID /\ store'[d].trust[ik] = t
                /\ \A k \in IdentityKeys \ {ik} : store'[d].trust[k] = store[d].trust[k]
    <2>1. store[d] \in Stores /\ store[d].trust \in [IdentityKeys -> TrustStates]
      BY Parts, StoreParts
    <2>2. store'[d] = SetTrust(store[d], ik, t)
      BY <1>11 DEF TypeOK
    <2>3. store'[d].remoteID = store[d].remoteID /\ store'[d].trust = [store[d].trust EXCEPT ![ik] = t]
      BY <2>1, <2>2, TrustWrite
    <2> QED BY <2>1, <2>3
  <1>12. ASSUME NEW p \in Procs, ResolverTrusts(p) PROVE Done
    <2>1. PICK d, e, ik : d = Home[p] /\ e = call[p].dev /\ ik = store[d].remoteID[e]
      OBVIOUS
    <2>2. d \in Devices /\ e \in Devices /\ call[p].pc = "resolve" /\ call[p].sess \in SessionStates
      BY <1>12, <2>1, CallSession DEF ResolverTrusts, SessionPCs, SendPCs
    <2>3. ik = PeerIdentity(call[p].sess)
      BY <2>1, <2>2 DEF PeerInv, HeldOK, SendPCs
    <2>4. ik \in IdentityKeys
      BY <2>2, <2>3 DEF PeerIdentity, SessionStates, Roots
    <2>5. store' = [store EXCEPT ![d] = SetTrust(store[d], ik, "trusted")]
      BY <1>12, <2>1 DEF ResolverTrusts
    <2>6. TrustMove(d)
      <3>1. /\ store'[d].remoteID = store[d].remoteID /\ store'[d].trust[ik] = "trusted"
            /\ \A k \in IdentityKeys \ {ik} : store'[d].trust[k] = store[d].trust[k]
        BY <1>11, <2>2, <2>4, <2>5
      <3> QED BY <1>12, <2>1, <2>4, <3>1 DEF TrustMove
    <2> QED BY <1>2, <2>2, <2>5, <2>6
  <1>13. ASSUME NEW d \in Devices, NEW ik \in IdentityKeys, UserBlocks(d, ik) PROVE Done
    <2>1. d \in Blockers /\ store' = [store EXCEPT ![d] = SetTrust(store[d], ik, "untrusted")]
      BY <1>13 DEF UserBlocks
    <2>2. TrustMove(d)
      <3>1. /\ store'[d].remoteID = store[d].remoteID /\ store'[d].trust[ik] = "untrusted"
            /\ \A k \in IdentityKeys \ {ik} : store'[d].trust[k] = store[d].trust[k]
        BY <1>11, <2>1
      <3> QED BY <2>1, <3>1 DEF TrustMove
    <2> QED BY <1>2, <2>1, <2>2
  <1>14. ASSUME NEW d \in Devices, Reinstall(d) PROVE Done
    <2>1. \E t : store' = [store EXCEPT ![d] = t]
      BY <1>14 DEF Reinstall
    <2> QED BY <1>2, <1>14, <2>1 DEF TrustMove
  <1>15. ASSUME NEW p \in Procs,
                \/ Begin(p) \/ EncryptLock(p) \/ DecryptLock(p) \/ FetchFails(p) \/ CheckTrust(p)
                \/ ResolverDeclines(p) \/ CallFails(p) \/ DecryptPayload(p) \/ ReturnEnvelope(p)
         PROVE  Done
    BY <1>1, <1>15 DEF Begin, BeginEncrypt, BeginReset, BeginDecrypt, EncryptLock, DecryptLock,
                       FetchFails, CheckTrust, ResolverDeclines, CallFails, DecryptPayload, ReturnEnvelope
  <1>16. ASSUME NEW d \in Devices, PublishBundle(d) \/ Restart(d) PROVE Done
    BY <1>1, <1>16 DEF PublishBundle, Restart
  <1>17. CASE UNCHANGED vars
    BY <1>1, <1>17 DEF vars
  <1> QED BY <1>4, <1>5, <1>6, <1>7, <1>8, <1>9, <1>10, <1>12, <1>13, <1>14, <1>15, <1>16, <1>17
          DEF Next, LockStep, Step, ResolverStep, Maintenance, Environment, Learns

-----------------------------------------------------------------------------
(* What the device lock keeps *)

(* Two calls past the lock of the same device are one call.                 *)
LEMMA OneHolder ==
    ASSUME Inv, NEW p \in Procs, NEW q \in Procs, Home[p] = Home[q], call[p].dev = call[q].dev,
           call[p].pc \in LockedPCs, call[q].pc \in LockedPCs
    PROVE  p = q
  BY DEF Inv, CallInv, CallOK

(* Nobody answers a handshake while the lock is free.                       *)
LEMMA NotAnswering ==
    ASSUME Inv, NEW d, NEW e, lock[d][e] = None
    PROVE  ~Answering(d, e)
  <1> SUFFICES ASSUME NEW p \in Procs, Home[p] = d, call[p].dev = e, call[p].pc = "decrypt"
               PROVE  FALSE
    BY DEF Answering
  <1>1. lock[d][e] = p
    BY Counters DEF Inv, CallInv, CallOK
  <1> QED BY <1>1, NoneAssumption

(* The identity key stored for the device a call has locked is changed by   *)
(* that call only.                                                          *)
LEMMA RemoteKept ==
    ASSUME Inv, NEW p \in Procs, NEW d, d = Home[p], call[p].pc \in LockedPCs,
           TrustMove(d), ~Reinstall(d), ~Learns(p)
    PROVE  store'[d].remoteID[call[p].dev] = store[d].remoteID[call[p].dev]
  <1>1. ASSUME NEW q \in Procs, Home[q] = d, Learns(q),
               \A e \in Devices \ {call[q].dev} : store'[d].remoteID[e] = store[d].remoteID[e]
        PROVE  store'[d].remoteID[call[p].dev] = store[d].remoteID[call[p].dev]
    <2>1. call[q].pc \in LockedPCs
      BY <1>1, Counters DEF Learns, FetchBundle, Identify
    <2>2. call[q].dev # call[p].dev
      BY <1>1, <2>1, OneHolder
    <2>3. call[p].dev \in Devices
      BY Counters DEF Inv, CallInv, CallOK
    <2> QED BY <1>1, <2>2, <2>3
  <1> QED BY <1>1 DEF TrustMove, SameTrust

(* A rejection of a key of the device a call has locked stays, unless that  *)
(* very call asks its resolver.                                             *)
LEMMA RejectionKept ==
    ASSUME Inv, PeerInv, NEW p \in Procs, NEW d, d = Home[p], call[p].pc \in LockedPCs,
           TrustMove(d), ~Reinstall(d), ~ResolverTrusts(p),
           NEW ik \in IdentityKeys, ik[1] = call[p].dev, store[d].trust[ik] = "untrusted"
    PROVE  store'[d].trust[ik] = "untrusted"
  <1>1. ASSUME NEW q \in Procs, Home[q] = d, ResolverTrusts(q), ik = store[d].remoteID[call[q].dev]
        PROVE  FALSE
    <2>1. call[q].pc = "resolve" /\ call[q].dev \in Devices /\ d \in Devices
      BY <1>1, Parts DEF ResolverTrusts, Inv, CallInv, CallOK
    <2>2. ik # None
      BY NoneAssumption
    <2>3. ik[1] = call[q].dev
      BY <1>1, <2>1, <2>2 DEF PeerInv, PeerOK
    <2>4. p = q
      BY <1>1, <2>1, <2>3, Counters, OneHolder
    <2> QED BY <1>1, <2>4
  <1> QED BY <1>1 DEF TrustMove, SameTrust

(* Where no user takes a decision back, a trusted key stays trusted.        *)
LEMMA TrustedKept ==
    ASSUME Inv, NEW d, d \notin Blockers, TrustMove(d), ~Reinstall(d),
           NEW ik \in IdentityKeys, store[d].trust[ik] = "trusted"
    PROVE  store'[d].trust[ik] = "trusted"
  BY DEF TrustMove, SameTrust

(* Getting the lock: what encryptForDevice finds.                           *)
LEMMA EncryptLocked ==
    ASSUME Inv, NEW p \in Procs, EncryptLock(p)
    PROVE  /\ UNCHANGED store /\ lock[Home[p]][call[p].dev] = None
           /\ call[p].dev \in Devices /\ call'[p].dev = call[p].dev
           /\ call'[p].sess = store[Home[p]].sessions[call[p].dev]
           /\ call'[p].pc = IF call'[p].sess = None THEN "fetch" ELSE "trust"
           /\ \A ik \in call'[p].barred : store[Home[p]].trust[ik] = "untrusted"
  <1>1. PICK b, x, pc : /\ b = {ik \in IdentityKeys : store[Home[p]].trust[ik] = "untrusted"}
                        /\ x = store[Home[p]].sessions[call[p].dev]
                        /\ pc = IF x = None THEN "fetch" ELSE "trust"
    OBVIOUS
  <1>2. call' = [call EXCEPT ![p] = [call[p] EXCEPT !.pc = pc, !.sess = x, !.barred = b]]
    BY <1>1 DEF EncryptLock
  <1>3. call'[p].dev = call[p].dev /\ call'[p].sess = x /\ call'[p].pc = pc /\ call'[p].barred = b
    BY <1>2, Parts DEF Inv, TypeOK, Calls
  <1>4. call[p].dev \in Devices
    BY DEF EncryptLock, Inv, CallInv, CallOK
  <1>5. UNCHANGED store /\ lock[Home[p]][call[p].dev] = None
    BY DEF EncryptLock, Free
  <1> QED BY <1>1, <1>3, <1>4, <1>5

-----------------------------------------------------------------------------
(* The key a call has found *)

(* What a call has found out about keys stays true while it has the lock.   *)
LEMMA HeldStep ==
    ASSUME Inv, AgreeInv, PeerInv, TypeOK', \A d \in Devices : StoreMove(d) /\ TrustMove(d),
           \A p \in Procs : CallOK(p)' /\ CallMove(p), NEW p \in Procs
    PROVE  HeldOK(p)'
  <1> USE DEF Inv
  <1>1. PICK d, e, c : d = Home[p] /\ e = call'[p].dev /\ c = call'[p]
    OBVIOUS
  <1> SUFFICES
        /\ c.pc = "fetch" => store'[d].sessions[e] = None
        /\ c.pc \in SendPCs \cup {"decrypt"} => store'[d].remoteID[e] = PeerIdentity(c.sess)
        /\ c.pc \in {"fetch", "trust"} =>
              \A ik \in c.barred : ik[1] = e => store'[d].trust[ik] = "untrusted"
        /\ c.pc \in {"resolve", "encrypt"} => store'[d].remoteID[e] \notin c.barred
    BY <1>1 DEF HeldOK
  <1>2. CASE c.pc \in WaitPCs \cup {"idle", "consume", "identify", "enveloped", "payload"}
    BY <1>2 DEF WaitPCs, SendPCs
  <1>3. CASE c.pc \notin WaitPCs \cup {"idle", "consume", "identify", "enveloped", "payload"}
    <2>1. d \in Devices /\ e \in Devices /\ ~Reinstall(d) /\ TrustMove(d) /\ StoreMove(d) /\ HeldOK(p)
      BY <1>1, <1>3, ReinstallEnds, Parts DEF CallOK, PeerInv
    <2>2. \A ik \in c.barred : ik \in IdentityKeys
      BY <1>1 DEF TypeOK, Calls
    <2>3. CASE call'[p] = call[p]
      <3>1. call[p].pc \in LockedPCs /\ c = call[p] /\ e = call[p].dev
        BY <1>1, <1>3, <2>3, Counters, Parts DEF Calls, PCs
      <3>2. ~Learns(p) /\ ~ResolverTrusts(p)
        <4>1. ~FetchBundle(p)
          BY <2>3, FetchStep
        <4>2. ASSUME Identify(p) PROVE FALSE
          BY <1>1, <1>3, <3>1, <4>2 DEF Identify
        <4>3. ASSUME ResolverTrusts(p) PROVE FALSE
          <5>1. call' = [call EXCEPT ![p] = [call[p] EXCEPT !.pc = "encrypt"]] /\ call[p].pc = "resolve"
            BY <4>3 DEF ResolverTrusts
          <5>2. call'[p].pc = "encrypt"
            BY <5>1, Parts DEF TypeOK, Calls
          <5> QED BY <2>3, <5>1, <5>2
        <4> QED BY <4>1, <4>2, <4>3 DEF Learns
      <3>3. store'[d].remoteID[e] = store[d].remoteID[e]
        BY <1>1, <2>1, <3>1, <3>2, RemoteKept
      <3>4. ASSUME c.pc = "fetch" PROVE store'[d].sessions[e] = None
        <4>1. store[d].sessions[e] = None
          BY <1>1, <2>1, <3>1, <3>4 DEF HeldOK
        <4>2. ASSUME NEW q \in Procs, Home[q] = d, call[q].dev = e, Puts(q) PROVE FALSE
          <5>1. call[q].pc \in SessionPCs
            BY <4>2, PutStep
          <5>2. p = q
            BY <1>1, <3>1, <4>2, <5>1, Counters, OneHolder
          <5> QED BY <3>1, <3>4, <5>1, <5>2 DEF SessionPCs, SendPCs
        <4> QED BY <2>1, <4>1, <4>2 DEF StoreMove
      <3>5. ASSUME c.pc \in {"fetch", "trust"}, NEW ik \in c.barred, ik[1] = e
            PROVE  store'[d].trust[ik] = "untrusted"
        <4>1. store[d].trust[ik] = "untrusted"
          BY <1>1, <2>1, <3>1, <3>5 DEF HeldOK
        <4> QED BY <1>1, <2>1, <2>2, <3>1, <3>2, <3>5, <4>1, RejectionKept
      <3>6. /\ c.pc \in SendPCs \cup {"decrypt"} => store[d].remoteID[e] = PeerIdentity(c.sess)
            /\ c.pc \in {"resolve", "encrypt"} => store[d].remoteID[e] \notin c.barred
        BY <1>1, <2>1, <3>1 DEF HeldOK
      <3> QED BY <3>3, <3>4, <3>5, <3>6
    <2>4. CASE EncryptLock(p)
      <3>1. /\ UNCHANGED store /\ lock[d][e] = None /\ c.sess = store[d].sessions[e]
            /\ c.pc = IF c.sess = None THEN "fetch" ELSE "trust"
            /\ \A ik \in c.barred : store[d].trust[ik] = "untrusted"
        BY <1>1, <2>4, EncryptLocked
      <3>2. c.pc = "trust" => store[d].remoteID[e] = PeerIdentity(c.sess)
        BY <2>1, <3>1, NotAnswering DEF PeerInv, PeerOK
      <3> QED BY <3>1, <3>2 DEF SendPCs
    <2>5. CASE Loads(p) /\ c.pc = "decrypt"
      <3>1. /\ DecryptLock(p) /\ c.sess = store[d].sessions[e] /\ call[p].dev = e /\ c.sess # None
        BY <1>1, <2>5 DEF Loads, CallOK, SessionPCs
      <3>2. UNCHANGED store /\ lock[d][e] = None
        BY <1>1, <3>1 DEF DecryptLock, Free
      <3>3. store[d].remoteID[e] = PeerIdentity(c.sess)
        BY <2>1, <3>1, <3>2, NotAnswering DEF PeerInv, PeerOK
      <3> QED BY <2>5, <3>2, <3>3
    <2>6. CASE GoesOn(p)
      <3>1. call[p].dev = e /\ call[p].sess = c.sess /\ call[p].barred = c.barred /\ call[p].msg = c.msg
        BY <1>1, <2>6 DEF GoesOn
      <3>2. CASE CheckTrust(p) /\ c.pc \in SendPCs
        <4>1. UNCHANGED store /\ call[p].pc = "trust"
          BY <3>2 DEF CheckTrust
        <4>2. call' # [call EXCEPT ![p] = Idle]
          BY <1>1, <3>2 DEF TypeOK, Idle, SendPCs
        <4>3. PICK ik : ik = store[d].remoteID[e]
          OBVIOUS
        <4>4. ik = PeerIdentity(c.sess)
          BY <1>1, <2>1, <3>1, <4>1, <4>3 DEF HeldOK, SendPCs
        <4>5. ik # None
          <5>1. c.sess \in SessionStates
            BY <3>1, <4>1, CallSession DEF SessionPCs, SendPCs
          <5> QED BY <4>4, <5>1, NoneAssumption DEF PeerIdentity, SessionStates, Roots
        <4>6. PICK t : t = store[d].trust[ik]
          OBVIOUS
        <4>7. \/ t = "trusted" /\ call' = [call EXCEPT ![p].pc = "encrypt"]
              \/ t = "undecided" /\ call' = [call EXCEPT ![p].pc = "resolve"]
          BY <1>1, <3>1, <3>2, <4>2, <4>3, <4>5, <4>6 DEF CheckTrust, Return
        <4>8. PICK pc \in {"encrypt", "resolve"} : call' = [call EXCEPT ![p].pc = pc]
          BY <4>7
        <4>9. call' = [call EXCEPT ![p] = [call[p] EXCEPT !.pc = pc]]
          BY <4>8
        <4>10. c.pc = pc
          BY <1>1, <4>9, Parts DEF TypeOK, Calls
        <4>11. ik[1] = e
          BY <2>1, <4>3, <4>5 DEF PeerInv, PeerOK
        <4>12. ik \notin c.barred
          BY <1>1, <2>1, <3>1, <4>1, <4>6, <4>7, <4>11 DEF HeldOK
        <4> QED BY <4>1, <4>3, <4>4, <4>10, <4>12
      <3>3. CASE ResolverTrusts(p)
        <4>1. call[p].pc = "resolve" /\ call' = [call EXCEPT ![p] = [call[p] EXCEPT !.pc = "encrypt"]]
          BY <3>3 DEF ResolverTrusts
        <4>2. c.pc = "encrypt"
          BY <1>1, <4>1, Parts DEF TypeOK, Calls
        <4>3. ~Learns(p)
          BY <4>1 DEF Learns, FetchBundle, Identify
        <4>4. store'[d].remoteID[e] = store[d].remoteID[e]
          BY <1>1, <2>1, <3>1, <4>1, <4>3, Counters, RemoteKept
        <4>5. store[d].remoteID[e] = PeerIdentity(c.sess) /\ store[d].remoteID[e] \notin c.barred
          BY <1>1, <2>1, <3>1, <4>1 DEF HeldOK, SendPCs
        <4> QED BY <4>2, <4>4, <4>5
      <3>4. CASE Identify(p) /\ c.pc = "decrypt"
        <4>1. PICK ik : ik = call[p].msg.kx.identityKey
          OBVIOUS
        <4>2. store'[d].remoteID = [store[d].remoteID EXCEPT ![e] = ik]
          BY <1>1, <3>1, <3>4, <4>1, IdentifyLearns
        <4>3. store'[d].remoteID[e] = ik
          BY <2>1, <4>2, Parts, StoreParts
        <4>4. call[p].pc = "identify" /\ call[p].msg.kx # None
          BY <3>4 DEF Identify, CallInv, CallOK
        <4>5. PeerIdentity(c.sess) = ik
          BY <3>1, <4>1, <4>4 DEF AgreeInv, HandshakeInv, HandshakeOK, PeerIdentity
        <4> QED BY <3>4, <4>3, <4>5
      <3> QED BY <1>1, <2>6, <3>2, <3>3, <3>4 DEF GoesOn
    <2>7. CASE FetchBundle(p)
      <3>1. PICK ik : ik = bundles[e].identityKey
        OBVIOUS
      <3>2. /\ c.pc = "trust" /\ e = call[p].dev /\ c.barred = call[p].barred /\ call[p].pc = "fetch"
            /\ c.sess.role = "active" /\ c.sess.root.resp = ik
        BY <1>1, <2>7, <3>1, FetchStep
      <3>3. /\ store'[d].remoteID = [store[d].remoteID EXCEPT ![e] = ik]
            /\ store'[d].trust = store[d].trust
        <4>1. d = Home[p] /\ call[p].dev = e /\ bundles[call[p].dev].identityKey = ik
          BY <1>1, <3>1, <3>2
        <4> QED BY <2>7, <4>1, FetchLearns
      <3>4. store'[d].remoteID[e] = ik
        BY <2>1, <3>3, Parts, StoreParts
      <3>5. \A k \in c.barred : k[1] = e => store[d].trust[k] = "untrusted"
        BY <1>1, <2>1, <3>2 DEF HeldOK
      <3> QED BY <3>2, <3>3, <3>4, <3>5 DEF PeerIdentity
    <2> QED BY <1>1, <1>3, <2>3, <2>4, <2>5, <2>6, <2>7 DEF CallMove, Ends, Opens, Looks, Loads, WaitPCs
  <1> QED BY <1>2, <1>3

-----------------------------------------------------------------------------
(* The key stored for a device *)

(* A device that is answering a handshake of one that may be reinstalled    *)
(* finishes: it can open the message, and nothing interrupts it.            *)
LEMMA AnswerStep ==
    ASSUME Inv, AgreeInv, Undisturbed, NEW p \in Procs, NEW d, NEW e, d = Home[p], e = call[p].dev,
           call[p].pc = "decrypt", call[p].msg.kx # None, e \in Reinstallable, CallMove(p)
    PROVE  call'[p] = call[p] \/ Puts(p)
  <1> USE DEF Inv
  <1>1. d \in Devices /\ e \in Devices /\ d # e /\ call[p].msg \in made
    BY Parts DEF CallInv, CallOK, DecryptPCs, DeliveryInv
  <1>2. d \notin Reinstallable \cup Restartable \cup Unreliable
    BY <1>1 DEF Undisturbed
  <1>3. Mine(p)
    <2>1. PICK ik, r : ik = store[d].identityKey /\ r = call[p].msg.data.root.resp
      OBVIOUS
    <2>2. /\ ik \in Devices \X Gens /\ r \in Devices \X Gens /\ ik[1] = d /\ r[1] = d
          /\ GenOK(ik) /\ GenOK(r)
      BY <1>1, <2>1, Parts, StoreParts
         DEF KeysInv, MessageInv, EndOf, CallInv, CallOK, DecryptPCs, KeyExchangeInv,
             KeyExchangeOnFirst, TypeOK, Messages, Data, Roots, IdentityKeys
    <2>3. ik[2] = 1 /\ r[2] = 1
      BY <1>2, <2>2 DEF GenOK
    <2> QED BY <2>1, <2>2, <2>3 DEF Mine
  <1>4. /\ call[p].sess.root = call[p].msg.data.root /\ call[p].sess.role = "passive"
        /\ call[p].sess.recv = {}
    BY <1>3 DEF AgreeInv, HandshakeInv, HandshakeOK
  <1>5. call[p].msg.data.from = "active"
    BY <1>1 DEF KeyExchangeInv, KeyExchangeOnFirst
  <1>6. CanDecrypt(call[p].sess, call[p].msg.data)
    BY <1>4, <1>5 DEF CanDecrypt
  <1>7. CASE Ends(p)
    <2>1. DecryptAndPut(p)
      BY <1>2, <1>7 DEF Ends
    <2> QED BY <1>6, <2>1 DEF Puts
  <1>8. CASE Opens(p)
    BY <1>8 DEF Opens, Puts
  <1>9. ~Looks(p) /\ ~EncryptLock(p) /\ ~Loads(p) /\ ~GoesOn(p) /\ ~FetchBundle(p) /\ ~Consume(p)
    BY DEF Looks, EncryptLock, Loads, DecryptLock, GoesOn, SendPCs, FetchBundle, Consume
  <1> QED BY <1>7, <1>8, <1>9 DEF CallMove

(* The identity key stored for a device stays the one at the other end of   *)
(* the session stored for it, except while a handshake is being answered.   *)
LEMMA PeerStep ==
    ASSUME Inv, AgreeInv, PeerInv, Undisturbed, TypeOK',
           \A d \in Devices : StoreMove(d) /\ TrustMove(d),
           \A p \in Procs : CallOK(p)' /\ CallMove(p),
           NEW d \in Devices, NEW e \in Devices
    PROVE  PeerOK(d, e)'
  <1> USE DEF Inv
  <1>1. CASE Reinstall(d)
    <2>1. PICK g, k : store' = [store EXCEPT ![d] = NewStore(d, g, k)]
      BY <1>1 DEF Reinstall
    <2>2. store'[d] = NewStore(d, g, k)
      BY <2>1 DEF TypeOK
    <2>3. store'[d].remoteID[e] = None /\ store'[d].sessions[e] = None
      BY <2>2 DEF NewStore
    <2> QED BY <2>3 DEF PeerOK
  <1>2. CASE ~Reinstall(d)
    <2>1. PICK ik, s, old : ik = store'[d].remoteID[e] /\ s = store'[d].sessions[e] /\ old = store[d].remoteID[e]
      OBVIOUS
    <2>2. /\ store[d] \in Stores /\ store[d].remoteID \in [Devices -> IdentityKeys \cup {None}]
          /\ old # None => old[1] = e /\ GenOK(old) /\ old \in IdentityKeys
      BY <2>1, Parts, StoreParts DEF PeerInv, PeerOK
    <2>3. \/ ik = old
          \/ \E p \in Procs : Home[p] = d /\ call[p].dev = e /\ Learns(p)
      BY <1>2, <2>1 DEF TrustMove, SameTrust
    <2>4. ASSUME NEW p \in Procs, Home[p] = d, call[p].dev = e, Learns(p)
          PROVE  /\ ik # None /\ ik[1] = e /\ GenOK(ik)
                 /\ call[p].pc \in {"fetch", "identify"}
                 /\ call[p].pc = "fetch" => store[d].sessions[e] = None
                 /\ call[p].pc = "identify" => Answering(d, e)'
      <3>1. CASE FetchBundle(p)
        <4>1. bundles[e].identityKey \in IdentityKeys /\ call[p].pc = "fetch"
              /\ store'[d].remoteID = [store[d].remoteID EXCEPT ![e] = bundles[e].identityKey]
          BY <2>4, <3>1, FetchLearns, FetchStep
        <4>2. ik = bundles[e].identityKey
          BY <2>1, <2>2, <4>1
        <4>3. store[d].sessions[e] = None
          BY <2>4, <4>1 DEF PeerInv, HeldOK
        <4> QED BY <4>1, <4>2, <4>3, NoneAssumption DEF KeysInv
      <3>2. CASE Identify(p)
        <4>1. PICK x : x = call[p].msg.kx.identityKey
          OBVIOUS
        <4>2. /\ x \in IdentityKeys /\ x[1] = e /\ GenOK(x) /\ call[p].pc = "identify"
              /\ store'[d].remoteID = [store[d].remoteID EXCEPT ![e] = x]
          BY <2>4, <3>2, <4>1, IdentifyLearns DEF Identify
        <4>3. ik = x
          BY <2>1, <2>2, <4>2
        <4>4. call' = [call EXCEPT ![p] = [call[p] EXCEPT !.pc = "decrypt"]]
          BY <3>2 DEF Identify
        <4>5. call'[p].pc = "decrypt" /\ call'[p].dev = e /\ call'[p].msg = call[p].msg
          BY <2>4, <4>4, Parts DEF TypeOK, Calls
        <4>6. call[p].msg.kx # None
          BY <4>2 DEF CallInv, CallOK
        <4>7. Answering(d, e)'
          BY <2>4, <4>5, <4>6 DEF Answering
        <4> QED BY <4>2, <4>3, <4>7, NoneAssumption
      <3> QED BY <2>4, <3>1, <3>2 DEF Learns
    <2>5. ik # None => ik[1] = e /\ GenOK(ik)
      BY <2>2, <2>3, <2>4
    <2>6. ASSUME s # None PROVE d # e /\ ik # None /\ (Answering(d, e)' \/ ik = PeerIdentity(s))
      <3>1. ASSUME NEW p \in Procs, Home[p] = d, call[p].dev = e, Puts(p)
            PROVE  d # e /\ ik # None /\ ik = PeerIdentity(s)
        <4>1. PICK x \in SessionStates : x = call[p].sess /\ s.root = x.root /\ s.role = x.role
          BY <2>1, <3>1, PutStep, CallSession
        <4>2. call[p].pc \in {"encrypt", "decrypt"} /\ d # e
          BY <3>1 DEF Puts, EncryptAndPut, DecryptAndPut, CallInv, CallOK
        <4>3. old = PeerIdentity(x)
          BY <2>1, <3>1, <4>1, <4>2 DEF PeerInv, HeldOK, SendPCs
        <4>4. ~Learns(p)
          BY <4>2 DEF Learns, FetchBundle, Identify
        <4>5. ik = old
          BY <1>2, <2>1, <3>1, <4>2, <4>4, Counters, RemoteKept
        <4>6. PeerIdentity(x) \in IdentityKeys /\ PeerIdentity(s) = PeerIdentity(x)
          BY <4>1 DEF PeerIdentity, SessionStates, Roots
        <4> QED BY <4>2, <4>3, <4>5, <4>6, NoneAssumption
      <3>2. CASE s = store[d].sessions[e]
        <4>1. d # e /\ old # None /\ (Answering(d, e) \/ old = PeerIdentity(s))
          BY <2>1, <2>6, <3>2 DEF PeerInv, PeerOK
        <4>2. ASSUME NEW p \in Procs, Home[p] = d, call[p].dev = e, Learns(p)
              PROVE  ik # None /\ Answering(d, e)'
          BY <2>4, <2>6, <3>2, <4>2
        <4>3. CASE ik = old
          <5>1. ASSUME NEW p \in Procs, Home[p] = d, call[p].dev = e, call[p].pc = "decrypt",
                       call[p].msg.kx # None
                PROVE  Answering(d, e)' \/ ik = PeerIdentity(s)
            <6>1. CASE e \in Reinstallable
              <7>1. CASE Puts(p)
                BY <3>1, <5>1, <7>1
              <7>2. CASE call'[p] = call[p]
                BY <5>1, <7>2 DEF Answering
              <7> QED BY <5>1, <6>1, <7>1, <7>2, AnswerStep
            <6>2. CASE e \notin Reinstallable
              <7>1. ik \in IdentityKeys /\ ik[1] = e /\ ik[2] = 1
                BY <2>2, <4>1, <4>3, <6>2 DEF GenOK
              <7>2. s \in SessionStates /\ s \in InHand(d, e)
                BY <2>6, <3>2, Parts DEF InHand
              <7>3. EndOf(d, e, s.role, s.root) /\ s.root \in Roots /\ s.role \in {"active", "passive"}
                BY <7>2 DEF SessionInv, SessionOK, SessionStates
              <7>4. PICK k : k = PeerIdentity(s)
                OBVIOUS
              <7>5. k \in IdentityKeys /\ k[1] = e /\ GenOK(k)
                BY <7>3, <7>4 DEF EndOf, PeerIdentity, Roots
              <7>6. k[2] = 1
                BY <6>2, <7>5 DEF GenOK
              <7> QED BY <7>1, <7>4, <7>5, <7>6 DEF IdentityKeys
            <6> QED BY <6>1, <6>2
          <5> QED BY <4>1, <4>3, <5>1 DEF Answering
        <4> QED BY <2>3, <4>1, <4>2, <4>3
      <3> QED BY <2>1, <2>6, <3>1, <3>2 DEF StoreMove
    <2> QED BY <2>1, <2>5, <2>6 DEF PeerOK
  <1> QED BY <1>1, <1>2

-----------------------------------------------------------------------------
(* The theorems *)

(* A new Store knows no identity keys and has no sessions.                  *)
LEMMA InitPeer == Init => PeerInv /\ TrustInv
  <1> SUFFICES ASSUME Init PROVE PeerInv /\ TrustInv
    OBVIOUS
  <1>1. call = [p \in Procs |-> Idle]
    BY DEF Init
  <1>2. ASSUME NEW d \in Devices, NEW e \in Devices PROVE PeerOK(d, e)
    <2>1. store[d] = NewStore(d, 1, 0)
      BY DEF Init
    <2>2. store[d].remoteID[e] = None /\ store[d].sessions[e] = None
      BY <2>1 DEF NewStore
    <2> QED BY <2>2 DEF PeerOK
  <1>3. ASSUME NEW p \in Procs PROVE HeldOK(p)
    BY <1>1 DEF HeldOK, Idle, SendPCs
  <1> QED BY <1>1, <1>2, <1>3 DEF PeerInv, TrustInv, Idle

(* The identity-key invariant is inductive, relative to Inv and AgreeInv.   *)
LEMMA PeerInvStep ==
    ASSUME Undisturbed
    PROVE  Inv /\ AgreeInv /\ PeerInv /\ [Next]_vars => PeerInv'
  <1> SUFFICES ASSUME Inv, AgreeInv, PeerInv, [Next]_vars PROVE PeerInv'
    OBVIOUS
  <1>1. KeyExchangeOnFirst /\ TypeOK /\ CallInv /\ KeysInv /\ MessageInv /\ DeliveryInv
    BY DEF Inv, KeyExchangeInv
  <1>2. TypeOK'
    BY <1>1, TypeStep
  <1>3. \A p \in Procs : CallOK(p)' /\ CallMove(p)
    BY <1>1, CallStep
  <1>4. (\A d \in Devices : StoreMove(d)) /\ (\A d \in Devices : TrustMove(d))
    BY <1>1, <1>2, StoreStep, TrustStep
  <1>5. \A p \in Procs : HeldOK(p)'
    BY <1>2, <1>3, <1>4, HeldStep
  <1>6. \A d, e \in Devices : PeerOK(d, e)'
    BY <1>2, <1>3, <1>4, PeerStep
  <1> QED BY <1>5, <1>6 DEF PeerInv

(* What checkTrust or the resolver found trusted stays trusted until the    *)
(* call encrypts, where no user takes a decision back.                      *)
LEMMA TrustInvStep ==
    ASSUME Blockers = {}
    PROVE  Inv /\ PeerInv /\ TrustInv /\ [Next]_vars => TrustInv'
  <1> SUFFICES ASSUME Inv, PeerInv, TrustInv, [Next]_vars, NEW p \in Procs, call'[p].pc = "encrypt"
               PROVE  store'[Home[p]].trust[store'[Home[p]].remoteID[call'[p].dev]] = "trusted"
    BY DEF TrustInv
  <1> USE DEF Inv
  <1>1. KeyExchangeOnFirst
    BY DEF KeyExchangeInv
  <1>2. PICK d, e, ik : d = Home[p] /\ e = call[p].dev /\ ik = store[d].remoteID[e]
    OBVIOUS
  <1>3. CallMove(p) /\ d \in Devices /\ TrustMove(d) /\ ~Reinstall(d)
    BY <1>1, <1>2, Parts, CallStep, TrustStep, ReinstallEnds
  <1>4. (call'[p] = call[p] \/ GoesOn(p)) /\ call'[p].dev = e /\ call[p].pc \in SendPCs
    BY <1>2, <1>3, FetchStep DEF CallMove, Ends, Opens, Looks, Loads, GoesOn, WaitPCs, SendPCs
  <1>5. ~Learns(p)
    BY <1>4 DEF Learns, FetchBundle, Identify, SendPCs
  <1>6. store'[d].remoteID[e] = ik
    BY <1>2, <1>3, <1>4, <1>5, RemoteKept, Counters DEF SessionPCs
  <1>7. ik \in IdentityKeys
    <2>1. ik = PeerIdentity(call[p].sess)
      BY <1>2, <1>4 DEF PeerInv, HeldOK
    <2>2. call[p].sess \in SessionStates
      BY <1>4, CallSession DEF SessionPCs
    <2> QED BY <2>1, <2>2 DEF PeerIdentity, SessionStates, Roots
  <1>8. store'[d].trust[ik] = "trusted"
    <2>1. CASE call'[p] = call[p]
      BY <1>2, <1>3, <1>7, <2>1, TrustedKept DEF TrustInv
    <2>2. CASE CheckTrust(p)
      <3>1. UNCHANGED store
        BY <2>2 DEF CheckTrust
      <3>2. ik # None
        BY <1>7, NoneAssumption
      <3>3. ASSUME store[d].trust[ik] # "trusted" PROVE FALSE
        <4>1. call' = [call EXCEPT ![p] = Idle] \/ call' = [call EXCEPT ![p].pc = "resolve"]
          BY <1>2, <2>2, <3>2, <3>3 DEF CheckTrust, Return
        <4>2. CASE call' = [call EXCEPT ![p] = Idle]
          BY <4>2 DEF TypeOK, Idle
        <4>3. CASE call' = [call EXCEPT ![p].pc = "resolve"]
          <5>1. call' = [call EXCEPT ![p] = [call[p] EXCEPT !.pc = "resolve"]]
            BY <4>3
          <5> QED BY <5>1, Parts DEF TypeOK, Calls
        <4> QED BY <4>1, <4>2, <4>3
      <3> QED BY <3>1, <3>3
    <2>3. CASE ResolverTrusts(p)
      <3>1. store' = [store EXCEPT ![d] = SetTrust(store[d], ik, "trusted")]
        BY <1>2, <2>3 DEF ResolverTrusts
      <3>2. store'[d] = SetTrust(store[d], ik, "trusted") /\ store[d] \in Stores
        BY <1>3, <3>1, Parts DEF TypeOK
      <3>3. store'[d].trust = [store[d].trust EXCEPT ![ik] = "trusted"]
        BY <1>7, <3>2, TrustWrite
      <3>4. store[d].trust \in [IdentityKeys -> TrustStates]
        BY <3>2, StoreParts
      <3> QED BY <1>7, <3>3, <3>4
    <2> QED BY <1>4, <2>1, <2>2, <2>3 DEF GoesOn, SendPCs
  <1> QED BY <1>2, <1>4, <1>6, <1>8

(* All invariants together.                                                 *)
THEOREM PeerInvariant == Undisturbed => (Spec => [](Inv /\ PeerInv))
  <1> SUFFICES ASSUME Undisturbed PROVE Spec => [](Inv /\ PeerInv)
    OBVIOUS
  <1>1. Init => Inv /\ AgreeInv /\ PeerInv
    BY InitInv, InitAgree, InitPeer
  <1>2. Inv /\ AgreeInv /\ PeerInv /\ [Next]_vars => (Inv /\ AgreeInv /\ PeerInv)'
    BY InvStep, AgreeStep, PeerInvStep
  <1> QED BY <1>1, <1>2, PTL DEF Spec

(* While nobody works on a device, the identity key stored for it is the    *)
(* one at the other end of the session stored for it, whoever is            *)
(* reinstalled, as long as the others are not interrupted while they answer.*)
THEOREM SessionIdentityCorrect == Undisturbed => (Spec => []SessionIdentity)
  <1> SUFFICES ASSUME Undisturbed PROVE Spec => []SessionIdentity
    OBVIOUS
  <1>1. Inv /\ PeerInv => SessionIdentity
    BY NotAnswering DEF PeerInv, PeerOK, SessionIdentity
  <1> QED BY <1>1, PeerInvariant, PTL

(* A call that started after an identity key was rejected never encrypts    *)
(* under a session with that key, however often users reject keys, resolvers*)
(* answer and devices are reinstalled.                                      *)
THEOREM BlockedSkippedCorrect == Undisturbed => (Spec => []BlockedSkipped)
  <1> SUFFICES ASSUME Undisturbed PROVE Spec => []BlockedSkipped
    OBVIOUS
  <1>1. Inv /\ PeerInv => BlockedSkipped
    BY DEF PeerInv, HeldOK, SendPCs, BlockedSkipped
  <1> QED BY <1>1, PeerInvariant, PTL

(* Nothing is encrypted to an identity key the user has not accepted, where *)
(* no user takes a decision back: what checkTrust saw, or the resolver      *)
(* decided, is the key at the other end of the session.                     *)
THEOREM TrustedSendCorrect == Undisturbed /\ Blockers = {} => (Spec => []TrustedSend)
  <1> SUFFICES ASSUME Undisturbed, Blockers = {} PROVE Spec => []TrustedSend
    OBVIOUS
  <1>1. Init => TrustInv
    BY InitPeer
  <1>2. Inv /\ PeerInv /\ TrustInv /\ [Next]_vars => TrustInv'
    BY TrustInvStep
  <1>3. Inv /\ PeerInv /\ TrustInv => TrustedSend
    BY DEF PeerInv, HeldOK, SendPCs, TrustInv, TrustedSend
  <1> QED BY <1>1, <1>2, <1>3, PeerInvariant, PTL DEF Spec
=============================================================================
