--------------------------- MODULE SessionsProofs ---------------------------
(***************************************************************************)
(* Theorems about Sessions, for every number of devices, goroutines, keys  *)
(* and messages, with crashes, store errors and reinstallations.           *)
(***************************************************************************)
EXTENDS SessionsSteps

-----------------------------------------------------------------------------
(* The two ends of a session *)

(* The end of a session stays the end of that session.                      *)
LEMMA EndStep ==
    ASSUME TypeOK, TypeOK', \A d \in Devices : StoreMove(d),
           NEW d, NEW e, NEW role, NEW r \in Roots, EndOf(d, e, role, r)
    PROVE  EndOf(d, e, role, r)'
  <1>1. r.opk \in Keys /\ r.ek \in Keys
    BY DEF Roots
  <1>2. PICK o \in Keys, k \in Keys : o = r.opk /\ k = r.ek
    BY <1>1
  <1>3. Old(o)' /\ Old(k)' /\ (Spent(o) => Spent(o)')
    BY <1>2, KeyStep DEF EndOf
  <1> QED BY <1>2, <1>3 DEF EndOf

(* The session a call has in hand is one of the sessions in hand.           *)
LEMMA CallSession ==
    ASSUME Inv, NEW p \in Procs, call[p].pc \in SessionPCs
    PROVE  /\ Home[p] \in Devices /\ call[p].dev \in Devices
           /\ call[p].sess \in SessionStates /\ call[p].sess \in InHand(Home[p], call[p].dev)
           /\ SessionOK(Home[p], call[p].dev, call[p].sess)
  <1>1. call[p].sess # None /\ call[p].dev \in Devices /\ Home[p] \in Devices
    BY Parts DEF Inv, CallInv, CallOK, SessionPCs, SendPCs
  <1>2. call[p].sess \in InHand(Home[p], call[p].dev)
    BY <1>1 DEF InHand
  <1>3. call[p].sess \in SessionStates
    BY <1>1, Parts DEF Inv
  <1> QED BY <1>1, <1>2, <1>3 DEF Inv, SessionInv

(* The message that EncryptAndPut makes.                                    *)
LEMMA SendStep ==
    ASSUME Inv, NEW p \in Procs, EncryptAndPut(p)
    PROVE  \E m \in Messages :
              /\ made' = made \cup {m}
              /\ m.from = Home[p] /\ m.to = call[p].dev /\ m.kx = call[p].kx
              /\ m.data.root = call[p].sess.root /\ m.data.from = call[p].sess.role
              /\ m.data.n = call[p].sess.sent /\ m.data.pre = call[p].sess.pending
  <1> DEFINE c == call[p]
             m == [from |-> Home[p], to |-> c.dev, data |-> Encrypt(c.sess), kx |-> c.kx]
  <1>1. c.pc = "encrypt" /\ made' = made \cup {m}
    BY DEF EncryptAndPut
  <1>2. Home[p] \in Devices /\ c.dev \in Devices /\ c.sess \in SessionStates
    BY <1>1, CallSession DEF SessionPCs, SendPCs
  <1>3. /\ m \in Messages
        /\ m.data.root = c.sess.root /\ m.data.from = c.sess.role
        /\ m.data.n = c.sess.sent /\ m.data.pre = c.sess.pending
    BY <1>2, Parts, MessageType DEF Inv
  <1>4. m.from = Home[p] /\ m.to = c.dev /\ m.kx = c.kx
    OBVIOUS
  <1> HIDE DEF m
  <1> QED BY <1>1, <1>3, <1>4

(* The session that a call stores: the one it had in hand, moved on.        *)
LEMMA PutStep ==
    ASSUME Inv, NEW p \in Procs, Puts(p)
    PROVE  LET x == store'[Home[p]].sessions[call[p].dev] IN
           /\ call[p].pc \in SessionPCs /\ call'[p].pc \notin SessionPCs
           /\ lock'[Home[p]][call[p].dev] \in {p, None}
           /\ x \in SessionStates /\ x.root = call[p].sess.root /\ x.role = call[p].sess.role
           /\ x.pending = None
           /\ EncryptAndPut(p) => x.sent = call[p].sess.sent + 1 /\ x.recv = call[p].sess.recv
           /\ DecryptAndPut(p) => /\ x.sent = call[p].sess.sent
                                  /\ x.recv = call[p].sess.recv \cup {call[p].msg.data.n}
  <1> DEFINE c == call[p]
             d == Home[p]
  <1>1. c.pc \in {"encrypt", "decrypt"} /\ c.pc \in SessionPCs
    BY DEF Puts, EncryptAndPut, DecryptAndPut, SessionPCs, SendPCs
  <1>2. d \in Devices /\ c.dev \in Devices /\ c.sess \in SessionStates /\ store[d] \in Stores
    BY <1>1, CallSession, Parts DEF Inv
  <1>8. call'[p].pc \notin SessionPCs /\ lock'[d][c.dev] \in {p, None}
    <2>1. \/ /\ lock' = [lock EXCEPT ![d][c.dev] = None]
             /\ \E m : call' = [call EXCEPT ![p] = [Idle EXCEPT !.pc = "enveloped", !.dev = c.dev, !.msg = m]]
          \/ /\ UNCHANGED lock
             /\ call' = [call EXCEPT ![p] = [Idle EXCEPT !.pc = "payload", !.dev = c.dev, !.msg = c.msg]]
      BY DEF Puts, EncryptAndPut, DecryptAndPut
    <2>a. call \in [Procs -> Calls] /\ lock \in [Devices -> [Devices -> Procs \cup {None}]]
      BY DEF Inv, TypeOK
    <2>b. PICK m : \/ call' = [call EXCEPT ![p] = [Idle EXCEPT !.pc = "enveloped", !.dev = c.dev, !.msg = m]]
                   \/ call' = [call EXCEPT ![p] = [Idle EXCEPT !.pc = "payload", !.dev = c.dev, !.msg = m]]
      BY <2>1, Zenon
    <2>d. \/ call'[p] = [Idle EXCEPT !.pc = "enveloped", !.dev = c.dev, !.msg = m]
          \/ call'[p] = [Idle EXCEPT !.pc = "payload", !.dev = c.dev, !.msg = m]
      BY <2>a, <2>b
    <2>2. call'[p].pc \in {"enveloped", "payload"}
      BY <2>d DEF Idle
    <2>3. lock[d][c.dev] = p
      BY <1>1, Counters DEF Inv, CallInv, CallOK
    <2>c. \/ lock' = [lock EXCEPT ![d][c.dev] = None]
          \/ lock' = lock
      BY <2>1
    <2>4. lock'[d][c.dev] \in {p, None}
      BY <1>2, <2>a, <2>c, <2>3
    <2> QED BY <2>2, <2>4 DEF SessionPCs, SendPCs
  <1>3. store[d].sessions \in [Devices -> SessionStates \cup {None}] /\ store \in [Devices -> Stores]
    BY <1>2, StoreParts DEF Inv, TypeOK
  <1>4. ASSUME EncryptAndPut(p)
        PROVE  store'[d].sessions[c.dev] = Marshal(AfterEncrypt(c.sess)) /\ c.pc = "encrypt"
    <2>1. PICK x : x = Marshal(AfterEncrypt(c.sess))
      OBVIOUS
    <2>2. x \in SessionStates
      BY <1>2, <2>1, StoredSession
    <2>3. store' = [store EXCEPT ![d] = PutSession(store[d], c.dev, x)] /\ c.pc = "encrypt"
      BY <1>4, <2>1 DEF EncryptAndPut
    <2>4. store'[d] = PutSession(store[d], c.dev, x)
      BY <1>2, <1>3, <2>3
    <2>5. PutSession(store[d], c.dev, x).sessions = [store[d].sessions EXCEPT ![c.dev] = x]
      BY <1>2, <2>2, SessionOps
    <2> QED BY <1>2, <1>3, <2>1, <2>3, <2>4, <2>5
  <1>5. ASSUME DecryptAndPut(p)
        PROVE  /\ c.msg.data \in Data /\ c.pc = "decrypt"
               /\ Puts(p) => store'[d].sessions[c.dev] = Marshal(AfterDecrypt(c.sess, c.msg.data))
    <2>1. c.pc = "decrypt"
      BY <1>5 DEF DecryptAndPut
    <2>2. c.msg.data \in Data /\ c.msg.from = c.dev
      BY <2>1, CallHandshake DEF Inv, KeyExchangeInv, CallInv, CallOK, DecryptPCs
    <2>3. PICK x : x = Marshal(AfterDecrypt(c.sess, c.msg.data))
      OBVIOUS
    <2>4. x \in SessionStates
      BY <1>2, <2>2, <2>3, StoredSession
    <2>5. CanDecrypt(c.sess, c.msg.data)
      BY <2>1 DEF Puts, EncryptAndPut
    <2>6. store' = [store EXCEPT ![d] = PutSession(store[d], c.dev, x)]
      BY <1>5, <2>2, <2>3, <2>5 DEF DecryptAndPut
    <2>7. store'[d] = PutSession(store[d], c.dev, x)
      BY <1>2, <1>3, <2>6
    <2>8. PutSession(store[d], c.dev, x).sessions = [store[d].sessions EXCEPT ![c.dev] = x]
      BY <1>2, <2>4, SessionOps
    <2> QED BY <1>2, <1>3, <2>1, <2>2, <2>3, <2>7, <2>8
  <1>6. CASE EncryptAndPut(p)
    <2>1. ~DecryptAndPut(p)
      BY <1>4, <1>5, <1>6
    <2> QED BY <1>1, <1>2, <1>4, <1>6, <1>8, <2>1, StoredSession
  <1>7. CASE DecryptAndPut(p)
    <2>1. ~EncryptAndPut(p)
      BY <1>4, <1>5, <1>7
    <2>2. PICK x : x = Marshal(AfterDecrypt(c.sess, c.msg.data))
      OBVIOUS
    <2>3. /\ x \in SessionStates /\ x.root = c.sess.root /\ x.role = c.sess.role /\ x.sent = c.sess.sent
          /\ x.recv = c.sess.recv \cup {c.msg.data.n} /\ x.pending = None
      BY <1>2, <1>5, <1>7, <2>2, StoredSession
    <2> QED BY <1>1, <1>5, <1>7, <1>8, <2>1, <2>2, <2>3
  <1> QED BY <1>6, <1>7 DEF Puts

-----------------------------------------------------------------------------
(* Messages *)

(* What is known of the messages that were made stays true of them, and is  *)
(* true of the one that EncryptAndPut adds.                                 *)
LEMMA MessageStep ==
    ASSUME Inv, TypeOK', \A d \in Devices : StoreMove(d), SharedMove
    PROVE  MessageInv'
  <1> USE DEF Inv
  <1> SUFFICES ASSUME NEW m \in made'
               PROVE  /\ m.from # m.to
                      /\ EndOf(m.from, m.to, m.data.from, m.data.root)'
                      /\ m.kx # None => m.kx.identityKey = m.data.root.ini /\ m.kx.ephemeralKey = m.data.root.ek
    BY DEF MessageInv
  <1>1. m.data.root \in Roots
    BY DEF TypeOK, Messages, Data
  <1>2. CASE m \in made
    BY <1>1, <1>2, EndStep DEF MessageInv
  <1>3. ASSUME NEW p \in Procs, EncryptAndPut(p), m \notin made
        PROVE  /\ m.from # m.to
               /\ EndOf(m.from, m.to, m.data.from, m.data.root)'
               /\ m.kx # None => m.kx.identityKey = m.data.root.ini /\ m.kx.ephemeralKey = m.data.root.ek
    <2>1. /\ m.from = Home[p] /\ m.to = call[p].dev /\ m.kx = call[p].kx
          /\ m.data.root = call[p].sess.root /\ m.data.from = call[p].sess.role
      BY <1>3, SendStep
    <2>2. call[p].pc = "encrypt"
      BY <1>3 DEF EncryptAndPut
    <2>3. EndOf(m.from, m.to, m.data.from, m.data.root)
      BY <2>1, <2>2, CallSession DEF SessionPCs, SendPCs, SessionOK
    <2>4. m.from # m.to
      BY <2>1, <2>2 DEF CallInv, CallOK
    <2>5. FirstOut(call[p].sess, call[p].kx)
      BY <2>2 DEF KeyExchangeInv, SendPCs
    <2>6. EndOf(m.from, m.to, m.data.from, m.data.root)'
      BY <1>1, <2>3, EndStep
    <2> QED BY <2>1, <2>4, <2>5, <2>6 DEF FirstOut
  <1> QED BY <1>2, <1>3 DEF SharedMove

(* A handshake that has been opened has used up its one-time prekey.        *)
LEMMA AcceptedStep ==
    ASSUME Inv, TypeOK', \A d \in Devices : StoreMove(d), SharedMove
    PROVE  AcceptedInv'
  <1> USE DEF Inv
  <1>1. opened \subseteq made /\ sent \subseteq made
    BY DEF DeliveryInv
  <1>2. ASSUME NEW m \in made, m.data.from = "active", Spent(m.data.root.opk)
        PROVE  Spent(m.data.root.opk)'
    <2>1. m.data.root.opk \in Keys
      BY DEF TypeOK, Messages, Data, Roots
    <2>2. Old(m.data.root.opk)
      BY DEF MessageInv, EndOf
    <2>3. PICK k \in Keys : k = m.data.root.opk
      BY <2>1
    <2>4. Spent(k)'
      BY <1>2, <2>2, <2>3, KeyStep
    <2> QED BY <2>3, <2>4 DEF Spent
  <1>3. CASE opened' = opened
    BY <1>1, <1>2, <1>3 DEF AcceptedInv
  <1>4. ASSUME NEW p \in Procs, DecryptAndPut(p), Puts(p) PROVE AcceptedInv'
    <2> DEFINE c == call[p]
    <2>1. c.pc = "decrypt" /\ CanDecrypt(c.sess, c.msg.data) /\ opened' = opened \cup {c.msg}
      BY <1>4 DEF DecryptAndPut, Puts, EncryptAndPut
    <2>2. c.msg \in made
      BY <1>1, <2>1 DEF CallInv, CallOK, DecryptPCs
    <2>3. SessionOK(Home[p], c.dev, c.sess) /\ c.sess.role \in {"active", "passive"}
      BY <2>1, CallSession DEF SessionPCs, SessionStates
    <2>4. ASSUME c.msg.data.from = "active" PROVE Spent(c.msg.data.root.opk)
      BY <2>1, <2>3, <2>4 DEF SessionOK, EndOf, CanDecrypt
    <2> QED BY <1>1, <1>2, <2>1, <2>2, <2>4 DEF AcceptedInv
  <1> QED BY <1>3, <1>4 DEF SharedMove

(* A session that opens a message has not opened it before.                 *)
LEMMA OpensNew ==
    ASSUME Inv, NEW p \in Procs, call[p].pc = "decrypt", CanDecrypt(call[p].sess, call[p].msg.data)
    PROVE  call[p].msg \notin opened
  <1>1. SessionOK(Home[p], call[p].dev, call[p].sess)
    BY CallSession DEF SessionPCs
  <1> QED BY <1>1 DEF SessionOK, Opened, CanDecrypt

(* Two calls never have the same message to hand over: both would hold the  *)
(* lock of its sender.                                                      *)
LEMMA OneHandsOver ==
    ASSUME Inv, NEW p \in Procs, NEW q \in Procs, call[p].pc = "payload", call[q].pc = "payload",
           call[p].msg = call[q].msg
    PROVE  p = q
  BY Counters DEF Inv, CallInv, CallOK

(* Messages go from made to sent to opened to accepted, and a call hands    *)
(* over only what it has just opened.                                       *)
LEMMA DeliveryStep ==
    ASSUME Inv, TypeOK', SharedMove, \A p \in Procs : CallOK(p)' /\ CallMove(p)
    PROVE  DeliveryInv'
  <1> USE DEF Inv
  <1>1. made \subseteq made' /\ (made' # made => \E p \in Procs : EncryptAndPut(p))
    BY SendStep DEF SharedMove
  <1>2. sent' \subseteq made' /\ sent \subseteq sent'
    <2>1. CASE sent' = sent
      BY <1>1, <2>1 DEF DeliveryInv
    <2>2. ASSUME NEW p \in Procs, ReturnEnvelope(p) PROVE sent' \subseteq made' /\ sent \subseteq sent'
      <3>1. call[p].pc = "enveloped" /\ sent' = sent \cup {call[p].msg}
        BY <2>2 DEF ReturnEnvelope
      <3>2. call[p].msg \in made
        BY <3>1 DEF CallInv, CallOK
      <3> QED BY <1>1, <3>1, <3>2 DEF DeliveryInv
    <2> QED BY <2>1, <2>2 DEF SharedMove
  <1>3. opened' \subseteq sent' /\ opened \subseteq opened'
    <2>1. CASE opened' = opened
      BY <1>2, <2>1 DEF DeliveryInv
    <2>2. ASSUME NEW p \in Procs, DecryptAndPut(p), Puts(p)
          PROVE  opened' \subseteq sent' /\ opened \subseteq opened'
      <3>1. call[p].pc = "decrypt" /\ opened' = opened \cup {call[p].msg}
        BY <2>2 DEF DecryptAndPut, Puts, EncryptAndPut
      <3>2. call[p].msg \in sent
        BY <3>1 DEF CallInv, CallOK, DecryptPCs
      <3> QED BY <1>2, <3>1, <3>2 DEF DeliveryInv
    <2> QED BY <2>1, <2>2 DEF SharedMove
  <1>4. ASSUME NEW p \in Procs, DecryptPayload(p)
        PROVE  /\ DOMAIN accepted' = DOMAIN accepted \cup {call[p].msg} /\ call[p].msg \in opened
               /\ \A m \in DOMAIN accepted' : accepted'[m] = 1
               /\ \A q \in Procs : call'[q].pc = "payload" => q # p
    <2>1. /\ call[p].pc = "payload" /\ accepted' = BagAdd(accepted, call[p].msg)
          /\ call' = [call EXCEPT ![p] = Idle]
      BY <1>4 DEF DecryptPayload, Return
    <2>2. call[p].msg \in opened /\ call[p].msg \notin DOMAIN accepted
      BY <2>1 DEF DeliveryInv
    <2>3. PICK m, a, b : m = call[p].msg /\ a = accepted /\ b = BagAdd(a, m)
      OBVIOUS
    <2>4. IsABag(a) /\ m \notin DOMAIN a /\ \A e \in DOMAIN a : a[e] = 1
      BY <2>2, <2>3 DEF TypeOK, DeliveryInv, AtMostOnce
    <2>5. DOMAIN b = DOMAIN a \cup {m} /\ \A e \in DOMAIN b : b[e] = 1
      <3>1. /\ DOMAIN BagAdd(a, m) = DOMAIN a \cup {m} /\ BagAdd(a, m)[m] = 1
            /\ \A e \in DOMAIN a : e # m => BagAdd(a, m)[e] = a[e]
        BY <2>4, BagGrows
      <3> QED BY <2>3, <2>4, <3>1
    <2>6. call'[p].pc = "idle"
      BY <2>1 DEF TypeOK, Idle
    <2> QED BY <2>1, <2>2, <2>3, <2>5, <2>6
  <1>5. DOMAIN accepted' \subseteq opened' /\ AtMostOnce'
    <2>1. CASE accepted' = accepted
      BY <1>3, <2>1 DEF DeliveryInv, AtMostOnce
    <2>2. ASSUME NEW p \in Procs, DecryptPayload(p) PROVE DOMAIN accepted' \subseteq opened' /\ AtMostOnce'
      <3>1. DOMAIN accepted' \subseteq opened'
        BY <1>3, <1>4, <2>2 DEF DeliveryInv
      <3>2. \A m \in DOMAIN accepted' : accepted'[m] = 1
        BY <1>4, <2>2
      <3> QED BY <3>1, <3>2 DEF AtMostOnce
    <2> QED BY <2>1, <2>2 DEF SharedMove
  <1>6. ASSUME NEW p \in Procs, call'[p].pc = "payload"
        PROVE  call'[p].msg \in opened' /\ call'[p].msg \notin DOMAIN accepted'
    <2>1. CASE call'[p] = call[p]
      <3>1. call[p].msg \in opened /\ call[p].msg \notin DOMAIN accepted /\ call[p].pc = "payload"
        BY <1>6, <2>1 DEF DeliveryInv
      <3>2. ASSUME NEW q \in Procs, DecryptPayload(q) PROVE call[p].msg \notin DOMAIN accepted'
        <4>1. call[q].pc = "payload" /\ p # q
          BY <1>4, <1>6, <3>2 DEF DecryptPayload
        <4>2. call[p].msg # call[q].msg
          BY <3>1, <4>1, OneHandsOver
        <4> QED BY <1>4, <3>1, <3>2, <4>2
      <3> QED BY <1>3, <2>1, <3>1, <3>2 DEF SharedMove
    <2>2. CASE Opens(p)
      <3>1. /\ call[p].pc = "decrypt" /\ CanDecrypt(call[p].sess, call[p].msg.data)
            /\ opened' = opened \cup {call[p].msg} /\ UNCHANGED accepted
        BY <2>2 DEF Opens, DecryptAndPut
      <3>2. call[p].msg \notin DOMAIN accepted
        BY <3>1, OpensNew DEF DeliveryInv
      <3> QED BY <2>2, <3>1, <3>2 DEF Opens
    <2>3. ~FetchBundle(p)
      <3>1. ASSUME FetchBundle(p) PROVE FALSE
        <4>1. PICK x, y : call' = [call EXCEPT ![p] = [call[p] EXCEPT !.pc = "trust", !.sess = x, !.kx = y]]
          BY <3>1 DEF FetchBundle
        <4> QED BY <1>6, <4>1, Parts DEF TypeOK, Calls
      <3> QED BY <3>1
    <2> QED BY <1>6, <2>1, <2>2, <2>3 DEF CallMove, Ends, Looks, Loads, GoesOn, WaitPCs, SendPCs
  <1> QED BY <1>2, <1>3, <1>5, <1>6 DEF DeliveryInv

(* The KeyExchange goes with the first message.                             *)
LEMMA KeyExchangeStep ==
    ASSUME Inv, TypeOK', \A d \in Devices : StoreMove(d), SharedMove,
           \A p \in Procs : CallOK(p)' /\ CallMove(p)
    PROVE  KeyExchangeInv'
  <1> USE DEF Inv
  <1>1. KeyExchangeOnFirst'
    <2>1. CASE made' = made
      BY <2>1 DEF KeyExchangeInv, KeyExchangeOnFirst
    <2>2. ASSUME NEW p \in Procs, EncryptAndPut(p) PROVE KeyExchangeOnFirst'
      <3>1. PICK m \in Messages :
              /\ made' = made \cup {m} /\ m.kx = call[p].kx
              /\ m.data.from = call[p].sess.role
              /\ m.data.n = call[p].sess.sent /\ m.data.pre = call[p].sess.pending
        BY <2>2, SendStep
      <3>2. FirstOut(call[p].sess, call[p].kx)
        BY <2>2 DEF KeyExchangeInv, SendPCs, EncryptAndPut
      <3>3. /\ (m.kx # None) <=> (m.data.from = "active" /\ m.data.n = 0)
            /\ m.data.pre = (IF Protocol = "v1" THEN m.kx ELSE None)
        BY <3>1, <3>2 DEF FirstOut
      <3> QED BY <3>1, <3>3 DEF KeyExchangeInv, KeyExchangeOnFirst
    <2> QED BY <2>1, <2>2 DEF SharedMove
  <1>2. ASSUME NEW p \in Procs, FetchBundle(p)
        PROVE  call'[p].pc = "trust" /\ FirstOut(call'[p].sess, call'[p].kx)
    <2> DEFINE d  == Home[p]
               b  == bundles[call[p].dev]
               ek == <<d, fresh[d]>>
               s  == NewActiveSession(store[d].identityKey, b, ek)
               kx == KeyExchange(store[d].identityKey, ek, b.signedPreKey.id, b.preKey.id)
    <2>1. call[p].dev \in Devices /\ d \in Devices
      BY <1>2, Parts DEF FetchBundle, CallInv, CallOK
    <2>2. b \in Bundles /\ b.preKey # None /\ ek \in Keys /\ store[d].identityKey \in IdentityKeys
      BY <1>2, <2>1, Parts, StoreParts DEF FetchBundle, Keys
    <2>3. /\ kx \in KeyExchanges /\ s.root.ini = store[d].identityKey /\ s.root.ek = ek
          /\ s.role = "active" /\ s.sent = 0 /\ s.pending = IF Protocol = "v1" THEN kx ELSE None
          /\ kx.identityKey = store[d].identityKey /\ kx.ephemeralKey = ek
      BY <2>2, ActiveSession
    <2>4. call' = [call EXCEPT ![p] = [call[p] EXCEPT !.pc = "trust", !.sess = s, !.kx = kx]]
      BY <1>2 DEF FetchBundle
    <2> HIDE DEF s, kx
    <2>5. call'[p].pc = "trust" /\ call'[p].sess = s /\ call'[p].kx = kx
      BY <2>4, Parts DEF TypeOK, Calls
    <2>6. kx # None
      BY <2>3, NoneAssumption
    <2> QED BY <2>3, <2>5, <2>6 DEF FirstOut
  <1>3. ASSUME NEW p \in Procs, Consume(p), call'[p].pc = "identify"
        PROVE  call'[p].sess.role = "passive"
    <2> DEFINE kx == HandshakeOf(call[p].msg)
               s  == store[Home[p]]
               n  == NewPassiveSession(s.identityKey, kx, call[p].spk, s.preKeys[kx.preKeyID])
    <2>1. call' # [call EXCEPT ![p] = Idle]
      BY <1>3 DEF TypeOK, Idle
    <2>2. call' = [call EXCEPT ![p] = [call[p] EXCEPT !.pc = "identify", !.sess = n]]
      BY <1>3, <2>1 DEF Consume, Return
    <2>3. n.role = "passive"
      BY DEF NewPassiveSession
    <2> HIDE DEF n
    <2>4. call'[p].sess = n
      BY <2>2, Parts DEF TypeOK, Calls
    <2> QED BY <2>3, <2>4
  <1>4. ASSUME NEW p \in Procs, call'[p].pc \in SendPCs
        PROVE  FirstOut(call'[p].sess, call'[p].kx)
    <2>1. CASE call'[p] = call[p] \/ GoesOn(p)
      BY <1>4, <2>1 DEF KeyExchangeInv, GoesOn, SendPCs
    <2>2. CASE Loads(p)
      <3>1. call'[p].sess # None /\ call'[p].dev \in Devices
        BY <1>4 DEF CallOK, SendPCs, SessionPCs
      <3> QED BY <1>4, <2>2, <3>1, Parts DEF KeyExchangeInv, Loads, SendPCs
    <2> QED BY <1>2, <1>4, <2>1, <2>2 DEF CallMove, Ends, Opens, Looks, WaitPCs, SendPCs, SessionPCs
  <1>5. ASSUME NEW p \in Procs, call'[p].pc \in {"identify", "decrypt"}
        PROVE  ~(call'[p].sess.role = "active" /\ call'[p].sess.sent = 0)
    <2>1. CASE call'[p] = call[p] \/ GoesOn(p)
      BY <1>5, <2>1 DEF KeyExchangeInv, GoesOn, SendPCs
    <2>2. CASE Loads(p)
      <3>1. call'[p].sess # None /\ call'[p].dev \in Devices
        BY <1>5 DEF CallOK, SessionPCs
      <3> QED BY <1>5, <2>2, <3>1, Parts DEF KeyExchangeInv, Loads, FirstOut
    <2> QED BY <1>2, <1>3, <1>5, <2>1, <2>2 DEF CallMove, Ends, Opens, Looks, WaitPCs, SessionPCs
  <1>6. ASSUME NEW d \in Devices, NEW e \in Devices, store'[d].sessions[e] # None
        PROVE  FirstOut(store'[d].sessions[e], None)
    <2>1. CASE store'[d].sessions[e] = store[d].sessions[e]
      BY <1>6, <2>1 DEF KeyExchangeInv
    <2>2. ASSUME NEW p \in Procs, Home[p] = d, call[p].dev = e, Puts(p)
          PROVE  FirstOut(store'[d].sessions[e], None)
      <3>1. PICK x : x = store'[d].sessions[e]
        OBVIOUS
      <3>2. /\ call[p].pc \in SessionPCs /\ x.role = call[p].sess.role /\ x.pending = None
            /\ EncryptAndPut(p) => x.sent = call[p].sess.sent + 1
            /\ DecryptAndPut(p) => x.sent = call[p].sess.sent
        BY <2>2, <3>1, PutStep
      <3>3. call[p].sess \in SessionStates
        BY <3>2, CallSession
      <3>4. ~(x.role = "active" /\ x.sent = 0)
        <4>1. CASE EncryptAndPut(p)
          BY <3>2, <3>3, <4>1 DEF SessionStates
        <4>2. CASE DecryptAndPut(p)
          <5>1. call[p].pc = "decrypt"
            BY <4>2 DEF DecryptAndPut
          <5> QED BY <3>2, <4>2, <5>1 DEF KeyExchangeInv
        <4> QED BY <2>2, <4>1, <4>2 DEF Puts
      <3> QED BY <3>1, <3>2, <3>4 DEF FirstOut
    <2> QED BY <1>6, <2>1, <2>2 DEF StoreMove
  <1> QED BY <1>1, <1>4, <1>5, <1>6 DEF KeyExchangeInv, FirstOut

-----------------------------------------------------------------------------
(* Sessions *)

(* Nobody else has a session for the device in hand: once a call has stored *)
(* its session, that one is the only one there is.                          *)
LEMMA PutAlone ==
    ASSUME Inv, TypeOK', NEW p \in Procs, Puts(p), \A q \in Procs : CallOK(q)',
           NEW d, NEW e, d = Home[p], e = call[p].dev, NEW s \in InHand(d, e)'
    PROVE  s = store'[d].sessions[e]
  <1>1. call'[p].pc \notin SessionPCs
    BY PutStep
  <1>2. lock'[d][e] \in {p, None}
    BY PutStep
  <1>3. ASSUME NEW q \in Procs, Home[q] = d, call'[q].dev = e, call'[q].pc \in SessionPCs PROVE FALSE
    <2>1. lock'[d][e] = q
      BY <1>3, Counters DEF CallOK
    <2> QED BY <1>1, <1>2, <1>3, <2>1, NoneAssumption
  <1> QED BY <1>3 DEF InHand

(* Where a session in hand comes from, when none has been stored.           *)
LEMMA HandStep ==
    ASSUME Inv, TypeOK', NEW d \in Devices, NEW e \in Devices, StoreMove(d),
           \A q \in Procs : CallOK(q)' /\ CallMove(q),
           \A p \in Procs : Puts(p) => ~(Home[p] = d /\ call[p].dev = e),
           NEW s \in InHand(d, e)'
    PROVE  \/ s \in InHand(d, e)
           \/ \E p \in Procs : /\ Home[p] = d /\ call[p].dev = e /\ s = call'[p].sess
                               /\ FetchBundle(p) \/ (Consume(p) /\ call'[p].pc = "identify")
  <1>1. s # None
    BY DEF InHand
  <1>2. CASE s = store'[d].sessions[e]
    <2>1. s = store[d].sessions[e]
      BY <1>1, <1>2 DEF StoreMove
    <2> QED BY <1>1, <2>1 DEF InHand
  <1>3. ASSUME NEW p \in Procs, Home[p] = d, call'[p].dev = e, call'[p].pc \in SessionPCs, s = call'[p].sess
        PROVE  \/ s \in InHand(d, e)
               \/ /\ call[p].dev = e
                  /\ FetchBundle(p) \/ (Consume(p) /\ call'[p].pc = "identify")
    <2>1. CASE call'[p] = call[p] \/ GoesOn(p)
      <3>1. call[p].dev = e /\ call[p].pc \in SessionPCs /\ s = call[p].sess
        BY <1>3, <2>1 DEF GoesOn, SessionPCs
      <3> QED BY <1>1, <1>3, <3>1 DEF InHand
    <2>2. CASE Loads(p)
      BY <1>1, <1>3, <2>2 DEF InHand, Loads
    <2>3. CASE FetchBundle(p) \/ (Consume(p) /\ call'[p].pc = "identify")
      <3>1. call'[p].dev = call[p].dev
        <4>1. CASE FetchBundle(p)
          <5>1. PICK x, y : call' = [call EXCEPT ![p] = [call[p] EXCEPT !.pc = "trust", !.sess = x, !.kx = y]]
            BY <4>1 DEF FetchBundle
          <5> QED BY <5>1, Parts DEF Inv, TypeOK, Calls
        <4>2. CASE Consume(p) /\ call'[p].pc = "identify"
          <5>1. call' # [call EXCEPT ![p] = Idle]
            BY <4>2 DEF Inv, TypeOK, Idle
          <5>2. PICK x : call' = [call EXCEPT ![p] = [call[p] EXCEPT !.pc = "identify", !.sess = x]]
            BY <4>2, <5>1 DEF Consume, Return
          <5> QED BY <5>2, Parts DEF Inv, TypeOK, Calls
        <4> QED BY <2>3, <4>1, <4>2
      <3> QED BY <1>3, <2>3, <3>1
    <2> QED BY <1>3, <2>1, <2>2, <2>3 DEF CallMove, Ends, Opens, Looks, WaitPCs, SessionPCs, SendPCs
  <1> QED BY <1>1, <1>2, <1>3 DEF InHand

(* The new session of an initiator: its ephemeral key has just been made.   *)
LEMMA NewActive ==
    ASSUME Inv, TypeOK', \A d \in Devices : StoreMove(d), NEW p \in Procs, FetchBundle(p),
           NEW d, NEW e, d = Home[p], e = call[p].dev, NEW s, s = call'[p].sess
    PROVE  EndOf(d, e, s.role, s.root)' /\ s.role = "active" /\ s.recv = {} /\ ~Old(s.root.ek)
  <1>1. e \in Devices /\ d \in Devices /\ fresh[d] \in Nat
    BY Parts DEF FetchBundle, Inv, CallInv, CallOK
  <1>2. PICK b, ek, ik : b = bundles[e] /\ ek = <<d, fresh[d]>> /\ ik = store[d].identityKey
    OBVIOUS
  <1>3. b \in Bundles /\ b.preKey # None /\ ek \in Keys /\ ik \in IdentityKeys
    BY <1>1, <1>2, Parts, StoreParts DEF FetchBundle, Keys, Inv
  <1>4. PICK n, kx : /\ n = NewActiveSession(ik, b, ek)
                     /\ kx = KeyExchange(ik, ek, b.signedPreKey.id, b.preKey.id)
    OBVIOUS
  <1>5. /\ n \in SessionStates /\ n.role = "active" /\ n.recv = {} /\ n.root.ini = ik
        /\ n.root.resp = b.identityKey /\ n.root.opk = b.preKey.key /\ n.root.ek = ek
    BY <1>3, <1>4, ActiveSession
  <1>6. /\ call' = [call EXCEPT ![p] = [call[p] EXCEPT !.pc = "trust", !.sess = n, !.kx = kx]]
        /\ fresh' = [fresh EXCEPT ![d] = @ + 1]
    BY <1>2, <1>4 DEF FetchBundle
  <1>7. s = n
    BY <1>6, Parts DEF Inv, TypeOK, Calls
  <1>8. ~Old(ek) /\ Old(ek)'
    BY <1>1, <1>2, <1>6 DEF Old, Inv, TypeOK
  <1>9. PICK k \in Keys : k = b.preKey.key
    BY <1>3 DEF Bundles, PreKeyRefs
  <1>10. Old(k)
    BY <1>1, <1>2, <1>3, <1>9 DEF Inv, KeysInv
  <1>11. Old(k)'
    BY <1>10, KeyStep DEF Inv
  <1>12. ik[1] = d /\ b.identityKey[1] = e /\ GenOK(ik) /\ GenOK(b.identityKey)
    BY <1>1, <1>2 DEF Inv, KeysInv
  <1>13. PICK r : r = n.root
    OBVIOUS
  <1>14. r.ini[1] = d /\ r.resp[1] = e /\ GenOK(r.ini) /\ GenOK(r.resp) /\ r.opk = k /\ r.ek = ek
    BY <1>5, <1>9, <1>12, <1>13
  <1>15. EndOf(d, e, "active", r)'
    BY <1>8, <1>11, <1>14 DEF EndOf
  <1> QED BY <1>5, <1>7, <1>8, <1>13, <1>14, <1>15

(* The new session of a responder: its one-time prekey was in the pool, and *)
(* now it is not.                                                           *)
LEMMA NewPassive ==
    ASSUME Inv, TypeOK', \A d \in Devices : StoreMove(d), NEW p \in Procs,
           Consume(p), call'[p].pc = "identify",
           NEW d, NEW e, d = Home[p], e = call[p].dev, NEW s, s = call'[p].sess
    PROVE  EndOf(d, e, s.role, s.root)' /\ s.role = "passive" /\ s.recv = {} /\ ~Spent(s.root.opk)
  <1>1. call[p].pc = "consume"
    BY DEF Consume
  <1>2. PICK m, kx, ik, spk, i, k :
           /\ m = call[p].msg /\ kx = HandshakeOf(m) /\ ik = store[d].identityKey
           /\ spk = call[p].spk /\ i = kx.preKeyID /\ k = store[d].preKeys[i]
    OBVIOUS
  <1>3. d \in Devices /\ e \in Devices /\ m.from = e /\ m \in made /\ m.kx # None
    BY <1>1, <1>2, Parts DEF Inv, CallInv, CallOK, DecryptPCs, DeliveryInv
  <1>4. kx \in KeyExchanges /\ kx = m.kx /\ spk \in Keys
    BY <1>1, <1>2, <1>3, CallHandshake, Parts DEF Inv, CallInv, CallOK, KeyExchangeInv, DecryptPCs
  <1>5. call' # [call EXCEPT ![p] = Idle]
    BY DEF Inv, TypeOK, Idle
  <1>6. PICK n : n = NewPassiveSession(ik, kx, spk, k)
    OBVIOUS
  <1>7. /\ k # None /\ store' = [store EXCEPT ![d] = ConsumePreKey(store[d], i)]
        /\ call' = [call EXCEPT ![p] = [call[p] EXCEPT !.pc = "identify", !.sess = n]]
    BY <1>2, <1>5, <1>6 DEF Consume, Return
  <1>8. i \in Ids /\ store[d] \in Stores
    BY <1>2, <1>3, <1>4, Parts DEF KeyExchanges, Inv
  <1>9. k \in Keys /\ ik \in IdentityKeys
    BY <1>2, <1>7, <1>8, StoreParts
  <1>10. /\ n \in SessionStates /\ n.role = "passive" /\ n.recv = {} /\ n.root.ini = kx.identityKey
         /\ n.root.resp = ik /\ n.root.opk = k /\ n.root.ek = kx.ephemeralKey
    BY <1>4, <1>6, <1>9, PassiveSession
  <1>11. s = n
    BY <1>7, Parts DEF Inv, TypeOK, Calls
  <1>12. ~Spent(k) /\ Old(k) /\ k[1] = d
    BY <1>2, <1>3, <1>7, <1>8 DEF Spent, Inv, KeysInv
  <1>13. Spent(k)'
    <2> SUFFICES ASSUME NEW c \in Devices, NEW j \in Ids PROVE store'[c].preKeys[j] # k
      BY DEF Spent
    <2>1. CASE c # d
      <3>1. store'[c] = store[c]
        BY <1>7, <2>1 DEF Inv, TypeOK
      <3> QED BY <1>7, <1>12, <2>1, <3>1 DEF Inv, KeysInv
    <2>2. CASE c = d
      <3>1. store'[c].preKeys = [store[d].preKeys EXCEPT ![i] = None]
        BY <1>3, <1>7, <1>8, <2>2, ConsumeOp DEF Inv, TypeOK
      <3>2. CASE j = i
        BY <1>7, <1>8, <3>1, <3>2, StoreParts
      <3>3. CASE j # i
        BY <1>2, <1>3, <1>7, <1>8, <3>1, <3>3, StoreParts DEF Inv, KeysInv
      <3> QED BY <3>2, <3>3
    <2> QED BY <2>1, <2>2
  <1>14. Old(k)'
    BY <1>9, <1>12, KeyStep DEF Inv
  <1>15. /\ m.data.from = "active" /\ EndOf(m.from, m.to, m.data.from, m.data.root)
         /\ kx.identityKey = m.data.root.ini /\ kx.ephemeralKey = m.data.root.ek
    BY <1>3, <1>4 DEF Inv, MessageInv, KeyExchangeInv, KeyExchangeOnFirst
  <1>16. PICK ek \in Keys : ek = kx.ephemeralKey
    BY <1>4 DEF KeyExchanges
  <1>17. Old(ek)
    BY <1>15, <1>16 DEF EndOf
  <1>18. Old(ek)'
    BY <1>17, KeyStep DEF Inv
  <1>19. PICK r : r = n.root
    OBVIOUS
  <1>20. r.resp[1] = d /\ GenOK(r.resp)
    BY <1>2, <1>3, <1>10, <1>19 DEF Inv, KeysInv
  <1>21. r.ini[1] = e /\ GenOK(r.ini)
    BY <1>3, <1>10, <1>15, <1>19 DEF EndOf
  <1>22. r.opk = k /\ r.ek = ek
    BY <1>10, <1>16, <1>19
  <1>23. EndOf(d, e, "passive", r)'
    BY <1>13, <1>14, <1>18, <1>20, <1>21, <1>22 DEF EndOf
  <1> QED BY <1>10, <1>11, <1>12, <1>19, <1>22, <1>23

(* The sessions in hand stay sound: a session that is stored, loaded or made*)
(* anew sends at new positions and remembers what it has opened.            *)
LEMMA SessionStep ==
    ASSUME Inv, TypeOK', \A d \in Devices : StoreMove(d), SharedMove,
           \A p \in Procs : CallOK(p)' /\ CallMove(p),
           NEW d \in Devices, NEW e \in Devices, NEW s \in InHand(d, e)'
    PROVE  SessionOK(d, e, s)'
  <1> USE DEF Inv
  <1>1. s \in SessionStates /\ s.root \in Roots /\ s.role \in {"active", "passive"} /\ s.sent \in Nat
    <2>1. store'[d] \in Stores /\ \A p \in Procs : call'[p] \in Calls
      BY DEF TypeOK
    <2>2. s \in SessionStates
      BY <2>1, StoreParts DEF InHand, Calls
    <2> QED BY <2>2 DEF SessionStates
  <1>2. ASSUME NEW p \in Procs, Home[p] = d, call[p].dev = e, Puts(p) PROVE SessionOK(d, e, s)'
    <2> DEFINE c == call[p]
    <2>1. s = store'[d].sessions[e]
      BY <1>2, PutAlone
    <2>2. /\ c.pc \in SessionPCs /\ s.root = c.sess.root /\ s.role = c.sess.role
          /\ EncryptAndPut(p) => s.sent = c.sess.sent + 1 /\ s.recv = c.sess.recv
          /\ DecryptAndPut(p) => s.sent = c.sess.sent /\ s.recv = c.sess.recv \cup {c.msg.data.n}
      BY <1>2, <2>1, PutStep
    <2>3. SessionOK(d, e, c.sess) /\ c.sess \in SessionStates
      BY <1>2, <2>2, CallSession
    <2>4. EndOf(d, e, s.role, s.root)'
      BY <1>1, <2>2, <2>3, EndStep DEF SessionOK
    <2>5. c.sess.sent \in Nat /\ \A m \in made : m.data.n \in Nat
      BY <2>3 DEF SessionStates, TypeOK, Messages, Data
    <2>6. CASE EncryptAndPut(p)
      <3>1. PICK m \in Messages : made' = made \cup {m} /\ m.data.n = c.sess.sent
        BY <2>6, SendStep
      <3>2. UNCHANGED opened
        BY <2>6 DEF EncryptAndPut
      <3>3. Unused(s)'
        BY <2>2, <2>3, <2>5, <2>6, <3>1 DEF SessionOK, Unused
      <3>4. Opened(s)'
        BY <2>2, <2>3, <2>6, <3>2 DEF SessionOK, Opened
      <3> QED BY <2>4, <3>3, <3>4 DEF SessionOK
    <2>7. CASE DecryptAndPut(p)
      <3>1. UNCHANGED made
        BY <2>7 DEF DecryptAndPut
      <3>3. opened' \subseteq opened \cup {c.msg}
        BY <2>7 DEF DecryptAndPut
      <3>4. Unused(s)'
        BY <2>2, <2>3, <2>7, <3>1 DEF SessionOK, Unused
      <3>5. Opened(s)'
        BY <2>2, <2>3, <2>7, <3>3 DEF SessionOK, Opened
      <3> QED BY <2>4, <3>4, <3>5 DEF SessionOK
    <2> QED BY <1>2, <2>6, <2>7 DEF Puts
  <1>3. ASSUME \A p \in Procs : Puts(p) => ~(Home[p] = d /\ call[p].dev = e),
               EndOf(d, e, s.role, s.root)',
               \A m \in made : m.data.root = s.root /\ m.data.from = s.role => m.data.n < s.sent,
               \A m \in opened : m.data.root = s.root /\ m.data.from # s.role => m.data.n \in s.recv
        PROVE  SessionOK(d, e, s)'
    <2>1. ASSUME NEW p \in Procs, Puts(p)
          PROVE  ~(call[p].sess.root = s.root /\ call[p].sess.role = s.role)
      <3>1. call[p].pc \in SessionPCs
        BY <2>1, PutStep
      <3>2. PICK c, f, x : c = Home[p] /\ f = call[p].dev /\ x = call[p].sess
        OBVIOUS
      <3>3. SessionOK(c, f, x) /\ x \in SessionStates
        BY <3>1, <3>2, CallSession
      <3>4. ASSUME x.root = s.root, x.role = s.role PROVE FALSE
        <4>1. EndOf(c, f, s.role, s.root)
          BY <3>3, <3>4 DEF SessionOK
        <4>2. EndOf(c, f, s.role, s.root)'
          BY <1>1, <4>1, EndStep
        <4>3. c = d /\ f = e
          BY <1>3, <1>1, <4>2 DEF EndOf
        <4> QED BY <1>3, <2>1, <3>2, <4>3
      <3> QED BY <3>2, <3>4
    <2>2. ASSUME NEW m \in made', m.data.root = s.root, m.data.from = s.role PROVE m.data.n < s.sent
      <3>1. ASSUME NEW p \in Procs, EncryptAndPut(p) PROVE m \in made
        BY <2>1, <2>2, <3>1, SendStep DEF Puts
      <3> QED BY <1>3, <2>2, <3>1 DEF SharedMove
    <2>3. ASSUME NEW m \in opened', m.data.root = s.root, m.data.from # s.role
          PROVE  m.data.n \in s.recv
      <3>1. ASSUME NEW p \in Procs, DecryptAndPut(p), Puts(p) PROVE m \in opened
        <4>1. /\ CanDecrypt(call[p].sess, call[p].msg.data) /\ opened' = opened \cup {call[p].msg}
              /\ call[p].pc = "decrypt"
          BY <3>1 DEF DecryptAndPut, Puts, EncryptAndPut
        <4>3. m \in opened \/ m = call[p].msg
          BY <2>3, <4>1
        <4>4. call[p].sess \in SessionStates /\ call[p].msg.data \in Data
          BY <4>1, CallSession, CallHandshake DEF SessionPCs, KeyExchangeInv, DecryptPCs
        <4>5. ASSUME m = call[p].msg PROVE FALSE
          <5>1. /\ call[p].sess.root = s.root /\ m.data.from # call[p].sess.role
                /\ m.data.from \in {"active", "passive"} /\ call[p].sess.role \in {"active", "passive"}
            BY <2>3, <4>1, <4>4, <4>5 DEF CanDecrypt, SessionStates, Data
          <5> QED BY <1>1, <2>1, <2>3, <3>1, <5>1
        <4> QED BY <4>3, <4>5
      <3> QED BY <1>3, <2>3, <3>1 DEF SharedMove
    <2> QED BY <1>3, <2>2, <2>3 DEF SessionOK, Unused, Opened
  <1>4. ASSUME \A p \in Procs : Puts(p) => ~(Home[p] = d /\ call[p].dev = e)
        PROVE  SessionOK(d, e, s)'
    <2>1. CASE s \in InHand(d, e)
      <3>1. SessionOK(d, e, s)
        BY <2>1 DEF SessionInv
      <3>2. EndOf(d, e, s.role, s.root)'
        BY <1>1, <3>1, EndStep DEF SessionOK
      <3> QED BY <1>3, <1>4, <3>1, <3>2 DEF SessionOK, Unused, Opened
    <2>2. ASSUME NEW p \in Procs, Home[p] = d, call[p].dev = e, s = call'[p].sess, FetchBundle(p)
          PROVE  SessionOK(d, e, s)'
      <3>1. EndOf(d, e, s.role, s.root)' /\ ~Old(s.root.ek)
        BY <2>2, NewActive
      <3>2. \A m \in made : m.data.root # s.root
        BY <3>1 DEF MessageInv, EndOf
      <3>3. \A m \in opened : m.data.root # s.root
        BY <3>2 DEF DeliveryInv
      <3> QED BY <1>3, <1>4, <3>1, <3>2, <3>3
    <2>3. ASSUME NEW p \in Procs, Home[p] = d, call[p].dev = e, s = call'[p].sess,
                 Consume(p), call'[p].pc = "identify"
          PROVE  SessionOK(d, e, s)'
      <3>1. EndOf(d, e, s.role, s.root)' /\ s.role = "passive" /\ ~Spent(s.root.opk)
        BY <2>3, NewPassive
      <3>2. \A m \in made : ~(m.data.root = s.root /\ m.data.from = s.role)
        BY <3>1 DEF MessageInv, EndOf
      <3>3. \A m \in opened : ~(m.data.root = s.root /\ m.data.from # s.role)
        <4>1. \A m \in opened : m.data.from \in {"active", "passive"}
          BY DEF TypeOK, Messages, Data
        <4> QED BY <3>1, <4>1 DEF AcceptedInv
      <3> QED BY <1>3, <1>4, <3>1, <3>2, <3>3
    <2> QED BY <1>4, <2>1, <2>2, <2>3, HandStep
  <1> QED BY <1>2, <1>4

-----------------------------------------------------------------------------
(* The theorems *)

(* The invariant holds after InitIdentity and the first PublishBundle.      *)
LEMMA InitInv == Init => Inv
  <1> SUFFICES ASSUME Init PROVE Inv
    OBVIOUS
  <1>1. 1 \in Gens /\ 0 \in Nat /\ KeysPerStore \in Nat /\ PoolSize \in Nat /\ PoolSize < KeysPerStore
    BY SessionsAssumption DEF Gens, KeysPerStore
  <1>2. ASSUME NEW d \in Devices
        PROVE  /\ store[d] \in Stores /\ store[d].identityKey = <<d, 1>>
               /\ \A e \in Devices : store[d].sessions[e] = None
               /\ \A i \in Ids : store[d].preKeys[i] = IF i \in 1 .. PoolSize THEN <<d, i>> ELSE None
    <2>1. store[d] = NewStore(d, 1, 0)
      BY DEF Init
    <2>2. \A i \in Ids : i \in Nat /\ 0 + i = i
      BY IdSpaceAssumption DEF Ids
    <2> QED BY <1>1, <2>1, <2>2, NewStoreOp
  <1>3. /\ store \in [Devices -> Stores] /\ fresh = [d \in Devices |-> KeysPerStore]
        /\ call = [p \in Procs |-> Idle] /\ accepted = EmptyBag
        /\ made = {} /\ sent = {} /\ opened = {}
        /\ lock = [d \in Devices |-> [e \in Devices |-> None]]
    BY <1>2 DEF Init
  <1>4. \A d \in Devices : bundles[d] \in BundleOf(store[d])
    BY DEF Init
  <1>5. bundles \in [Devices -> Bundles]
    <2>1. \A d \in Devices : bundles[d] \in Bundles
      BY <1>2, <1>4, BundleType
    <2>2. DOMAIN bundles = Devices /\ bundles = [d \in Devices |-> bundles[d]]
      BY DEF Init
    <2> QED BY <2>1, <2>2
  <1>6. IsABag(accepted) /\ DOMAIN accepted = {}
    BY <1>3 DEF EmptyBag, SetToBag, IsABag
  <1>7. TypeOK
    BY <1>1, <1>3, <1>5, <1>6, IdleType DEF TypeOK
  <1>8. CallInv
    BY <1>3 DEF CallInv, CallOK, Idle, LockedPCs, EncryptPCs, DecryptPCs, WaitPCs, SessionPCs, SendPCs
  <1>9. KeysInv
    <2> SUFFICES ASSUME NEW d \in Devices
                 PROVE  /\ store[d].identityKey[1] = d /\ GenOK(store[d].identityKey)
                        /\ \A i \in Ids : store[d].preKeys[i] # None =>
                              store[d].preKeys[i][1] = d /\ Old(store[d].preKeys[i])
                        /\ \A i, j \in Ids :
                              store[d].preKeys[i] # None /\ store[d].preKeys[i] = store[d].preKeys[j] => i = j
                        /\ bundles[d].identityKey[1] = d /\ GenOK(bundles[d].identityKey)
                        /\ bundles[d].preKey # None => Old(bundles[d].preKey.key)
      BY DEF KeysInv
    <2>1. store[d].identityKey[1] = d /\ GenOK(store[d].identityKey)
      BY <1>2 DEF GenOK
    <2>2. \A i \in Ids : store[d].preKeys[i] # None =>
             i \in 1 .. PoolSize /\ store[d].preKeys[i] = <<d, i>>
      BY <1>2
    <2>3. \A i \in 1 .. PoolSize : Old(<<d, i>>)
      BY <1>1, <1>3 DEF Old
    <2>4. /\ bundles[d].identityKey = store[d].identityKey
          /\ bundles[d].preKey # None =>
                \E i \in Ids : store[d].preKeys[i] # None /\ bundles[d].preKey.key = store[d].preKeys[i]
      BY <1>2, <1>4, BundleType
    <2>5. \A i \in Ids : store[d].preKeys[i] # None =>
             store[d].preKeys[i][1] = d /\ Old(store[d].preKeys[i])
      <3> SUFFICES ASSUME NEW i \in Ids, store[d].preKeys[i] # None
                   PROVE  store[d].preKeys[i][1] = d /\ Old(store[d].preKeys[i])
        OBVIOUS
      <3>1. store[d].preKeys[i] = <<d, i>> /\ Old(<<d, i>>)
        BY <2>2, <2>3
      <3> QED BY <3>1
    <2>6. \A i, j \in Ids : store[d].preKeys[i] # None /\ store[d].preKeys[i] = store[d].preKeys[j] => i = j
      BY <2>2
    <2>7. bundles[d].preKey # None => Old(bundles[d].preKey.key)
      BY <2>4, <2>5
    <2> QED BY <2>1, <2>4, <2>5, <2>6, <2>7
  <1>10. MessageInv /\ AcceptedInv /\ DeliveryInv
    BY <1>3, <1>6 DEF MessageInv, AcceptedInv, DeliveryInv, AtMostOnce, Idle
  <1>11. KeyExchangeInv
    BY <1>2, <1>3 DEF KeyExchangeInv, KeyExchangeOnFirst, Idle, SendPCs
  <1>12. SessionInv
    BY <1>2, <1>3 DEF SessionInv, InHand, Idle, SessionPCs, SendPCs
  <1> QED BY <1>7, <1>8, <1>9, <1>10, <1>11, <1>12 DEF Inv

(* The invariant is inductive.                                              *)
LEMMA InvStep == Inv /\ [Next]_vars => Inv'
  <1> SUFFICES ASSUME Inv, [Next]_vars PROVE Inv'
    OBVIOUS
  <1>1. KeyExchangeOnFirst /\ TypeOK /\ CallInv /\ KeysInv /\ MessageInv /\ DeliveryInv
    BY DEF Inv, KeyExchangeInv
  <1>2. TypeOK'
    BY <1>1, TypeStep
  <1>3. \A p \in Procs : CallOK(p)' /\ CallMove(p)
    BY <1>1, CallStep
  <1>4. CallInv'
    BY <1>3 DEF CallInv
  <1>5. (\A d \in Devices : StoreMove(d)) /\ SharedMove
    BY <1>1, <1>2, StoreStep, SharedStep
  <1>6. KeysInv' /\ MessageInv' /\ AcceptedInv' /\ DeliveryInv'
    BY <1>2, <1>3, <1>5, KeysStep, MessageStep, AcceptedStep, DeliveryStep
  <1>7. KeyExchangeInv'
    BY <1>2, <1>3, <1>5, KeyExchangeStep
  <1>8. SessionInv'
    BY <1>2, <1>3, <1>5, SessionStep DEF SessionInv
  <1> QED BY <1>2, <1>4, <1>6, <1>7, <1>8 DEF Inv

(* The invariant: it holds of every reachable state.                        *)
THEOREM Invariant == Spec => []Inv
  BY InitInv, InvStep, PTL DEF Spec

(* Type correctness: every field of every Store and every call in progress  *)
(* keeps its Go type, through crashes, store errors and reinstallations.    *)
THEOREM TypeCorrect == Spec => []TypeOK
  <1>1. Inv => TypeOK
    BY DEF Inv
  <1> QED BY <1>1, Invariant, PTL

(* A session in hand has not been used at the position it is to use next.   *)
LEMMA InvNoPositionReuse == Inv => NoPositionReuse
  <1> SUFFICES ASSUME Inv, NEW p \in Procs, call[p].pc = "encrypt", NEW m \in made,
                      m.data.root = call[p].sess.root, m.data.from = call[p].sess.role,
                      m.data.n = call[p].sess.sent
               PROVE  FALSE
    BY DEF NoPositionReuse
  <1>1. SessionOK(Home[p], call[p].dev, call[p].sess) /\ call[p].sess.sent \in Nat
    BY CallSession DEF SessionPCs, SendPCs, SessionStates
  <1> QED BY <1>1 DEF SessionOK, Unused

(* No ratchet position is used twice: what encryptForDevice is about to     *)
(* encrypt has a position no message ever made has, sent or not, for any    *)
(* number of goroutines and devices, with store errors, crashes and lost    *)
(* Stores.                                                                  *)
THEOREM NoPositionReuseCorrect == Spec => []NoPositionReuse
  BY InvNoPositionReuse, Invariant, PTL

(* However often the network delivers a message, to however many            *)
(* goroutines, before or after crashes: DecryptMessage returns it at most   *)
(* once.                                                                    *)
THEOREM AtMostOnceCorrect == Spec => []AtMostOnce
  <1>1. Inv => AtMostOnce
    BY DEF Inv, DeliveryInv
  <1> QED BY <1>1, Invariant, PTL

(* A KeyExchange accompanies exactly the first message an initiator         *)
(* encrypts, in both protocol versions, whatever attempts failed before it. *)
THEOREM KeyExchangeOnFirstCorrect == Spec => []KeyExchangeOnFirst
  <1>1. Inv => KeyExchangeOnFirst
    BY DEF Inv, KeyExchangeInv
  <1> QED BY <1>1, Invariant, PTL

(* The empty channel is where the life cycle starts.                        *)
LEMMA ChannelInit == Init => Chan!Init
  BY DEF Init, Chan!Init, EmptyBag, SetToBag, Chan!EmptyBag, Chan!SetToBag

(* A step is the sending of one message, the delivery of one that was sent  *)
(* and not delivered before, or invisible to the application.               *)
LEMMA ChannelStep == Inv /\ [Next]_vars => [Chan!Next]_<<sent, accepted>>
  <1> SUFFICES ASSUME Inv, [Next]_vars PROVE [Chan!Next]_<<sent, accepted>>
    OBVIOUS
  <1>1. SharedMove
    BY SharedStep DEF Inv
  <1>2. ASSUME NEW p \in Procs, ReturnEnvelope(p) PROVE [Chan!Next]_<<sent, accepted>>
    <2>1. UNCHANGED accepted /\ sent' = sent \cup {call[p].msg}
      BY <1>2 DEF ReturnEnvelope
    <2>2. call[p].msg \in Messages
      BY <1>2 DEF ReturnEnvelope, Inv, CallInv, CallOK, TypeOK
    <2>3. CASE call[p].msg \in sent
      BY <2>1, <2>3
    <2>4. CASE call[p].msg \notin sent
      BY <2>1, <2>2, <2>4 DEF Chan!Next, Chan!Send
    <2> QED BY <2>3, <2>4
  <1>3. ASSUME NEW p \in Procs, DecryptPayload(p) PROVE [Chan!Next]_<<sent, accepted>>
    <2>1. call[p].pc = "payload" /\ accepted' = BagAdd(accepted, call[p].msg) /\ UNCHANGED sent
      BY <1>3 DEF DecryptPayload
    <2>2. call[p].msg \notin DOMAIN accepted /\ call[p].msg \in sent
      BY <2>1 DEF Inv, DeliveryInv
    <2> QED BY <2>1, <2>2 DEF Chan!Next, Chan!Deliver, BagAdd, Chan!BagAdd
  <1> QED BY <1>1, <1>2, <1>3 DEF SharedMove

(* The session life cycle implements the end-to-end channel.                *)
THEOREM ChannelRefinement == Spec => ImplementsChannel
  BY ChannelInit, ChannelStep, Invariant, PTL DEF Spec, ImplementsChannel, Chan!Spec

-----------------------------------------------------------------------------
(* Device locks *)

(* A device lock is held by a goroutine that is inside the critical section *)
(* of that very device.  CallInv says the converse.                         *)
Holds(q, d, e) == Home[q] = d /\ call[q].dev = e /\ call[q].pc \in LockedPCs

LockInv == \A d, e \in Devices : lock[d][e] # None => Holds(lock[d][e], d, e)

(* A step of a call inside its critical section, or of one outside.         *)
LEMMA LocksKept ==
    ASSUME TypeOK, LockInv, UNCHANGED lock,
           \A q \in Procs : call[q].pc \in LockedPCs => call'[q].pc \in LockedPCs /\ call'[q].dev = call[q].dev
    PROVE  LockInv'
  <1> SUFFICES ASSUME NEW d \in Devices, NEW e \in Devices, lock[d][e] # None
               PROVE  Holds(lock[d][e], d, e)'
    BY DEF LockInv
  <1>1. PICK q \in Procs : q = lock[d][e]
    BY DEF TypeOK
  <1>2. Holds(q, d, e)
    BY <1>1 DEF LockInv
  <1>3. Holds(q, d, e)'
    BY <1>2 DEF Holds
  <1> QED BY <1>1, <1>3 DEF Holds

(* A goroutine takes a lock and enters the critical section.                *)
LEMMA LockEntered ==
    ASSUME TypeOK, LockInv, NEW p \in Procs, call[p].dev \in Devices, Acquire(p), call[p].pc \notin LockedPCs,
           call'[p].pc \in LockedPCs, call'[p].dev = call[p].dev, \A q \in Procs \ {p} : call'[q] = call[q]
    PROVE  LockInv'
  <1> SUFFICES ASSUME NEW d \in Devices, NEW e \in Devices, lock'[d][e] # None
               PROVE  Holds(lock[d][e], d, e)'
    BY DEF LockInv
  <1>1. CASE d = Home[p] /\ e = call[p].dev
    <2>1. lock'[d][e] = p
      BY <1>1, Parts DEF Acquire, TypeOK
    <2> QED BY <1>1, <2>1 DEF Holds
  <1>2. CASE ~(d = Home[p] /\ e = call[p].dev)
    <2>1. lock'[d][e] = lock[d][e]
      BY <1>2, Parts DEF Acquire, TypeOK
    <2>2. PICK q \in Procs : q = lock[d][e]
      BY <2>1 DEF TypeOK
    <2>3. Holds(q, d, e)
      BY <2>1, <2>2 DEF LockInv
    <2>4. Holds(q, d, e)'
      BY <2>3 DEF Holds
    <2> QED BY <2>1, <2>2, <2>4 DEF Holds
  <1> QED BY <1>1, <1>2

(* The deferred Unlock: what is still locked is locked by another call.     *)
LEMMA LockLeft ==
    ASSUME TypeOK, CallInv, LockInv, NEW p \in Procs, call[p].pc \in LockedPCs,
           lock' = [lock EXCEPT ![Home[p]][call[p].dev] = None], NEW c, call' = [call EXCEPT ![p] = c]
    PROVE  LockInv'
  <1> SUFFICES ASSUME NEW d \in Devices, NEW e \in Devices, lock'[d][e] # None
               PROVE  Holds(lock[d][e], d, e)'
    BY DEF LockInv
  <1>1. call[p].dev \in Devices
    BY Counters DEF CallInv, CallOK
  <1>2. ~(d = Home[p] /\ e = call[p].dev)
    BY <1>1, Parts DEF TypeOK
  <1>3. lock'[d][e] = lock[d][e]
    BY <1>2, Parts DEF TypeOK
  <1>4. PICK q \in Procs : q = lock[d][e]
    BY <1>3 DEF TypeOK
  <1>5. Holds(q, d, e)
    BY <1>3, <1>4 DEF LockInv
  <1>6. q # p
    BY <1>2, <1>5 DEF Holds
  <1>7. Holds(q, d, e)'
    BY <1>5, <1>6 DEF Holds, TypeOK
  <1> QED BY <1>3, <1>4, <1>7 DEF Holds

(* The end of a process: none of its locks is left.                         *)
LEMMA LocksLeft ==
    ASSUME TypeOK, LockInv, NEW c \in Devices, Dead(c)
    PROVE  LockInv'
  <1> SUFFICES ASSUME NEW d \in Devices, NEW e \in Devices, lock'[d][e] # None
               PROVE  Holds(lock[d][e], d, e)'
    BY DEF LockInv
  <1>1. d # c
    BY DEF Dead, TypeOK
  <1>2. lock'[d][e] = lock[d][e]
    BY <1>1 DEF Dead, TypeOK
  <1>3. PICK q \in Procs : q = lock[d][e]
    BY <1>2 DEF TypeOK
  <1>4. Holds(q, d, e)
    BY <1>2, <1>3 DEF LockInv
  <1>5. Holds(q, d, e)'
    BY <1>1, <1>4 DEF Holds, Dead
  <1> QED BY <1>2, <1>3, <1>5 DEF Holds

(* Every step keeps the lock invariant.                                     *)
LEMMA LockInvStep == Inv /\ LockInv /\ [Next]_vars => LockInv'
  <1> SUFFICES ASSUME Inv, LockInv, [Next]_vars PROVE LockInv'
    OBVIOUS
  <1> USE Counters DEF Inv
  <1>1. CASE UNCHANGED <<lock, call>>
    BY <1>1, LocksKept
  <1>2. ASSUME NEW p \in Procs, NEW c, call' = [call EXCEPT ![p] = c], UNCHANGED lock,
               call[p].pc \notin LockedPCs \/ (c.pc \in LockedPCs /\ c.dev = call[p].dev)
        PROVE  LockInv'
    <2>1. \A q \in Procs : call'[q] = IF q = p THEN c ELSE call[q]
      BY <1>2 DEF TypeOK
    <2> QED BY <1>2, <2>1, LocksKept
  <1>3. ASSUME NEW p \in Procs, NEW c, call' = [call EXCEPT ![p] = c], Acquire(p),
               call[p].pc \in {"encLock", "decLock"}, c.pc \in LockedPCs, c.dev = call[p].dev
        PROVE  LockInv'
    <2>1. \A q \in Procs : call'[q] = IF q = p THEN c ELSE call[q]
      BY <1>3 DEF TypeOK
    <2>2. call[p].dev \in Devices /\ call[p].pc \notin LockedPCs
      BY <1>3 DEF CallInv, CallOK
    <2> QED BY <1>3, <2>1, <2>2, LockEntered
  <1>4. ASSUME NEW p \in Procs, Begin(p) PROVE LockInv'
    <2>1. /\ call[p].pc = "idle" /\ UNCHANGED lock
          /\ \E c : call' = [call EXCEPT ![p] = c]
      BY <1>4 DEF Begin, BeginEncrypt, BeginReset, BeginDecrypt
    <2> QED BY <1>2, <2>1
  <1>5. ASSUME NEW p \in Procs, Reset(p) PROVE LockInv'
    BY <1>2, <1>5 DEF Reset
  <1>6. ASSUME NEW p \in Procs, EncryptLock(p) PROVE LockInv'
    <2>1. PICK s, b : /\ s = store[Home[p]].sessions[call[p].dev]
                      /\ b = {ik \in IdentityKeys : store[Home[p]].trust[ik] = "untrusted"}
      OBVIOUS
    <2>2. PICK pc : pc = IF s = None THEN "fetch" ELSE "trust"
      OBVIOUS
    <2>3. PICK c : c = [call[p] EXCEPT !.pc = pc, !.sess = s, !.barred = b]
      OBVIOUS
    <2>4. call' = [call EXCEPT ![p] = c] /\ Acquire(p) /\ call[p].pc = "encLock"
      BY <1>6, <2>1, <2>2, <2>3 DEF EncryptLock
    <2>5. c.pc \in LockedPCs /\ c.dev = call[p].dev
      BY <2>2, <2>3, Parts DEF Calls
    <2> QED BY <1>3, <2>4, <2>5
  <1>7. ASSUME NEW p \in Procs, DecryptLock(p) PROVE LockInv'
    <2>1. PICK s, k : /\ s = store[Home[p]].sessions[call[p].msg.from]
                      /\ k = SignedPreKeyByID(store[Home[p]], HandshakeOf(call[p].msg).signedPreKeyID)
      OBVIOUS
    <2>2. PICK a, c : /\ a = [call[p] EXCEPT !.pc = "decrypt", !.sess = s]
                      /\ c = [call[p] EXCEPT !.pc = "consume", !.spk = k]
      OBVIOUS
    <2>3. /\ call[p].pc = "decLock"
          /\ \/ call' = [call EXCEPT ![p] = a] /\ Acquire(p)
             \/ call' = [call EXCEPT ![p] = c] /\ Acquire(p)
             \/ call' = [call EXCEPT ![p] = Idle] /\ UNCHANGED lock
      BY <1>7, <2>1, <2>2 DEF DecryptLock
    <2>4. a.pc \in LockedPCs /\ a.dev = call[p].dev /\ c.pc \in LockedPCs /\ c.dev = call[p].dev
      BY <2>2, Parts DEF Calls
    <2> QED BY <1>2, <1>3, <2>3, <2>4
  <1>8. ASSUME NEW p \in Procs, FetchBundle(p) PROVE LockInv'
    <2>1. PICK s, k : call' = [call EXCEPT ![p].pc = "trust", ![p].sess = s, ![p].kx = k]
      BY <1>8 DEF FetchBundle
    <2>2. PICK c : c = [call[p] EXCEPT !.pc = "trust", !.sess = s, !.kx = k]
      OBVIOUS
    <2>3. call' = [call EXCEPT ![p] = c] /\ UNCHANGED lock
      BY <1>8, <2>1, <2>2 DEF FetchBundle
    <2>4. c.pc \in LockedPCs /\ c.dev = call[p].dev
      BY <2>2, Parts DEF Calls
    <2> QED BY <1>2, <2>3, <2>4
  <1>9. ASSUME NEW p \in Procs, NEW pc \in LockedPCs, UNCHANGED lock,
               call' = [call EXCEPT ![p] = [call[p] EXCEPT !.pc = pc]]
        PROVE  LockInv'
    <2>1. PICK c : c = [call[p] EXCEPT !.pc = pc]
      OBVIOUS
    <2>2. c.pc \in LockedPCs /\ c.dev = call[p].dev
      BY <2>1, Parts DEF Calls
    <2> QED BY <1>2, <1>9, <2>1, <2>2
  <1>10. ASSUME NEW p \in Procs, Identify(p) \/ ResolverTrusts(p) PROVE LockInv'
    BY <1>9, <1>10 DEF Identify, ResolverTrusts
  <1>11. ASSUME NEW p \in Procs, CheckTrust(p) PROVE LockInv'
    BY <1>9, <1>11, LockLeft DEF CheckTrust, Return
  <1>12. ASSUME NEW p \in Procs, Consume(p) PROVE LockInv'
    <2>1. \/ Return(p)
          \/ UNCHANGED lock /\ \E s : call' = [call EXCEPT ![p].pc = "identify", ![p].sess = s]
      BY <1>12 DEF Consume
    <2>2. ASSUME NEW s, UNCHANGED lock, call' = [call EXCEPT ![p].pc = "identify", ![p].sess = s] PROVE LockInv'
      <3>1. PICK c : c = [call[p] EXCEPT !.pc = "identify", !.sess = s]
        OBVIOUS
      <3>2. call' = [call EXCEPT ![p] = c]
        BY <2>2, <3>1
      <3>3. c.pc \in LockedPCs /\ c.dev = call[p].dev
        BY <3>1, Parts DEF Calls
      <3> QED BY <1>2, <2>2, <3>2, <3>3
    <2>3. call[p].pc \in LockedPCs
      BY <1>12 DEF Consume
    <2> QED BY <2>1, <2>2, <2>3, LockLeft DEF Return
  <1>13. ASSUME NEW p \in Procs,
                FetchFails(p) \/ ResolverDeclines(p) \/ DecryptPayload(p) \/ CallFails(p)
         PROVE  LockInv'
    <2>1. call[p].pc \in LockedPCs /\ Return(p)
      BY <1>13 DEF FetchFails, ResolverDeclines, DecryptPayload, CallFails
    <2> QED BY <2>1, LockLeft DEF Return
  <1>17. ASSUME NEW p \in Procs, EncryptAndPut(p) PROVE LockInv'
    <2>1. /\ call[p].pc \in LockedPCs /\ lock' = [lock EXCEPT ![Home[p]][call[p].dev] = None]
          /\ \E c : call' = [call EXCEPT ![p] = c]
      BY <1>17 DEF EncryptAndPut
    <2> QED BY <2>1, LockLeft
  <1>18. ASSUME NEW p \in Procs, DecryptAndPut(p) PROVE LockInv'
    <2>1. PICK c : c = [Idle EXCEPT !.pc = "payload", !.dev = call[p].dev, !.msg = call[p].msg]
      OBVIOUS
    <2>2. c.pc \in LockedPCs /\ c.dev = call[p].dev /\ call[p].pc \in LockedPCs
      BY <1>18, <2>1 DEF Idle, DecryptAndPut
    <2>3. Return(p) \/ (UNCHANGED lock /\ call' = [call EXCEPT ![p] = c])
      BY <1>18, <2>1 DEF DecryptAndPut
    <2> QED BY <1>2, <2>2, <2>3, LockLeft DEF Return
  <1>19. ASSUME NEW p \in Procs, ReturnEnvelope(p) PROVE LockInv'
    BY <1>2, <1>19 DEF ReturnEnvelope
  <1>14. ASSUME NEW d \in Devices, Restart(d) \/ Reinstall(d) PROVE LockInv'
    BY <1>14, LocksLeft DEF Restart, Reinstall
  <1>15. ASSUME NEW d \in Devices, Maintenance(d) \/ \E ik \in IdentityKeys : UserBlocks(d, ik) PROVE LockInv'
    BY <1>1, <1>15 DEF Maintenance, RotateSignedPreKey, GenerateOneTimePreKey, PublishBundle, UserBlocks
  <1>16. CASE UNCHANGED vars
    BY <1>1, <1>16 DEF vars
  <1> QED BY <1>4, <1>5, <1>6, <1>7, <1>8, <1>10, <1>11, <1>12, <1>13, <1>14, <1>15, <1>16,
             <1>17, <1>18, <1>19
          DEF Next, LockStep, Step, ResolverStep, Environment

(* No deadlock of goroutines: whoever waits for a device lock waits for one *)
(* that is at work on that device and waits for no lock, for any number of  *)
(* goroutines and devices, with errors on every path and crashes.           *)
THEOREM WaitsForWorkCorrect == Spec => []WaitsForWork
  <1>1. Init => LockInv
    BY DEF Init, LockInv
  <1>2. Inv /\ LockInv => WaitsForWork
    <2> SUFFICES ASSUME Inv, LockInv, NEW p \in Procs, call[p].pc \in WaitPCs, ~Free(p)
                 PROVE  \E q \in Procs : /\ Home[q] = Home[p] /\ call[q].dev = call[p].dev
                                         /\ call[q].pc \in LockedPCs
      BY DEF WaitsForWork
    <2>1. Home[p] \in Devices /\ call[p].dev \in Devices
      BY Parts DEF Inv, CallInv, CallOK, WaitPCs
    <2>2. PICK q \in Procs : q = lock[Home[p]][call[p].dev]
      BY <2>1 DEF Free, Inv, TypeOK
    <2>3. Holds(q, Home[p], call[p].dev)
      BY <2>1, <2>2 DEF Free, LockInv
    <2> QED BY <2>3 DEF Holds
  <1> QED BY <1>1, <1>2, InitInv, InvStep, LockInvStep, PTL DEF Spec
=============================================================================
