--------------------------- MODULE HealingProofs ----------------------------
(***************************************************************************)
(* The guarantees of the session life cycle survive recovery: with clients *)
(* that reset and rebuild sessions, wiped session storage and redelivered  *)
(* stanzas, nothing is encrypted twice at a position, nothing is accepted  *)
(* twice, and what the far end of a session encrypted opens.               *)
(***************************************************************************)
EXTENDS Healing, SessionsAgreeProofs

-----------------------------------------------------------------------------
(* The invariant of the client and its stream *)

(* A stream holds stanzas that were sent, to the device that reads it.      *)
Addressed(d) == {m \in sent : m.to = d}

StreamInv == /\ inbox \in [Devices -> Seq(sent)]
             /\ \A d \in Devices : inbox[d] \in Seq(Addressed(d))

(* A client owes a new session to another device.                           *)
OwesInv ==
    /\ owes \in [Procs -> Devices \cup {None}]
    /\ \A p \in Procs : owes[p] # Home[p]

HInv == Inv /\ AgreeInv /\ StreamInv /\ OwesInv

-----------------------------------------------------------------------------
(* Losing the session storage *)

(* A Store without its sessions keeps everything else.                      *)
LEMMA WipeOp ==
    ASSUME TypeOK, NEW d \in Devices, Wipe(d)
    PROVE  /\ store' \in [Devices -> Stores]
           /\ \A c \in Devices :
                 /\ store'[c].identityKey = store[c].identityKey
                 /\ store'[c].currentSPK = store[c].currentSPK
                 /\ store'[c].staleSPK = store[c].staleSPK
                 /\ store'[c].preKeys = store[c].preKeys
                 /\ store'[c].nextPreKeyID = store[c].nextPreKeyID
                 /\ \A e \in Devices : store'[c].sessions[e] \in {store[c].sessions[e], None}
  <1>1. store[d] \in Stores
    BY DEF TypeOK
  <1>2. PICK none : none = [e \in Devices |-> None]
    OBVIOUS
  <1>3. PICK t : t = [store[d] EXCEPT !.sessions = none]
    OBVIOUS
  <1>4. none \in [Devices -> SessionStates \cup {None}] /\ \A e \in Devices : none[e] = None
    BY <1>2
  <1>5. /\ t \in Stores /\ t.sessions = none
        /\ t.identityKey = store[d].identityKey /\ t.currentSPK = store[d].currentSPK
        /\ t.staleSPK = store[d].staleSPK /\ t.preKeys = store[d].preKeys
        /\ t.nextPreKeyID = store[d].nextPreKeyID
    BY <1>1, <1>3, <1>4 DEF Stores
  <1>6. store' = [store EXCEPT ![d] = t]
    BY <1>2, <1>3 DEF Wipe
  <1>7. store' \in [Devices -> Stores] /\ \A c \in Devices : store'[c] = IF c = d THEN t ELSE store[c]
    BY <1>5, <1>6 DEF TypeOK
  <1> QED BY <1>4, <1>5, <1>7

(* What a wiped device forgets, no invariant of the session life cycle      *)
(* needs: a session it does not have asks for nothing.                      *)
LEMMA WipeStep ==
    ASSUME Inv, AgreeInv, NEW d \in Devices, Wipe(d)
    PROVE  Inv' /\ AgreeInv'
  <1>1. UNCHANGED <<bundles, fresh, lock, call, made, sent, opened, accepted>>
    BY DEF Wipe
  <1>2. /\ store' \in [Devices -> Stores]
        /\ \A c \in Devices :
              /\ store'[c].identityKey = store[c].identityKey
              /\ store'[c].currentSPK = store[c].currentSPK
              /\ store'[c].staleSPK = store[c].staleSPK
              /\ store'[c].preKeys = store[c].preKeys
              /\ store'[c].nextPreKeyID = store[c].nextPreKeyID
              /\ \A e \in Devices : store'[c].sessions[e] \in {store[c].sessions[e], None}
    BY WipeOp DEF Inv
  <1>3. TypeOK'
    BY <1>1, <1>2 DEF Inv, TypeOK
  <1>4. CallInv'
    BY <1>1 DEF Inv, CallInv, CallOK
  <1>5. KeysInv'
    BY <1>1, <1>2 DEF Inv, KeysInv, Old
  <1>6. ASSUME NEW k, Spent(k) PROVE Spent(k)'
    BY <1>2, <1>6 DEF Spent
  <1>7. ASSUME NEW c, NEW e, NEW role, NEW r, EndOf(c, e, role, r) PROVE EndOf(c, e, role, r)'
    BY <1>1, <1>6, <1>7 DEF EndOf, Old
  <1>8. MessageInv'
    BY <1>1, <1>7 DEF Inv, MessageInv
  <1>9. AcceptedInv'
    BY <1>1, <1>6 DEF Inv, AcceptedInv
  <1>10. KeyExchangeInv'
    BY <1>1, <1>2 DEF Inv, KeyExchangeInv, KeyExchangeOnFirst, FirstOut
  <1>11. ASSUME NEW c \in Devices, NEW e \in Devices PROVE InHand(c, e)' \subseteq InHand(c, e)
    BY <1>1, <1>2 DEF InHand
  <1>12. SessionInv'
    <2> SUFFICES ASSUME NEW c \in Devices, NEW e \in Devices, NEW s, s \in InHand(c, e)'
                 PROVE  SessionOK(c, e, s)'
      BY DEF SessionInv
    <2>1. SessionOK(c, e, s)
      BY <1>11 DEF Inv, SessionInv
    <2> QED BY <1>1, <1>7, <2>1 DEF SessionOK, Unused, Opened
  <1>13. ReceivedInv'
    <2> SUFFICES ASSUME NEW c \in Devices, NEW e \in Devices, NEW s, s \in InHand(c, e)'
                 PROVE  ReceivedOK(s)'
      BY DEF ReceivedInv
    <2>1. ReceivedOK(s)
      BY <1>11 DEF AgreeInv, ReceivedInv
    <2> QED BY <1>1, <2>1 DEF ReceivedOK
  <1>14. RefsInv'
    BY <1>1, <1>2 DEF AgreeInv, RefsInv, IdsOK, BundleOK, KxOK, Since, SpkOK, PreKeyOK
  <1>15. HandshakeInv'
    BY <1>1, <1>2, SessionsAssumption DEF AgreeInv, HandshakeInv, HandshakeOK, Mine
  <1>16. UniqueInv'
    BY <1>1 DEF AgreeInv, UniqueInv
  <1>17. DeliveryInv'
    BY <1>1 DEF Inv, DeliveryInv, AtMostOnce
  <1> QED BY <1>3, <1>4, <1>5, <1>8, <1>9, <1>10, <1>12, <1>13, <1>14, <1>15, <1>16, <1>17
          DEF Inv, AgreeInv

-----------------------------------------------------------------------------
(* The client's steps *)

(* What a step of the composition is to the session life cycle: one of its  *)
(* steps, or the loss of a session storage.  A client only passes on what   *)
(* was sent, and only resets sessions with other devices.                   *)
LEMMA SessionsView ==
    ASSUME HInv, [HNext]_<<vars, hvars>>
    PROVE  [Next]_vars \/ \E d \in Devices : Wipe(d)
  <1>1. ASSUME NEW p \in Procs, NEW e \in Devices, Talk(p, e) PROVE Next
    BY <1>1 DEF Talk, Next, Begin
  <1>2. ASSUME NEW p \in Procs, Receive(p) PROVE Next
    <2>1. PICK m : m = Head(inbox[Home[p]])
      OBVIOUS
    <2>2. BeginDecrypt(p, m)
      BY <1>2, <2>1 DEF Receive
    <2>3. m \in sent
      <3>1. inbox[Home[p]] \in Seq(sent) /\ inbox[Home[p]] # <<>>
        BY <1>2, SessionsAssumption DEF Receive, HInv, StreamInv
      <3> QED BY <2>1, <3>1
    <2> QED BY <2>2, <2>3 DEF Next, Begin
  <1>3. ASSUME NEW p \in Procs, HealReset(p) \/ HealTransport(p) PROVE Next
    <2>1. owes[p] \in Devices
      BY <1>3 DEF HealReset, HealTransport, HInv, OwesInv
    <2> QED BY <1>3, <2>1 DEF HealReset, HealTransport, Next, Begin
  <1>4. ASSUME NEW p \in Procs, Work(p) PROVE Next
    BY <1>4 DEF Work, Next
  <1>5. ASSUME NEW p \in Procs, Refresh(p) PROVE Next
    <2>1. GenerateOneTimePreKey(Home[p]) \/ PublishBundle(Home[p])
      BY <1>5 DEF Refresh
    <2> QED BY <2>1, SessionsAssumption DEF Next, Maintenance
  <1>6. ASSUME NEW p \in Procs, Redeliver(p) \/ LoseEnvelope(p) PROVE Next
    <2>1. Restart(Home[p])
      BY <1>6 DEF Redeliver, LoseEnvelope
    <2> QED BY <2>1, SessionsAssumption DEF Next, Environment
  <1>7. CASE UNCHANGED <<vars, hvars>>
    BY <1>7
  <1> QED BY <1>1, <1>2, <1>3, <1>4, <1>5, <1>6, <1>7 DEF HNext, Client

(* Stanzas on their way are never touched: sent only grows.                 *)
LEMMA StreamKept ==
    ASSUME Inv, StreamInv, [Next]_vars
    PROVE  /\ inbox \in [Devices -> Seq(sent')]
           /\ \A d \in Devices : inbox[d] \in Seq(Addressed(d)')
  <1>1. sent \subseteq sent'
    BY SharedStep DEF Inv, SharedMove, ReturnEnvelope
  <1>2. \A d \in Devices : Addressed(d) \subseteq Addressed(d)'
    BY <1>1 DEF Addressed
  <1>3. \A d \in Devices : inbox[d] \in Seq(sent') /\ inbox[d] \in Seq(Addressed(d)')
    BY <1>1, <1>2 DEF StreamInv
  <1> QED BY <1>3 DEF StreamInv

(* Every step of the composition preserves the invariant of the stream.     *)
LEMMA StreamStep ==
    ASSUME HInv, [HNext]_<<vars, hvars>>, [Next]_vars
    PROVE  StreamInv'
  <1>1. /\ inbox \in [Devices -> Seq(sent')]
        /\ \A d \in Devices : inbox[d] \in Seq(Addressed(d)')
    BY StreamKept DEF HInv
  <1>2. CASE UNCHANGED inbox
    BY <1>1, <1>2 DEF StreamInv
  <1>3. ASSUME NEW p \in Procs, Receive(p) PROVE StreamInv'
    <2>1. PICK d \in Devices : d = Home[p]
      BY SessionsAssumption
    <2>2. inbox' = [inbox EXCEPT ![d] = Tail(inbox[d])] /\ inbox[d] # <<>>
      BY <1>3, <2>1 DEF Receive
    <2>3. Tail(inbox[d]) \in Seq(sent') /\ Tail(inbox[d]) \in Seq(Addressed(d)')
      BY <1>1, <2>2
    <2> QED BY <1>1, <2>2, <2>3 DEF StreamInv
  <1>4. ASSUME NEW p \in Procs, Work(p), sent' # sent PROVE StreamInv'
    <2>1. PICK m : m \in sent' \ sent /\ inbox' = [inbox EXCEPT ![m.to] = Append(inbox[m.to], m)]
      BY <1>4 DEF Work
    <2>2. m.to \in Devices
      <3>1. TypeOK'
        BY TypeStep DEF HInv, Inv, KeyExchangeInv
      <3> QED BY <2>1, <3>1 DEF TypeOK, Messages
    <2>3. PICK d \in Devices : d = m.to
      BY <2>2
    <2>4. m \in sent' /\ m \in Addressed(d)'
      BY <2>1, <2>3 DEF Addressed
    <2>5. Append(inbox[d], m) \in Seq(sent') /\ Append(inbox[d], m) \in Seq(Addressed(d)')
      BY <1>1, <2>4
    <2> QED BY <1>1, <2>1, <2>3, <2>5 DEF StreamInv
  <1>5. ASSUME NEW p \in Procs, Redeliver(p) PROVE StreamInv'
    <2>1. PICK d \in Devices : d = Home[p]
      BY SessionsAssumption
    <2>2. PICK m : m = call[p].msg
      OBVIOUS
    <2>3. UNCHANGED sent /\ call[p].pc \in DecryptPCs /\ inbox' = [inbox EXCEPT ![d] = <<m>> \o inbox[d]]
      BY <1>5, <2>1, <2>2 DEF Redeliver, Restart
    <2>4. m \in sent' /\ m \in Addressed(d)'
      BY <2>1, <2>2, <2>3 DEF HInv, Inv, CallInv, CallOK, Addressed
    <2>5. <<m>> \o inbox[d] \in Seq(sent') /\ <<m>> \o inbox[d] \in Seq(Addressed(d)')
      BY <1>1, <2>4
    <2> QED BY <1>1, <2>3, <2>5 DEF StreamInv
  <1>6. ASSUME NEW p \in Procs, Work(p), sent' = sent PROVE UNCHANGED inbox
    BY <1>6 DEF Work
  <1> QED BY <1>2, <1>3, <1>4, <1>5, <1>6
          DEF HNext, Client, Talk, HealReset, HealTransport, Refresh, LoseEnvelope, Wipe, vars, hvars

(* Every step of the composition preserves the invariant of what is owed.   *)
LEMMA OwesStep ==
    ASSUME HInv, [HNext]_<<vars, hvars>>
    PROVE  OwesInv'
  <1>1. OwesInv /\ CallInv
    BY DEF HInv, Inv
  <1>2. CASE UNCHANGED owes
    BY <1>1, <1>2 DEF OwesInv
  <1>3. ASSUME NEW p \in Procs, HealTransport(p) PROVE OwesInv'
    <2>1. owes' = [owes EXCEPT ![p] = None] /\ \A q \in Procs : Home[q] # None
      BY <1>3, SessionsAssumption, NoneAssumption DEF HealTransport
    <2> QED BY <1>1, <2>1 DEF OwesInv
  <1>4. ASSUME NEW p \in Procs, Work(p), owes' # owes PROVE OwesInv'
    <2>1. call[p].pc \in {"consume", "decLock"} /\ owes' = [owes EXCEPT ![p] = call[p].dev]
      BY <1>4 DEF Work, NoSession, NoPreKey
    <2>2. call[p].dev \in Devices /\ call[p].dev # Home[p]
      BY <1>1, <2>1 DEF CallInv, CallOK
    <2> QED BY <1>1, <2>1, <2>2 DEF OwesInv
  <1> QED BY <1>2, <1>3, <1>4
          DEF HNext, Client, Talk, Receive, HealReset, Refresh, Redeliver, LoseEnvelope, Wipe, vars, hvars

-----------------------------------------------------------------------------
(* Theorems *)

(* The invariant holds at the start.                                        *)
LEMMA HInvInit == HInit => HInv
  <1> SUFFICES ASSUME HInit PROVE HInv
    OBVIOUS
  <1>1. Inv /\ AgreeInv
    BY InitInv, InitAgree DEF HInit
  <1>2. StreamInv
    BY DEF HInit, StreamInv
  <1>3. OwesInv
    BY SessionsAssumption, NoneAssumption DEF HInit, OwesInv
  <1> QED BY <1>1, <1>2, <1>3 DEF HInv

(* Every step of the composition preserves it.                              *)
LEMMA HInvStep == HInv /\ [HNext]_<<vars, hvars>> => HInv'
  <1> SUFFICES ASSUME HInv, [HNext]_<<vars, hvars>> PROVE HInv'
    OBVIOUS
  <1>1. Inv /\ AgreeInv
    BY DEF HInv
  <1>2. OwesInv'
    BY OwesStep
  <1>3. CASE [Next]_vars
    <2>1. Inv' /\ AgreeInv'
      BY <1>1, <1>3, InvStep, AgreeStep
    <2> QED BY <1>2, <1>3, <2>1, StreamStep DEF HInv
  <1>4. ASSUME NEW d \in Devices, Wipe(d) PROVE HInv'
    <2>1. Inv' /\ AgreeInv'
      BY <1>1, <1>4, WipeStep
    <2>2. StreamInv'
      BY <1>4 DEF Wipe, HInv, StreamInv, Addressed
    <2> QED BY <1>2, <2>1, <2>2 DEF HInv
  <1> QED BY <1>3, <1>4, SessionsView

(* The invariant of the composition.                                        *)
THEOREM HealingInvariant == HSpec => []HInv
  BY HInvInit, HInvStep, PTL DEF HSpec

(* Recovery keeps the two ends in agreement: whatever storage was wiped,    *)
(* whatever session was reset and built anew, and whatever was redelivered  *)
(* after a crash, a handshake for the present installation whose IDs lead   *)
(* to keys opens, and so does what the far end of the session in hand sent. *)
THEOREM HealingAgrees == HSpec => []SessionsAgree
  <1>1. HInv => SessionsAgree
    BY InvSessionsAgree DEF HInv
  <1> QED BY <1>1, HealingInvariant, PTL

(* A device that has forgotten its sessions uses no ratchet position again. *)
THEOREM HealingNoPositionReuse == HSpec => []NoPositionReuse
  <1>1. HInv => NoPositionReuse
    BY InvNoPositionReuse DEF HInv
  <1> QED BY <1>1, HealingInvariant, PTL

(* Seen from the applications, recovery is the end-to-end channel too: a    *)
(* client that heals, a lost session storage and a redelivered stanza never *)
(* make a message come out twice, or one that nobody sent.                  *)
THEOREM HealingChannel == HSpec => ImplementsChannel
  <1>1. HInit => Chan!Init
    BY ChannelInit DEF HInit
  <1>2. HInv /\ [HNext]_<<vars, hvars>> => [Chan!Next]_<<sent, accepted>>
    <2> SUFFICES ASSUME HInv, [HNext]_<<vars, hvars>> PROVE [Chan!Next]_<<sent, accepted>>
      OBVIOUS
    <2>1. CASE [Next]_vars
      BY <2>1, ChannelStep DEF HInv
    <2>2. ASSUME NEW d \in Devices, Wipe(d) PROVE UNCHANGED <<sent, accepted>>
      BY <2>2 DEF Wipe
    <2> QED BY <2>1, <2>2, SessionsView
  <1> QED BY <1>1, <1>2, HealingInvariant, PTL DEF HSpec, ImplementsChannel, Chan!Spec
=============================================================================
