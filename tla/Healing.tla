------------------------------ MODULE Healing -------------------------------
(***************************************************************************)
(* How a broken session is rebuilt: the session life cycle of Sessions     *)
(* composed with the client that calls it and an XMPP stream that delivers *)
(* in order and loses nothing.  The client is outside this repository and  *)
(* does what ResetSession, ErrUnknownSession and ErrPreKeyNotFound ask of  *)
(* it (manager.go:269-279, errors.go:22-37): when DecryptMessage reports   *)
(* one of the two errors it calls ResetSession and sends an                *)
(* EncryptKeyTransport, and it keeps its published bundle up to date.      *)
(* It has one goroutine per Manager, which refreshes the bundle and heals  *)
(* before it reads on.                                                     *)
(***************************************************************************)
EXTENDS Sessions, Sequences

CONSTANTS
    Starters,     \* devices whose user starts conversations; the others reply
    Wipeable,     \* devices that may lose their session storage
    Interrupted,  \* devices that may crash in the middle of a call
    NamedError,   \* does ConsumePreKey report a missing prekey as ErrPreKeyNotFound
    MinPreKeyCount,   \* the pool is topped up once it is down to this
    MaxTalk,      \* bound: users write while fewer messages have gone out
    MaxFaults     \* bound: losses and crashes

VARIABLES
    inbox,        \* inbox[d]: stanzas on their way to d, in order
    owes,         \* owes[p]: the device p has to build a new session with
    faults        \* number of losses and crashes so far

hvars == <<inbox, owes, faults>>

ASSUME HealingAssumption ==
    /\ MaxTalk \in Nat /\ MaxFaults \in Nat /\ MinPreKeyCount \in Nat
    /\ NamedError \in BOOLEAN
    /\ \A p, q \in Procs : Home[p] = Home[q] => p = q

HInit ==
    /\ Init
    /\ inbox = [d \in Devices |-> <<>>]
    /\ owes = [p \in Procs |-> None]
    /\ faults = 0

-----------------------------------------------------------------------------
(* The client *)

(* The one-time prekey that d offers to its peers has been consumed.        *)
Outdated(d) == store[d].preKeys[bundles[d].preKey.id] = None

(* A user starts or goes on with a conversation: EncryptMessage.            *)
Talk(p, e) ==
    /\ Home[p] \in Starters \/ store[Home[p]].sessions[e] # None
    /\ owes[p] = None /\ ~Outdated(Home[p])
    /\ Cardinality(made) < MaxTalk
    /\ BeginEncrypt(p, e)
    /\ UNCHANGED hvars

(* The next stanza of the stream goes to DecryptMessage.                    *)
Receive(p) ==
    LET d == Home[p] IN
    /\ owes[p] = None /\ ~Outdated(d)
    /\ inbox[d] # <<>>
    /\ BeginDecrypt(p, Head(inbox[d]))
    /\ inbox' = [inbox EXCEPT ![d] = Tail(@)]
    /\ UNCHANGED <<owes, faults>>

(* ResetSession, if there is a session left to discard ...                  *)
HealReset(p) ==
    /\ owes[p] # None /\ ~Outdated(Home[p])
    /\ store[Home[p]].sessions[owes[p]] # None
    /\ BeginReset(p, owes[p])
    /\ UNCHANGED hvars

(* ... followed by EncryptKeyTransport.                                     *)
HealTransport(p) ==
    /\ owes[p] # None /\ ~Outdated(Home[p])
    /\ store[Home[p]].sessions[owes[p]] = None
    /\ BeginEncrypt(p, owes[p])
    /\ owes' = [owes EXCEPT ![p] = None]
    /\ UNCHANGED <<inbox, faults>>

(* DecryptMessage is about to fail with ErrUnknownSession, or on a one-time *)
(* prekey that the Store does not have (any more).                          *)
NoSession(p) == /\ call[p].pc = "decLock" /\ call[p].msg.kx = None
                /\ store[Home[p]].sessions[call[p].dev] = None
NoPreKey(p) == /\ call[p].pc = "consume"
               /\ store[Home[p]].preKeys[HandshakeOf(call[p].msg).preKeyID] = None

(* The Manager goes on with the call of p.  A message that goes out enters  *)
(* the stream of its addressee; ErrUnknownSession and ErrPreKeyNotFound are *)
(* the errors a client heals on.                                            *)
Work(p) ==
    /\ LockStep(p) \/ Step(p) \/ ReturnEnvelope(p)
    /\ call[p].pc = "fetch" => call'[p].pc = "trust"      \* FetchBundle succeeds
    /\ IF sent' = sent THEN UNCHANGED inbox
       ELSE \E m \in sent' \ sent : inbox' = [inbox EXCEPT ![m.to] = Append(@, m)]
    /\ owes' = IF NoSession(p) \/ (NoPreKey(p) /\ NamedError)
               THEN [owes EXCEPT ![p] = call[p].dev] ELSE owes
    /\ UNCHANGED faults

(* NeedsMorePreKeys.                                                        *)
NeedsMorePreKeys(d) == PreKeyCount(store[d]) <= MinPreKeyCount

(* GenerateOneTimePreKeys if needed, and then PublishBundle.                *)
Refresh(p) ==
    LET d == Home[p] IN
    /\ call[p] = Idle /\ Outdated(d)
    /\ IF NeedsMorePreKeys(d) THEN GenerateOneTimePreKey(d) ELSE PublishBundle(d)
    /\ UNCHANGED hvars

-----------------------------------------------------------------------------
(* Faults *)

(* "our own session storage was wiped" (manager.go:273).                    *)
Wipe(d) ==
    /\ d \in Wipeable /\ faults < MaxFaults
    /\ \A p \in Procs : Home[p] = d => call[p] = Idle
    /\ \E e \in Devices : store[d].sessions[e] # None
    /\ store' = [store EXCEPT ![d].sessions = [e \in Devices |-> None]]
    /\ faults' = faults + 1
    /\ UNCHANGED <<bundles, fresh, lock, call, made, sent, opened, accepted, inbox, owes>>

(* The process ends in the middle of DecryptMessage, before or after        *)
(* putSession, and is started again; the stream redelivers the stanza the   *)
(* client has not acknowledged.                                             *)
Redeliver(p) ==
    LET d == Home[p] IN
    /\ d \in Interrupted /\ faults < MaxFaults
    /\ call[p].pc \in DecryptPCs
    /\ Restart(d)
    /\ inbox' = [inbox EXCEPT ![d] = <<call[p].msg>> \o @]
    /\ faults' = faults + 1
    /\ UNCHANGED owes

(* The process ends after putSession and before the envelope has left.      *)
LoseEnvelope(p) ==
    /\ Home[p] \in Interrupted /\ faults < MaxFaults
    /\ call[p].pc = "enveloped"
    /\ Restart(Home[p])
    /\ faults' = faults + 1
    /\ UNCHANGED <<inbox, owes>>

-----------------------------------------------------------------------------
Client(p) == Refresh(p) \/ Receive(p) \/ HealReset(p) \/ HealTransport(p) \/ Work(p)

HNext == \/ \E p \in Procs : \/ Client(p) \/ Redeliver(p) \/ LoseEnvelope(p)
                              \/ \E e \in Devices : Talk(p, e)
         \/ \E d \in Devices : Wipe(d)

(* The client keeps reading its stream, does what it owes, and republishes; *)
(* store and transport calls return.  No user has to write anything.        *)
HFairness == \A p \in Procs : WF_<<vars, hvars>>(Client(p))

HSpec == HInit /\ [][HNext]_<<vars, hvars>> /\ HFairness

-----------------------------------------------------------------------------
(* Properties *)

(* Two devices are the two ends of one session.                             *)
InStep(d, e) ==
    LET mine == store[d].sessions[e]
        theirs == store[e].sessions[d]
    IN mine # None /\ theirs # None /\ mine.root = theirs.root /\ mine.role # theirs.role

(* "... so the far side also picks up the new session" (ResetSession): once *)
(* DecryptMessage has failed for want of a session or of a one-time prekey, *)
(* and the client has done what it was asked to, the two devices come to    *)
(* share a session again, and keep it (unless another fault strikes).       *)
Heals == \A p \in Procs, e \in Devices :
            ((NoSession(p) \/ NoPreKey(p)) /\ call[p].dev = e /\ faults = MaxFaults)
                ~> []InStep(Home[p], e)

(* Each device holds the end it got from the other's handshake.             *)
Crossed(d, e) == store[d].sessions[e].role = "passive" /\ store[e].sessions[d].role = "passive"

(* d holds a session whose KeyExchange has never left.                      *)
Unsent(d, e) == /\ store[d].sessions[e].role = "active"
                /\ \A m \in sent : m.data.root = store[d].sessions[e].root => m.kx = None

(* When every stanza has been read and nothing is owed, two devices that    *)
(* hold sessions for each other hold the two ends of the same one, whatever *)
(* was lost and whenever a process ended, with two exceptions: their        *)
(* handshakes crossed, or the one that one of them made never left.  Nobody *)
(* else keeps encrypting under a session the far side cannot open, which is *)
(* an error no client heals on.                                             *)
QuietInStep ==
    /\ \A d \in Devices : inbox[d] = <<>>
    /\ \A p \in Procs : call[p] = Idle /\ owes[p] = None
    => \A d, e \in Devices :
          store[d].sessions[e] # None /\ store[e].sessions[d] # None
             => InStep(d, e) \/ Crossed(d, e) \/ Unsent(d, e) \/ Unsent(e, d)
=============================================================================
