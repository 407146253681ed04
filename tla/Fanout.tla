------------------------------- MODULE Fanout -------------------------------
(***************************************************************************)
(* One Manager's multi-device work: device lists, the recipient list of a  *)
(* message, the loop over it, and what each receiving device makes of the  *)
(* envelope.  encryptForDevice is one step under the device lock here; the *)
(* module Sessions takes it apart.                                         *)
(*                                                                         *)
(* A device list is known by the version the server gave it: Lists[j][v]   *)
(* is what JID j had published after v changes, and version 0 is the empty *)
(* list of a Store that knows nothing.                                     *)
(***************************************************************************)
EXTENDS Naturals, FiniteSets, SequencesExt, Types

CONSTANTS
    JIDs,           \* bare JIDs, the local account's included
    DeviceIDs,
    Local,          \* Manager.localDevice
    Lists,          \* Lists[j]: the device lists j publishes over time
    Published,      \* Published[j]: version j has published at the start
    Known,          \* Known[j]: version the Store starts with
    Procs,          \* goroutines
    Senders,        \* those that call EncryptMessage and EncryptKeyTransport
    Syncers,        \* those that call SyncDevices
    Resolver,       \* whether the Manager was built WithTrustResolver
    InitTrust,      \* InitTrust[d]: decision on device d's identity key
    MaxReturned     \* bound: different results of EncryptMessage calls

VARIABLES
    server,         \* server[j]: version j has published (external: XMPP PEP)
    devices,        \* devices[j]: version in the Store
    trust,          \* trust[d]: decision in the Store on d's identity key
    lock,           \* lock[d]: holder of the Manager's mutex for device d
    call,           \* call[p]: the call goroutine p is executing
    returned        \* what EncryptMessage and EncryptKeyTransport returned

vars == <<server, devices, trust, lock, call, returned>>

-----------------------------------------------------------------------------
Devices == [jid : JIDs, id : DeviceIDs]
Bodies == {None, "text"}              \* None: a key-transport message
List(j, v) == IF v = 0 THEN <<>> ELSE Lists[j][v]
Versions == [JIDs -> Nat]

(* "session": the session could not be established, used or stored.         *)
Errors == {"ErrUntrustedDevice", "ErrBlockedDevice", "resolver", "session"}
DeviceErrors == [device : Devices, err : Errors]
Returns == [jid : JIDs, body : Bodies, used : Versions,
            keys : Seq(Devices), errs : Seq(DeviceErrors), err : {None, "ErrNoRecipients"}]

ASSUME FanoutAssumption ==
    /\ Local \in Devices
    /\ Lists \in [JIDs -> Seq(Seq(DeviceIDs))]
    /\ Published \in Versions /\ \A j \in JIDs : Published[j] <= Len(Lists[j])
    /\ Known \in Versions /\ \A j \in JIDs : Known[j] <= Published[j]
    /\ Senders \subseteq Procs /\ Syncers \subseteq Procs
    /\ Resolver \in BOOLEAN
    /\ InitTrust \in [Devices -> TrustStates]
    /\ MaxReturned \in Nat
    /\ None \notin JIDs \cup Procs \cup Devices \cup {"ErrNoRecipients"}

(* A call.  target: the JID whose list is being looked up; fetched: the     *)
(* version in hand; used: the versions that went into `devices' (a history);*)
(* at: the place of the loop over `devices'.                                *)
Calls == [pc : {"idle", "load", "fetch", "set", "reload", "loop", "encrypt"},
          jid : JIDs \cup {None}, body : Bodies, target : JIDs \cup {None}, fetched : Nat,
          used : Versions, devices : Seq(Devices), at : Nat \ {0},
          keys : Seq(Devices), errs : Seq(DeviceErrors)]

Idle == [pc |-> "idle", jid |-> None, body |-> None, target |-> None, fetched |-> 0,
         used |-> [j \in JIDs |-> 0],
         devices |-> <<>>, at |-> 1, keys |-> <<>>, errs |-> <<>>]

Init ==
    /\ server = Published
    /\ devices = Known
    /\ trust = InitTrust
    /\ lock = [d \in Devices |-> None]
    /\ call = [p \in Procs |-> Idle]
    /\ returned = {}

-----------------------------------------------------------------------------
(* Device lists *)

(* EncryptMessage or EncryptKeyTransport is called.                         *)
BeginEncrypt(p, jid, body) ==
    /\ p \in Senders /\ call[p].pc = "idle"
    /\ Cardinality(returned) + Cardinality({q \in Procs : call[q].jid # None}) < MaxReturned
    /\ call' = [call EXCEPT ![p] = [Idle EXCEPT !.pc = "load", !.jid = jid, !.body = body,
                                                !.target = jid]]
    /\ UNCHANGED <<server, devices, trust, lock, returned>>

(* SyncDevices is called by the application.                                *)
BeginSync(p, jid) ==
    /\ p \in Syncers /\ call[p].pc = "idle"
    /\ call' = [call EXCEPT ![p] = [Idle EXCEPT !.pc = "fetch", !.target = jid]]
    /\ UNCHANGED <<server, devices, trust, lock, returned>>

(* Mutant: goes on to a second list without saying whose.                   *)
ListedNobody(c, v) ==
    LET ids == List(c.target, v) IN
    [c EXCEPT !.devices = [i \in DOMAIN ids |-> [jid |-> c.target, id |-> ids[i]]],
              !.used[c.target] = v, !.target = None, !.pc = "load"]

(* Mutant: the own devices come first in the envelope.                      *)
ListedOwnFirst(c, v) ==
    LET ids == List(c.target, v)
        more == c.target = c.jid /\ c.jid # Local.jid
    IN  [c EXCEPT !.devices = [i \in DOMAIN ids |-> [jid |-> c.target, id |-> ids[i]]] \o @,
                  !.used[c.target] = v,
                  !.target = IF more THEN Local.jid ELSE None,
                  !.pc = IF more THEN "load" ELSE "loop"]

(* recipientDevices goes on with the list it was given for its target: the  *)
(* contact's devices first, then, for another account than the own, the     *)
(* own devices.                                                             *)
Listed(c, v) ==
    LET ids == List(c.target, v)
        more == c.target = c.jid /\ c.jid # Local.jid
    IN  [c EXCEPT !.devices = @ \o [i \in DOMAIN ids |-> [jid |-> c.target, id |-> ids[i]]],
                  !.used[c.target] = v,
                  !.target = IF more THEN Local.jid ELSE None,
                  !.pc = IF more THEN "load" ELSE "loop"]

(* devicesFor: a list that is known and not empty is used as it is.         *)
LoadDevices(p) ==
    /\ call[p].pc = "load"
    /\ call' = [call EXCEPT ![p] = IF List(@.target, devices[@.target]) # <<>>
                                   THEN Listed(@, devices[@.target])
                                   ELSE [@ EXCEPT !.pc = "fetch"]]
    /\ UNCHANGED <<server, devices, trust, lock, returned>>

(* SyncDevices: Transport.FetchDeviceList answers.                          *)
FetchDeviceList(p) ==
    /\ call[p].pc = "fetch"
    /\ call' = [call EXCEPT ![p].pc = "set", ![p].fetched = server[call[p].target]]
    /\ UNCHANGED <<server, devices, trust, lock, returned>>

(* The transport or a store call fails: SyncDevices, and EncryptMessage     *)
(* when it asked for the contact's devices, return the error; the own       *)
(* devices are done without.                                                *)
FetchListFails(p) ==
    /\ call[p].pc \in {"load", "fetch", "set", "reload"}
    /\ call' = [call EXCEPT ![p] = IF @.jid # None /\ @.target # @.jid
                                   THEN [@ EXCEPT !.pc = "loop", !.target = None, !.fetched = 0]
                                   ELSE Idle]
    /\ UNCHANGED <<server, devices, trust, lock, returned>>

(* Store.SetDevices; devicesFor then reads the list back.                   *)
SetDevices(p) ==
    /\ call[p].pc = "set"
    /\ devices' = [devices EXCEPT ![call[p].target] = call[p].fetched]
    /\ call' = [call EXCEPT ![p] = IF @.jid = None THEN Idle
                                   ELSE [@ EXCEPT !.pc = "reload", !.fetched = 0]]
    /\ UNCHANGED <<server, trust, lock, returned>>

ReloadDevices(p) ==
    /\ call[p].pc = "reload"
    /\ call' = [call EXCEPT ![p] = Listed(@, devices[@.target])]
    /\ UNCHANGED <<server, devices, trust, lock, returned>>

-----------------------------------------------------------------------------
(* The loop of encrypt *)

Current(c) == c.devices[c.at]

(* The loop passes over the device that sends.                              *)
SkipLocal(p) ==
    LET c == call[p] IN
    /\ c.pc = "loop" /\ c.at <= Len(c.devices) /\ Current(c) = Local
    /\ call' = [call EXCEPT ![p].at = @ + 1]
    /\ UNCHANGED <<server, devices, trust, lock, returned>>

LockDevice(p) ==
    LET c == call[p] IN
    /\ c.pc = "loop" /\ c.at <= Len(c.devices) /\ Current(c) # Local
    /\ lock[Current(c)] = None
    /\ lock' = [lock EXCEPT ![Current(c)] = p]
    /\ call' = [call EXCEPT ![p].pc = "encrypt"]
    /\ UNCHANGED <<server, devices, trust, returned>>

(* encryptForDevice gets past checkTrust (the resolver, if it was asked,    *)
(* accepted) and returns a key, or the new session cannot be stored.        *)
KeyForDevice(p) ==
    LET c == call[p]
        d == Current(c)
    IN
    /\ c.pc = "encrypt"
    /\ trust[d] = "trusted" \/ (trust[d] = "undecided" /\ Resolver)
    /\ trust' = [trust EXCEPT ![d] = "trusted"]
    /\ lock' = [lock EXCEPT ![d] = None]
    /\ \/ call' = [call EXCEPT ![p].pc = "loop", ![p].at = @ + 1, ![p].keys = Append(@, d)]
       \/ call' = [call EXCEPT ![p].pc = "loop", ![p].at = @ + 1,
                               ![p].errs = Append(@, [device |-> d, err |-> "session"])]
    /\ UNCHANGED <<server, devices, returned>>

(* Why encryptForDevice fails before: no session, or what                   *)
(* checkTrust says.  A declining resolver's error is passed on as it is.    *)
WhyNot(d) ==
    {"session"} \cup
    (CASE trust[d] = "trusted"   -> {}
       [] trust[d] = "untrusted" -> {"ErrBlockedDevice"}
       [] trust[d] = "undecided" -> IF Resolver THEN {"resolver"} ELSE {"ErrUntrustedDevice"})

(* Mutant: one failure ends the loop.                                       *)
ErrorForDeviceBreaks(p) ==
    LET c == call[p] IN
    /\ c.pc = "encrypt"
    /\ lock' = [lock EXCEPT ![Current(c)] = None]
    /\ \E e \in WhyNot(Current(c)) :
          call' = [call EXCEPT ![p].pc = "loop", ![p].at = Len(c.devices) + 1,
                               ![p].errs = Append(@, [device |-> Current(c), err |-> e])]
    /\ UNCHANGED <<server, devices, trust, returned>>

(* Mutant: the loop tries a device again until it works.                    *)
ErrorForDeviceRetries(p) ==
    LET c == call[p] IN
    /\ c.pc = "encrypt"
    /\ lock' = [lock EXCEPT ![Current(c)] = None]
    /\ call' = [call EXCEPT ![p].pc = "loop"]
    /\ UNCHANGED <<server, devices, trust, returned>>

(* Mutant: an error return without the Unlock.                              *)
ErrorForDeviceHolding(p) ==
    LET c == call[p] IN
    /\ c.pc = "encrypt"
    /\ \E e \in WhyNot(Current(c)) :
          call' = [call EXCEPT ![p].pc = "loop", ![p].at = @ + 1,
                               ![p].errs = Append(@, [device |-> Current(c), err |-> e])]
    /\ UNCHANGED <<server, devices, trust, lock, returned>>

(* encryptForDevice fails; the loop records the error and goes on.          *)
ErrorForDevice(p) ==
    LET c == call[p] IN
    /\ c.pc = "encrypt"
    /\ lock' = [lock EXCEPT ![Current(c)] = None]
    /\ \E e \in WhyNot(Current(c)) :
          call' = [call EXCEPT ![p].pc = "loop", ![p].at = @ + 1,
                               ![p].errs = Append(@, [device |-> Current(c), err |-> e])]
    /\ UNCHANGED <<server, devices, trust, returned>>

(* The end of the loop.                                                     *)
ReturnMessage(p) ==
    LET c == call[p] IN
    /\ c.pc = "loop" /\ c.at = Len(c.devices) + 1
    /\ returned' = returned \cup
          {[jid |-> c.jid, body |-> c.body, used |-> c.used,
            keys |-> c.keys, errs |-> c.errs,
            err |-> IF c.keys = <<>> THEN "ErrNoRecipients" ELSE None]}
    /\ call' = [call EXCEPT ![p] = Idle]
    /\ UNCHANGED <<server, devices, trust, lock>>

-----------------------------------------------------------------------------
(* The receiving devices and the server *)

(* DecryptMessage takes the first RecipientKey with its own device ID; a    *)
(* RecipientKey carries no JID.  0: there is none.                          *)
PickKey(m, d) == SelectInSeq(m.keys, LAMBDA k : k.id = d.id)

(* What DecryptMessage returns on device d: a key opens only if it was made *)
(* for d, and a key-transport message has no plaintext (None).              *)
DecryptMessage(m, d) ==
    LET i == PickKey(m, d) IN
    CASE i = 0                     -> "ErrOwnDeviceKeyMissing"
      [] i # 0 /\ m.keys[i] = d    -> m.body
      [] i # 0 /\ m.keys[i] # d    -> "ratchet decrypt"

(* A JID publishes its next device list (external).                         *)
PublishDeviceList(j) ==
    /\ server[j] < Len(Lists[j])
    /\ server' = [server EXCEPT ![j] = @ + 1]
    /\ UNCHANGED <<devices, trust, lock, call, returned>>

-----------------------------------------------------------------------------
ListStep(p) == LoadDevices(p) \/ FetchDeviceList(p) \/ FetchListFails(p)
               \/ SetDevices(p) \/ ReloadDevices(p)

LoopStep(p) == SkipLocal(p) \/ KeyForDevice(p) \/ ErrorForDevice(p) \/ ReturnMessage(p)

Next ==
    \/ \E p \in Procs :
          \/ \E j \in JIDs : BeginSync(p, j) \/ \E b \in Bodies : BeginEncrypt(p, j, b)
          \/ ListStep(p) \/ LockDevice(p) \/ LoopStep(p)
    \/ \E j \in JIDs : PublishDeviceList(j)

Spec == Init /\ [][Next]_vars

(* A TrustResolver has been asked about the device p is at.                 *)
Asking(p) == /\ call[p].pc = "encrypt"
             /\ Resolver /\ trust[Current(call[p])] = "undecided"

(* Transport calls return and goroutines are scheduled: weak fairness.      *)
(* sync.Mutex hands over to a starving waiter: strong fairness.  Nobody has *)
(* to call anything, and a user need not answer a TrustResolver.            *)
Fairness == \A p \in Procs : /\ WF_vars(~Asking(p) /\ (ListStep(p) \/ LoopStep(p)))
                             /\ SF_vars(LockDevice(p))

FairSpec == Spec /\ Fairness

-----------------------------------------------------------------------------
(* Properties *)

(* Type invariant of the Store's lists and of the calls in progress.        *)
TypeOK ==
    /\ server \in Versions /\ devices \in Versions
    /\ trust \in [Devices -> TrustStates]
    /\ lock \in [Devices -> Procs \cup {None}]
    /\ call \in [Procs -> Calls]
    /\ \A p \in Procs : LET c == call[p] IN
          /\ c.pc \in {"load", "fetch", "set", "reload"} => c.target # None
          /\ c.pc \in {"loop", "encrypt"} => c.jid # None
          /\ c.pc = "encrypt" => c.at <= Len(c.devices)
    /\ returned \in SUBSET Returns

(* Whom a message is for: the devices of the lists that were used.          *)
Recipients(r) ==
    {d \in Devices : d.jid \in {r.jid, Local.jid} /\ d.id \in ToSet(List(d.jid, r.used[d.jid]))}
    \ {Local}

(* "A failure for one recipient device does not prevent encrypting for the  *)
(* others [...] per-device failures are always reported" (EncryptMessage):  *)
(* every device of the lists in use, and no other, comes back with a key or *)
(* with an error, whatever other calls do to lists, locks and trust         *)
(* meanwhile, and there is a message unless all of them failed.             *)
Accounted ==
    \A r \in returned :
        /\ ToSet(r.keys) \cup {e.device : e \in ToSet(r.errs)} = Recipients(r)
        /\ (r.err = None) <=> (\E d \in Recipients(r) : d \in ToSet(r.keys))

(* DeviceIDs are not unique across accounts, and a RecipientKey carries the *)
(* ID alone.  The contact's devices find their keys all the same, in        *)
(* whatever order lists come and whichever devices fail, and so does an own *)
(* device unless a key was made for a device of the contact with its ID.    *)
ContactFindsItsKey ==
    \A m \in returned : \A d \in ToSet(m.keys) :
        d.jid = m.jid \/ [jid |-> m.jid, id |-> d.id] \notin ToSet(m.keys)
            => DecryptMessage(m, d) = m.body

(* A loop that cannot go on because a device is locked waits for another    *)
(* call that is at work on that very device and waits for nothing itself,   *)
(* whatever the orders in which the loops take the devices and whichever of *)
(* them fail: no circle of calls that wait for each other.                  *)
WaitsForWork ==
    \A p \in Procs :
        LET c == call[p] IN
        c.pc = "loop" /\ c.at <= Len(c.devices) /\ lock[Current(c)] # None =>
            \E q \in Procs : call[q].pc = "encrypt" /\ Current(call[q]) = Current(c)

(* Every EncryptMessage and SyncDevices call returns, although two calls    *)
(* may go through the same devices in different orders, unless it has got   *)
(* to the device a TrustResolver is being waited for: the loop holds one    *)
(* device lock at a time.                                                   *)
AtDeviceOf(p, q) == call[p].pc \in {"loop", "encrypt"} /\ call[p].at <= Len(call[p].devices)
                    /\ Current(call[p]) = Current(call[q])

FanoutReturns == \A p \in Procs :
    (call[p].pc # "idle") ~> (call[p].pc = "idle" \/ \E q \in Procs : Asking(q) /\ AtDeviceOf(p, q))
=============================================================================
