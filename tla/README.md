# A TLA+ verification of omemo-go

omemo-go is the orchestration layer of the OMEMO end-to-end encryption protocol:
it decides when sessions are built, which keys are used up, what is stored and
whom to trust, and leaves the cryptography to another library (xochimilco). Its
correctness is therefore a matter of order: which store call comes before which,
what is locked in between, and what a crash, a late message or a second goroutine
finds. That is what these modules model.

## The system

| part | state | operations | interacts with |
|---|---|---|---|
| session life cycle (`manager.go`) | one mutex per remote device; sessions, remote identity keys and trust decisions in the Store | `encryptForDevice` (the body of `EncryptMessage` and `EncryptKeyTransport`), `DecryptMessage`, `ResetSession`, `checkTrust` | Store, Transport (bundles), Signal seam, the application's `TrustResolver` |
| prekey maintenance (`manager.go`) | signed prekey (current and stale), one-time prekey pool, ID watermark in the Store | `RotateSignedPreKey`, `GenerateOneTimePreKeys`, `Bundle`, `PublishBundle`, `signedPreKeyByID` | Store, Transport; consumed by `DecryptMessage` |
| fan-out (`manager.go`) | device lists in the Store | `recipientDevices`, `devicesFor`, `SyncDevices`, the loop of `encrypt`, the key choice of `DecryptMessage` | Store, Transport (device lists) |
| session recovery (`manager.go`, `errors.go`) | none of its own: sessions and bundles | the client's `ResetSession` and `EncryptKeyTransport` after `ErrUnknownSession` or `ErrPreKeyNotFound`, `NeedsMorePreKeys` | session life cycle, prekey maintenance, the XMPP stream |
| identity set-up (`manager.go`) | identity key, local device | `InitIdentity`, `NewManager` | Store |
| Store (`store.go`, `memstore/`) | all of the above, one mutex per Store | getters and setters, each atomic | called by all |
| Signal seam (`internal/signal`) | a ratchet session in memory, serialised into the Store | X3DH, `Encrypt`, `Decrypt`, `Marshal`, payload encryption | external library |
| Transport (`transport.go`) | bundles and device lists on a server | fetch, publish | implemented by the application |

What is hard here:

- **Concurrency.** A `Manager` is "safe for concurrent use" (`manager.go:23`).
  Sessions are guarded by a mutex per remote device; prekeys, trust decisions and
  bundles are guarded by nothing but the atomicity of single store calls.
- **Crashes.** The Store survives, goroutines and in-memory sessions do not.
  Every call makes several store calls.
- **Messages** are carried by the application: lost, late, reordered, repeated.
- **Reinstallation.** The same device comes back with a new identity, while old
  bundles, handshakes and sessions are still around.
- **User decisions** happen at any moment, from another goroutine, and a
  `TrustResolver` may take forever under a device lock.

`PROJECT.json` lists these hazards line by line with the properties that watch
over them.

## The modules

| module | models |
|---|---|
| `Types` | the shared vocabulary: missing values, trust states, `KeyExchange` |
| `Signal` | `internal/signal/signal.go`, symbolically: a session is the five keys of its X3DH run, the end it is, and what it has sent and opened |
| `MemStore` | `memstore/memstore.go`: each method an operator on a store record |
| `Sessions` | the session life cycle of several devices, several goroutines each |
| `Channel` | abstract: what the session life cycle promises, a channel that delivers each message at most once |
| `SessionsSteps` | the inductive invariant of `Sessions` and the lemmas about its operators and steps |
| `SessionsProofs` | theorems about `Sessions`, its refinement of `Channel` included |
| `SessionsAgreeProofs` | theorem: the two ends of a session agree |
| `SessionsTrustProofs` | theorems about identity keys and trust decisions |
| `Healing` | `Sessions` composed with the client the documentation asks for and an in-order stream: how a broken session is rebuilt |
| `HealingProofs` | theorems about `Healing` |
| `PreKeys` | one device's prekeys, store call by store call |
| `OneTimeKeys` | abstract: what prekey maintenance promises, a pool whose keys enter once and leave by being used |
| `PreKeysProofs` | theorems about `PreKeys` |
| `Fanout` | device lists, the loop over a message's recipients, the receiving device's choice of a key |
| `FanoutProofs` | theorems about `Fanout` |
| `Identity` | `InitIdentity` store call by store call, with failures and further attempts; `NewManager` and what it publishes |
| `IdentityProofs` | theorems about `Identity` |
| `MCSessions`, `MCHealing`, `MCPreKeys`, `MCFanout` | instances for TLC |

**Signal.** Two X3DH runs agree on a secret exactly when they used the same two
identity keys, signed prekey, one-time prekey and ephemeral key, so the secret is
that tuple. A ratchet message is the root, the producing end and a position; the
other end of the same root opens each position once, in any order (the ratchet's
own promise: external). What is kept of the protocol versions is where the X3DH
parameters travel: beside the message (v2), or inside the first message, from a
field of the session that `Marshal` does not save (v1).

**Sessions.** `call[p]` is the call goroutine `p` is executing. A call is cut
where another goroutine, the application or a crash can come between two accesses
to shared state:

| action | code |
|---|---|
| `BeginEncrypt`, `EncryptLock` | `encrypt`'s loop body; taking the device lock and looking for a session |
| `FetchBundle` / `FetchFails` | fetching the bundle, the check of the signed prekey's signature and X3DH with `PreKeys[0]`, `PutRemoteIdentityKey`; the session stays in memory |
| `CheckTrust`, `ResolverTrusts` / `ResolverDeclines` | `checkTrust`, with the callback as a step of its own |
| `EncryptAndPut` | `Session.Encrypt`, `putSession`, unlock, return to the loop of `encrypt` |
| `ReturnEnvelope` | the loop is through with the other devices, `encrypt` returns and the message leaves |
| `BeginDecrypt`, `DecryptLock` | taking the sender's lock; existing session, or `signedPreKeyByID` |
| `Consume`, `Identify`, `DecryptAndPut` | `ConsumePreKey` and X3DH; `PutRemoteIdentityKey`; `Session.Decrypt` and `putSession` |
| `DecryptPayload` | the payload is decrypted and returned to the application |
| `BeginReset`, `Reset` | `ResetSession` |
| `RotateSignedPreKey`, `GenerateOneTimePreKey`, `PublishBundle` | prekey maintenance, one goroutine per device, whole calls |
| `CallFails` | an error return under the device lock, of the Store or of `DecryptPayload`: earlier writes stay, the lock is released |
| `UserBlocks`, `Restart`, `Reinstall` | the application stores a rejection; the process dies in the middle of a call; the device gets a new Store |

Steps that are merged touch only local data or store entries that nobody else
writes while the device lock is held. A message passes through four sets: `made`
when it has been encrypted and the ratchet has moved on, `sent` when it has left,
`opened` when the far session has decrypted it and moved on, `accepted` when it has
been returned to the application. A crash or an error can come between any two of
them. `sent` only grows and `BeginDecrypt` may take any element of it at any time and
any number of times: this is loss, delay, reordering and duplication. `accepted` is a
bag, so that a message that was returned twice would show. `barred` in a call record
is a history field: the keys that were rejected when the call got its lock.

**PreKeys.** The same code without the locks, because there are none: rotation
reads and writes in two steps, generation allocates IDs one by one and stores the
batch at the end, `Bundle` reads the signed prekey and the pool separately,
`signedPreKeyByID` reads the current and the stale record separately. Handshakes
are delivered at any time, any number of times; two handshakes of one sender are
not processed at once (the device lock of `DecryptMessage`). `CallFails` is an error
of the store or transport call that any of these is at.

**Healing.** `ResetSession`, `ErrUnknownSession` and `ErrPreKeyNotFound` document
a protocol between this library and its caller: reset, then send a key transport.
The caller is not in the repository; `Healing` models it as those comments
describe it, on top of the unchanged actions of `Sessions`: `Talk`, `Receive`,
`HealReset`, `HealTransport` and `Refresh` (top up and republish) begin calls,
`Work` lets the Manager go on with one and moves what it sends into the inbox of
the addressee. `Wipe`, `Redeliver` and `LoseEnvelope` are the faults: lost sessions, a
crash in `DecryptMessage` (before or after `putSession`) followed by the redelivery of
the stanza, and a crash in `EncryptMessage` before the envelope has left. The client
heals on a missing one-time prekey as `errors.go:30` asks if the Store reports one as
`ErrPreKeyNotFound` (the constant `NamedError`); `memstore` does not.

**Fanout.** `LoadDevices`, `FetchDeviceList`, `SetDevices` and `ReloadDevices` are
the steps of `devicesFor` and `SyncDevices`, for the contact and then for the own
account; `FetchListFails` is an error in any of them, which ends the call for the
contact's list and is ignored for the own one. `SkipLocal`, or `LockDevice` and then
`KeyForDevice` or `ErrorForDevice`, are one turn of `encrypt`'s loop, `ReturnMessage`
its end. A
device list is represented by its version number on the server, so that "older"
has a meaning. `DecryptMessage` and `PickKey` say what a receiving device makes of
the envelope. `encryptForDevice` is atomic under its lock here.

**Identity.** One action per store call of `InitIdentity`; `Interrupted` and
`StorePoolUnheard` are failures between them and before the caller hears of
success. An attempt that failed is repeated over whatever Store it left behind.
`NewManager`, `RotateSignedPreKey`, `ReceiveHandshake` (a handshake uses up a one-time
prekey) and `PublishBundle` follow.

### Refinements

`ImplementsChannel` maps `Channel`'s `sent` and `got` to `sent` and `accepted` of
`Sessions`. `ImplementsPool` maps `OneTimeKeys`'s `live` to the keys in the Store's
pool (`LiveKeys`) and `spent` to the keys that completed a handshake: `PutPreKeys`
adds a batch of keys that were never live, `ConsumePreKey` uses one. Most steps of the code are
stuttering steps of the abstract specifications.

## What is checked

| run | question | result |
|---|---|---|
| `sessions_goroutines` | do concurrent calls corrupt a session, accept a message twice, send to an unaccepted key, or leave a lock behind? | no |
| `sessions_crash` | do crashes and store errors in the middle of calls (v1, with prekey maintenance)? Is it still an at-most-once channel, and does the far end of a session open everything? | no; yes |
| `sessions_reinstall` | does a reinstalled far device make the trust check look at the wrong key, a rejected key be used, or a handshake for the new installation fail to open? | no |
| `sessions_liveness` | does every call return, even when a user never answers for some device? | yes, unless it waits for that very device |
| `healing` | when one device has lost its sessions, or either has crashed, do reset and key transport bring the two devices together again, and is nothing refused on the way that could be opened? | yes |
| `prekeys` | do concurrent rotation, generation, publication and handshakes reuse, lose or confuse a prekey? | no, with one rotating goroutine |
| `fanout` | does every device get a key or an error, do the contact's devices find their keys although own devices have the same IDs, do calls release their locks and return? | yes |
| `identity` | can what is published be used after interrupted attempts to set up? | yes |
| `failed_handshake` | is a rejected device always skipped (`types.go:93`)? | no: a handshake that cannot be opened replaces the identity key and leaves the session |
| `block_overwritten` | is it skipped "regardless of a resolver" (`errors.go:15`)? | no: the resolver's result overwrites a rejection made meanwhile |
| `two_rotators` | is rotation safe for concurrent use (`manager.go:23`)? | no: two keys under one ID |
| `healing_crossed` | does the recipe of `ResetSession` work (`manager.go:277`) when both devices have lost their sessions? | no: the handshakes cross and each side keeps the other's |

The runs from `failed_handshake` on are expected violations; `PROJECT.json` quotes the
sentence and the code of each.

The properties of the passing runs:

- `NoPositionReuse`: no two messages are encrypted at the same ratchet position.
- `AtMostOnce`, `ImplementsChannel`: `DecryptMessage` never returns a message a
  second time, nor one that was not sent.
- `SessionsAgree`: what the far end of a session encrypted is never refused, and a
  handshake made for the present installation opens if its IDs lead to keys.
- `KeyExchangeOnFirst`: a `KeyExchange` is made for exactly the first message that is
  encrypted under an initiator's session; an attempt that was declined or cut off
  before `putSession` leaves no session behind. That this message also leaves the
  process is another matter, and not so (see below).
- `SessionIdentity`: the identity key stored for a device is the one at the other
  end of the session stored for it, whenever no call is at work on the device. It is
  checked with a reinstalled far device, where there is more than one key to confuse;
  a crash between `PutRemoteIdentityKey` and `PutSession` breaks it (see below), so
  `sessions_reinstall` has none.
- `TrustedSend`, `BlockedSkipped`: what is encrypted to has been accepted, or at
  least had not been rejected before the call began.
- `WaitsForWork` (in `Sessions` and in `Fanout`): whoever waits for a device lock
  waits for a call that is at work on that device, not for one that has returned, has
  died or waits itself.
- `CallsReturn`, `FanoutReturns`: every call ends, unless it has got to a device
  for which a `TrustResolver` is being waited for.
- `Heals`: a device that is told of a broken session comes to share one with its
  peer again, and keeps it. `QuietInStep`: when all stanzas have been read, two
  devices that hold sessions for each other hold the two ends of the same one, unless
  each has the end it got from the other's handshake (`Crossed`) or one holds a session
  whose `KeyExchange` never left (`Unsent`).
- `OneTime`, `NoLivePreKeyLost`, `ImplementsPool`, `SameKeys`: one-time prekeys
  serve once, are never overwritten, and both ends of a handshake use the same keys.
- `Accounted`: each device of the lists in use comes back with a key or an error and
  nobody else does. `ContactFindsItsKey`: each device of the contact finds its own key
  in the envelope, and so does each own device unless a key was made for a device of
  the contact with its ID.
- `UsableBundle`, `SignedPreKeyFound`: a published bundle is signed by the identity it
  names and has one-time prekeys unless handshakes have used them up, and the signed
  prekey it names is found, although an interrupted attempt may have left another one
  under the same ID.

### Where the code and its documents part, without a run of their own

- The identity key of a handshake is stored (`manager.go:572`) before the session it
  starts (`manager.go:502`). A crash or a store error in between leaves the new key of a
  reinstalled device next to the old session: a later call checks trust of the one and
  encrypts under the other, although its key may have been rejected (`types.go:93`).
- A new session is stored (`manager.go:383`) before the envelope with its `KeyExchange`
  has left, and `encrypt` goes on to the other devices and their resolvers first. A crash
  in between, and the next message continues the session without a `KeyExchange`, which
  "must accompany the first message sent under it" (`manager.go:417`). `sessions_crash`
  and `healing` contain this crash; `QuietInStep` names it (`Unsent`), and `Heals` shows
  that the far device asks for a new session when it gets the next message.
- Of two concurrent `SyncDevices` calls for one account the one that fetched first may
  store last and leave the older list (`manager.go:232`), although "a `Manager` is safe
  for concurrent use" (`manager.go:23`).
- `DecryptMessage` takes the first key with its own ID (`manager.go:480`). If a device of
  the contact and another device of the sender have the same ID, the latter takes the
  contact's key and cannot decrypt what should "be decrypted by the sender's own other
  clients too" (`manager.go:293`). `ContactFindsItsKey` says what is left.
- `memstore` reports a missing one-time prekey by an anonymous error (`memstore.go:132`)
  and not as `ErrPreKeyNotFound` (`errors.go:30`). A client cannot recognise it and does
  not heal: with `NamedError = FALSE` the property `Heals` fails.
- A device whose resolver declined is reported by the resolver's own error
  (`manager.go:410`) and not as `ErrUntrustedDevice` (`errors.go:9`).
- A crash, or an error of `DecryptPayload`, after `putSession` (`manager.go:502`) spends
  a message that was never returned: it is in `opened` and not in `accepted`, and its
  redelivery is refused.
- `EncryptKeyTransport` alone does not "recover from a broken session"
  (`manager.go:264`): an existing session is used. `Healing` resets first.
- Two sessions built from one published bundle name the same `PreKeys[0]`
  (`manager.go:434`); the second handshake fails although other prekeys are left.
- `ErrNoRecipients` is not returned when all devices of the contact failed and one
  of the own account did not (`manager.go:352`, `errors.go:18`).
- `NewManager` over a Store whose `InitIdentity` was cut short returns a Manager
  that is not "ready" (`manager.go:50`); `Identity` therefore has an application
  that waits for `InitIdentity` to return nil.

### Bounds

*Sessions*: two devices (three for liveness), two or three goroutines, three
messages (two in `sessions_crash` and for liveness), and one prekey in the initial
pool. Two goroutines on one `Manager` are
enough for a race on one lock; the third is the peer that answers. Three messages
are a handshake, an answer and a message on the established session, or two
handshakes and a message under either; two are a handshake and an answer or a second
message, each of which a crash can cut off before it leaves. `MaxKeys` is the number of key pairs a
device generates: enough for the initial store and two or three handshakes or
maintenance calls. `MaxGen = 2` gives one reinstallation. `IdSpace` stands for
2^32 and is larger than the number of keys, so that IDs do not wrap.

*Healing*: in `healing`, users of one device write until five messages have been made,
and there are two faults: crashes on either device, and lost sessions on the one that
does not start conversations. That is enough to lose a session, heal, and lose it again,
to crash in the handshake that heals, or to lose an envelope on either side. When both
lose their sessions, handshakes can cross and `Heals` fails (`healing_crossed`); the
exception `Crossed` of `QuietInStep` is for that, and does not arise in this instance.
`MaxSent` and `MaxKeys` are out of reach of the healing that follows.

*PreKeys*: two new keys allow two rotations (the stale record is dropped), two
concurrent generations, or one of each.

*Fanout*: two accounts of two devices, with the same two IDs, one trusted, one blocked,
others undecided; the contact's list changes its order, so that two calls go through the
same devices in opposite orders; two different results are returned. *Identity*: keys
for two interrupted attempts and a rotation, or one and several rotations.

### Fairness

`sessions_liveness` and `fanout` assume that goroutines are scheduled and store
and transport calls return (they take a context): weak fairness of the steps
inside a call. What `CallsReturn` promises is that a call is through with a device: the
envelope itself may wait for a `TrustResolver` of another one. A Go mutex switches to handing over in order once a waiter has
starved for a millisecond: strong fairness of acquiring a device lock. Nothing is
assumed of the `TrustResolver`, of users, or of anybody calling anything.

The healing runs assume, besides, that the client keeps reading its stream, does
what it owes and republishes (weak fairness of `Client`), and that fetching a
bundle succeeds eventually; no user has to write. When nobody writes there is
nothing left to do, so deadlock is not an error in the healing runs.

## What is proved

`PreKeysProofs` proves, for every number of goroutines and peers, every pool size
and every number of keys below the ID space:

- `TypeCorrect`: `Spec => []TypeOK`.
- `OneTimeCorrect`: `Spec => []OneTime`, and `NoLivePreKeyLostCorrect`:
  `Spec => NoLivePreKeyLost`. Neither is inductive: that a batch does not
  overwrite a live prekey when it is stored depends on what was drawn when it was
  begun. `OneTimeInv` says it for every moment: IDs in use are at or below the
  watermark (`Watermark`, `PoolKeys`), and a batch in the making is disjoint, in
  IDs and in keys, from the pool, from every other batch and from the spent keys
  (`BatchKeys`). The watermark stays below the number of generated keys, which is
  what keeps it from wrapping.
- `SameKeysCorrect`: `SingleRotator => (Spec => []SameKeys)`. `PreKeyRefs` says
  that every prekey anyone refers to (in a published bundle, in a snapshot about
  to be published, in a handshake) was allocated and leads to the same key or to
  none; `SpkRefs` says the same of signed prekeys, with the IDs growing by one at
  each rotation. The hypothesis cannot be dropped: `two_rotators` is the
  counterexample.

- `PoolRefinement`: `Spec => ImplementsPool`. `PoolStep` shows that storing a batch
  adds keys that are neither live nor spent and overwrites none, which is what
  `OneTimeInv` says of a batch in the making, and that a handshake moves one key from
  the live to the spent ones; every other action changes neither.

`IdentityProofs` proves, for every pool size and every number of interrupted
attempts and rotations:

- `TypeCorrect`: `Spec => []TypeOK`.
- `UsableBundleCorrect`: `Spec => []UsableBundle`. The invariant `SetUpInv` follows
  the order of the store calls: an attempt in progress is the one whose identity
  key, device and signed prekey the Store has (`AttemptInv`), so that the attempt
  that succeeds leaves a complete Store (`CompleteInv`), and a Manager belongs to
  such a Store (`ManagerInv`).
- `SignedPreKeyFoundCorrect`: `Spec => []SignedPreKeyFound`. `SpkInv` says that IDs
  grow at each rotation and that the record under the published ID is the published
  one; the record of an interrupted attempt, which has ID 1 too, is only ever stale,
  and `signedPreKeyByID` looks at the current one first.

`SessionsProofs` proves, for any number of devices and goroutines, both protocol
versions, every pool size, and any mixture of crashes, store errors, rejections,
reinstallations, lost, late and repeated messages:

- `Invariant`: `Spec => []Inv`, the invariant of `SessionsSteps` from which the rest
  follows, and which `TypeCorrect` (`Spec => []TypeOK`) is part of. Its parts:
  - `CallInv`: a call past its lock holds it, and has in hand what the step before
    put there. Two calls of a Manager on one device exclude each other because of it.
  - `KeysInv`: a Store's keys are its own and were generated before now.
  - `DeliveryInv`: what was sent was made, what was opened was sent, what was returned
    was opened, once, and a call at its payload has a message that was opened and not
    returned yet. `AtMostOnce` needs the last of these: between `putSession` and the
    return nothing but the call itself knows of the message.
  - `MessageInv`, `AcceptedInv`: a message belongs to an end of its session, and once
    a handshake's message has been opened its one-time prekey is in no pool.
  - `KeyExchangeInv`: a `KeyExchange` is in hand exactly until the first message.
  - `SessionInv`: of the session that is stored for a device, and of the one a call
    has in hand, the next position to send is new, among the messages that left and
    those that did not, and all that was opened under it is marked as such. `NoPositionReuse` and `AtMostOnce` are not inductive without
    it: a session in hand and a stored one could each go on from the same position.
    For a session that is about to be built it rests on `Spent` and `Old`: its
    ephemeral key is new, and at the responding end its one-time prekey has just been
    taken out of the pool, so nothing has been made or opened under its root there.
- `NoPositionReuseCorrect`, `AtMostOnceCorrect`, `KeyExchangeOnFirstCorrect`: the
  properties of these names, without a hypothesis.
- `ChannelRefinement`: `Spec => ImplementsChannel`. `ReturnEnvelope` sends a message
  and `DecryptPayload` delivers one that was sent and not delivered; every other action
  is a stuttering step.

- `WaitsForWorkCorrect`: `Spec => []WaitsForWork`, the safety half of `CallsReturn`.
  `CallInv` says that a call in its critical section holds the lock; what is needed is
  the converse, `LockInv`: a lock that is held is held by a call in the critical section
  of that very device. Every way out of a call (success, `FetchFails`, a refusal, a
  declining resolver, `CallFails`, a crash, a new installation) has to preserve it.

`SessionsAgreeProofs` proves `SessionsAgreeCorrect`: `Spec => []SessionsAgree`, without
a hypothesis. `AgreeInv` adds that an ID which a device has published or that is in a
handshake leads to the key it stood for or to none (`RefsInv`, with the counters below
the number of keys, so that none wraps), that a handshake being answered has the
initiator's root (`HandshakeInv`), that a position has one message (`UniqueInv`), and
that what a session has opened was opened (`ReceivedInv`). A reinstalled device
counts its IDs from the start again, and an old handshake then resolves to new keys.
The first and the second part are therefore relative to an installation: nobody refers
to an installation that is still to come, and only references to the present one have
to lead to its keys (`Since`, `Mine`). That the first half holds is what makes the
second one survive a reinstallation: right after it, nobody refers to the new one.

`HealingProofs` proves about the composition with the clients, for any number of wiped
session storages, lost envelopes and redelivered stanzas, `HealingAgrees` (`HSpec => []SessionsAgree`),
`HealingNoPositionReuse` (`HSpec => []NoPositionReuse`) and `HealingChannel`
(`HSpec => ImplementsChannel`). `SessionsView` shows that a step of the composition is
a step of `Sessions` or a `Wipe`, for which it needs that a stream carries only
messages that were sent to its device (`StreamInv`) and that a client owes a session to
another device only (`OwesInv`). `WipeStep` shows that nothing in `Inv` and `AgreeInv`
needs a session to be there. What these theorems leave to TLC is that recovery gets
anywhere, which is `Heals`.

`SessionsTrustProofs` proves `SessionIdentityCorrect` and `BlockedSkippedCorrect` under
the hypothesis `Undisturbed`, and `TrustedSendCorrect` under `Undisturbed` and
`Blockers = {}`. `PeerInv` says that the identity key stored for a device is the one
of the stored session unless a handshake is just being answered, and of the session
in hand from the trust check on; `TrustInv` that the key is trusted at the time of
encryption. `Undisturbed` says that the peers of a device that may be reinstalled do
not crash inside a call, get no store errors and are not reinstalled themselves; it is
true of every system without reinstallations. It cannot be dropped:
`failed_handshake` is the counterexample with two reinstallable devices, and a crash of
the answering device between two store calls is another.
`Blockers = {}` cannot be dropped either: a decision that is taken back between the
trust check and the encryption comes too late for that message, and a resolver may
overwrite it (`block_overwritten`). `BlockedSkipped` is what is left of it.

`FanoutProofs` proves, for any number of accounts, devices and goroutines and every
history of device lists:

- `TypeCorrect` and `AccountedCorrect`: `Spec => []TypeOK`, `Spec => []Accounted`.
  `Accounted` speaks of finished calls only; the invariant follows them from the
  start: what `recipientDevices` has gathered are the devices of the lists it used,
  and the list it is looking up is not one of these (`ListsOK`); the devices behind
  the loop, the local one excepted, have a key or an error (`LoopOK`).
- `ContactFindsItsKeyCorrect`: `Spec => []ContactFindsItsKey`, whatever IDs the accounts
  have in common. It rests on the order of the envelope: the keys of the contact's
  devices come before those of the own ones (`ContactFirst`), in the list, in the loop and
  in what is returned, so that the first key with a given ID is the contact's if there
  is one.
- `WaitsForWorkCorrect`: `Spec => []WaitsForWork`, with `LockInv` as in `Sessions`: no
  turn of the loop, whether it ends in a key or in an error, takes a lock into the next.

The assumptions are `IdSpaceAssumption` (there are IDs), `ProtocolAssumption`,
`PreKeysAssumption`, `SessionsAssumption`, `HealingAssumption`, `FanoutAssumption` and
`IdentityAssumption`
(types and bounds of the constants, fewer keys than IDs), and `NoneAssumption` with its
like in the other modules: the value that stands for "missing" is none of the others.
They hold in every run. Each inductive invariant was model-checked before it was
proved.

Only model-checked are:

- liveness (`CallsReturn`, `FanoutReturns`, `Heals`), which is out of the prover's
  reach;
- `QuietInStep` of `Healing`: it rests on the order of the stream and on clients that
  heal before they read on, and its inductive form would have to follow every handshake
  through the stream. It is left to TLC.

`BlockSticks` does not hold, and `BlockedSkipped` and `SameKeys` hold only under the
hypotheses above: the violation runs are their counterexamples.

## What is not modelled

- Payload encryption and the cryptography of xochimilco: no state of this library.
  That decrypting a payload may fail is modelled.
- Wire formats: the application's or xochimilco's.
- IDs that wrap after 2^32 prekeys.
- The interop tests and their Python bridge.
- Handshakes that are forged or damaged: every message was made by a Manager.
- A `TrustResolver` that calls back into the Manager.

## Open questions

1. The exception `Crossed` of `QuietInStep` needs a rule for handshakes that cross, which
   the code does not have (`healing_crossed`), for instance a total order on identity
   keys; the exception `Unsent` needs a `KeyExchange` that is repeated until the far
   device has answered.
2. A `TrustResolver` that calls back into the Manager, and IDs that wrap, as questions
   of their own.
