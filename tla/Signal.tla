------------------------------- MODULE Signal -------------------------------
(***************************************************************************)
(* Symbolic model of internal/signal/signal.go, the seam through which     *)
(* omemo-go calls X3DH and the Double Ratchet (package xochimilco, which   *)
(* is outside this repository).  Key pairs are opaque values; the public   *)
(* half stands for the pair.  Two X3DH runs agree on a secret exactly when *)
(* they used the same five keys, so the secret IS that five-tuple, the     *)
(* session's `root'.  A Double Ratchet message is identified by the root,  *)
(* the end that produced it and its position in that end's sequence; the   *)
(* other end of the same root opens it once, in any order.                 *)
(***************************************************************************)
EXTENDS Naturals, Types

CONSTANT Protocol     \* "v2" (XEP-0384) or "v1" (eu.siacs.conversations.axolotl)

ASSUME ProtocolAssumption == Protocol \in {"v1", "v2"}

-----------------------------------------------------------------------------
(* X3DH (external): the shared secret as a function of the five keys.       *)
X3DH(ini, resp, spk, opk, ek) ==
    [ini |-> ini, resp |-> resp, spk |-> spk, opk |-> opk, ek |-> ek]

(* signal.NewActiveSession: X3DH as the initiating party.  v1 stashes the   *)
(* parameters so that the first Encrypt wraps a PreKeyWhisperMessage.       *)
NewActiveSession(idKey, bundle, ek) ==
    [root    |-> X3DH(idKey, bundle.identityKey, bundle.signedPreKey.key, bundle.preKey.key, ek),
     role    |-> "active",
     sent    |-> 0,
     recv    |-> {},
     pending |-> IF Protocol = "v1"
                 THEN KeyExchange(idKey, ek, bundle.signedPreKey.id, bundle.preKey.id)
                 ELSE None]

(* signal.NewPassiveSession / NewPassiveSessionFromPreKeyBlob.              *)
NewPassiveSession(idKey, kx, spk, opk) ==
    [root    |-> X3DH(kx.identityKey, idKey, spk, opk, kx.ephemeralKey),
     role    |-> "passive",
     sent    |-> 0,
     recv    |-> {},
     pending |-> None]

(* Session.Encrypt: the wrapped key material, and the session afterwards.   *)
(* `pre' is v1's PreKeyWhisperMessage envelope, present on the first call.  *)
Encrypt(sess) ==
    [root |-> sess.root, from |-> sess.role, n |-> sess.sent, pre |-> sess.pending]

AfterEncrypt(sess) == [sess EXCEPT !.sent = @ + 1, !.pending = None]

(* Session.Decrypt: opens what the other end of the same root produced and  *)
(* what has not been opened before (external: xochimilco's ratchet).        *)
CanDecrypt(sess, data) ==
    /\ data.root = sess.root
    /\ data.from # sess.role
    /\ data.n \notin sess.recv

AfterDecryptNot(sess, data) == sess     \* mutant: a message can be opened again
AfterDecrypt(sess, data) == [sess EXCEPT !.recv = @ \cup {data.n}]

(* Session.Marshal followed by LoadSession: the ratchet survives, v1's      *)
(* pending envelope is a field of the Go struct only and does not.          *)
Marshal(sess) == [sess EXCEPT !.pending = None]

(* The X3DH parameters the receiver goes by: PeekLegacyPreKeyIDs and        *)
(* NewPassiveSessionFromPreKeyBlob read the message bytes (v1), the v2 path *)
(* reads the KeyExchange attribute.                                         *)
HandshakeOf(key) == IF Protocol = "v1" THEN key.data.pre ELSE key.kx

(* The identity key at the other end of a session.                          *)
PeerIdentity(sess) == IF sess.role = "active" THEN sess.root.resp ELSE sess.root.ini
=============================================================================
