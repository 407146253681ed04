------------------------------ MODULE MemStore ------------------------------
(***************************************************************************)
(* memstore.Store: the reference implementation of omemo.Store.  A store   *)
(* is a record with the fields of the Go struct; every method runs under   *)
(* the store's own mutex, so every method is one operator from a store to  *)
(* a store (or to what it reads).  A map is a total function whose value   *)
(* None stands for a missing key.                                          *)
(***************************************************************************)
EXTENDS Integers, FiniteSets, Types

CONSTANT IdSpace     \* number of values of a uint32 ID: 2^32 in the code

ASSUME IdSpaceAssumption == IdSpace \in Nat /\ IdSpace > 1

Ids == 0 .. IdSpace - 1

NoPreKeys == [i \in Ids |-> None]

-----------------------------------------------------------------------------
(* IdentityStore *)

(* Store.SetIdentityKeyPair and Store.SetLocalDevice: no check of what was  *)
(* there before.                                                            *)
PutIdentityKeyPair(s, priv) == [s EXCEPT !.identityKey = priv]
PutLocalDevice(s, dev) == [s EXCEPT !.localDevice = dev]

-----------------------------------------------------------------------------
(* PreKeyStore *)

(* Store.RotateSignedPreKey: the current record, if there is one, becomes   *)
(* the stale record; an earlier stale record is dropped.                    *)
RotateSPK(s, next) ==
    [s EXCEPT !.staleSPK   = IF s.currentSPK # None THEN s.currentSPK ELSE @,
              !.currentSPK = next]

(* Store.PreKeys and PreKeyCount.                                           *)
PreKeyIDs(s) == {i \in Ids : s.preKeys[i] # None}
PreKeyCount(s) == Cardinality(PreKeyIDs(s))

(* Mutant: the ID after the number of records in the pool.                  *)
NextPreKeyIDCounting(s) == (PreKeyCount(s) + 1) % IdSpace

(* Store.NextPreKeyID: a watermark, incremented before use; uint32 wraps.   *)
NextPreKeyID(s) == (s.nextPreKeyID + 1) % IdSpace
AllocPreKeyID(s) == [s EXCEPT !.nextPreKeyID = NextPreKeyID(s)]

(* Store.PutPreKeys: recs maps the IDs of the new records to their keys.    *)
PutPreKeys(s, recs) ==
    [s EXCEPT !.preKeys = [i \in Ids |-> IF recs[i] # None THEN recs[i] ELSE s.preKeys[i]]]

(* Mutant: the record is read but not deleted.                              *)
ConsumePreKeyKeeping(s, id) == s

(* Store.ConsumePreKey, for an ID that is present.                          *)
ConsumePreKey(s, id) == [s EXCEPT !.preKeys[id] = None]

-----------------------------------------------------------------------------
(* SessionStore, TrustStore, DeviceStore *)

PutSession(s, dev, sess) == [s EXCEPT !.sessions[dev] = sess]
DeleteSessionZeroing(s, dev) == [s EXCEPT !.sessions[dev] = <<>>]   \* mutant: an empty value stays
DeleteSession(s, dev) == [s EXCEPT !.sessions[dev] = None]
SetTrust(s, ik, state) == [s EXCEPT !.trust[ik] = state]
PutRemoteIdentityKey(s, dev, ik) == [s EXCEPT !.remoteID[dev] = ik]
=============================================================================
