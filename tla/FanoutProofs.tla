---------------------------- MODULE FanoutProofs ----------------------------
(***************************************************************************)
(* Theorems about Fanout, for every number of goroutines, accounts and     *)
(* devices and every history of device lists.                              *)
(***************************************************************************)
EXTENDS Fanout, WellFoundedInduction, TLAPS

-----------------------------------------------------------------------------
(* The inductive invariant *)

Listing == {"load", "fetch", "set", "reload"}

(* The devices of the lists a call has used so far, the local one included. *)
Named(c) ==
    {d \in Devices : d.jid \in {c.jid, Local.jid} /\ d.id \in ToSet(List(d.jid, c.used[d.jid]))}

(* The devices the loop has been through, and those it has a result for.    *)
Passed(c) == {c.devices[i] : i \in 1..(c.at - 1)}
Handled(c) == ToSet(c.keys) \cup {e.device : e \in ToSet(c.errs)}

(* recipientDevices: what it has gathered are the devices of the lists it   *)
(* has used, and the list it is looking up is not among these.              *)
ListsOK(c) ==
    /\ \A j \in JIDs : c.used[j] <= Len(Lists[j])
    /\ c.jid # None => ToSet(c.devices) = Named(c)
    /\ c.jid # None /\ c.pc \in Listing =>
          /\ c.target \in {c.jid, Local.jid}
          /\ \A j \in JIDs : c.used[j] # 0 => j = c.jid /\ c.target # c.jid
    /\ c.pc \in {"load", "reload"} => c.jid # None

(* encrypt's loop: the devices behind it have a result, the local one none. *)
LoopOK(c) ==
    /\ c.at <= Len(c.devices) + 1
    /\ c.pc \in Listing => c.at = 1
    /\ Handled(c) = Passed(c) \ {Local}
    /\ c.pc = "encrypt" => Current(c) # Local

PhaseOK(c) ==
    /\ c.pc \in Listing => c.target # None
    /\ c.pc \in {"loop", "encrypt"} => c.jid # None
    /\ c.pc = "encrypt" => c.at <= Len(c.devices)

(* The devices of the contact come first, among those to encrypt for and    *)
(* among those a key was made for.                                          *)
ContactFirst(s, j) == \A i, k \in DOMAIN s : i < k /\ s[k].jid = j => s[i].jid = j

OrderOK(c) == c.jid # None => ContactFirst(c.devices, c.jid) /\ ContactFirst(c.keys, c.jid)

CallOK(c) == c \in Calls /\ PhaseOK(c) /\ ListsOK(c) /\ LoopOK(c) /\ OrderOK(c)

(* The versions in the Store and in a call's hands have been published.     *)
VersionsInv ==
    /\ \A j \in JIDs : devices[j] <= server[j] /\ server[j] <= Len(Lists[j])
    /\ \A p \in Procs : call[p].pc = "set" => call[p].fetched <= server[call[p].target]

CallsInv == \A p \in Procs : CallOK(call[p])

(* What EncryptMessage returned has the keys of the contact's devices first.*)
ReturnedInv == \A r \in returned : ContactFirst(r.keys, r.jid)

Inv == TypeOK /\ CallsInv /\ VersionsInv /\ ReturnedInv /\ Accounted

-----------------------------------------------------------------------------
(* Sequences as sets *)

(* The elements of a concatenation are those of its parts.                  *)
LEMMA ConcatSet ==
    ASSUME NEW S, NEW s \in Seq(S), NEW t \in Seq(S)
    PROVE  s \o t \in Seq(S) /\ ToSet(s \o t) = ToSet(s) \cup ToSet(t)
  <1>1. s \o t \in Seq(S) /\ Len(s \o t) = Len(s) + Len(t)
    OBVIOUS
  <1>2. ASSUME NEW x PROVE x \in ToSet(s \o t) => x \in ToSet(s) \cup ToSet(t)
    BY <1>1 DEF ToSet
  <1>3. ASSUME NEW x \in ToSet(s) PROVE x \in ToSet(s \o t)
    BY <1>1 DEF ToSet
  <1>4. ASSUME NEW x \in ToSet(t) PROVE x \in ToSet(s \o t)
    <2>1. PICK i \in 1..Len(t) : x = t[i]
      BY DEF ToSet
    <2>2. Len(s) + i \in 1..Len(s \o t) /\ (s \o t)[Len(s) + i] = x
      BY <1>1, <2>1
    <2> QED BY <1>1, <2>2 DEF ToSet
  <1> QED BY <1>1, <1>2, <1>3, <1>4

(* Appending an element adds it.                                            *)
LEMMA AppendSet ==
    ASSUME NEW S, NEW s \in Seq(S), NEW e \in S
    PROVE  Append(s, e) \in Seq(S) /\ ToSet(Append(s, e)) = ToSet(s) \cup {e}
  <1>1. Append(s, e) \in Seq(S) /\ Len(Append(s, e)) = Len(s) + 1
    OBVIOUS
  <1>2. ASSUME NEW x PROVE x \in ToSet(Append(s, e)) => x \in ToSet(s) \cup {e}
    BY <1>1 DEF ToSet
  <1>3. ASSUME NEW x \in ToSet(s) PROVE x \in ToSet(Append(s, e))
    BY <1>1 DEF ToSet
  <1>4. e \in ToSet(Append(s, e))
    <2>1. Len(s) + 1 \in 1..Len(Append(s, e)) /\ Append(s, e)[Len(s) + 1] = e
      BY <1>1
    <2> QED BY <1>1, <2>1 DEF ToSet
  <1> QED BY <1>1, <1>2, <1>3, <1>4

(* What is in a sequence over S is in S.                                    *)
LEMMA SetOfSeq ==
    ASSUME NEW S, NEW s \in Seq(S)
    PROVE  ToSet(s) \subseteq S
  BY DEF ToSet

(* SelectInSeq's choice of a smallest index exists.                         *)
LEMMA Smallest ==
    ASSUME NEW S \in SUBSET Nat, S # {}
    PROVE  Min(S) \in S /\ \A y \in S : Min(S) <= y
  <1> DEFINE Less == {ss \in Nat \X Nat : ss[1] < ss[2]}
  <1>1. IsWellFoundedOn(Less, Nat)
    BY NatLessThanWellFounded DEF OpToRel
  <1>2. \A x, y \in Nat : <<y, x>> \in Less <=> y < x
    OBVIOUS
  <1> HIDE DEF Less
  <1>3. PICK x \in S : \A y \in S : ~ (<<y, x>> \in Less)
    BY <1>1, WFMin
  <1>4. \A y \in S : x =< y
    <2> TAKE y \in S
    <2>1. ~ (y < x)
      BY <1>2, <1>3
    <2> QED BY <2>1
  <1> QED BY <1>4 DEF Min

-----------------------------------------------------------------------------
(* What the steps of a call make of it *)

(* A version a JID has published is a sequence of device IDs.               *)
LEMMA ListType ==
    ASSUME NEW j \in JIDs, NEW v \in Nat, v <= Len(Lists[j])
    PROVE  List(j, v) \in Seq(DeviceIDs)
  <1>1. Lists[j] \in Seq(Seq(DeviceIDs))
    BY FanoutAssumption
  <1>2. CASE v = 0
    BY <1>2 DEF List
  <1>3. CASE v # 0
    BY <1>1, <1>3 DEF List
  <1> QED BY <1>2, <1>3

(* No device is named by lists that were not read.                          *)
LEMMA NothingNamed ==
    ASSUME NEW c, c.used = [j \in JIDs |-> 0]
    PROVE  Named(c) = {}
  <1> SUFFICES ASSUME NEW d \in Named(c) PROVE FALSE
    OBVIOUS
  <1>1. d \in Devices /\ d.id \in ToSet(List(d.jid, c.used[d.jid]))
    BY DEF Named
  <1>2. d.jid \in JIDs
    BY <1>1 DEF Devices
  <1>3. List(d.jid, c.used[d.jid]) = <<>>
    BY <1>2 DEF List
  <1> QED BY <1>1, <1>3 DEF ToSet

(* A new call that looks up a list has gathered and handled nothing.        *)
LEMMA FreshCall ==
    ASSUME NEW c \in Calls, c.used = [j \in JIDs |-> 0], c.devices = <<>>, c.at = 1,
           c.keys = <<>>, c.errs = <<>>, c.pc \in {"idle"} \cup Listing,
           c.pc \in Listing => c.target # None,
           c.jid # None => c.target \in {c.jid, Local.jid},
           c.pc \in {"load", "reload"} => c.jid # None
    PROVE  CallOK(c)
  <1>1. \A j \in JIDs : Len(Lists[j]) \in Nat
    BY FanoutAssumption
  <1>2. \A j \in JIDs : c.used[j] = 0 /\ c.used[j] <= Len(Lists[j])
    BY <1>1
  <1>3. ToSet(c.devices) = {} /\ ToSet(c.keys) = {} /\ ToSet(c.errs) = {}
    BY DEF ToSet
  <1>4. Named(c) = {}
    BY NothingNamed
  <1>5. ListsOK(c)
    BY <1>2, <1>3, <1>4 DEF ListsOK
  <1>6. Passed(c) = {} /\ Handled(c) = {}
    BY <1>3 DEF Passed, Handled
  <1>7. LoopOK(c)
    BY <1>6 DEF LoopOK, Listing
  <1>8. PhaseOK(c)
    BY DEF PhaseOK, Listing
  <1>9. OrderOK(c)
    BY DEF OrderOK, ContactFirst
  <1> QED BY <1>5, <1>7, <1>8, <1>9 DEF CallOK

(* The call that is none.                                                   *)
LEMMA IdleCall == Idle \in Calls /\ CallOK(Idle)
  <1>1. [j \in JIDs |-> 0] \in Versions
    BY DEF Versions
  <1>2. Idle \in Calls
    BY <1>1 DEF Idle, Calls, Bodies
  <1> QED BY <1>2, FreshCall DEF Idle, Listing

(* The list in hand, as devices of its account.                             *)
LEMMA ListedDevices ==
    ASSUME NEW j \in JIDs, NEW ids \in Seq(DeviceIDs)
    PROVE  LET devs == [i \in DOMAIN ids |-> [jid |-> j, id |-> ids[i]]] IN
           devs \in Seq(Devices) /\ ToSet(devs) = {d \in Devices : d.jid = j /\ d.id \in ToSet(ids)}
  <1> DEFINE devs == [i \in DOMAIN ids |-> [jid |-> j, id |-> ids[i]]]
  <1>1. DOMAIN ids = 1..Len(ids) /\ Len(ids) \in Nat /\ \A i \in 1..Len(ids) : ids[i] \in DeviceIDs
    OBVIOUS
  <1>2. \A i \in 1..Len(ids) : [jid |-> j, id |-> ids[i]] \in Devices
    BY <1>1 DEF Devices
  <1>3. devs \in Seq(Devices)
    BY <1>1, <1>2
  <1>4. ToSet(devs) = {[jid |-> j, id |-> ids[i]] : i \in 1..Len(ids)}
    BY <1>1 DEF ToSet
  <1>5. ToSet(ids) = {ids[i] : i \in 1..Len(ids)}
    BY <1>1 DEF ToSet
  <1>6. ASSUME NEW d \in ToSet(devs)
        PROVE  d \in Devices /\ d.jid = j /\ d.id \in ToSet(ids)
    BY <1>2, <1>4, <1>5
  <1>7. ASSUME NEW d \in Devices, d.jid = j, d.id \in ToSet(ids)
        PROVE  d \in ToSet(devs)
    <2>1. PICK i \in 1..Len(ids) : d.id = ids[i]
      BY <1>5, <1>7
    <2>2. d = [jid |-> j, id |-> ids[i]]
      BY <1>7, <2>1 DEF Devices
    <2> QED BY <1>4, <2>2
  <1> QED BY <1>3, <1>6, <1>7

(* The fields of a call that recipientDevices writes.                       *)
LEMMA ListedType ==
    ASSUME NEW c \in Calls, NEW devs \in Seq(Devices), NEW used \in Versions,
           NEW target \in JIDs \cup {None}, NEW pc \in {"load", "loop"}
    PROVE  [c EXCEPT !.devices = devs, !.used = used, !.target = target, !.pc = pc] \in Calls
  BY DEF Calls

(* Behind the devices of the contact come those of one account.             *)
LEMMA OrderedConcat ==
    ASSUME NEW s \in Seq(Devices), NEW u \in Seq(Devices), NEW j, NEW a,
           \A x \in ToSet(s) : x.jid = j, \A x \in ToSet(u) : x.jid = a
    PROVE  ContactFirst(s \o u, j)
  <1>1. /\ Len(s) \in Nat /\ Len(u) \in Nat
        /\ DOMAIN s = 1..Len(s) /\ DOMAIN u = 1..Len(u) /\ DOMAIN (s \o u) = 1..(Len(s) + Len(u))
    OBVIOUS
  <1> SUFFICES ASSUME NEW i \in 1..(Len(s) + Len(u)), NEW k \in 1..(Len(s) + Len(u)),
                      i < k, (s \o u)[k].jid = j
               PROVE  (s \o u)[i].jid = j
    BY <1>1 DEF ContactFirst
  <1>2. CASE i <= Len(s)
    <2>1. (s \o u)[i] = s[i] /\ i \in 1..Len(s)
      BY <1>1, <1>2
    <2> QED BY <1>1, <2>1 DEF ToSet
  <1>3. CASE ~(i <= Len(s))
    <2>1. /\ i - Len(s) \in 1..Len(u) /\ (s \o u)[i] = u[i - Len(s)]
          /\ k - Len(s) \in 1..Len(u) /\ (s \o u)[k] = u[k - Len(s)]
      BY <1>1, <1>3
    <2>2. u[i - Len(s)].jid = a /\ u[k - Len(s)].jid = a
      BY <1>1, <2>1 DEF ToSet
    <2> QED BY <2>1, <2>2
  <1> QED BY <1>2, <1>3

(* recipientDevices takes in the list it was given.                         *)
LEMMA ListedCall ==
    ASSUME NEW c, CallOK(c), c.pc \in {"load", "reload"},
           NEW v \in Nat, v <= Len(Lists[c.target])
    PROVE  CallOK(Listed(c, v))
  <1> DEFINE t == c.target
             ids == List(t, v)
             devs == [i \in DOMAIN ids |-> [jid |-> t, id |-> ids[i]]]
             more == t = c.jid /\ c.jid # Local.jid
             new == {d \in Devices : d.jid = t /\ d.id \in ToSet(ids)}
             n == Listed(c, v)
  <1>1. c \in Calls /\ PhaseOK(c) /\ ListsOK(c) /\ LoopOK(c) /\ OrderOK(c) /\ Local.jid \in JIDs
    BY FanoutAssumption DEF CallOK, Devices
  <1>2. t \in JIDs /\ c.jid \in JIDs /\ c.used \in Versions /\ c.devices \in Seq(Devices)
    BY <1>1 DEF Calls, PhaseOK, ListsOK, Listing
  <1>3. t \in {c.jid, Local.jid} /\ c.used[t] = 0
    BY <1>1, <1>2 DEF ListsOK, Listing
  <1>4. devs \in Seq(Devices) /\ ToSet(devs) = new
    BY <1>2, ListType, ListedDevices
  <1>5. /\ n.pc = (IF more THEN "load" ELSE "loop") /\ n.jid = c.jid /\ n.body = c.body
        /\ n.target = (IF more THEN Local.jid ELSE None) /\ n.fetched = c.fetched
        /\ n.used = [c.used EXCEPT ![t] = v] /\ n.devices = c.devices \o devs
        /\ n.at = c.at /\ n.keys = c.keys /\ n.errs = c.errs
    BY <1>1, Zenon DEF Listed, Calls
  <1>6. n.used \in Versions /\ n.devices \in Seq(Devices)
        /\ ToSet(n.devices) = ToSet(c.devices) \cup new
    <2>1. n.used \in Versions
      BY <1>2, <1>5 DEF Versions
    <2> HIDE DEF devs, n, new
    <2> QED BY <1>2, <1>4, <1>5, <2>1, ConcatSet
  <1>7. n \in Calls
    <2>1. n = [c EXCEPT !.devices = n.devices, !.used = n.used, !.target = n.target, !.pc = n.pc]
      <3>1. n = [c EXCEPT !.devices = c.devices \o devs, !.used = [c.used EXCEPT ![t] = v],
                          !.target = IF more THEN Local.jid ELSE None,
                          !.pc = IF more THEN "load" ELSE "loop"]
        BY <1>1, Zenon DEF Listed, Calls
      <3> QED BY <1>5, <3>1, Zenon
    <2>2. n.target \in JIDs \cup {None} /\ n.pc \in {"load", "loop"}
      BY <1>1, <1>5
    <2> HIDE DEF n
    <2>3. [c EXCEPT !.devices = n.devices, !.used = n.used, !.target = n.target, !.pc = n.pc]
          \in Calls
      BY <1>1, <1>6, <2>2, ListedType
    <2> QED BY <2>1, <2>3, Zenon
  <1> HIDE DEF n, devs
  <1>8. \A j \in JIDs : n.used[j] = IF j = t THEN v ELSE c.used[j]
    BY <1>2, <1>5 DEF Versions
  <1>9. Named(n) = Named(c) \cup new
    <2>1. ASSUME NEW d \in Devices PROVE d.jid \in JIDs
      BY DEF Devices
    <2>2. ASSUME NEW d \in Devices, d.jid = t
          PROVE  d \in Named(n) <=> d \in Named(c) \cup new
      <3>1. n.used[t] = v
        BY <1>2, <1>8
      <3>2. d \notin Named(c)
        BY <1>3, <2>2 DEF Named, List, ToSet
      <3>3. d \in Named(n) <=> d.id \in ToSet(ids)
        BY <1>3, <1>5, <2>2, <3>1 DEF Named
      <3> QED BY <2>2, <3>2, <3>3
    <2>3. ASSUME NEW d \in Devices, d.jid # t
          PROVE  d \in Named(n) <=> d \in Named(c) \cup new
      <3>1. n.used[d.jid] = c.used[d.jid]
        BY <1>8, <2>1, <2>3
      <3> QED BY <1>5, <2>3, <3>1 DEF Named
    <2> QED BY <2>2, <2>3 DEF Named
  <1>10. ListsOK(n)
    <2>1. \A j \in JIDs : n.used[j] <= Len(Lists[j])
      BY <1>1, <1>8 DEF ListsOK
    <2>2. ToSet(n.devices) = Named(n)
      BY <1>1, <1>2, <1>6, <1>9, FanoutAssumption DEF ListsOK
    <2>3. ASSUME more
          PROVE  n.target = Local.jid /\ \A j \in JIDs : n.used[j] # 0 => j = c.jid
      BY <1>1, <1>2, <1>5, <1>8, <2>3 DEF ListsOK, Listing
    <2>4. c.jid # None
      BY <1>2, FanoutAssumption
    <2> QED BY <1>5, <2>1, <2>2, <2>3, <2>4 DEF ListsOK, Listing
  <1>11. LoopOK(n)
    <2>1. c.at = 1 /\ Passed(c) = {} /\ Passed(n) = {}
      BY <1>1, <1>5 DEF LoopOK, Listing, Passed
    <2>2. Handled(n) = Handled(c)
      BY <1>5 DEF Handled
    <2>3. Len(n.devices) \in Nat
      BY <1>6
    <2> QED BY <1>1, <1>5, <2>1, <2>2, <2>3 DEF LoopOK
  <1>12. PhaseOK(n)
    BY <1>1, <1>2, <1>5, FanoutAssumption DEF PhaseOK, Listing
  <1>13. OrderOK(n)
    <2>1. c.jid # None
      BY <1>2, FanoutAssumption
    <2>2. \A x \in ToSet(c.devices) : x.jid = c.jid
      <3> SUFFICES ASSUME NEW x \in Named(c) PROVE x.jid = c.jid
        BY <1>1, <2>1 DEF ListsOK
      <3>1. x.jid \in JIDs /\ x.id \in ToSet(List(x.jid, c.used[x.jid]))
        BY DEF Named, Devices
      <3>2. c.used[x.jid] # 0
        BY <3>1 DEF List, ToSet
      <3> QED BY <1>1, <2>1, <3>1, <3>2 DEF ListsOK, Listing
    <2>3. \A x \in ToSet(devs) : x.jid = t
      BY <1>4
    <2>4. ContactFirst(n.devices, c.jid)
      <3> HIDE DEF t, new
      <3>1. n.devices = c.devices \o devs
        BY <1>5
      <3> QED BY <1>2, <1>4, <2>2, <2>3, <3>1, OrderedConcat
    <2> QED BY <1>1, <1>5, <2>1, <2>4 DEF OrderOK
  <1> QED BY <1>7, <1>10, <1>11, <1>12, <1>13 DEF CallOK, n

(* The loop leaves a device behind.                                         *)
LEMMA PassedGrows ==
    ASSUME NEW c \in Calls, NEW n \in Calls, n.devices = c.devices, n.at = c.at + 1
    PROVE  Passed(n) = Passed(c) \cup {Current(c)}
  <1>1. c.at \in Nat /\ c.at >= 1
    BY DEF Calls
  <1>2. 1..(n.at - 1) = 1..(c.at - 1) \cup {c.at}
    BY <1>1
  <1> QED BY <1>2 DEF Passed, Current

(* Keys are made in the order of the devices.                               *)
LEMMA OrderedAppend ==
    ASSUME NEW s \in Seq(Devices), NEW devs \in Seq(Devices), NEW j, NEW at \in 1..Len(devs),
           ContactFirst(devs, j), ContactFirst(s, j),
           ToSet(s) \subseteq {devs[i] : i \in 1..(at - 1)}
    PROVE  ContactFirst(Append(s, devs[at]), j)
  <1>1. /\ Len(s) \in Nat /\ DOMAIN s = 1..Len(s) /\ DOMAIN devs = 1..Len(devs)
        /\ Len(devs) \in Nat /\ DOMAIN Append(s, devs[at]) = 1..(Len(s) + 1)
    OBVIOUS
  <1> SUFFICES ASSUME NEW i \in 1..(Len(s) + 1), NEW k \in 1..(Len(s) + 1),
                      i < k, Append(s, devs[at])[k].jid = j
               PROVE  Append(s, devs[at])[i].jid = j
    BY <1>1 DEF ContactFirst
  <1>2. i \in 1..Len(s) /\ Append(s, devs[at])[i] = s[i]
    BY <1>1
  <1>3. CASE k = Len(s) + 1
    <2>1. devs[at].jid = j
      BY <1>1, <1>3
    <2>2. PICK x \in 1..(at - 1) : s[i] = devs[x]
      BY <1>1, <1>2 DEF ToSet
    <2>3. x \in DOMAIN devs /\ at \in DOMAIN devs /\ x < at
      BY <1>1
    <2> QED BY <1>2, <2>1, <2>2, <2>3 DEF ContactFirst
  <1>4. CASE k # Len(s) + 1
    <2>1. k \in 1..Len(s) /\ Append(s, devs[at])[k] = s[k]
      BY <1>1, <1>4
    <2> QED BY <1>1, <1>2, <2>1 DEF ContactFirst
  <1> QED BY <1>3, <1>4

(* A call that moved on in the loop, with what it has recorded.             *)
LEMMA LoopCall ==
    ASSUME NEW c, CallOK(c), c.pc \in {"loop", "encrypt"}, c.at <= Len(c.devices),
           NEW n \in Calls, n.pc = "loop", n.jid = c.jid, n.used = c.used,
           n.devices = c.devices, n.at = c.at + 1,
           n.keys = c.keys \/ n.keys = Append(c.keys, Current(c)),
           Handled(n) = Handled(c) \cup ({Current(c)} \ {Local})
    PROVE  CallOK(n)
  <1>1. c \in Calls /\ PhaseOK(c) /\ ListsOK(c) /\ LoopOK(c) /\ OrderOK(c)
    BY DEF CallOK
  <1>2. Passed(n) = Passed(c) \cup {Current(c)}
    BY <1>1, PassedGrows
  <1>3. Named(n) = Named(c)
    BY DEF Named
  <1>4. ListsOK(n)
    BY <1>1, <1>3 DEF ListsOK, Listing
  <1>5. Len(c.devices) \in Nat /\ c.at \in Nat
    BY <1>1 DEF Calls
  <1>6. LoopOK(n)
    BY <1>1, <1>2, <1>5 DEF LoopOK, Listing
  <1>7. PhaseOK(n)
    BY <1>1 DEF PhaseOK, Listing
  <1>8. OrderOK(n)
    <2>1. /\ c.jid # None /\ ContactFirst(c.devices, c.jid) /\ ContactFirst(c.keys, c.jid)
          /\ c.keys \in Seq(Devices) /\ c.devices \in Seq(Devices) /\ c.at \in 1..Len(c.devices)
      BY <1>1 DEF OrderOK, PhaseOK, Calls
    <2>2. CASE n.keys = Append(c.keys, Current(c))
      <3>1. ToSet(c.keys) \subseteq {c.devices[i] : i \in 1..(c.at - 1)}
        BY <1>1 DEF LoopOK, Handled, Passed
      <3> QED BY <2>1, <2>2, <3>1, OrderedAppend DEF OrderOK, Current
    <2> QED BY <1>1, <2>2 DEF OrderOK
  <1> QED BY <1>4, <1>6, <1>7, <1>8 DEF CallOK

(* The device the loop is at is one of the devices.                         *)
LEMMA CurrentType ==
    ASSUME NEW c, CallOK(c), c.pc = "encrypt" \/ c.at <= Len(c.devices)
    PROVE  Current(c) \in Devices /\ c.at <= Len(c.devices)
  BY DEF Current, CallOK, PhaseOK, Calls

-----------------------------------------------------------------------------
(* What each action does to the call it belongs to *)

(* Goroutine p's call goes on as n.                                         *)
GoesOn(p, n) ==
    /\ CallOK(n) /\ call' = [call EXCEPT ![p] = n]
    /\ n.pc = "set" => n.fetched <= server[n.target]

(* The parts of the invariant that an action of p needs.                    *)
LEMMA Parts ==
    ASSUME Inv, NEW p \in Procs
    PROVE  /\ CallOK(call[p]) /\ call[p] \in Calls
           /\ PhaseOK(call[p]) /\ ListsOK(call[p]) /\ LoopOK(call[p])
           /\ call \in [Procs -> Calls] /\ server \in Versions /\ devices \in Versions
           /\ call[p].pc \in Listing => call[p].target \in JIDs
           /\ call[p].jid \in JIDs => call[p].jid # None
  BY FanoutAssumption DEF Inv, TypeOK, CallsInv, CallOK, PhaseOK, Calls

(* A call begins.                                                           *)
LEMMA BeginGoesOn ==
    ASSUME Inv, NEW p \in Procs, NEW j \in JIDs,
           BeginSync(p, j) \/ \E b \in Bodies : BeginEncrypt(p, j, b)
    PROVE  \E n : GoesOn(p, n)
  <1>0. Idle \in Calls /\ j # None
    BY IdleCall, FanoutAssumption
  <1>1. CASE BeginSync(p, j)
    <2> DEFINE n == [Idle EXCEPT !.pc = "fetch", !.target = j]
    <2>1. n \in Calls
      BY <1>0 DEF Calls
    <2>2. CallOK(n)
      BY <1>0, <2>1, FreshCall DEF Idle, Listing
    <2>3. n.pc = "fetch" /\ call' = [call EXCEPT ![p] = n]
      BY <1>1 DEF BeginSync, Idle
    <2> QED BY <2>2, <2>3 DEF GoesOn
  <1>2. CASE \E b \in Bodies : BeginEncrypt(p, j, b)
    <2>1. PICK b \in Bodies : BeginEncrypt(p, j, b)
      BY <1>2
    <2> DEFINE n == [Idle EXCEPT !.pc = "load", !.jid = j, !.body = b, !.target = j]
    <2>2. n \in Calls
      BY <1>0 DEF Calls
    <2>3. CallOK(n)
      BY <1>0, <2>2, FreshCall DEF Idle, Listing
    <2>4. n.pc = "load" /\ call' = [call EXCEPT ![p] = n]
      BY <2>1 DEF BeginEncrypt, Idle
    <2> QED BY <2>3, <2>4 DEF GoesOn
  <1> QED BY <1>1, <1>2

(* A call that goes on with its lists, with all it has gathered.            *)
LEMMA SameLists ==
    ASSUME NEW c, CallOK(c), c.pc \in Listing, NEW n \in Calls,
           n.pc \in Listing \/ (n.pc = "loop" /\ c.jid # None),
           n.pc \in Listing => n.target = c.target,
           n.pc \in {"load", "reload"} => c.jid # None,
           n.jid = c.jid, n.used = c.used, n.devices = c.devices, n.at = c.at,
           n.keys = c.keys, n.errs = c.errs
    PROVE  CallOK(n)
  <1>1. c \in Calls /\ PhaseOK(c) /\ ListsOK(c) /\ LoopOK(c) /\ OrderOK(c)
    BY DEF CallOK
  <1>2. Named(n) = Named(c) /\ Passed(n) = Passed(c) /\ Handled(n) = Handled(c)
    BY DEF Named, Passed, Handled
  <1>3. ListsOK(n)
    BY <1>1, <1>2 DEF ListsOK
  <1>4. LoopOK(n)
    BY <1>1, <1>2 DEF LoopOK, Listing
  <1>5. PhaseOK(n) /\ OrderOK(n)
    BY <1>1 DEF PhaseOK, Listing, OrderOK
  <1> QED BY <1>3, <1>4, <1>5 DEF CallOK

(* The steps of recipientDevices.                                           *)
LEMMA ListGoesOn ==
    ASSUME Inv, NEW p \in Procs, ListStep(p)
    PROVE  \E n : GoesOn(p, n)
  <1> DEFINE c == call[p]
  <1>0. CallOK(c) /\ c \in Calls /\ call \in [Procs -> Calls] /\ PhaseOK(c) /\ ListsOK(c)
        /\ server \in Versions /\ devices \in Versions
    BY Parts
  <1>1. CASE c.pc \in {"load", "reload"} /\ call' = [call EXCEPT ![p] = Listed(c, devices[c.target])]
    <2>1. c.target \in JIDs /\ devices[c.target] \in Nat /\ devices[c.target] <= Len(Lists[c.target])
      <3>1. c.target \in JIDs
        BY <1>0, <1>1 DEF PhaseOK, Calls, Listing
      <3>2. devices[c.target] \in Nat /\ server[c.target] \in Nat /\ Len(Lists[c.target]) \in Nat
        BY <1>0, <3>1, FanoutAssumption DEF Versions
      <3> QED BY <3>1, <3>2 DEF Inv, VersionsInv
    <2> DEFINE n == Listed(c, devices[c.target])
    <2>2. CallOK(n)
      BY <1>0, <1>1, <2>1, ListedCall
    <2>3. n.pc \in {"load", "loop"}
      BY <1>0 DEF Listed, Calls
    <2> HIDE DEF n
    <2> QED BY <1>1, <2>2, <2>3 DEF GoesOn, n
  <1>2. CASE c.pc = "load" /\ call' = [call EXCEPT ![p] = [c EXCEPT !.pc = "fetch"]]
    <2> DEFINE n == [c EXCEPT !.pc = "fetch"]
    <2>1. n \in Calls
      BY <1>0 DEF Calls
    <2>2. CallOK(n)
      BY <1>0, <1>2, <2>1, SameLists DEF Calls, Listing
    <2>3. n.pc = "fetch"
      BY <1>0 DEF Calls
    <2> QED BY <1>2, <2>2, <2>3 DEF GoesOn
  <1>3. CASE LoadDevices(p)
    BY <1>1, <1>2, <1>3 DEF LoadDevices
  <1>4. CASE ReloadDevices(p)
    BY <1>1, <1>4 DEF ReloadDevices
  <1>5. CASE FetchDeviceList(p)
    <2>1. c.pc = "fetch" /\ c.target \in JIDs /\ server[c.target] \in Nat
      BY <1>0, <1>5 DEF FetchDeviceList, PhaseOK, Listing, Calls, Versions
    <2>2. PICK n : n = [c EXCEPT !.pc = "set", !.fetched = server[c.target]]
      OBVIOUS
    <2>3. n \in Calls /\ n.pc = "set" /\ n.fetched = server[c.target] /\ n.target = c.target
      BY <1>0, <2>1, <2>2 DEF Calls
    <2>4. CallOK(n)
      BY <1>0, <2>1, <2>2, <2>3, SameLists DEF Calls, Listing
    <2>5. call' = [call EXCEPT ![p] = n]
      BY <1>5, <2>2, Zenon DEF FetchDeviceList
    <2>6. n.fetched <= server[n.target]
      BY <2>1, <2>3
    <2> QED BY <2>4, <2>5, <2>6 DEF GoesOn
  <1>6. CASE SetDevices(p)
    <2>1. CASE c.jid = None
      <3>1. call' = [call EXCEPT ![p] = Idle]
        BY <1>6, <2>1 DEF SetDevices
      <3>2. Idle.pc = "idle"
        BY DEF Idle
      <3> QED BY <3>1, <3>2, IdleCall DEF GoesOn
    <2>2. CASE c.jid # None
      <3> DEFINE n == [c EXCEPT !.pc = "reload", !.fetched = 0]
      <3>1. n \in Calls /\ n.pc = "reload"
        BY <1>0 DEF Calls
      <3>2. CallOK(n)
        BY <1>0, <1>6, <2>2, <3>1, SameLists DEF SetDevices, Calls, Listing
      <3> QED BY <1>6, <2>2, <3>1, <3>2 DEF SetDevices, GoesOn
    <2> QED BY <2>1, <2>2
  <1>7. CASE FetchListFails(p)
    <2>1. CASE ~ (c.jid # None /\ c.target # c.jid)
      <3>1. call' = [call EXCEPT ![p] = Idle]
        BY <1>7, <2>1 DEF FetchListFails
      <3>2. Idle.pc = "idle"
        BY DEF Idle
      <3> QED BY <3>1, <3>2, IdleCall DEF GoesOn
    <2>2. CASE c.jid # None /\ c.target # c.jid
      <3> DEFINE n == [c EXCEPT !.pc = "loop", !.target = None, !.fetched = 0]
      <3>1. n \in Calls /\ n.pc = "loop"
        BY <1>0 DEF Calls
      <3>2. CallOK(n)
        BY <1>0, <1>7, <2>2, <3>1, SameLists DEF FetchListFails, Calls, Listing
      <3> QED BY <1>7, <2>2, <3>1, <3>2 DEF FetchListFails, GoesOn
    <2> QED BY <2>1, <2>2
  <1> QED BY <1>3, <1>4, <1>5, <1>6, <1>7 DEF ListStep

(* A device gets its key.                                                   *)
LEMMA KeyGoesOn ==
    ASSUME NEW c, CallOK(c), c.pc = "encrypt", NEW n,
           n = [c EXCEPT !.pc = "loop", !.at = c.at + 1, !.keys = Append(c.keys, Current(c))]
    PROVE  CallOK(n) /\ n.pc = "loop"
  <1>1. c \in Calls /\ LoopOK(c) /\ Current(c) \in Devices /\ c.at <= Len(c.devices)
    BY CurrentType DEF CallOK
  <1>2. Append(c.keys, Current(c)) \in Seq(Devices)
        /\ ToSet(Append(c.keys, Current(c))) = ToSet(c.keys) \cup {Current(c)}
    BY <1>1, AppendSet DEF Calls
  <1>3. PICK keys : keys = Append(c.keys, Current(c))
    OBVIOUS
  <1>4. n \in Calls /\ n.pc = "loop" /\ n.jid = c.jid /\ n.used = c.used
        /\ n.devices = c.devices /\ n.at = c.at + 1 /\ n.errs = c.errs /\ n.keys = keys
    <2>1. c.at + 1 \in Nat \ {0} /\ keys \in Seq(Devices)
      BY <1>1, <1>2, <1>3 DEF Calls
    <2>2. PICK at \in Nat \ {0} : at = c.at + 1
      BY <2>1
    <2>3. n = [c EXCEPT !.pc = "loop", !.at = at, !.keys = keys]
      BY <1>3, <2>2
    <2>4. n \in Calls /\ n.pc = "loop" /\ n.jid = c.jid /\ n.used = c.used
          /\ n.devices = c.devices /\ n.at = at /\ n.errs = c.errs /\ n.keys = keys
      BY <1>1, <2>1, <2>3 DEF Calls
    <2> QED BY <2>2, <2>4
  <1>5. Current(c) # Local
    BY <1>1 DEF LoopOK
  <1>6. Handled(n) = Handled(c) \cup ({Current(c)} \ {Local})
    BY <1>2, <1>3, <1>4, <1>5 DEF Handled
  <1> QED BY <1>1, <1>3, <1>4, <1>6, LoopCall

(* A device gets its error.                                                 *)
LEMMA ErrorGoesOn ==
    ASSUME NEW c, CallOK(c), c.pc = "encrypt", NEW e \in Errors, NEW n,
           n = [c EXCEPT !.pc = "loop", !.at = c.at + 1,
                         !.errs = Append(c.errs, [device |-> Current(c), err |-> e])]
    PROVE  CallOK(n) /\ n.pc = "loop"
  <1>1. c \in Calls /\ LoopOK(c) /\ Current(c) \in Devices /\ c.at <= Len(c.devices)
    BY CurrentType DEF CallOK
  <1>2. PICK x : x = [device |-> Current(c), err |-> e]
    OBVIOUS
  <1>3. x \in DeviceErrors /\ x.device = Current(c)
    BY <1>1, <1>2 DEF DeviceErrors
  <1>4. Append(c.errs, x) \in Seq(DeviceErrors) /\ ToSet(Append(c.errs, x)) = ToSet(c.errs) \cup {x}
    BY <1>1, <1>3, AppendSet DEF Calls
  <1>5. PICK errs : errs = Append(c.errs, x)
    OBVIOUS
  <1>6. n = [c EXCEPT !.pc = "loop", !.at = c.at + 1, !.errs = errs]
    BY <1>2, <1>5
  <1>7. n \in Calls /\ n.pc = "loop" /\ n.jid = c.jid /\ n.used = c.used
        /\ n.devices = c.devices /\ n.at = c.at + 1 /\ n.keys = c.keys /\ n.errs = errs
    <2>1. c.at + 1 \in Nat \ {0} /\ errs \in Seq(DeviceErrors)
      BY <1>1, <1>4, <1>5 DEF Calls
    <2>2. PICK at \in Nat \ {0} : at = c.at + 1
      BY <2>1
    <2>3. n = [c EXCEPT !.pc = "loop", !.at = at, !.errs = errs]
      BY <1>6, <2>2
    <2>4. n \in Calls /\ n.pc = "loop" /\ n.jid = c.jid /\ n.used = c.used
          /\ n.devices = c.devices /\ n.at = at /\ n.keys = c.keys /\ n.errs = errs
      BY <1>1, <2>1, <2>3 DEF Calls
    <2> QED BY <2>2, <2>4
  <1>8. Current(c) # Local
    BY <1>1 DEF LoopOK
  <1>9. {y.device : y \in ToSet(n.errs)} = {y.device : y \in ToSet(c.errs)} \cup {Current(c)}
    BY <1>3, <1>4, <1>5, <1>7
  <1>10. Handled(n) = Handled(c) \cup ({Current(c)} \ {Local})
    BY <1>7, <1>8, <1>9 DEF Handled
  <1> QED BY <1>1, <1>7, <1>10, LoopCall

(* What checkTrust may say.                                                 *)
LEMMA WhyNotType ==
    ASSUME Inv, NEW d \in Devices
    PROVE  WhyNot(d) \subseteq Errors
  <1>1. trust[d] \in TrustStates
    BY DEF Inv, TypeOK
  <1> QED BY <1>1 DEF WhyNot, Errors, TrustStates

(* The steps of encrypt's loop.                                             *)
LEMMA LoopGoesOn ==
    ASSUME Inv, NEW p \in Procs, LockDevice(p) \/ LoopStep(p)
    PROVE  \E n : GoesOn(p, n)
  <1> DEFINE c == call[p]
  <1>0. CallOK(c) /\ c \in Calls /\ call \in [Procs -> Calls] /\ LoopOK(c)
    BY Parts
  <1>1. CASE SkipLocal(p)
    <2>1. c.pc = "loop" /\ c.at <= Len(c.devices) /\ Current(c) = Local
      BY <1>1 DEF SkipLocal
    <2>2. PICK n : n = [c EXCEPT !.at = c.at + 1]
      OBVIOUS
    <2>3. n \in Calls /\ n.pc = "loop" /\ n.jid = c.jid /\ n.used = c.used
          /\ n.devices = c.devices /\ n.at = c.at + 1 /\ n.errs = c.errs /\ n.keys = c.keys
      <3>1. c.at + 1 \in Nat \ {0}
        BY <1>0 DEF Calls
      <3>2. PICK at \in Nat \ {0} : at = c.at + 1
        BY <3>1
      <3>3. n = [c EXCEPT !.at = at]
        BY <2>2, <3>2
      <3>4. n \in Calls /\ n.pc = c.pc /\ n.jid = c.jid /\ n.used = c.used
            /\ n.devices = c.devices /\ n.at = at /\ n.errs = c.errs /\ n.keys = c.keys
        BY <1>0, <3>3 DEF Calls
      <3> QED BY <2>1, <3>2, <3>4
    <2>4. Handled(n) = Handled(c) \cup ({Current(c)} \ {Local})
      BY <2>1, <2>3 DEF Handled
    <2>5. call' = [call EXCEPT ![p] = n]
      BY <1>1, <2>2, Zenon DEF SkipLocal
    <2>6. CallOK(n)
      BY <1>0, <2>1, <2>3, <2>4, LoopCall
    <2> QED BY <2>3, <2>5, <2>6 DEF GoesOn
  <1>2. CASE LockDevice(p)
    <2>1. c.pc = "loop" /\ c.at <= Len(c.devices) /\ Current(c) # Local
      BY <1>2 DEF LockDevice
    <2>2. PICK n : n = [c EXCEPT !.pc = "encrypt"]
      OBVIOUS
    <2>3. n \in Calls /\ n.pc = "encrypt" /\ n.jid = c.jid /\ n.used = c.used
          /\ n.devices = c.devices /\ n.at = c.at /\ n.errs = c.errs /\ n.keys = c.keys
      BY <1>0, <2>2 DEF Calls
    <2>4. Named(n) = Named(c) /\ Passed(n) = Passed(c) /\ Handled(n) = Handled(c)
          /\ Current(n) = Current(c)
      BY <2>3 DEF Named, Passed, Handled, Current
    <2>5. ListsOK(n)
      BY <1>0, <2>1, <2>3, <2>4 DEF CallOK, ListsOK, Listing
    <2>6. LoopOK(n)
      BY <1>0, <2>1, <2>3, <2>4 DEF LoopOK, Listing
    <2>7. PhaseOK(n) /\ OrderOK(n)
      BY <1>0, <2>1, <2>3 DEF CallOK, PhaseOK, Listing, OrderOK
    <2>8. call' = [call EXCEPT ![p] = n]
      BY <1>2, <2>2, Zenon DEF LockDevice
    <2> QED BY <2>3, <2>5, <2>6, <2>7, <2>8 DEF GoesOn, CallOK
  <1>3. CASE KeyForDevice(p)
    <2>1. c.pc = "encrypt"
      BY <1>3 DEF KeyForDevice
    <2>2. PICK k : k = [c EXCEPT !.pc = "loop", !.at = c.at + 1,
                                 !.keys = Append(c.keys, Current(c))]
      OBVIOUS
    <2>3. PICK x : x = [c EXCEPT !.pc = "loop", !.at = c.at + 1,
                                 !.errs = Append(c.errs, [device |-> Current(c), err |-> "session"])]
      OBVIOUS
    <2>4. CallOK(k) /\ k.pc = "loop"
      BY <1>0, <2>1, <2>2, KeyGoesOn
    <2>5. CallOK(x) /\ x.pc = "loop"
      BY <1>0, <2>1, <2>3, ErrorGoesOn DEF Errors
    <2>6. call' = [call EXCEPT ![p] = k] \/ call' = [call EXCEPT ![p] = x]
      BY <1>3, <2>2, <2>3, Zenon DEF KeyForDevice
    <2> QED BY <2>4, <2>5, <2>6 DEF GoesOn
  <1>4. CASE ErrorForDevice(p)
    <2>1. c.pc = "encrypt" /\ Current(c) \in Devices
      BY <1>0, <1>4, CurrentType DEF ErrorForDevice
    <2>2. PICK e \in WhyNot(Current(c)) :
              call' = [call EXCEPT ![p].pc = "loop", ![p].at = @ + 1,
                                   ![p].errs = Append(@, [device |-> Current(c), err |-> e])]
      BY <1>4 DEF ErrorForDevice
    <2>3. PICK x : x = [c EXCEPT !.pc = "loop", !.at = c.at + 1,
                                 !.errs = Append(c.errs, [device |-> Current(c), err |-> e])]
      OBVIOUS
    <2>4. e \in Errors
      BY <2>1, <2>2, WhyNotType
    <2>5. CallOK(x) /\ x.pc = "loop"
      BY <1>0, <2>1, <2>3, <2>4, ErrorGoesOn
    <2>6. call' = [call EXCEPT ![p] = x]
      BY <2>2, <2>3, Zenon
    <2> QED BY <2>5, <2>6 DEF GoesOn
  <1>5. CASE ReturnMessage(p)
    <2>1. call' = [call EXCEPT ![p] = Idle]
      BY <1>5 DEF ReturnMessage
    <2>2. Idle.pc = "idle"
      BY DEF Idle
    <2> QED BY <2>1, <2>2, IdleCall DEF GoesOn
  <1> QED BY <1>1, <1>2, <1>3, <1>4, <1>5 DEF LoopStep

-----------------------------------------------------------------------------
(* Every step keeps the invariant *)

(* The calls stay in order, and a version in hand has been published.       *)
LEMMA CallsStep ==
    ASSUME Inv, [Next]_vars
    PROVE  /\ call' \in [Procs -> Calls] /\ CallsInv'
           /\ \A q \in Procs : call'[q].pc = "set" => call'[q].fetched <= server[call'[q].target]
  <1>0. call \in [Procs -> Calls] /\ CallsInv
        /\ \A q \in Procs : call[q].pc = "set" => call[q].fetched <= server[call[q].target]
    BY DEF Inv, TypeOK, VersionsInv
  <1>1. CASE call' = call
    BY <1>0, <1>1 DEF CallsInv
  <1>2. ASSUME NEW p \in Procs, NEW n, GoesOn(p, n)
        PROVE  /\ call' \in [Procs -> Calls] /\ CallsInv'
               /\ \A q \in Procs : call'[q].pc = "set" => call'[q].fetched <= server[call'[q].target]
    <2>1. n \in Calls /\ CallOK(n) /\ call' = [call EXCEPT ![p] = n]
          /\ (n.pc = "set" => n.fetched <= server[n.target])
      BY <1>2 DEF GoesOn, CallOK
    <2>2. call' \in [Procs -> Calls] /\ \A q \in Procs : call'[q] = IF q = p THEN n ELSE call[q]
      BY <1>0, <2>1
    <2>3. \A q \in Procs : CallOK(call'[q])
      BY <1>0, <2>1, <2>2 DEF CallsInv
    <2>4. CallsInv'
      BY <2>3 DEF CallsInv
    <2>5. ASSUME NEW q \in Procs, call'[q].pc = "set"
          PROVE  call'[q].fetched <= server[call'[q].target]
      BY <1>0, <2>1, <2>2, <2>5
    <2> QED BY <2>2, <2>4, <2>5
  <1>3. ASSUME NEW p \in Procs, ListStep(p) \/ LockDevice(p) \/ LoopStep(p)
        PROVE  \E n : GoesOn(p, n)
    BY <1>3, ListGoesOn, LoopGoesOn
  <1>4. ASSUME NEW p \in Procs, NEW j \in JIDs,
               BeginSync(p, j) \/ \E b \in Bodies : BeginEncrypt(p, j, b)
        PROVE  \E n : GoesOn(p, n)
    BY <1>4, BeginGoesOn
  <1>5. ASSUME NEW j \in JIDs, PublishDeviceList(j) PROVE call' = call
    BY <1>5 DEF PublishDeviceList
  <1>6. CASE UNCHANGED vars
    BY <1>1, <1>6 DEF vars
  <1> QED BY <1>1, <1>2, <1>3, <1>4, <1>5, <1>6 DEF Next

(* The Store, the server and the locks keep their types, and the Store has  *)
(* no version that was not published.                                       *)
LEMMA StoreStep ==
    ASSUME Inv, [Next]_vars
    PROVE  /\ server' \in Versions /\ devices' \in Versions
           /\ trust' \in [Devices -> TrustStates] /\ lock' \in [Devices -> Procs \cup {None}]
           /\ \A j \in JIDs : /\ server[j] <= server'[j]
                              /\ devices'[j] <= server'[j] /\ server'[j] <= Len(Lists[j])
  <1>0. /\ server \in Versions /\ devices \in Versions
        /\ trust \in [Devices -> TrustStates] /\ lock \in [Devices -> Procs \cup {None}]
        /\ \A j \in JIDs : devices[j] <= server[j] /\ server[j] <= Len(Lists[j])
        /\ \A j \in JIDs : server[j] \in Nat /\ devices[j] \in Nat /\ Len(Lists[j]) \in Nat
    BY FanoutAssumption DEF Inv, TypeOK, VersionsInv, Versions
  <1>1. ASSUME UNCHANGED <<server, devices>>
        PROVE  /\ server' \in Versions /\ devices' \in Versions
               /\ \A j \in JIDs : /\ server[j] <= server'[j]
                                  /\ devices'[j] <= server'[j] /\ server'[j] <= Len(Lists[j])
    BY <1>0, <1>1
  <1>2. CASE UNCHANGED <<server, devices, trust, lock>>
    BY <1>0, <1>1, <1>2
  <1>3. ASSUME NEW p \in Procs, SetDevices(p)
        PROVE  /\ devices' \in Versions /\ \A j \in JIDs : devices'[j] <= server[j]
               /\ UNCHANGED <<server, trust, lock>>
    <2>1. call[p].pc = "set" /\ call[p].target \in JIDs /\ call[p].fetched \in Nat
      BY <1>3, Parts DEF SetDevices, Listing, Calls
    <2>2. call[p].fetched <= server[call[p].target]
      BY <2>1 DEF Inv, VersionsInv
    <2>3. devices' = [devices EXCEPT ![call[p].target] = call[p].fetched]
          /\ UNCHANGED <<server, trust, lock>>
      BY <1>3 DEF SetDevices
    <2> QED BY <1>0, <2>1, <2>2, <2>3 DEF Versions
  <1>4. ASSUME NEW p \in Procs, LockDevice(p) \/ KeyForDevice(p) \/ ErrorForDevice(p)
        PROVE  /\ trust' \in [Devices -> TrustStates] /\ lock' \in [Devices -> Procs \cup {None}]
               /\ UNCHANGED <<server, devices>>
    <2>1. Current(call[p]) \in Devices
      BY <1>4, Parts, CurrentType DEF LockDevice, KeyForDevice, ErrorForDevice
    <2>2. CASE LockDevice(p)
      BY <1>0, <2>1, <2>2 DEF LockDevice
    <2>3. CASE KeyForDevice(p)
      BY <1>0, <2>1, <2>3 DEF KeyForDevice, TrustStates
    <2>4. CASE ErrorForDevice(p)
      BY <1>0, <2>1, <2>4 DEF ErrorForDevice
    <2> QED BY <1>4, <2>2, <2>3, <2>4
  <1>5. ASSUME NEW j \in JIDs, PublishDeviceList(j)
        PROVE  /\ server' \in Versions
               /\ \A k \in JIDs : /\ server[k] <= server'[k]
                                  /\ devices[k] <= server'[k] /\ server'[k] <= Len(Lists[k])
               /\ UNCHANGED <<devices, trust, lock>>
    BY <1>0, <1>5 DEF PublishDeviceList, Versions
  <1>6. ASSUME NEW p \in Procs, NEW j \in JIDs,
               BeginSync(p, j) \/ \E b \in Bodies : BeginEncrypt(p, j, b)
        PROVE  UNCHANGED <<server, devices, trust, lock>>
    BY <1>6 DEF BeginSync, BeginEncrypt
  <1>7. ASSUME NEW p \in Procs, LoadDevices(p) \/ FetchDeviceList(p) \/ FetchListFails(p)
                               \/ ReloadDevices(p) \/ SkipLocal(p) \/ ReturnMessage(p)
        PROVE  UNCHANGED <<server, devices, trust, lock>>
    BY <1>7 DEF LoadDevices, FetchDeviceList, FetchListFails, ReloadDevices, SkipLocal, ReturnMessage
  <1>8. CASE UNCHANGED vars
    BY <1>2, <1>8 DEF vars
  <1>9. ASSUME NEW j \in JIDs, PublishDeviceList(j)
        PROVE  /\ server' \in Versions /\ devices' \in Versions
               /\ trust' \in [Devices -> TrustStates] /\ lock' \in [Devices -> Procs \cup {None}]
               /\ \A k \in JIDs : /\ server[k] <= server'[k]
                                  /\ devices'[k] <= server'[k] /\ server'[k] <= Len(Lists[k])
    BY <1>0, <1>5, <1>9
  <1>10. ASSUME NEW p \in Procs, ListStep(p) \/ LockDevice(p) \/ LoopStep(p)
         PROVE  /\ server' \in Versions /\ devices' \in Versions
                /\ trust' \in [Devices -> TrustStates] /\ lock' \in [Devices -> Procs \cup {None}]
                /\ \A k \in JIDs : /\ server[k] <= server'[k]
                                   /\ devices'[k] <= server'[k] /\ server'[k] <= Len(Lists[k])
    <2>1. CASE SetDevices(p)
      BY <1>0, <1>3, <2>1
    <2>2. CASE LockDevice(p) \/ KeyForDevice(p) \/ ErrorForDevice(p)
      BY <1>1, <1>4, <2>2
    <2> QED BY <1>2, <1>7, <1>10, <2>1, <2>2 DEF ListStep, LoopStep
  <1> QED BY <1>2, <1>6, <1>8, <1>9, <1>10 DEF Next

(* What a result must be: typed, accounting for every device of the lists   *)
(* that were used, and the contact's keys first.                            *)
ResultOK(r) ==
    /\ r \in Returns
    /\ ContactFirst(r.keys, r.jid)
    /\ ToSet(r.keys) \cup {e.device : e \in ToSet(r.errs)} = Recipients(r)
    /\ (r.err = None) <=> (\E d \in Recipients(r) : d \in ToSet(r.keys))

(* The end of the loop accounts for every device.                           *)
LEMMA ReturnResult ==
    ASSUME NEW c, CallOK(c), c.pc = "loop", c.at = Len(c.devices) + 1, NEW r,
           r = [jid |-> c.jid, body |-> c.body, used |-> c.used, keys |-> c.keys, errs |-> c.errs,
                err |-> IF c.keys = <<>> THEN "ErrNoRecipients" ELSE None]
    PROVE  ResultOK(r)
  <1>1. c \in Calls /\ PhaseOK(c) /\ ListsOK(c) /\ LoopOK(c) /\ OrderOK(c)
    BY DEF CallOK
  <1>2. c.jid \in JIDs /\ c.jid # None
    BY <1>1 DEF PhaseOK, Calls
  <1>3. r.jid = c.jid /\ r.used = c.used /\ r.keys = c.keys /\ r.errs = c.errs
        /\ r.err = (IF c.keys = <<>> THEN "ErrNoRecipients" ELSE None)
    OBVIOUS
  <1>4. r \in Returns
    BY <1>1, <1>2 DEF Returns, Calls
  <1>5. Passed(c) = ToSet(c.devices)
    BY <1>1 DEF Passed, ToSet, Calls
  <1>6. Recipients(r) = Named(c) \ {Local}
    BY <1>3 DEF Recipients, Named
  <1>7. Handled(c) = Recipients(r)
    BY <1>1, <1>2, <1>5, <1>6 DEF ListsOK, LoopOK
  <1>8. ToSet(r.keys) \cup {e.device : e \in ToSet(r.errs)} = Recipients(r)
    BY <1>3, <1>7 DEF Handled
  <1>9. "ErrNoRecipients" # None
    BY FanoutAssumption
  <1>10. (c.keys # <<>>) <=> (\E d : d \in ToSet(c.keys))
    BY <1>1 DEF ToSet, Calls
  <1>11. ToSet(r.keys) \subseteq Recipients(r)
    BY <1>8
  <1>12. (r.err = None) <=> (\E d \in Recipients(r) : d \in ToSet(r.keys))
    BY <1>3, <1>9, <1>10, <1>11
  <1>13. ContactFirst(r.keys, r.jid)
    BY <1>1, <1>2, <1>3 DEF OrderOK
  <1> QED BY <1>4, <1>8, <1>12, <1>13 DEF ResultOK

(* A step returns at most one result, and that one accounts for its devices.*)
LEMMA ReturnStep ==
    ASSUME Inv, [Next]_vars, NEW r \in returned'
    PROVE  ResultOK(r)
  <1>1. CASE r \in returned
    BY <1>1 DEF Inv, TypeOK, ReturnedInv, Accounted, ResultOK
  <1>2. ASSUME NEW p \in Procs, ReturnMessage(p), r \notin returned PROVE ResultOK(r)
    <2>1. PICK c : c = call[p]
      OBVIOUS
    <2>2. CallOK(c)
      BY <2>1, Parts
    <2>3. c.pc = "loop" /\ c.at = Len(c.devices) + 1
          /\ r = [jid |-> c.jid, body |-> c.body, used |-> c.used, keys |-> c.keys, errs |-> c.errs,
                  err |-> IF c.keys = <<>> THEN "ErrNoRecipients" ELSE None]
      BY <1>2, <2>1, Zenon DEF ReturnMessage
    <2> QED BY <2>2, <2>3, ReturnResult
  <1>3. CASE returned' = returned
    BY <1>1, <1>3
  <1>4. ASSUME NEW p \in Procs,
               ListStep(p) \/ LockDevice(p) \/ SkipLocal(p) \/ KeyForDevice(p) \/ ErrorForDevice(p)
        PROVE  returned' = returned
    BY <1>4 DEF ListStep, LoadDevices, FetchDeviceList, FetchListFails, SetDevices, ReloadDevices,
                LockDevice, SkipLocal, KeyForDevice, ErrorForDevice
  <1>5. ASSUME NEW p \in Procs, NEW j \in JIDs,
               BeginSync(p, j) \/ \E b \in Bodies : BeginEncrypt(p, j, b)
        PROVE  returned' = returned
    BY <1>5 DEF BeginSync, BeginEncrypt
  <1>6. ASSUME NEW j \in JIDs, PublishDeviceList(j) PROVE returned' = returned
    BY <1>6 DEF PublishDeviceList
  <1>7. CASE UNCHANGED vars
    BY <1>3, <1>7 DEF vars
  <1> QED BY <1>1, <1>2, <1>3, <1>4, <1>5, <1>6, <1>7 DEF Next, LoopStep

(* Every step keeps the invariant.                                          *)
LEMMA InvStep ==
    ASSUME Inv, [Next]_vars
    PROVE  Inv'
  <1>1. call' \in [Procs -> Calls] /\ CallsInv'
        /\ \A q \in Procs : call'[q].pc = "set" => call'[q].fetched <= server[call'[q].target]
    BY CallsStep
  <1>2. /\ server' \in Versions /\ devices' \in Versions
        /\ trust' \in [Devices -> TrustStates] /\ lock' \in [Devices -> Procs \cup {None}]
        /\ \A j \in JIDs : /\ server[j] <= server'[j]
                           /\ devices'[j] <= server'[j] /\ server'[j] <= Len(Lists[j])
    BY StoreStep
  <1>3. \A r \in returned' : ResultOK(r)
    BY ReturnStep
  <1>4. \A p \in Procs : PhaseOK(call'[p])
    BY <1>1 DEF CallsInv, CallOK
  <1>5. TypeOK'
    <2>1. returned' \subseteq Returns
      BY <1>3 DEF ResultOK
    <2> QED BY <1>1, <1>2, <1>4, <2>1 DEF TypeOK, PhaseOK, Listing
  <1>6. VersionsInv'
    <2>1. ASSUME NEW q \in Procs, call'[q].pc = "set"
          PROVE  call'[q].fetched <= server'[call'[q].target]
      <3>1. call'[q].target \in JIDs /\ call'[q].fetched \in Nat
        BY <1>1, <1>4, <2>1 DEF PhaseOK, Listing, Calls
      <3>2. server[call'[q].target] \in Nat /\ server'[call'[q].target] \in Nat
        BY <1>2, <3>1 DEF Versions, Inv, TypeOK
      <3> QED BY <1>1, <1>2, <2>1, <3>1, <3>2
    <2> QED BY <1>2, <2>1 DEF VersionsInv
  <1>7. ReturnedInv' /\ Accounted'
    BY <1>3 DEF ReturnedInv, Accounted, ResultOK
  <1> QED BY <1>1, <1>5, <1>6, <1>7 DEF Inv

(* The invariant holds at the start.                                        *)
LEMMA InvInit ==
    ASSUME Init
    PROVE  Inv
  <1>1. call = [p \in Procs |-> Idle] /\ \A p \in Procs : call[p] = Idle
    BY DEF Init
  <1>2. CallsInv /\ call \in [Procs -> Calls]
    BY <1>1, IdleCall DEF CallsInv
  <1>3. Idle.pc = "idle"
    BY DEF Idle
  <1>4. \A p \in Procs : PhaseOK(call[p])
    BY <1>2 DEF CallsInv, CallOK
  <1>5. TypeOK
    <2>1. /\ server \in Versions /\ devices \in Versions /\ trust \in [Devices -> TrustStates]
          /\ lock \in [Devices -> Procs \cup {None}] /\ returned \in SUBSET Returns
      BY FanoutAssumption DEF Init
    <2> QED BY <1>2, <1>4, <2>1 DEF TypeOK, PhaseOK, Listing
  <1>6. VersionsInv
    BY <1>1, <1>3, FanoutAssumption DEF Init, VersionsInv
  <1>7. ReturnedInv /\ Accounted
    BY DEF Init, ReturnedInv, Accounted
  <1> QED BY <1>2, <1>5, <1>6, <1>7 DEF Inv

-----------------------------------------------------------------------------
(* Theorems *)

(* The inductive invariant: a call has gathered the devices of the lists it *)
(* used, the contact's first, its loop has a result for each device behind  *)
(* it, and no version is in the Store or in a call's hands that was not     *)
(* published.                                                               *)
THEOREM Invariant == Spec => []Inv
  <1>1. Init => Inv
    BY InvInit
  <1>2. Inv /\ [Next]_vars => Inv'
    BY InvStep
  <1> QED BY <1>1, <1>2, PTL DEF Spec

(* Lists, locks, trust decisions, calls and results keep their types.       *)
THEOREM TypeCorrect == Spec => []TypeOK
  <1>1. Inv => TypeOK
    BY DEF Inv
  <1> QED BY <1>1, Invariant, PTL

(* EncryptMessage: every device of the lists it used, and no other, comes   *)
(* back with a key or an error, for any number of concurrent calls.         *)
THEOREM AccountedCorrect == Spec => []Accounted
  <1>1. Inv => Accounted
    BY DEF Inv
  <1> QED BY <1>1, Invariant, PTL

-----------------------------------------------------------------------------
(* The key in the envelope *)

(* The first RecipientKey with d's ID is d's own, if d is a device of the   *)
(* contact or no device of the contact has that ID in the envelope.         *)
LEMMA OwnKey ==
    ASSUME Inv, NEW m \in returned, NEW d \in ToSet(m.keys),
           d.jid = m.jid \/ [jid |-> m.jid, id |-> d.id] \notin ToSet(m.keys)
    PROVE  DecryptMessage(m, d) = m.body
  <1> DEFINE I == {i \in 1..Len(m.keys) : m.keys[i].id = d.id}
  <1>1. /\ m.keys \in Seq(Devices) /\ DOMAIN m.keys = 1..Len(m.keys) /\ Len(m.keys) \in Nat
        /\ ContactFirst(m.keys, m.jid)
    BY DEF Inv, TypeOK, Returns, ReturnedInv
  <1>2. ToSet(m.keys) \subseteq Recipients(m)
    BY DEF Inv, Accounted
  <1>3. \A i \in 1..Len(m.keys) : m.keys[i] \in ToSet(m.keys) /\ m.keys[i] \in Devices
                                  /\ m.keys[i].jid \in {m.jid, Local.jid}
    BY <1>1, <1>2 DEF ToSet, Recipients
  <1>4. PICK k \in 1..Len(m.keys) : m.keys[k] = d
    BY <1>1 DEF ToSet
  <1>5. k \in I /\ I \in SUBSET Nat /\ PickKey(m, d) = IF I # {} THEN Min(I) ELSE 0
    BY <1>4 DEF PickKey, SelectInSeq
  <1>6. Min(I) \in I /\ Min(I) <= k
    <2> HIDE DEF I
    <2> QED BY <1>5, Smallest
  <1>7. PICK i \in 1..Len(m.keys) : i = Min(I) /\ m.keys[i].id = d.id /\ i <= k /\ PickKey(m, d) = i
    BY <1>5, <1>6
  <1>8. m.keys[i].jid = d.jid
    <2>1. CASE d.jid = m.jid
      <3>1. CASE i = k
        BY <1>4, <3>1
      <3>2. CASE i # k
        <4>1. i < k
          BY <1>1, <1>7, <3>2
        <4> QED BY <1>1, <1>4, <2>1, <4>1 DEF ContactFirst
      <3> QED BY <3>1, <3>2
    <2>2. CASE d.jid # m.jid
      <3>1. m.keys[i].jid # m.jid
        <4> SUFFICES ASSUME m.keys[i].jid = m.jid PROVE FALSE
          OBVIOUS
        <4>1. m.keys[i] = [jid |-> m.jid, id |-> d.id]
          BY <1>3, <1>7 DEF Devices
        <4> QED BY <1>3, <2>2, <4>1
      <3> QED BY <1>3, <1>4, <2>2, <3>1
    <2> QED BY <2>1, <2>2
  <1>9. m.keys[i] = d
    <2>1. PICK x \in Devices : x = m.keys[i] /\ x.jid = d.jid /\ x.id = d.id
      BY <1>3, <1>7, <1>8
    <2>2. d \in Devices
      BY <1>3, <1>4
    <2>3. x = d
      BY <2>1, <2>2 DEF Devices
    <2> QED BY <2>1, <2>3
  <1> QED BY <1>7, <1>9 DEF DecryptMessage

(* Whatever device IDs the two accounts have in common, and in whatever     *)
(* order lists come and devices fail: the contact's devices decrypt with    *)
(* the key made for them, and so does an own device unless a device of the  *)
(* contact with its ID has a key in the same envelope.                      *)
THEOREM ContactFindsItsKeyCorrect == Spec => []ContactFindsItsKey
  <1>1. Inv => ContactFindsItsKey
    BY OwnKey DEF ContactFindsItsKey
  <1> QED BY <1>1, Invariant, PTL

-----------------------------------------------------------------------------
(* Device locks *)

(* A device lock is held by a call that is at that device.                  *)
Holds(q, d) == call[q].pc = "encrypt" /\ Current(call[q]) = d

LockInv == \A d \in Devices : lock[d] # None => Holds(lock[d], d)

(* A step by a call that is not inside a critical section.                  *)
LEMMA LocksKept ==
    ASSUME TypeOK, LockInv, UNCHANGED lock, \A q \in Procs : call[q].pc = "encrypt" => call'[q] = call[q]
    PROVE  LockInv'
  <1> SUFFICES ASSUME NEW d \in Devices, lock[d] # None PROVE Holds(lock[d], d)'
    BY DEF LockInv
  <1>1. PICK q \in Procs : q = lock[d]
    BY DEF TypeOK
  <1>2. Holds(q, d)
    BY <1>1 DEF LockInv
  <1>3. Holds(q, d)'
    BY <1>2 DEF Holds
  <1> QED BY <1>1, <1>3 DEF Holds

(* The loop gets to a device and takes its lock.                            *)
LEMMA LockTaken ==
    ASSUME Inv, LockInv, NEW p \in Procs, LockDevice(p)
    PROVE  LockInv'
  <1>1. PICK x, n : x = Current(call[p]) /\ n = [call[p] EXCEPT !.pc = "encrypt"]
    OBVIOUS
  <1>2. /\ call[p].pc = "loop" /\ lock' = [lock EXCEPT ![x] = p] /\ call' = [call EXCEPT ![p] = n]
    BY <1>1 DEF LockDevice
  <1>3. n.pc = "encrypt" /\ Current(n) = x
    BY <1>1, Parts DEF Calls, Current
  <1>4. /\ lock \in [Devices -> Procs \cup {None}]
        /\ \A q \in Procs : call'[q] = IF q = p THEN n ELSE call[q]
    BY <1>2 DEF Inv, TypeOK
  <1> SUFFICES ASSUME NEW d \in Devices, lock'[d] # None PROVE Holds(lock[d], d)'
    BY DEF LockInv
  <1>5. CASE d = x
    <2>1. lock'[d] = p
      BY <1>2, <1>4, <1>5
    <2> QED BY <1>3, <1>4, <1>5, <2>1 DEF Holds
  <1>6. CASE d # x
    <2>1. lock'[d] = lock[d]
      BY <1>2, <1>4, <1>6
    <2>2. PICK q \in Procs : q = lock[d]
      BY <1>4, <2>1
    <2>3. Holds(q, d)
      BY <2>1, <2>2 DEF LockInv
    <2>4. q # p
      BY <1>2, <2>3 DEF Holds
    <2>5. Holds(q, d)'
      BY <1>4, <2>3, <2>4 DEF Holds
    <2> QED BY <2>1, <2>2, <2>5 DEF Holds
  <1> QED BY <1>5, <1>6

(* encryptForDevice returns, with a key or an error, and has unlocked.      *)
LEMMA LockReturned ==
    ASSUME Inv, LockInv, NEW p \in Procs, KeyForDevice(p) \/ ErrorForDevice(p)
    PROVE  LockInv'
  <1>1. PICK x : x = Current(call[p])
    OBVIOUS
  <1>2. call[p].pc = "encrypt" /\ lock' = [lock EXCEPT ![x] = None]
    BY <1>1 DEF KeyForDevice, ErrorForDevice
  <1>3. \E n : call' = [call EXCEPT ![p] = n]
    BY LoopGoesOn DEF LoopStep, GoesOn
  <1>4. /\ lock \in [Devices -> Procs \cup {None}] /\ \A q \in Procs \ {p} : call'[q] = call[q]
    BY <1>3 DEF Inv, TypeOK
  <1> SUFFICES ASSUME NEW d \in Devices, lock'[d] # None PROVE Holds(lock[d], d)'
    BY DEF LockInv
  <1>5. d # x /\ lock'[d] = lock[d]
    BY <1>2, <1>4
  <1>6. PICK q \in Procs : q = lock[d]
    BY <1>4, <1>5
  <1>7. Holds(q, d)
    BY <1>5, <1>6 DEF LockInv
  <1>8. q # p
    BY <1>1, <1>5, <1>7 DEF Holds
  <1>9. Holds(q, d)'
    BY <1>4, <1>7, <1>8 DEF Holds
  <1> QED BY <1>5, <1>6, <1>9 DEF Holds

(* Every step keeps the lock invariant.                                     *)
LEMMA LockInvStep ==
    ASSUME Inv, LockInv, [Next]_vars
    PROVE  LockInv'
  <1>0. TypeOK /\ call \in [Procs -> Calls]
    BY DEF Inv, TypeOK
  <1>1. ASSUME NEW p \in Procs, NEW n, call' = [call EXCEPT ![p] = n], call[p].pc # "encrypt", UNCHANGED lock
        PROVE  LockInv'
    BY <1>0, <1>1, LocksKept
  <1>2. ASSUME NEW p \in Procs, NEW j \in JIDs,
               BeginSync(p, j) \/ \E b \in Bodies : BeginEncrypt(p, j, b)
        PROVE  LockInv'
    <2>1. call[p].pc = "idle" /\ UNCHANGED lock /\ \E n : call' = [call EXCEPT ![p] = n]
      BY <1>2 DEF BeginSync, BeginEncrypt
    <2> QED BY <1>1, <2>1
  <1>3. ASSUME NEW p \in Procs, ListStep(p) PROVE LockInv'
    <2>1. call[p].pc # "encrypt" /\ UNCHANGED lock
      BY <1>3 DEF ListStep, LoadDevices, FetchDeviceList, FetchListFails, SetDevices, ReloadDevices
    <2>2. \E n : call' = [call EXCEPT ![p] = n]
      BY <1>3, ListGoesOn DEF GoesOn
    <2> QED BY <1>1, <2>1, <2>2
  <1>4. ASSUME NEW p \in Procs, SkipLocal(p) \/ ReturnMessage(p) PROVE LockInv'
    <2>1. call[p].pc # "encrypt" /\ UNCHANGED lock
      BY <1>4 DEF SkipLocal, ReturnMessage
    <2>2. \E n : call' = [call EXCEPT ![p] = n]
      BY <1>4, LoopGoesOn DEF LoopStep, GoesOn
    <2> QED BY <1>1, <2>1, <2>2
  <1>5. ASSUME NEW j \in JIDs, PublishDeviceList(j) PROVE LockInv'
    BY <1>0, <1>5, LocksKept DEF PublishDeviceList
  <1>6. CASE UNCHANGED vars
    BY <1>0, <1>6, LocksKept DEF vars
  <1> QED BY <1>2, <1>3, <1>4, <1>5, <1>6, LockTaken, LockReturned DEF Next, LoopStep

(* No deadlock of fan-out calls: a loop that finds a device locked waits    *)
(* for a call at work on that device, which waits for nothing, for any      *)
(* number of calls that take any devices in any order.                      *)
THEOREM WaitsForWorkCorrect == Spec => []WaitsForWork
  <1>1. Init => LockInv
    BY DEF Init, LockInv
  <1>2. Inv /\ LockInv => WaitsForWork
    <2> SUFFICES ASSUME Inv, LockInv, NEW p \in Procs, call[p].pc = "loop",
                        call[p].at <= Len(call[p].devices), lock[Current(call[p])] # None
                 PROVE  \E q \in Procs : call[q].pc = "encrypt" /\ Current(call[q]) = Current(call[p])
      BY DEF WaitsForWork
    <2>1. Current(call[p]) \in Devices
      BY Parts, CurrentType
    <2>2. PICK q \in Procs : q = lock[Current(call[p])]
      BY <2>1 DEF Inv, TypeOK
    <2>3. Holds(q, Current(call[p]))
      BY <2>1, <2>2 DEF LockInv
    <2> QED BY <2>3 DEF Holds
  <1>3. Init => Inv
    BY InvInit
  <1>4. Inv /\ LockInv /\ [Next]_vars => (Inv /\ LockInv)'
    BY InvStep, LockInvStep
  <1> QED BY <1>1, <1>2, <1>3, <1>4, PTL DEF Spec
=============================================================================
