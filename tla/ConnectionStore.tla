---------------------------- MODULE ConnectionStore ----------------------------
(***************************************************************************)
(* The vector of L2CAP channels (src/src/connection_store.h) as operators  *)
(* on its two pieces of state: the sequence conns of its elements, and     *)
(* grown, whether it ever held one.  The begin() of a vector that never    *)
(* did is null; on any other miss std::find_if returns end(), so findLocal *)
(* and findPsm return the address one past the last element, not nullptr.  *)
(* A pointer is the index it points at (at) with the value read through    *)
(* it (to); index PastEnd is the storage past the last element, which may  *)
(* read as any record of Junk.                                             *)
(*                                                                         *)
(* The field handle of a record is a ghost: struct L2CapConnection has no  *)
(* such field, no operator reads it, and properties use it to say on which *)
(* link a channel is.  The mtu is only stored and echoed: left out.        *)
(***************************************************************************)
EXTENDS Integers, Sequences

CONSTANTS Handle,    \* the controller's connection handles
          Junk       \* what storage past the last element may read as

MaxU16 == 65535
U16 == 0 .. MaxU16
Cid == U16
Psm == U16

\* struct L2CapConnection, plus the ghost field handle.
Connection == [handle: Handle, localCid: Cid, psm: Psm, remoteCid: Cid,
               localConfigured: BOOLEAN, remoteConfigured: BOOLEAN]

ASSUME JunkAssumption == Junk \subseteq Connection

PastEnd == 0

\* What &*find_if(...) may be when the predicate holds at the indices hits:
\* the first of them, or past-the-end storage; no pointer at all (nullptr)
\* when the vector never held an element.
Pointers(conns, grown, hits) ==
  LET first == {i \in hits : \A j \in hits : i <= j}
      past  == IF hits = {} /\ grown THEN Junk ELSE {}
  IN  {[at |-> i, to |-> conns[i]] : i \in first}
        \cup {[at |-> PastEnd, to |-> c] : c \in past}

IsNull(pointers) == pointers = {}

\* The lambdas compare the captured handle with itself.
FindLocal(conns, grown, handle, localCid) ==
  Pointers(conns, grown, {i \in DOMAIN conns : /\ handle = handle
                                               /\ conns[i].localCid = localCid})

\* A definition marked "deviation" is a wrong version of the one it precedes,
\* used only to check that properties fail with it.
FindPsmAny(conns, grown, handle, psm) ==   \* deviation
  Pointers(conns, grown, DOMAIN conns)

FindPsm(conns, grown, handle, psm) ==
  Pointers(conns, grown, {i \in DOMAIN conns : /\ handle = handle
                                               /\ conns[i].psm = psm})

\* An assignment through a pointer; past the end it touches no element.
Assign(conns, p, c) == IF p.at = PastEnd THEN conns ELSE [conns EXCEPT ![p.at] = c]

\* deviation: erases from the element to the end.
RemoveRest(conns, p) == IF p.at = PastEnd THEN conns ELSE SubSeq(conns, 1, p.at - 1)

\* remove_if matches the one element that has the reference's address; a
\* past-the-end reference matches none.
Remove(conns, p) ==
  IF p.at = PastEnd
    THEN conns
    ELSE SubSeq(conns, 1, p.at - 1) \o SubSeq(conns, p.at + 1, Len(conns))

Emplace(conns, c) == Append(conns, c)
================================================================================
