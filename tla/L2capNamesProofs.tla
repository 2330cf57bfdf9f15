--------------------------- MODULE L2capNamesProofs ---------------------------
(* The identifiers that the host hands out for its channels, as they travel: *)
(* in what it sends, in the ends that boards have, and in what boards send.  *)
(* Each is that of a channel of the same link, of one that is gone, or of    *)
(* none that is in the store; hence a packet of one link never ends a        *)
(* channel of another, although findLocal ignores the handle.                *)
(*                                                                           *)
(* Nothing in the repository calls l2cap_disconnect, and the theorems are    *)
(* about applications that do not ("appDisconnect" \notin Moves): findPsm    *)
(* ignores the handle as well, so that the request to close a channel of one *)
(* board may go to another, in whose answer the identifiers are those of the *)
(* first.                                                                    *)
EXTENDS L2capProofs, CommonLemmas
--------------------------------------------------------------------------------
(* Steps: what the primitive steps of L2cap do to the sets of packets and    *)
(* channels that its properties speak of.  A packet comes to a queue or      *)
(* leaves it, a channel is found, changed, added or removed.  Of two packets *)
(* in a queue the order matters as well, as a relation of the first and the  *)
(* second.                                                                   *)

\* The packets of a queue.
LEMMA PacketsFacts ==
  ASSUME NEW q \in Seq(Packet)
  PROVE  /\ Packets(q) \subseteq Packet
         /\ \A i \in DOMAIN q : q[i] \in Packets(q)
         /\ \A m \in Packets(q) : \E i \in DOMAIN q : m = q[i]
         /\ q = <<>> => Packets(q) = {}
  BY DEF Packets

\* After one was added.
LEMMA PacketsAppend ==
  ASSUME NEW q \in Seq(Packet), NEW m \in Packet
  PROVE  Packets(Append(q, m)) = Packets(q) \cup {m}
  <1>1. \A x \in Packets(Append(q, m)) : x \in Packets(q) \cup {m}
    BY AppendFacts DEF Packets
  <1>2. \A x \in Packets(q) : x \in Packets(Append(q, m))
    BY AppendFacts DEF Packets
  <1>3. m \in Packets(Append(q, m))
    <2>1. Len(q) + 1 \in DOMAIN Append(q, m) /\ Append(q, m)[Len(q) + 1] = m
      BY AppendFacts, QueueFacts
    <2>. QED  BY <2>1 DEF Packets
  <1>. QED  BY <1>1, <1>2, <1>3

\* After the head was taken.
LEMMA PacketsTail ==
  ASSUME NEW q \in Seq(Packet), q # <<>>
  PROVE  /\ Head(q) \in Packets(q) /\ Head(q) \in Packet
         /\ Packets(Tail(q)) \subseteq Packets(q)
         /\ Packets(q) \subseteq Packets(Tail(q)) \cup {Head(q)}
  <1>1. Head(q) \in Packets(q) /\ Head(q) \in Packet
    BY TailFacts DEF Packets
  <1>2. \A x \in Packets(Tail(q)) : x \in Packets(q)
    BY TailFacts DEF Packets
  <1>3. ASSUME NEW x \in Packets(q), x # Head(q)
        PROVE  x \in Packets(Tail(q))
    <2>1. PICK i \in DOMAIN q : x = q[i]
      BY DEF Packets
    <2>2. i # 1
      BY <1>3, <2>1, TailFacts
    <2>3. i - 1 \in DOMAIN Tail(q) /\ Tail(q)[i - 1] = q[i]
      <3>1. i \in 1 .. Len(q) /\ Len(q) \in Nat
        BY QueueFacts
      <3>2. i - 1 \in 1 .. Len(q) - 1 /\ (i - 1) + 1 = i
        BY <2>2, <3>1
      <3>. QED  BY <3>2, TailFacts
    <2>. QED  BY <2>1, <2>3 DEF Packets
  <1>. QED  BY <1>1, <1>2, <1>3

\* A packet that handlers enqueue comes to the ring or is lost.
LEMMA PacketsEnqueue ==
  ASSUME NEW q \in Seq(Packet), NEW m \in Packet
  PROVE  /\ Enqueue(q, m) \in Seq(Packet)
         /\ Packets(q) \subseteq Packets(Enqueue(q, m))
         /\ Packets(Enqueue(q, m)) \subseteq Packets(q) \cup {m}
         /\ \/ Len(Enqueue(q, m)) = Len(q) + 1 /\ m \in Packets(Enqueue(q, m))
            \/ Enqueue(q, m) = q
  <1>1. CASE Enqueue(q, m) = q
    BY <1>1
  <1>2. CASE Enqueue(q, m) = Append(q, m)
    BY <1>2, PacketsAppend, AppendFacts
  <1>. QED  BY <1>1, <1>2 DEF Enqueue

--------------------------------------------------------------------------------
(* Order.  A relation of packets holds along a queue if it holds of any two, *)
(* the earlier one first.                                                    *)

Along(Allowed, q) == \A i, j \in DOMAIN q : i < j => <<q[i], q[j]>> \in Allowed

LEMMA AlongEmpty == \A Allowed : Along(Allowed, <<>>)
  BY DEF Along

LEMMA AlongAppend ==
  ASSUME NEW Allowed, NEW q \in Seq(Packet), NEW m \in Packet, Along(Allowed, q),
         \A a \in Packets(q) : <<a, m>> \in Allowed
  PROVE  Along(Allowed, Append(q, m))
  <1>. SUFFICES ASSUME NEW i \in DOMAIN Append(q, m), NEW j \in DOMAIN Append(q, m), i < j
                PROVE  <<Append(q, m)[i], Append(q, m)[j]>> \in Allowed
    BY DEF Along
  <1>1. Len(q) \in Nat /\ DOMAIN q = 1 .. Len(q) /\ DOMAIN Append(q, m) = 1 .. Len(q) + 1
    BY AppendFacts, QueueFacts
  <1>2. i \in DOMAIN q /\ Append(q, m)[i] = q[i] /\ q[i] \in Packets(q)
    BY <1>1, AppendFacts DEF Packets
  <1>3. CASE j \in DOMAIN q
    BY <1>2, <1>3, AppendFacts DEF Along
  <1>4. CASE j = Len(q) + 1
    BY <1>2, <1>4, AppendFacts
  <1>. QED  BY <1>3, <1>4, AppendFacts

LEMMA AlongEnqueue ==
  ASSUME NEW Allowed, NEW q \in Seq(Packet), NEW m \in Packet, Along(Allowed, q),
         \A a \in Packets(q) : <<a, m>> \in Allowed
  PROVE  Along(Allowed, Enqueue(q, m))
  BY AlongAppend DEF Enqueue

LEMMA AlongTail ==
  ASSUME NEW Allowed, NEW q \in Seq(Packet), q # <<>>, Along(Allowed, q)
  PROVE  /\ Along(Allowed, Tail(q))
         /\ \A b \in Packets(Tail(q)) : <<Head(q), b>> \in Allowed
  <1>1. /\ Len(q) \in Nat /\ DOMAIN q = 1 .. Len(q) /\ DOMAIN Tail(q) = 1 .. Len(q) - 1
        /\ 1 \in DOMAIN q /\ Head(q) = q[1]
        /\ \A i \in DOMAIN Tail(q) : i + 1 \in DOMAIN q /\ Tail(q)[i] = q[i + 1]
    BY TailFacts, QueueFacts
  <1>2. ASSUME NEW i \in DOMAIN Tail(q), NEW j \in DOMAIN Tail(q), i < j
        PROVE  <<Tail(q)[i], Tail(q)[j]>> \in Allowed
    <2>1. i + 1 < j + 1
      BY <1>1, <1>2
    <2>. QED  BY <1>1, <2>1 DEF Along
  <1>3. ASSUME NEW b \in Packets(Tail(q))
        PROVE  <<Head(q), b>> \in Allowed
    <2>1. PICK j \in DOMAIN Tail(q) : b = Tail(q)[j]
      BY DEF Packets
    <2>2. 1 < j + 1
      BY <1>1
    <2>. QED  BY <1>1, <2>1, <2>2 DEF Along
  <1>. QED  BY <1>2, <1>3 DEF Along
--------------------------------------------------------------------------------
(* Channels.                                                                 *)

\* The elements of the store.
LEMMA ChannelsFacts ==
  ASSUME connections \in Seq(Connection)
  PROVE  /\ Channels \subseteq Connection
         /\ \A i \in DOMAIN connections : connections[i] \in Channels
         /\ \A k \in Channels : \E i \in DOMAIN connections : k = connections[i]
         /\ \A k \in Channels : k.handle \in Handle /\ k.psm \in Psm
                                /\ k.localCid \in Nat /\ k.remoteCid \in Nat
                                /\ k.localCid \in Cid /\ k.remoteCid \in Cid
                                /\ k.localConfigured \in BOOLEAN /\ k.remoteConfigured \in BOOLEAN
  <1>1. Channels \subseteq Connection
    BY DEF Channels
  <1>2. Cid \subseteq Nat
    BY MaxType DEF Cid, U16
  <1>3. ASSUME NEW k \in Connection
        PROVE  /\ k.handle \in Handle /\ k.psm \in Psm /\ k.localCid \in Cid /\ k.remoteCid \in Cid
               /\ k.localConfigured \in BOOLEAN /\ k.remoteConfigured \in BOOLEAN
    BY DEF Connection
  <1>4. \A k \in Channels : k.localCid \in Nat /\ k.remoteCid \in Nat
    BY <1>1, <1>2, <1>3
  <1>. QED  BY <1>1, <1>3, <1>4 DEF Channels

\* Until the counter wraps, a channel is known by its local identifier, which is
\* below the counter.
LEMMA ChannelsUnique ==
  ASSUME CidInv, ~wrapped
  PROVE  /\ \A k, l \in Channels : k.localCid = l.localCid => k = l
         /\ \A k \in Channels : k.localCid < g_localCid
  BY DEF CidInv, UniqueLocalCid, CidsBelow, Channels

\* A lookup reads an element of the store that fits or, when there is none,
\* storage past the end.
LEMMA PointersFind ==
  ASSUME connections \in Seq(Connection), NEW hits \in SUBSET DOMAIN connections
  PROVE  /\ \A p \in Pointers(connections, grown, hits) :
              \/ p.at = PastEnd /\ hits = {}
              \/ /\ p.at \in hits /\ p.at \in 1 .. Len(connections) /\ p.at # PastEnd
                 /\ p.to = connections[p.at] /\ p.to \in Channels
         /\ hits # {} => Pointers(connections, grown, hits) # {}
  <1>. DEFINE first == {i \in hits : \A j \in hits : i <= j}
  <1>1. hits \subseteq Nat /\ hits \subseteq 1 .. Len(connections)
    OBVIOUS
  <1>2. Pointers(connections, grown, hits)
          = {[at |-> i, to |-> connections[i]] : i \in first}
              \cup {[at |-> PastEnd, to |-> c] : c \in IF hits = {} /\ grown THEN Junk ELSE {}}
    BY Zenon DEF Pointers
  <1>3. hits # {} => first # {}
    <2>1. SUFFICES ASSUME hits # {} PROVE \E i \in hits : \A j \in hits : i <= j
      OBVIOUS
    <2>. QED  BY <1>1, <2>1, Least
  <1>4. ASSUME NEW i \in first
        PROVE  /\ i \in hits /\ i \in 1 .. Len(connections) /\ i # PastEnd
               /\ connections[i] \in Channels
    BY <1>1 DEF PastEnd, Channels
  <1>. HIDE DEF first
  <1>5. ASSUME NEW p \in Pointers(connections, grown, hits)
        PROVE  \/ p.at = PastEnd /\ hits = {}
               \/ /\ p.at \in hits /\ p.at \in 1 .. Len(connections) /\ p.at # PastEnd
                  /\ p.to = connections[p.at] /\ p.to \in Channels
    <2>1. CASE \E i \in first : p = [at |-> i, to |-> connections[i]]
      BY <2>1, <1>4
    <2>2. CASE hits = {} /\ \E c \in Junk : p = [at |-> PastEnd, to |-> c]
      BY <2>2
    <2>. QED  BY <1>2, <2>1, <2>2
  <1>6. ASSUME hits # {}
        PROVE  Pointers(connections, grown, hits) # {}
    <2>1. PICK i \in first : TRUE
      BY <1>3, <1>6
    <2>2. [at |-> i, to |-> connections[i]] \in Pointers(connections, grown, hits)
      BY <1>2, <2>1
    <2>. QED  BY <2>2
  <1>. QED  BY <1>5, <1>6

\* findLocal ...
LEMMA LocalFinds ==
  ASSUME TypeOK, NEW h, NEW x
  PROVE  /\ \A p \in Local(h, x) :
              \/ p.at = PastEnd /\ \A k \in Channels : k.localCid # x
              \/ /\ p.at \in 1 .. Len(connections) /\ p.at # PastEnd
                 /\ p.to = connections[p.at] /\ p.to \in Channels /\ p.to.localCid = x
         /\ (\E k \in Channels : k.localCid = x) => Local(h, x) # {}
  <1>. DEFINE hits == {i \in DOMAIN connections : h = h /\ connections[i].localCid = x}
  <1>1. connections \in Seq(Connection) /\ hits \in SUBSET DOMAIN connections
    BY DEF TypeOK
  <1>2. Local(h, x) = Pointers(connections, grown, hits)
    BY Zenon DEF Local, FindLocal
  <1>3. hits = {} <=> \A k \in Channels : k.localCid # x
    BY DEF Channels
  <1>4. \A i \in hits : connections[i].localCid = x
    OBVIOUS
  <1>. HIDE DEF hits
  <1>. QED  BY <1>1, <1>2, <1>3, <1>4, PointersFind

\* ... and findPsm.
LEMMA ByPsmFinds ==
  ASSUME TypeOK, NEW h, NEW x
  PROVE  /\ \A p \in ByPsm(h, x) :
              \/ p.at = PastEnd /\ \A k \in Channels : k.psm # x
              \/ /\ p.at \in 1 .. Len(connections) /\ p.at # PastEnd
                 /\ p.to = connections[p.at] /\ p.to \in Channels /\ p.to.psm = x
         /\ (\E k \in Channels : k.psm = x) => ByPsm(h, x) # {}
  <1>. DEFINE hits == {i \in DOMAIN connections : h = h /\ connections[i].psm = x}
  <1>1. connections \in Seq(Connection) /\ hits \in SUBSET DOMAIN connections
    BY DEF TypeOK
  <1>2. ByPsm(h, x) = Pointers(connections, grown, hits)
    BY Zenon DEF ByPsm, FindPsm
  <1>3. hits = {} <=> \A k \in Channels : k.psm # x
    BY DEF Channels
  <1>4. \A i \in hits : connections[i].psm = x
    OBVIOUS
  <1>. HIDE DEF hits
  <1>. QED  BY <1>1, <1>2, <1>3, <1>4, PointersFind

\* A channel changes through a pointer to it.
LEMMA AssignChannels ==
  ASSUME CidInv, ~wrapped, NEW p, NEW c \in Connection,
         p.at \in 1 .. Len(connections), p.at # PastEnd, p.to = connections[p.at],
         connections' = Assign(connections, p, c)
  PROVE  Channels' = (Channels \ {p.to}) \cup {c}
  <1>1. connections \in Seq(Connection) /\ DOMAIN connections = 1 .. Len(connections)
    BY DEF CidInv, TypeOK
  <1>2. /\ DOMAIN connections' = DOMAIN connections
        /\ \A i \in DOMAIN connections : connections'[i] = IF i = p.at THEN c ELSE connections[i]
    BY <1>1 DEF Assign
  <1>3. \A i \in DOMAIN connections : connections[i] = p.to => i = p.at
    BY <1>1 DEF CidInv, UniqueLocalCid
  <1>4. Channels = {connections[i] : i \in DOMAIN connections}
        /\ Channels' = {connections'[i] : i \in DOMAIN connections'}
    BY DEF Channels
  <1>5. ASSUME NEW k \in Channels', k # c
        PROVE  k \in Channels \ {p.to}
    BY <1>2, <1>3, <1>4, <1>5
  <1>6. c \in Channels'
    BY <1>1, <1>2, <1>4
  <1>7. ASSUME NEW k \in Channels \ {p.to}
        PROVE  k \in Channels'
    BY <1>2, <1>4, <1>7
  <1>. QED  BY <1>5, <1>6, <1>7

\* A channel is taken out through a pointer to it.
LEMMA RemoveChannels ==
  ASSUME CidInv, ~wrapped, NEW p,
         p.at \in 1 .. Len(connections), p.at # PastEnd, p.to = connections[p.at],
         connections' = Remove(connections, p)
  PROVE  Channels' = Channels \ {p.to}
  <1>. DEFINE n == Len(connections)
  <1>1. /\ connections \in Seq(Connection) /\ DOMAIN connections = 1 .. n
        /\ n \in Nat /\ p.at \in 1 .. n
    BY DEF CidInv, TypeOK
  <1>. DEFINE before == SubSeq(connections, 1, p.at - 1)
              after == SubSeq(connections, p.at + 1, n)
  <1>2. /\ before \in Seq(Connection) /\ Len(before) = p.at - 1
        /\ \A i \in 1 .. p.at - 1 : before[i] = connections[i]
        /\ after \in Seq(Connection) /\ Len(after) = n - p.at
        /\ \A i \in 1 .. n - p.at : after[i] = connections[p.at + i]
    BY <1>1, PartsFacts, Zenon
  <1>3. connections' = before \o after
    BY DEF Remove
  <1>. HIDE DEF before, after
  <1>4. /\ DOMAIN connections' = 1 .. n - 1
        /\ \A i \in 1 .. n - 1 : connections'[i] = IF i < p.at THEN before[i] ELSE after[i - (p.at - 1)]
    <2>1. /\ before \o after \in Seq(Connection)
          /\ Len(before \o after) = Len(before) + Len(after)
          /\ \A i \in 1 .. Len(before) + Len(after) :
               (before \o after)[i] = IF i <= Len(before) THEN before[i] ELSE after[i - Len(before)]
      BY <1>2, ConcatProperties, Zenon
    <2>2. DOMAIN connections' = 1 .. n - 1 /\ Len(before) + Len(after) = n - 1
      <3>1. Len(before) + Len(after) = n - 1
        BY <1>1, <1>2
      <3>2. connections' \in Seq(Connection) /\ Len(connections') = Len(before) + Len(after)
        BY <1>3, <2>1, Zenon
      <3>. QED  BY <3>1, <3>2, QueueFacts
    <2>3. \A i \in 1 .. n - 1 : i < p.at <=> i <= Len(before)
      BY <1>1, <1>2
    <2>4. ASSUME NEW i \in 1 .. n - 1
          PROVE  connections'[i] = IF i < p.at THEN before[i] ELSE after[i - (p.at - 1)]
      <3>1. Len(before) = p.at - 1
        BY <1>2
      <3>2. connections'[i] = IF i <= Len(before) THEN before[i] ELSE after[i - Len(before)]
        BY <1>3, <2>1, <2>2, Zenon
      <3>. QED  BY <2>3, <3>1, <3>2, Zenon
    <2>. QED  BY <2>2, <2>4
  <1>. HIDE DEF n
  <1>5. \A i \in 1 .. n - 1 :
          connections'[i] = IF i < p.at THEN connections[i] ELSE connections[i + 1]
    <2>1. ASSUME NEW i \in 1 .. n - 1, i < p.at
          PROVE  connections'[i] = connections[i]
      <3>1. i \in 1 .. p.at - 1
        BY <1>1, <2>1
      <3>2. before[i] = connections[i]
        BY <1>2, <3>1, Zenon
      <3>3. connections'[i] = before[i]
        BY <1>4, <2>1
      <3>. QED  BY <3>2, <3>3
    <2>2. ASSUME NEW i \in 1 .. n - 1, ~(i < p.at)
          PROVE  connections'[i] = connections[i + 1]
      <3>1. i - (p.at - 1) \in 1 .. n - p.at /\ p.at + (i - (p.at - 1)) = i + 1
        BY <1>1, <2>2
      <3>2. after[i - (p.at - 1)] = connections[i + 1]
        BY <1>2, <3>1
      <3>. QED  BY <1>4, <2>2, <3>2
    <2>. QED  BY <2>1, <2>2
  <1>6. \A i \in DOMAIN connections : connections[i] = p.to => i = p.at
    BY <1>1 DEF CidInv, UniqueLocalCid, n
  <1>7. Channels = {connections[i] : i \in DOMAIN connections}
        /\ Channels' = {connections'[i] : i \in DOMAIN connections'}
    BY DEF Channels
  <1>8. ASSUME NEW k \in Channels'
        PROVE  k \in Channels \ {p.to}
    <2>1. PICK i \in 1 .. n - 1 : k = connections'[i]
      BY <1>4, <1>7
    <2>2. CASE i < p.at
      BY <1>1, <1>5, <1>6, <1>7, <2>1, <2>2
    <2>3. CASE ~(i < p.at)
      <3>1. i + 1 \in 1 .. n /\ i + 1 # p.at
        BY <1>1, <2>3
      <3>. QED  BY <1>1, <1>5, <1>6, <1>7, <2>1, <2>3, <3>1
    <2>. QED  BY <2>2, <2>3
  <1>9. ASSUME NEW k \in Channels \ {p.to}
        PROVE  k \in Channels'
    <2>1. PICK i \in 1 .. n : k = connections[i]
      BY <1>1, <1>7
    <2>2. i # p.at
      BY <2>1
    <2>3. CASE i < p.at
      <3>1. i \in 1 .. n - 1 /\ connections'[i] = k
        BY <1>1, <1>5, <2>1, <2>3 DEF n
      <3>. QED  BY <1>4, <1>7, <3>1
    <2>4. CASE i > p.at
      <3>1. i - 1 \in 1 .. n - 1 /\ ~(i - 1 < p.at) /\ (i - 1) + 1 = i
        BY <1>1, <2>1, <2>4 DEF n
      <3>2. connections'[i - 1] = k
        BY <1>5, <2>1, <3>1
      <3>. QED  BY <1>4, <1>7, <3>1, <3>2
    <2>. QED  BY <1>1, <2>2, <2>3, <2>4
  <1>. QED  BY <1>8, <1>9

\* A channel is added.
LEMMA EmplaceChannels ==
  ASSUME NEW conns \in Seq(Connection), NEW c \in Connection
  PROVE  /\ Emplace(conns, c) \in Seq(Connection)
         /\ {Emplace(conns, c)[i] : i \in DOMAIN Emplace(conns, c)}
              = {conns[i] : i \in DOMAIN conns} \cup {c}
  <1>. DEFINE q == Append(conns, c)
  <1>1. /\ q \in Seq(Connection) /\ DOMAIN q = 1 .. Len(conns) + 1
        /\ \A i \in DOMAIN conns : i \in DOMAIN q /\ q[i] = conns[i]
        /\ \A i \in DOMAIN q : i \in DOMAIN conns \/ i = Len(conns) + 1
        /\ q[Len(conns) + 1] = c /\ Len(conns) \in Nat
    BY AppendFacts, QueueFacts
  <1>2. Len(conns) + 1 \in DOMAIN q
    BY <1>1
  <1>. HIDE DEF q
  <1>3. \A k \in {q[i] : i \in DOMAIN q} : k \in {conns[i] : i \in DOMAIN conns} \cup {c}
    BY <1>1
  <1>4. \A k \in {conns[i] : i \in DOMAIN conns} \cup {c} : k \in {q[i] : i \in DOMAIN q}
    BY <1>1, <1>2
  <1>5. Emplace(conns, c) = q
    BY DEF Emplace, q
  <1>. QED  BY <1>1, <1>3, <1>4, <1>5
--------------------------------------------------------------------------------
(* Steps.                                                                    *)

\* What each variable that packets or channels are in is.
LEMMA StateFacts ==
  ASSUME TypeOK
  PROVE  /\ connections \in Seq(Connection) /\ rx \in Seq(Packet) /\ tx \in Seq(Packet)
         /\ \A h \in Handle : air[h] \in Seq(Packet)
         /\ \A h \in Handle : peer[h] \in [PeerCid -> End]
         /\ \A h \in Handle, c \in PeerCid : peer[h][c] \in End
         /\ g_localCid \in Nat /\ \A h \in Handle : since[h] \in Nat
  <1>1. Cid \subseteq Nat
    BY MaxType DEF Cid, U16
  <1>. QED  BY <1>1 DEF TypeOK

\* In the next state too.
LEMMA NextStateFacts ==
  ASSUME TypeOK'
  PROVE  /\ connections' \in Seq(Connection) /\ rx' \in Seq(Packet) /\ tx' \in Seq(Packet)
         /\ \A h \in Handle : air'[h] \in Seq(Packet)
         /\ \A h \in Handle, c \in PeerCid : peer'[h][c] \in End
         /\ g_localCid' \in Nat /\ \A h \in Handle : since'[h] \in Nat
  <1>1. Cid \subseteq Nat
    BY MaxType DEF Cid, U16
  <1>. QED  BY <1>1 DEF TypeOK

\* The fields of a packet.
LEMMA PacketFacts ==
  ASSUME NEW m \in Packet
  PROVE  /\ m.type \in PacketTypes /\ m.handle \in Handle /\ m.psm \in Psm
         /\ m.dcid \in Cid /\ m.scid \in Cid /\ m.arg \in U16
         /\ m.dcid \in Nat /\ m.scid \in Nat
  <1>1. Cid \subseteq Nat
    BY MaxType DEF Cid, U16
  <1>. QED  BY <1>1 DEF Packet

\* Packets are told apart by their fields.
LEMMA MakeFields ==
  ASSUME NEW h, NEW psm, NEW d, NEW s, NEW a
  PROVE  /\ Auth(h).type = "Auth" /\ Auth(h).handle = h
         /\ LET m == ConnectionComplete(h, a) IN m.type = "ConnectionComplete" /\ m.handle = h /\ m.arg = a
         /\ LET m == DisconnectionComplete(h) IN m.type = "DisconnectionComplete" /\ m.handle = h
         /\ LET m == Disconnect(h) IN m.type = "Disconnect" /\ m.handle = h
         /\ LET m == ConnReq(h, psm, s) IN m.type = "ConnReq" /\ m.handle = h /\ m.psm = psm /\ m.scid = s
         /\ LET m == ConnRsp(h, d, s, a) IN
              m.type = "ConnRsp" /\ m.handle = h /\ m.dcid = d /\ m.scid = s /\ m.arg = a
         /\ LET m == ConfReq(h, d, a) IN m.type = "ConfReq" /\ m.handle = h /\ m.dcid = d /\ m.arg = a
         /\ LET m == ConfRsp(h, s, a) IN
              m.type = "ConfRsp" /\ m.handle = h /\ m.scid = s /\ m.arg = a
         /\ LET m == DiscReq(h, d, s) IN m.type = "DiscReq" /\ m.handle = h /\ m.dcid = d /\ m.scid = s
         /\ LET m == DiscRsp(h, d, s) IN m.type = "DiscRsp" /\ m.handle = h /\ m.dcid = d /\ m.scid = s
         /\ LET m == Reject(h) IN m.type = "Reject" /\ m.handle = h
         /\ LET m == Data(h, psm, d) IN m.type = "Data" /\ m.handle = h /\ m.psm = psm /\ m.dcid = d
  BY DEF Auth, ConnectionComplete, DisconnectionComplete, Disconnect, ConnReq, ConnRsp, ConfReq,
         ConfRsp, DiscReq, DiscRsp, Reject, Data, Make

\* The host takes a packet out of rxBuffer.
LEMMA ReceivesPackets ==
  ASSUME TypeOK, NEW type, Receives(type)
  PROVE  /\ ~crashed /\ UNCHANGED env
         /\ Head(rx) \in Packets(rx) /\ Head(rx) \in Packet /\ Head(rx).type = type
         /\ Packets(rx') \subseteq Packets(rx)
         /\ Packets(rx) \subseteq Packets(rx') \cup {Head(rx)}
  <1>1. rx \in Seq(Packet) /\ rx # <<>> /\ rx' = Tail(rx)
    BY StateFacts DEF Receives
  <1>. QED  BY <1>1, PacketsTail DEF Receives

\* The controller puts one into it.
LEMMA DeliversPackets ==
  ASSUME TypeOK, NEW m \in Packet, Delivers(m)
  PROVE  Packets(rx') = Packets(rx) \cup {m} /\ rx' = Append(rx, m)
  BY StateFacts, PacketsAppend DEF Delivers

\* A board takes the next packet of its link.
LEMMA PeerReceivesPackets ==
  ASSUME TypeOK, NEW h \in Handle, NEW type, PeerReceives(h, type)
  PROVE  /\ Up(h) /\ UNCHANGED <<host, links, opens, moves>>
         /\ air[h] # <<>> /\ air' = [air EXCEPT ![h] = Tail(air[h])] /\ air'[h] = Tail(air[h])
         /\ Head(air[h]) \in Packets(air[h]) /\ Head(air[h]) \in Packet /\ Head(air[h]).type = type
         /\ Packets(air'[h]) \subseteq Packets(air[h])
         /\ Packets(air[h]) \subseteq Packets(air'[h]) \cup {Head(air[h])}
         /\ \A k \in Handle : k # h => air'[k] = air[k]
  <1>1. air[h] \in Seq(Packet) /\ air[h] # <<>>
    BY StateFacts DEF PeerReceives
  <1>2. air'[h] = Tail(air[h]) /\ \A k \in Handle : k # h => air'[k] = air[k]
    BY DEF PeerReceives, TypeOK
  <1>. QED  BY <1>1, <1>2, PacketsTail DEF PeerReceives

\* The controller takes the next packet of txBuffer, for a link that is up or
\* for none.
LEMMA TransmitPackets ==
  ASSUME TypeOK, Transmit
  PROVE  LET m == Head(tx) IN
         /\ m \in Packets(tx) /\ m \in Packet /\ tx # <<>> /\ tx' = Tail(tx)
         /\ Packets(tx') \subseteq Packets(tx)
         /\ Packets(tx) \subseteq Packets(tx') \cup {m}
         /\ \A h \in Handle : h # m.handle => air'[h] = air[h]
         /\ \/ /\ Up(m.handle) /\ m.type \notin HciCommand
               /\ air'[m.handle] = Append(air[m.handle], m)
               /\ Packets(air'[m.handle]) = Packets(air[m.handle]) \cup {m}
            \/ air' = air /\ (m.type \in HciCommand \/ ~Up(m.handle))
  <1>. DEFINE m == Head(tx)
  <1>1. tx \in Seq(Packet) /\ tx # <<>> /\ tx' = Tail(tx)
    BY StateFacts DEF Transmit
  <1>2. m \in Packet /\ m.handle \in Handle /\ air[m.handle] \in Seq(Packet)
    BY <1>1, PacketsTail, PacketFacts, StateFacts
  <1>3. CASE /\ m.type \notin HciCommand
             /\ link[m.handle] \in {"ours", "theirs"}
             /\ air' = [air EXCEPT ![m.handle] = Append(@, m)]
    <2>1. air'[m.handle] = Append(air[m.handle], m) /\ \A h \in Handle : h # m.handle => air'[h] = air[h]
      BY <1>2, <1>3 DEF TypeOK
    <2>. QED  BY <1>1, <1>2, <1>3, <2>1, PacketsTail, PacketsAppend DEF Up
  <1>4. CASE (m.type \in HciCommand \/ link[m.handle] \notin {"ours", "theirs"}) /\ UNCHANGED air
    BY <1>1, <1>4, PacketsTail DEF Up
  <1>. QED  BY <1>3, <1>4 DEF Transmit

\* The listener on ACLConnectionEstablished sends data or nothing.
LEMMA EstablishedSends ==
  ASSUME TypeOK, NEW h \in Handle, NEW psm \in Psm, NEW p, NEW q \in Seq(Packet), NEW n,
         Established(h, psm, p, q, n)
  PROVE  \/ tx' = q
         \/ \E m \in Packet : m.type = "Data" /\ m.handle = h /\ tx' = Enqueue(q, m)
  <1>1. CASE Sends(q, n)
    BY <1>1 DEF Sends
  <1>2. ASSUME NEW d \in L2Data(h, HidInterrupt), Sends(Enqueue(q, d.packet), n + 1)
        PROVE  \E m \in Packet : m.type = "Data" /\ m.handle = h /\ tx' = Enqueue(q, m)
    <2>1. d.packet \in Packet
      BY L2DataType, Numbers DEF Psm, TypeOK
    <2>2. d.packet.type = "Data" /\ d.packet.handle = h
      BY DEF L2Data, Data, Make
    <2>. QED  BY <1>2, <2>1, <2>2 DEF Sends
  <1>. QED  BY <1>1, <1>2 DEF Established

\* The end of a board's channel that an environment step sets.
LEMMA SetEndFacts ==
  ASSUME TypeOK, NEW h \in Handle, NEW c \in PeerCid, NEW e, SetEnd(h, c, e)
  PROVE  /\ peer'[h][c] = e
         /\ \A d \in PeerCid : d # c => peer'[h][d] = peer[h][d]
         /\ \A k \in Handle : k # h => peer'[k] = peer[k]
  BY StateFacts DEF SetEnd, TypeOK
--------------------------------------------------------------------------------
(* Names.                                                                    *)

\* The packets from a board that name a channel of the host's, and the name.
Naming == {"ConnRsp", "ConfRsp", "ConfReq", "DiscReq", "Data"}
Name(m) == IF m.type \in {"ConnRsp", "ConfRsp"} THEN m.scid ELSE m.dcid

\* Ends that are bound to a channel of the host's.
Bound(e) == e.state \in {"pending", "config", "closing"}

\* The identifier x was handed out on the present link of h, if for a channel
\* that is there then for one of h.
Issued(h, x) ==
  /\ since[h] <= x /\ x < g_localCid
  /\ \A k \in Channels : k.localCid = x => k.handle = h

RxIssued == \A m \in Packets(rx) :
  /\ m.type # "DiscRsp"
  /\ link[m.handle] # "none"
  /\ m.type \in Naming => Issued(m.handle, Name(m))

\* A packet to the board h.
SentOk(h, m) ==
  /\ m.type \notin {"Disconnect", "DiscReq"}
  /\ m.type = "ConnReq" => Issued(h, m.scid)
  /\ m.type = "ConnRsp" => Issued(h, m.dcid)

TxIssued == \A m \in Packets(tx) : link[m.handle] # "none" /\ SentOk(m.handle, m)

AirIssued == \A h \in Handle : \A m \in Packets(air[h]) : m.handle = h /\ SentOk(h, m)

EndsIssued == \A h \in Handle, c \in PeerCid :
  Bound(peer[h][c]) => Issued(h, peer[h][c].hostCid)

LinksOk == \A h \in Handle : since[h] <= g_localCid /\ (~Up(h) => air[h] = <<>>)

NamesOk == RxIssued /\ TxIssued /\ AirIssued /\ EndsIssued /\ LinksOk

\* Until g_localCid wraps around.
NamesInv == ~wrapped => NamesOk
--------------------------------------------------------------------------------
(* The store.                                                                *)

\* Channels come with new identifiers and keep them and their handle.
FromStore ==
  /\ g_localCid <= g_localCid'
  /\ \A k \in Channels' : \/ \E l \in Channels : l.localCid = k.localCid /\ l.handle = k.handle
                          \/ g_localCid <= k.localCid

LEMMA SameStore ==
  ASSUME TypeOK, UNCHANGED <<connections, g_localCid>>
  PROVE  FromStore
  <1>1. g_localCid <= g_localCid' /\ Channels' = Channels
    BY StateFacts DEF Channels
  <1>. QED  BY <1>1 DEF FromStore

\* Counting without wrapping around.
LEMMA TakenCids ==
  ASSUME TypeOK, ~wrapped', NEW n \in 1 .. 2, TakeCids(n)
  PROVE  /\ ~wrapped /\ g_localCid' = g_localCid + n
         /\ n = 2 => AfterCid(1) = g_localCid + 1
  <1>1. ~wrapped /\ ~Wraps(n)
    BY DEF TakeCids
  <1>2. n = 2 => ~Wraps(1)
    BY <1>1, StateFacts, MaxType DEF Wraps
  <1>. QED  BY <1>1, <1>2 DEF TakeCids, AfterCid

\* A pointer that findLocal returns.
LEMMA LocalPointer ==
  ASSUME TypeOK, NEW h, NEW x, NEW p \in Local(h, x)
  PROVE  /\ p.to \in Connection
         /\ \/ p.at = PastEnd
            \/ /\ p.at \in 1 .. Len(connections) /\ p.at # PastEnd
               /\ p.to = connections[p.at] /\ p.to \in Channels /\ p.to.localCid = x
  BY FoundType, LocalFinds, StateFacts

LEMMA AssignedStore ==
  ASSUME CidInv, ~wrapped', UNCHANGED <<g_localCid, wrapped>>,
         NEW h, NEW x, NEW p \in Local(h, x), NEW c \in Connection,
         c.localCid = p.to.localCid, c.handle = p.to.handle,
         connections' = Assign(connections, p, c)
  PROVE  FromStore
  <1>1. TypeOK /\ ~wrapped
    BY DEF CidInv
  <1>2. CASE p.at = PastEnd
    BY <1>1, <1>2, SameStore DEF Assign
  <1>3. CASE p.at # PastEnd
    <2>1. /\ p.at \in 1 .. Len(connections) /\ p.to = connections[p.at] /\ p.to \in Channels
      BY <1>1, <1>3, LocalPointer
    <2>2. Channels' = (Channels \ {p.to}) \cup {c}
      BY <1>1, <1>3, <2>1, AssignChannels
    <2>. QED  BY <1>1, <2>1, <2>2, StateFacts DEF FromStore
  <1>. QED  BY <1>2, <1>3

LEMMA RemovedStore ==
  ASSUME CidInv, ~wrapped', UNCHANGED <<g_localCid, wrapped>>,
         NEW h, NEW x, NEW p \in Local(h, x),
         connections' = Remove(connections, p)
  PROVE  /\ FromStore
         /\ \A c \in Channels : c \notin Channels' => c.localCid = x
  <1>1. TypeOK /\ ~wrapped
    BY DEF CidInv
  <1>2. CASE p.at = PastEnd
    <2>1. connections' = connections
      BY <1>2 DEF Remove
    <2>. QED  BY <1>1, <2>1, SameStore DEF Channels
  <1>3. CASE p.at # PastEnd
    <2>1. /\ p.at \in 1 .. Len(connections) /\ p.to = connections[p.at]
          /\ p.to \in Channels /\ p.to.localCid = x
      BY <1>1, <1>3, LocalPointer
    <2>2. Channels' = Channels \ {p.to}
      BY <1>1, <1>3, <2>1, RemoveChannels
    <2>. QED  BY <1>1, <2>1, <2>2, StateFacts DEF FromStore
  <1>. QED  BY <1>2, <1>3

\* The host's link adds two channels ...
LEMMA LinkChannels ==
  ASSUME TypeOK, ~wrapped', NEW h \in Handle, TakeCids(2),
         connections' = Emplace(Emplace(connections, NewConnection(h, g_localCid, HidControl, 0)),
                                NewConnection(h, AfterCid(1), HidInterrupt, 0))
  PROVE  /\ ~wrapped /\ g_localCid' = g_localCid + 2 /\ AfterCid(1) = g_localCid + 1
         /\ Channels' = Channels \cup {NewConnection(h, g_localCid, HidControl, 0),
                                       NewConnection(h, g_localCid + 1, HidInterrupt, 0)}
  <1>. DEFINE c == NewConnection(h, g_localCid, HidControl, 0)
              d == NewConnection(h, AfterCid(1), HidInterrupt, 0)
  <1>1. ~wrapped /\ g_localCid' = g_localCid + 2 /\ AfterCid(1) = g_localCid + 1
    BY TakenCids
  <1>2. c \in Connection /\ d \in Connection
    BY NewConnectionType, AfterCidType, Numbers DEF TypeOK
  <1>3. connections \in Seq(Connection)
    BY StateFacts
  <1>. HIDE DEF c, d
  <1>4. Emplace(connections, c) \in Seq(Connection)
        /\ {Emplace(connections, c)[i] : i \in DOMAIN Emplace(connections, c)}
             = {connections[i] : i \in DOMAIN connections} \cup {c}
    BY <1>2, <1>3, EmplaceChannels
  <1>. DEFINE q == Emplace(connections, c)
  <1>. HIDE DEF q
  <1>5. {Emplace(q, d)[i] : i \in DOMAIN Emplace(q, d)} = {q[i] : i \in DOMAIN q} \cup {d}
    BY <1>2, <1>4, EmplaceChannels DEF q
  <1>6. connections' = Emplace(q, d)
    BY DEF q, c, d
  <1>7. Channels' = Channels \cup {c, d}
    BY <1>4, <1>5, <1>6 DEF Channels, q
  <1>. QED  BY <1>1, <1>7 DEF c, d

\* ... a board's request one.
LEMMA RequestChannels ==
  ASSUME TypeOK, NEW c \in Connection, connections' = Emplace(connections, c)
  PROVE  Channels' = Channels \cup {c}
  <1>1. {Emplace(connections, c)[i] : i \in DOMAIN Emplace(connections, c)}
          = {connections[i] : i \in DOMAIN connections} \cup {c}
    BY StateFacts, EmplaceChannels
  <1>2. Channels' = {connections'[i] : i \in DOMAIN connections'}
    BY DEF Channels
  <1>. QED  BY <1>1, <1>2, Zenon DEF Channels

LEMMA HandlersStore ==
  ASSUME CidInv, ~wrapped', Handlers
  PROVE  FromStore /\ ~wrapped
<1>. DEFINE m == Head(rx)
<1>. USE DEF store
<1>0. TypeOK
  BY DEF CidInv
<1>a. ASSUME NEW type, Receives(type)
      PROVE  m.handle \in Handle /\ m.psm \in Psm /\ m.scid \in Cid /\ m.dcid \in Cid
  BY <1>0, <1>a, ReceivesPackets, PacketFacts
<1>b. ASSUME NEW c \in Connection
      PROVE  /\ \A r \in Cid : /\ [c EXCEPT !.remoteCid = r] \in Connection
                               /\ [c EXCEPT !.remoteCid = r].localCid = c.localCid
                               /\ [c EXCEPT !.remoteCid = r].handle = c.handle
             /\ [c EXCEPT !.localConfigured = TRUE] \in Connection
             /\ [c EXCEPT !.localConfigured = TRUE].localCid = c.localCid
             /\ [c EXCEPT !.localConfigured = TRUE].handle = c.handle
             /\ [c EXCEPT !.remoteConfigured = TRUE] \in Connection
             /\ [c EXCEPT !.remoteConfigured = TRUE].localCid = c.localCid
             /\ [c EXCEPT !.remoteConfigured = TRUE].handle = c.handle
  BY DEF Connection
<1>1. CASE HandleHCIConnectionComplete
  <2>1. CASE UNCHANGED store
    BY <1>0, <2>1, SameStore
  <2>2. CASE /\ TakeCids(2)
             /\ connections' = Emplace(Emplace(connections, NewConnection(m.handle, g_localCid, HidControl, 0)),
                                       NewConnection(m.handle, AfterCid(1), HidInterrupt, 0))
    <3>1. m.handle \in Handle
      BY <1>1, <1>a DEF HandleHCIConnectionComplete
    <3>2. /\ ~wrapped /\ g_localCid' = g_localCid + 2
          /\ Channels' = Channels \cup {NewConnection(m.handle, g_localCid, HidControl, 0),
                                        NewConnection(m.handle, g_localCid + 1, HidInterrupt, 0)}
      BY <1>0, <2>2, <3>1, LinkChannels
    <3>. QED  BY <1>0, <3>2, StateFacts DEF FromStore, NewConnection
  <2>. QED  BY <1>1, <2>1, <2>2 DEF HandleHCIConnectionComplete
<1>2. CASE HandleHCIDisconnect
  BY <1>0, <1>2, SameStore DEF HandleHCIDisconnect
<1>3. CASE HandleL2ConnectionRequest
  <2>1. TakeCids(1) /\ m.handle \in Handle /\ m.psm \in Psm /\ m.scid \in Cid
    BY <1>3, <1>a DEF HandleL2ConnectionRequest
  <2>2. ~wrapped /\ g_localCid' = g_localCid + 1 /\ g_localCid \in Nat
    BY <1>0, <2>1, TakenCids, StateFacts
  <2>3. CASE UNCHANGED connections
    BY <2>2, <2>3 DEF FromStore, Channels
  <2>4. CASE connections' = Emplace(connections, NewConnection(m.handle, g_localCid, m.psm, m.scid))
    <3>1. NewConnection(m.handle, g_localCid, m.psm, m.scid) \in Connection
      BY <1>0, <2>1, NewConnectionType DEF TypeOK
    <3>2. Channels' = Channels \cup {NewConnection(m.handle, g_localCid, m.psm, m.scid)}
      BY <1>0, <2>4, <3>1, RequestChannels
    <3>. QED  BY <2>2, <3>2 DEF FromStore, NewConnection
  <2>. QED  BY <1>3, <2>2, <2>3, <2>4 DEF HandleL2ConnectionRequest
<1>4. CASE HandleL2ConnectionResponse
  <2>1. UNCHANGED <<g_localCid, wrapped>> /\ m.dcid \in Cid
    BY <1>4, <1>a DEF HandleL2ConnectionResponse
  <2>2. CASE UNCHANGED connections
    BY <1>0, <2>1, <2>2, SameStore
  <2>3. ASSUME NEW p \in Local(m.handle, m.scid),
               \/ connections' = Assign(connections, p, [p.to EXCEPT !.remoteCid = m.dcid])
               \/ connections' = Remove(connections, p)
        PROVE  FromStore
    <3>. DEFINE c == [p.to EXCEPT !.remoteCid = m.dcid]
    <3>1. c \in Connection /\ c.localCid = p.to.localCid /\ c.handle = p.to.handle
      BY <1>0, <1>b, <2>1, LocalPointer
    <3>. HIDE DEF c
    <3>2. CASE connections' = Assign(connections, p, c)
      BY <2>1, <3>1, <3>2, AssignedStore
    <3>3. CASE connections' = Remove(connections, p)
      BY <2>1, <3>3, RemovedStore
    <3>. QED  BY <2>3, <3>2, <3>3 DEF c
  <2>4. ~wrapped
    BY <2>1
  <2>. QED  BY <1>4, <2>2, <2>3, <2>4 DEF HandleL2ConnectionResponse
<1>5. CASE HandleL2ConfigurationRequest
  <2>1. UNCHANGED <<g_localCid, wrapped>>
    BY <1>5 DEF HandleL2ConfigurationRequest
  <2>2. CASE UNCHANGED connections
    BY <1>0, <2>1, <2>2, SameStore
  <2>3. ASSUME NEW p \in Local(m.handle, m.dcid),
               connections' = Assign(connections, p, [p.to EXCEPT !.remoteConfigured = TRUE])
        PROVE  FromStore
    <3>. DEFINE c == [p.to EXCEPT !.remoteConfigured = TRUE]
    <3>1. c \in Connection /\ c.localCid = p.to.localCid /\ c.handle = p.to.handle
      BY <1>0, <1>b, LocalPointer
    <3>2. connections' = Assign(connections, p, c)
      BY <2>3
    <3>. HIDE DEF c
    <3>. QED  BY <2>1, <3>1, <3>2, AssignedStore
  <2>4. ~wrapped
    BY <2>1
  <2>. QED  BY <1>5, <2>2, <2>3, <2>4 DEF HandleL2ConfigurationRequest
<1>6. CASE HandleL2ConfigurationResponse
  <2>1. UNCHANGED <<g_localCid, wrapped>>
    BY <1>6 DEF HandleL2ConfigurationResponse
  <2>2. CASE UNCHANGED connections
    BY <1>0, <2>1, <2>2, SameStore
  <2>3. ASSUME NEW p \in Local(m.handle, m.scid),
               connections' = Assign(connections, p, [p.to EXCEPT !.localConfigured = TRUE])
        PROVE  FromStore
    <3>. DEFINE c == [p.to EXCEPT !.localConfigured = TRUE]
    <3>1. c \in Connection /\ c.localCid = p.to.localCid /\ c.handle = p.to.handle
      BY <1>0, <1>b, LocalPointer
    <3>2. connections' = Assign(connections, p, c)
      BY <2>3
    <3>. HIDE DEF c
    <3>. QED  BY <2>1, <3>1, <3>2, AssignedStore
  <2>4. ~wrapped
    BY <2>1
  <2>. QED  BY <1>6, <2>2, <2>3, <2>4 DEF HandleL2ConfigurationResponse
<1>7. CASE HandleL2DisconnectRequest
  <2>1. UNCHANGED <<g_localCid, wrapped>>
    BY <1>7 DEF HandleL2DisconnectRequest
  <2>2. CASE UNCHANGED connections
    BY <1>0, <2>1, <2>2, SameStore
  <2>3. ASSUME NEW p \in Local(m.handle, m.dcid), connections' = Remove(connections, p)
        PROVE  FromStore
    BY <2>1, <2>3, RemovedStore
  <2>. QED  BY <1>7, <2>1, <2>2, <2>3 DEF HandleL2DisconnectRequest
<1>8. CASE HandleL2DisconnectResponse
  <2>1. UNCHANGED <<g_localCid, wrapped>>
    BY <1>8 DEF HandleL2DisconnectResponse
  <2>2. CASE UNCHANGED connections
    BY <1>0, <2>1, <2>2, SameStore
  <2>3. ASSUME NEW p \in Local(m.handle, m.scid), connections' = Remove(connections, p)
        PROVE  FromStore
    BY <2>1, <2>3, RemovedStore
  <2>. QED  BY <1>8, <2>1, <2>2, <2>3 DEF HandleL2DisconnectResponse
<1>9. CASE HandleACLData
  BY <1>0, <1>9, SameStore DEF HandleACLData
<1>. QED  BY <1>1, <1>2, <1>3, <1>4, <1>5, <1>6, <1>7, <1>8, <1>9 DEF Handlers
--------------------------------------------------------------------------------
(* Names.                                                                    *)

\* An identifier stays what it is as long as the link does.
LEMMA IssuedStays ==
  ASSUME TypeOK, TypeOK', FromStore, NEW h \in Handle, NEW x \in Nat,
         since'[h] = since[h], Issued(h, x)
  PROVE  Issued(h, x)'
  <1>1. g_localCid \in Nat /\ g_localCid' \in Nat /\ g_localCid <= g_localCid'
    BY StateFacts, NextStateFacts DEF FromStore
  <1>2. x < g_localCid'
    BY <1>1 DEF Issued
  <1>3. ASSUME NEW k \in Channels', k.localCid = x
        PROVE  k.handle = h
    <2>1. ~(g_localCid <= k.localCid)
      BY <1>1, <1>3 DEF Issued
    <2>2. PICK l \in Channels : l.localCid = k.localCid /\ l.handle = k.handle
      BY <2>1 DEF FromStore
    <2>. QED  BY <1>3, <2>2 DEF Issued
  <1>. QED  BY <1>2, <1>3 DEF Issued

\* A packet goes on being what it is.
LEMMA SentOkStays ==
  ASSUME TypeOK, TypeOK', FromStore, NEW h \in Handle, NEW m \in Packet,
         since'[h] = since[h], SentOk(h, m)
  PROVE  SentOk(h, m)'
  BY IssuedStays, PacketFacts DEF SentOk

LEMMA NameType == \A m \in Packet : Name(m) \in Nat
  BY PacketFacts DEF Name

LEMMA HostCidType == TypeOK => \A h \in Handle, c \in PeerCid : peer[h][c].hostCid \in Nat
  <1>. SUFFICES ASSUME TypeOK, NEW h \in Handle, NEW c \in PeerCid PROVE peer[h][c].hostCid \in Nat
    OBVIOUS
  <1>1. peer[h][c].hostCid \in Cid
    BY StateFacts, EndFields
  <1>. QED  BY <1>1, MaxType DEF Cid, U16

\* What a step leaves to show that keeps the links.
LEMMA NamesFrame ==
  ASSUME TypeOK, TypeOK', NamesOk, FromStore, UNCHANGED since,
         \A h \in Handle : link[h] # "none" => link'[h] # "none",
         \A m \in Packets(rx') :
           \/ m \in Packets(rx)
           \/ /\ m.type # "DiscRsp" /\ link[m.handle] # "none"
              /\ m.type \in Naming => Issued(m.handle, Name(m)),
         \A m \in Packets(tx') :
           m \in Packets(tx) \/ (link[m.handle] # "none" /\ SentOk(m.handle, m)'),
         \A h \in Handle : \A m \in Packets(air'[h]) :
           m \in Packets(air[h]) \/ (m \in Packets(tx) /\ m.handle = h),
         \A h \in Handle, c \in PeerCid :
           Bound(peer'[h][c]) => Issued(h, peer'[h][c].hostCid),
         \A h \in Handle : ~Up(h)' => air'[h] = <<>>
  PROVE  NamesOk'
  <1>1. RxIssued'
    <2>. SUFFICES ASSUME NEW m \in Packets(rx')
                  PROVE  /\ m.type # "DiscRsp" /\ link'[m.handle] # "none"
                         /\ m.type \in Naming => Issued(m.handle, Name(m))'
      BY DEF RxIssued
    <2>1. m \in Packet /\ m.handle \in Handle /\ Name(m) \in Nat
      BY NextStateFacts, PacketsFacts, PacketFacts, NameType
    <2>2. /\ m.type # "DiscRsp" /\ link[m.handle] # "none"
          /\ m.type \in Naming => Issued(m.handle, Name(m))
      BY DEF NamesOk, RxIssued
    <2>. QED  BY <2>1, <2>2, IssuedStays
  <1>2. TxIssued'
    <2>. SUFFICES ASSUME NEW m \in Packets(tx')
                  PROVE  link'[m.handle] # "none" /\ SentOk(m.handle, m)'
      BY DEF TxIssued
    <2>1. m \in Packet /\ m.handle \in Handle
      BY NextStateFacts, PacketsFacts, PacketFacts
    <2>2. CASE m \in Packets(tx)
      <3>1. link[m.handle] # "none" /\ SentOk(m.handle, m)
        BY <2>2 DEF NamesOk, TxIssued
      <3>. QED  BY <2>1, <3>1, SentOkStays
    <2>. QED  BY <2>1, <2>2
  <1>3. AirIssued'
    <2>. SUFFICES ASSUME NEW h \in Handle, NEW m \in Packets(air'[h])
                  PROVE  m.handle = h /\ SentOk(h, m)'
      BY DEF AirIssued
    <2>1. m \in Packet
      BY NextStateFacts, PacketsFacts
    <2>2. m.handle = h /\ SentOk(h, m)
      BY DEF NamesOk, AirIssued, TxIssued
    <2>. QED  BY <2>1, <2>2, SentOkStays
  <1>4. EndsIssued'
    <2>1. ASSUME NEW h \in Handle, NEW c \in PeerCid, Bound(peer'[h][c])
          PROVE  Issued(h, peer[h][c].hostCid)'
      <3>1. PICK x \in Nat : x = peer'[h][c].hostCid
        <4>1. peer'[h][c] \in End
          BY NextStateFacts
        <4>2. peer'[h][c].hostCid \in Cid
          BY <4>1, EndFields
        <4>. QED  BY <4>2, MaxType DEF Cid, U16
      <3>2. Issued(h, x)
        BY <2>1, <3>1
      <3>3. Issued(h, x)'
        BY <3>2, IssuedStays, Zenon
      <3>4. since'[h] <= peer'[h][c].hostCid /\ peer'[h][c].hostCid < g_localCid'
            /\ \A k \in Channels' : k.localCid = peer'[h][c].hostCid => k.handle = h
        BY <3>1, <3>3 DEF Issued
      <3>. QED  BY <3>4 DEF Issued
    <2>. QED  BY <2>1 DEF EndsIssued, Bound
  <1>5. LinksOk'
    BY StateFacts, NextStateFacts DEF LinksOk, NamesOk, FromStore
  <1>. QED  BY <1>1, <1>2, <1>3, <1>4, <1>5 DEF NamesOk

\* Then what the host does when it handles a packet.
LEMMA HostFrame ==
  ASSUME TypeOK, TypeOK', NamesOk, FromStore, UNCHANGED env,
         Packets(rx') \subseteq Packets(rx),
         \A m \in Packets(tx') :
           m \in Packets(tx) \/ (link[m.handle] # "none" /\ SentOk(m.handle, m)')
  PROVE  NamesOk'
  <1>1. UNCHANGED <<link, since, peer, air>>
    BY DEF env, links
  <1>2. \A h \in Handle, c \in PeerCid : Bound(peer'[h][c]) => Issued(h, peer'[h][c].hostCid)
    BY <1>1 DEF NamesOk, EndsIssued
  <1>3. \A h \in Handle : ~Up(h)' => air'[h] = <<>>
    BY <1>1 DEF NamesOk, LinksOk, Up
  <1>. QED  BY <1>1, <1>2, <1>3, NamesFrame

\* Sending packets of the kinds that carry no new name, to a board whose packet
\* is handled.
LEMMA PlainSent ==
  ASSUME TypeOK, NamesOk, NEW h, link[h] # "none", NEW m, m.handle = h,
         m.type \in {"Auth", "ConfReq", "ConfRsp", "DiscRsp", "Data"}
  PROVE  link[m.handle] # "none" /\ SentOk(m.handle, m)'
  BY DEF SentOk

\* What the host sends.
LEMMA HandlersNames ==
  ASSUME CidInv, TypeOK', NamesOk, ~wrapped', Handlers
  PROVE  NamesOk'
<1>. DEFINE m == Head(rx)
<1>. USE DEF store
<1>0. TypeOK /\ FromStore /\ ~wrapped
  BY HandlersStore DEF CidInv
<1>a. ASSUME NEW type, Receives(type)
      PROVE  /\ m \in Packet /\ m.type = type /\ UNCHANGED env /\ Packets(rx') \subseteq Packets(rx)
             /\ m \in Packets(rx)
             /\ m.handle \in Handle /\ m.psm \in Psm /\ m.scid \in Cid /\ m.dcid \in Cid
             /\ link[m.handle] # "none" /\ type # "DiscRsp"
  <2>1. m \in Packets(rx) /\ m.type = type
    BY <1>0, <1>a, ReceivesPackets
  <2>2. link[m.handle] # "none" /\ type # "DiscRsp"
    BY <2>1 DEF NamesOk, RxIssued
  <2>. QED  BY <1>0, <1>a, <2>2, ReceivesPackets, PacketFacts
<1>b. tx \in Seq(Packet) /\ g_localCid \in Nat /\ \A h \in Handle : since[h] \in Nat /\ since[h] <= g_localCid
  BY <1>0, StateFacts DEF NamesOk, LinksOk
<1>c. \A k \in Channels : k.localCid < g_localCid
  BY <1>0, ChannelsUnique
<1>d. ASSUME NEW h \in Handle, link[h] # "none", NEW n \in Packet, n.handle = h,
             n.type \in {"Auth", "ConfReq", "ConfRsp", "DiscRsp", "Data"}, NEW q \in Seq(Packet),
             \A o \in Packets(q) : o \in Packets(tx) \/ (link[o.handle] # "none" /\ SentOk(o.handle, o)')
      PROVE  \A o \in Packets(Enqueue(q, n)) :
               o \in Packets(tx) \/ (link[o.handle] # "none" /\ SentOk(o.handle, o)')
  BY <1>0, <1>d, PacketsEnqueue, PlainSent
<1>e. ASSUME NEW h \in Handle, link[h] # "none", NEW psm \in Psm, NEW p, NEW n, NEW q \in Seq(Packet),
             \A o \in Packets(q) : o \in Packets(tx) \/ (link[o.handle] # "none" /\ SentOk(o.handle, o)'),
             Established(h, psm, p, q, n)
      PROVE  \A o \in Packets(tx') :
               o \in Packets(tx) \/ (link[o.handle] # "none" /\ SentOk(o.handle, o)')
  <2>1. CASE tx' = q
    BY <1>e, <2>1
  <2>2. ASSUME NEW d \in Packet, d.type = "Data", d.handle = h, tx' = Enqueue(q, d)
        PROVE  \A o \in Packets(tx') :
                 o \in Packets(tx) \/ (link[o.handle] # "none" /\ SentOk(o.handle, o)')
    BY <1>d, <1>e, <2>2
  <2>. QED  BY <1>0, <1>e, <2>1, <2>2, EstablishedSends
<1>1. CASE HandleHCIConnectionComplete
  <2>0. PICK h : h = m.handle
    OBVIOUS
  <2>1. h \in Handle /\ link[h] # "none" /\ UNCHANGED env /\ Packets(rx') \subseteq Packets(rx)
    BY <1>1, <1>a, <2>0 DEF HandleHCIConnectionComplete
  <2>2. CASE UNCHANGED out
    BY <1>0, <2>1, <2>2, HostFrame DEF out
  <2>3. CASE /\ Sends(Enqueue3(tx, Auth(h), ConnReq(h, HidControl, g_localCid),
                               ConnReq(h, HidInterrupt, AfterCid(1))), 3)
             /\ TakeCids(2)
             /\ connections' = Emplace(Emplace(connections, NewConnection(h, g_localCid, HidControl, 0)),
                                       NewConnection(h, AfterCid(1), HidInterrupt, 0))
    <3>1. /\ g_localCid' = g_localCid + 2 /\ AfterCid(1) = g_localCid + 1
          /\ Channels' = Channels \cup {NewConnection(h, g_localCid, HidControl, 0),
                                        NewConnection(h, g_localCid + 1, HidInterrupt, 0)}
      BY <1>0, <2>1, <2>3, LinkChannels
    <3>2. g_localCid \in Cid /\ AfterCid(1) \in Cid
      BY <1>0, AfterCidType DEF TypeOK
    <3>3. since'[h] = since[h]
      BY <2>1 DEF env, links
    <3>4. ASSUME NEW x, x = g_localCid \/ x = AfterCid(1)
          PROVE  Issued(h, x)'
      <4>1. x \in Nat /\ g_localCid <= x /\ x < g_localCid'
        BY <1>b, <3>1, <3>4
      <4>2. ASSUME NEW k \in Channels', k.localCid = x
            PROVE  k.handle = h
        <5>1. k \notin Channels
          BY <1>b, <1>c, <4>1, <4>2
        <5>. QED  BY <3>1, <5>1 DEF NewConnection
      <4>3. since'[h] <= x
        BY <1>b, <2>1, <3>3, <4>1
      <4>. QED  BY <4>1, <4>2, <4>3 DEF Issued
    <3>a. PICK a, b, c : /\ a = Auth(h) /\ b = ConnReq(h, HidControl, g_localCid)
                         /\ c = ConnReq(h, HidInterrupt, AfterCid(1))
      OBVIOUS
    <3>5. a \in Packet /\ b \in Packet /\ c \in Packet
      BY <2>1, <3>2, <3>a, PacketType, Numbers
    <3>6. /\ link[a.handle] # "none" /\ SentOk(a.handle, a)'
          /\ link[b.handle] # "none" /\ SentOk(b.handle, b)'
          /\ link[c.handle] # "none" /\ SentOk(c.handle, c)'
      <4>1. /\ a.handle = h /\ b.handle = h /\ c.handle = h
            /\ a.type = "Auth" /\ b.type = "ConnReq" /\ c.type = "ConnReq"
            /\ b.scid = g_localCid /\ c.scid = AfterCid(1)
        BY <3>a DEF Auth, ConnReq, Make
      <4>2. Issued(h, b.scid)' /\ Issued(h, c.scid)'
        BY <3>4, <4>1
      <4>. QED  BY <2>1, <4>1, <4>2 DEF SentOk
    <3>. DEFINE q1 == Enqueue(tx, a)
                q2 == Enqueue(q1, b)
    <3>7. tx' = Enqueue(q2, c)
      BY <2>3, <3>a DEF Sends, Enqueue3, Enqueue2
    <3>8. q1 \in Seq(Packet) /\ Packets(q1) \subseteq Packets(tx) \cup {a}
      BY <1>b, <3>5, PacketsEnqueue
    <3>. HIDE DEF q1
    <3>9. q2 \in Seq(Packet) /\ Packets(q2) \subseteq Packets(q1) \cup {b}
      BY <3>5, <3>8, PacketsEnqueue
    <3>. HIDE DEF q2
    <3>10. Packets(tx') \subseteq Packets(q2) \cup {c}
      BY <3>5, <3>7, <3>9, PacketsEnqueue
    <3>11. \A o \in Packets(tx') :
             o \in Packets(tx) \/ (link[o.handle] # "none" /\ SentOk(o.handle, o)')
      <4>1. ASSUME NEW o \in Packets(tx'), o \notin Packets(tx)
            PROVE  link[o.handle] # "none" /\ SentOk(o.handle, o)'
        <5>1. o = a \/ o = b \/ o = c
          BY <3>8, <3>9, <3>10, <4>1
        <5>. QED  BY <3>6, <5>1
      <4>. QED  BY <4>1
    <3>. QED  BY <1>0, <2>1, <3>11, HostFrame
  <2>. QED  BY <1>1, <2>0, <2>2, <2>3 DEF HandleHCIConnectionComplete, NewConnection
<1>2. CASE HandleHCIDisconnect
  BY <1>0, <1>2, <1>a, HostFrame DEF HandleHCIDisconnect, out
<1>3. CASE HandleL2ConnectionRequest
  <2>0. PICK h : h = m.handle
    OBVIOUS
  <2>1. /\ h \in Handle /\ link[h] # "none" /\ UNCHANGED env /\ Packets(rx') \subseteq Packets(rx)
        /\ m.psm \in Psm /\ m.scid \in Cid /\ TakeCids(1) /\ g_localCid \in Cid
    BY <1>0, <1>3, <1>a, <2>0 DEF HandleL2ConnectionRequest, TypeOK
  <2>2. g_localCid' = g_localCid + 1
    BY <1>0, <2>1, TakenCids
  <2>3. \A k \in Channels' : k.localCid = g_localCid => k.handle = h
    <3>1. CASE UNCHANGED connections
      BY <1>b, <1>c, <3>1 DEF Channels
    <3>2. CASE connections' = Emplace(connections, NewConnection(h, g_localCid, m.psm, m.scid))
      <4>1. NewConnection(h, g_localCid, m.psm, m.scid) \in Connection
        BY <2>1, NewConnectionType
      <4>2. Channels' = Channels \cup {NewConnection(h, g_localCid, m.psm, m.scid)}
        BY <1>0, <3>2, <4>1, RequestChannels
      <4>. QED  BY <1>b, <1>c, <4>2 DEF NewConnection
    <3>. QED  BY <1>3, <2>0, <3>1, <3>2 DEF HandleL2ConnectionRequest
  <2>4. ASSUME NEW x, x = g_localCid
        PROVE  Issued(h, x)'
    <3>1. since'[h] = since[h] /\ since[h] <= g_localCid
      BY <1>b, <2>1 DEF env, links
    <3>. QED  BY <1>b, <2>2, <2>3, <2>4, <3>1 DEF Issued
  <2>5. ASSUME NEW r \in {Success, Refused}, NEW n, n = ConnRsp(h, g_localCid, m.scid, r)
        PROVE  n \in Packet /\ link[n.handle] # "none" /\ SentOk(n.handle, n)'
    <3>1. n.type = "ConnRsp" /\ n.handle = h /\ n.dcid = g_localCid
      BY <2>5 DEF ConnRsp, Make
    <3>2. n \in Packet
      BY <2>1, <2>5, PacketType, Numbers
    <3>3. Issued(h, n.dcid)'
      BY <2>4, <3>1
    <3>4. SentOk(h, n)'
      BY <3>1, <3>3 DEF SentOk
    <3>. QED  BY <2>1, <3>1, <3>2, <3>4
  <2>6. CASE Sends(Enqueue2(tx, ConnRsp(h, g_localCid, m.scid, Success), ConfReq(h, m.scid, MtuOnly)), 2)
    <3>a. PICK a, b : a = ConnRsp(h, g_localCid, m.scid, Success) /\ b = ConfReq(h, m.scid, MtuOnly)
      OBVIOUS
    <3>. DEFINE q == Enqueue(tx, a)
    <3>1. a \in Packet /\ link[a.handle] # "none" /\ SentOk(a.handle, a)'
      BY <2>5, <3>a
    <3>2. b \in Packet /\ b.type = "ConfReq" /\ b.handle = h
      BY <2>1, <3>a, PacketType, Numbers DEF ConfReq, Make
    <3>3. tx' = Enqueue(q, b)
      BY <2>6, <3>a DEF Sends, Enqueue2
    <3>4. q \in Seq(Packet) /\ Packets(q) \subseteq Packets(tx) \cup {a}
      BY <1>b, <3>1, PacketsEnqueue
    <3>. HIDE DEF q
    <3>5. ASSUME NEW o \in Packets(q)
          PROVE  o \in Packets(tx) \/ (link[o.handle] # "none" /\ SentOk(o.handle, o)')
      <4>1. o \in Packets(tx) \/ o = a
        BY <3>4
      <4>. QED  BY <3>1, <4>1
    <3>6. \A o \in Packets(tx') : o \in Packets(tx) \/ (link[o.handle] # "none" /\ SentOk(o.handle, o)')
      BY <1>d, <2>1, <3>2, <3>3, <3>4, <3>5
    <3>. QED  BY <1>0, <2>1, <3>6, HostFrame
  <2>7. CASE Sends(Enqueue(tx, ConnRsp(h, g_localCid, m.scid, Refused)), 1)
    <3>a. PICK a : a = ConnRsp(h, g_localCid, m.scid, Refused)
      OBVIOUS
    <3>1. a \in Packet /\ link[a.handle] # "none" /\ SentOk(a.handle, a)'
      BY <2>5, <3>a
    <3>2. tx' = Enqueue(tx, a)
      BY <2>7, <3>a DEF Sends
    <3>3. Packets(tx') \subseteq Packets(tx) \cup {a}
      BY <1>b, <3>1, <3>2, PacketsEnqueue
    <3>4. ASSUME NEW o \in Packets(tx')
          PROVE  o \in Packets(tx) \/ (link[o.handle] # "none" /\ SentOk(o.handle, o)')
      <4>1. o \in Packets(tx) \/ o = a
        BY <3>3
      <4>. QED  BY <3>1, <4>1
    <3>. QED  BY <1>0, <2>1, <3>4, HostFrame
  <2>. QED  BY <1>3, <2>0, <2>6, <2>7 DEF HandleL2ConnectionRequest
<1>f. ASSUME NEW type, Receives(type), NEW n \in Packet, n.handle = m.handle,
             n.type \in {"Auth", "ConfReq", "ConfRsp", "DiscRsp", "Data"}, tx' = Enqueue(tx, n)
      PROVE  NamesOk'
  <2>1. \A o \in Packets(tx') : o \in Packets(tx) \/ (link[o.handle] # "none" /\ SentOk(o.handle, o)')
    BY <1>a, <1>b, <1>d, <1>f
  <2>. QED  BY <1>0, <1>a, <1>f, <2>1, HostFrame
<1>g. ASSUME NEW type, Receives(type), UNCHANGED tx
      PROVE  NamesOk'
  BY <1>0, <1>a, <1>g, HostFrame
<1>h. ASSUME NEW type, Receives(type), NEW psm \in Psm, NEW p, NEW n, NEW q \in Seq(Packet),
             \A o \in Packets(q) : o \in Packets(tx) \/ (link[o.handle] # "none" /\ SentOk(o.handle, o)'),
             Established(m.handle, psm, p, q, n)
      PROVE  NamesOk'
  <2>1. \A o \in Packets(tx') : o \in Packets(tx) \/ (link[o.handle] # "none" /\ SentOk(o.handle, o)')
    BY <1>a, <1>e, <1>h
  <2>. QED  BY <1>0, <1>a, <1>h, <2>1, HostFrame
<1>i. ASSUME NEW x, NEW p \in Local(m.handle, x)
      PROVE  p.to \in Connection /\ p.to.psm \in Psm /\ p.to.remoteCid \in Cid /\ p.to.localCid \in Cid
  BY <1>0, <1>i, LocalPointer, ConnectionFields
<1>4. CASE HandleL2ConnectionResponse
  <2>1. Receives("ConnRsp") /\ m.handle \in Handle /\ m.dcid \in Cid
    BY <1>4, <1>a DEF HandleL2ConnectionResponse
  <2>2. CASE UNCHANGED tx
    BY <1>g, <2>1, <2>2
  <2>3. CASE Sends(Enqueue(tx, ConfReq(m.handle, m.dcid, MtuOnly)), 1)
    <3>. DEFINE n == ConfReq(m.handle, m.dcid, MtuOnly)
    <3>1. n \in Packet /\ n.handle = m.handle /\ n.type = "ConfReq" /\ tx' = Enqueue(tx, n)
      BY <2>1, <2>3, PacketType, Numbers DEF ConfReq, Make, Sends
    <3>. HIDE DEF n
    <3>. QED  BY <1>f, <2>1, <3>1
  <2>. QED  BY <1>4, <2>2, <2>3 DEF HandleL2ConnectionResponse, out
<1>5. CASE HandleL2ConfigurationRequest
  <2>1. Receives("ConfReq") /\ m.handle \in Handle /\ link[m.handle] # "none"
    BY <1>5, <1>a DEF HandleL2ConfigurationRequest
  <2>2. CASE UNCHANGED tx
    BY <1>g, <2>1, <2>2
  <2>3. ASSUME NEW p \in Local(m.handle, m.dcid),
               LET q == Enqueue(tx, ConfRsp(m.handle, p.to.remoteCid, Success)) IN
               \/ Established(m.handle, p.to.psm, p, q, 1)
               \/ Sends(q, 1)
        PROVE  NamesOk'
    <3>. DEFINE n == ConfRsp(m.handle, p.to.remoteCid, Success)
    <3>1. n \in Packet /\ n.handle = m.handle /\ n.type = "ConfRsp"
      BY <1>i, <2>1, PacketType, Numbers DEF ConfRsp, Make
    <3>2. Established(m.handle, p.to.psm, p, Enqueue(tx, n), 1) \/ tx' = Enqueue(tx, n)
      BY <2>3 DEF Sends
    <3>3. p.to.psm \in Psm
      BY <1>i
    <3>. HIDE DEF n
    <3>4. /\ Enqueue(tx, n) \in Seq(Packet)
          /\ \A o \in Packets(Enqueue(tx, n)) :
               o \in Packets(tx) \/ (link[o.handle] # "none" /\ SentOk(o.handle, o)')
      BY <1>b, <1>d, <2>1, <3>1, PacketsEnqueue
    <3>5. CASE tx' = Enqueue(tx, n)
      BY <1>f, <2>1, <3>1, <3>5
    <3>6. CASE Established(m.handle, p.to.psm, p, Enqueue(tx, n), 1)
      BY <1>h, <2>1, <3>3, <3>4, <3>6
    <3>. QED  BY <3>2, <3>5, <3>6
  <2>. QED  BY <1>5, <2>2, <2>3 DEF HandleL2ConfigurationRequest, out
<1>6. CASE HandleL2ConfigurationResponse
  <2>1. Receives("ConfRsp") /\ m.handle \in Handle
    BY <1>6, <1>a DEF HandleL2ConfigurationResponse
  <2>2. CASE UNCHANGED tx
    BY <1>g, <2>1, <2>2
  <2>3. ASSUME NEW p \in Local(m.handle, m.scid), Established(m.handle, p.to.psm, p, tx, 0)
        PROVE  NamesOk'
    <3>1. p.to.psm \in Psm
      BY <1>i
    <3>. QED  BY <1>b, <1>h, <2>1, <2>3, <3>1
  <2>. QED  BY <1>6, <2>2, <2>3 DEF HandleL2ConfigurationResponse, out
<1>7. CASE HandleL2DisconnectRequest
  <2>1. Receives("DiscReq") /\ m.handle \in Handle
    BY <1>7, <1>a DEF HandleL2DisconnectRequest
  <2>2. CASE UNCHANGED tx
    BY <1>g, <2>1, <2>2
  <2>3. ASSUME NEW p \in Local(m.handle, m.dcid),
               Sends(Enqueue(tx, DiscRsp(m.handle, p.to.localCid, p.to.remoteCid)), 1)
        PROVE  NamesOk'
    <3>. DEFINE n == DiscRsp(m.handle, p.to.localCid, p.to.remoteCid)
    <3>1. n \in Packet /\ n.handle = m.handle /\ n.type = "DiscRsp" /\ tx' = Enqueue(tx, n)
      BY <1>i, <2>1, <2>3, PacketType, Numbers DEF DiscRsp, Make, Sends
    <3>. HIDE DEF n
    <3>. QED  BY <1>f, <2>1, <3>1
  <2>. QED  BY <1>7, <2>2, <2>3 DEF HandleL2DisconnectRequest, out
<1>8. CASE HandleL2DisconnectResponse
  BY <1>8, <1>a DEF HandleL2DisconnectResponse
<1>9. CASE HandleACLData
  <2>1. PICK type \in {"Data", "Reject"} : Receives(type)
    BY <1>9 DEF HandleACLData
  <2>2. CASE UNCHANGED tx
    BY <1>g, <2>1, <2>2
  <2>3. ASSUME NEW d \in L2Data(m.handle, HidInterrupt), Sends(Enqueue(tx, d.packet), 1)
        PROVE  NamesOk'
    <3>1. m.handle \in Handle
      BY <1>a, <2>1
    <3>2. d.packet \in Packet /\ d.packet.handle = m.handle /\ d.packet.type = "Data"
      BY <1>0, <3>1, StateFacts, L2DataType, Numbers DEF L2Data, Data, Make
    <3>3. tx' = Enqueue(tx, d.packet)
      BY <2>3 DEF Sends
    <3>. QED  BY <1>f, <2>1, <3>2, <3>3
  <2>. QED  BY <1>9, <2>2, <2>3 DEF HandleACLData, out
<1>. QED  BY <1>1, <1>2, <1>3, <1>4, <1>5, <1>6, <1>7, <1>8, <1>9 DEF Handlers
--------------------------------------------------------------------------------
(* The other side.                                                           *)

\* What a board's step leaves to show.
LEMMA BoardFrame ==
  ASSUME TypeOK, TypeOK', NamesOk, NEW h \in Handle, Up(h),
         UNCHANGED <<connections, g_localCid, since, link, tx>>,
         \/ UNCHANGED rx
         \/ \E m \in Packet : /\ Delivers(m) /\ m.handle = h /\ m.type # "DiscRsp"
                              /\ m.type \in Naming => Issued(h, Name(m)),
         Packets(air'[h]) \subseteq Packets(air[h]),
         \A k \in Handle : k # h => air'[k] = air[k],
         \/ UNCHANGED peer
         \/ \E c \in PeerCid, e \in End : SetEnd(h, c, e) /\ (Bound(e) => Issued(h, e.hostCid))
  PROVE  NamesOk'
  <1>1. FromStore
    BY SameStore
  <1>2. link[h] # "none"
    BY DEF Up
  <1>3. ASSUME NEW m \in Packets(rx')
        PROVE  \/ m \in Packets(rx)
               \/ /\ m.type # "DiscRsp" /\ link[m.handle] # "none"
                  /\ m.type \in Naming => Issued(m.handle, Name(m))
    <2>1. CASE UNCHANGED rx
      BY <2>1
    <2>2. ASSUME NEW n \in Packet, Delivers(n), n.handle = h, n.type # "DiscRsp",
                 n.type \in Naming => Issued(h, Name(n))
          PROVE  \/ m \in Packets(rx)
                 \/ /\ m.type # "DiscRsp" /\ link[m.handle] # "none"
                    /\ m.type \in Naming => Issued(m.handle, Name(m))
      <3>1. m \in Packets(rx) \/ m = n
        BY <2>2, DeliversPackets
      <3>. QED  BY <1>2, <2>2, <3>1
    <2>. QED  BY <2>1, <2>2
  <1>4. ASSUME NEW k \in Handle, NEW m \in Packets(air'[k])
        PROVE  m \in Packets(air[k])
    BY <1>4
  <1>5. ASSUME NEW k \in Handle, NEW d \in PeerCid, Bound(peer'[k][d])
        PROVE  Issued(k, peer'[k][d].hostCid)
    <2>1. CASE peer'[k][d] = peer[k][d]
      BY <1>5, <2>1 DEF NamesOk, EndsIssued
    <2>2. ASSUME NEW c \in PeerCid, NEW e \in End, SetEnd(h, c, e), Bound(e) => Issued(h, e.hostCid)
          PROVE  Issued(k, peer'[k][d].hostCid)
      <3>1. peer'[k][d] = peer[k][d] \/ (k = h /\ peer'[k][d] = e)
        BY <2>2, SetEndFacts
      <3>. QED  BY <1>5, <2>1, <2>2, <3>1
    <2>. QED  BY <2>1, <2>2
  <1>6. ASSUME NEW k \in Handle, ~Up(k)'
        PROVE  air'[k] = <<>>
    BY <1>6 DEF NamesOk, LinksOk, Up
  <1>7. \A k \in Handle : link[k] # "none" => link'[k] # "none"
    OBVIOUS
  <1>. QED  BY <1>1, <1>3, <1>4, <1>5, <1>6, <1>7, NamesFrame

\* What a board starts.
LEMMA BoardsNames ==
  ASSUME TypeOK, TypeOK', NamesOk, NEW h \in Handle, NEW c \in PeerCid,
         \/ \E psm \in PeerPsm : PeerConnect(h, c, psm)
         \/ PeerDisconnect(h, c)
         \/ PeerData(h, c)
         \/ \E result \in Results : PeerDecides(h, c, result)
         \/ \E form \in Forms : PeerConfigure(h, c, form) \/ PeerReconfigure(h, c, form)
         \/ \E result \in ConfResults : PeerConcludes(h, c, result)
  PROVE  NamesOk'
<1>. DEFINE e == peer[h][c]
<1>1. c \in Cid /\ e \in End /\ e.hostCid \in Cid /\ e.psm \in Psm
  BY ConstantsAssumption, StateFacts, EndFields
<1>2. Bound(e) => Issued(h, e.hostCid)
  BY DEF NamesOk, EndsIssued
<1>. USE DEF host, store, links, out
<1>a. UNCHANGED <<connections, g_localCid, since, link, tx, air>> /\ Up(h)
  BY DEF PeerConnect, PeerDisconnect, PeerData, PeerDecides, PeerConfigure, PeerReconfigure,
         PeerConcludes, Up
<1>3. ASSUME NEW psm \in PeerPsm, PeerConnect(h, c, psm)
      PROVE  NamesOk'
  <2>. DEFINE m == ConnReq(h, psm, c)
              d == NewEnd("waiting", psm, 0)
  <2>1. psm \in Psm
    BY ConstantsAssumption
  <2>2. m \in Packet /\ m.handle = h /\ m.type = "ConnReq"
    BY <1>1, <2>1, PacketType, Numbers DEF ConnReq, Make
  <2>3. d \in End /\ ~Bound(d)
    BY <2>1, EndType, Numbers DEF EndStates, NewEnd, Bound
  <2>4. Delivers(m) /\ SetEnd(h, c, d)
    BY <1>3 DEF PeerConnect
  <2>. HIDE DEF m, d
  <2>. QED  BY <1>a, <2>2, <2>3, <2>4, BoardFrame DEF Naming
<1>4. CASE PeerDisconnect(h, c)
  <2>. DEFINE m == DiscReq(h, e.hostCid, c)
              d == [e EXCEPT !.state = "closing"]
  <2>1. m \in Packet /\ m.handle = h /\ m.type = "DiscReq" /\ Name(m) = e.hostCid
    BY <1>1, PacketType, Numbers DEF DiscReq, Make, Name
  <2>2. d \in End /\ d.hostCid = e.hostCid
    BY <1>1, EndFields DEF End
  <2>3. Bound(e) /\ Delivers(m) /\ SetEnd(h, c, d)
    BY <1>4 DEF PeerDisconnect, Bound
  <2>. HIDE DEF m, d, e
  <2>. QED  BY <1>2, <1>a, <2>1, <2>2, <2>3, BoardFrame
<1>5. CASE PeerData(h, c)
  <2>. DEFINE m == Data(h, HidInterrupt, e.hostCid)
  <2>1. m \in Packet /\ m.handle = h /\ m.type = "Data" /\ Name(m) = e.hostCid
    BY <1>1, PacketType, Numbers DEF Data, Make, Name
  <2>2. Bound(e) /\ Delivers(m) /\ UNCHANGED peer
    BY <1>5 DEF PeerData, Bound, IsOpen
  <2>. HIDE DEF m, e
  <2>. QED  BY <1>2, <1>a, <2>1, <2>2, BoardFrame
<1>6. ASSUME NEW result \in Results, PeerDecides(h, c, result)
      PROVE  NamesOk'
  <2>. DEFINE m == ConnRsp(h, IF result = Refused THEN 0 ELSE c, e.hostCid, result)
  <2>1. result \in U16
    BY ConstantsAssumption, Numbers
  <2>2. m \in Packet /\ m.handle = h /\ m.type = "ConnRsp" /\ Name(m) = e.hostCid
    BY <1>1, <2>1, PacketType, Numbers DEF ConnRsp, Make, Name
  <2>3. PICK d : d \in {[e EXCEPT !.state = "config"], [e EXCEPT !.state = "closed"]} /\ SetEnd(h, c, d)
    BY <1>6 DEF PeerDecides
  <2>4. d \in End /\ d.hostCid = e.hostCid
    <3>1. PICK g \in End : g = e
      BY <1>1
    <3>2. d = [g EXCEPT !.state = "config"] \/ d = [g EXCEPT !.state = "closed"]
      BY <2>3, <3>1
    <3>. QED  BY <3>1, <3>2 DEF End, EndStates
  <2>5. Bound(e) /\ Delivers(m)
    BY <1>6 DEF PeerDecides, Bound
  <2>. HIDE DEF m, e
  <2>. QED  BY <1>2, <1>a, <2>2, <2>3, <2>4, <2>5, BoardFrame
<1>7. ASSUME NEW form \in Forms, PeerConfigure(h, c, form)
      PROVE  NamesOk'
  <2>. DEFINE m == ConfReq(h, e.hostCid, form)
              d == [e EXCEPT !.reqSent = TRUE]
  <2>1. form \in U16
    BY ConstantsAssumption, Numbers
  <2>2. m \in Packet /\ m.handle = h /\ m.type = "ConfReq" /\ Name(m) = e.hostCid
    BY <1>1, <2>1, PacketType, Numbers DEF ConfReq, Make, Name
  <2>3. d \in End /\ d.hostCid = e.hostCid
    BY <1>1, EndFields DEF End
  <2>4. Bound(e) /\ Delivers(m) /\ SetEnd(h, c, d)
    BY <1>7 DEF PeerConfigure, Bound
  <2>. HIDE DEF m, d, e
  <2>. QED  BY <1>2, <1>a, <2>2, <2>3, <2>4, BoardFrame
<1>8. ASSUME NEW form \in Forms, PeerReconfigure(h, c, form)
      PROVE  NamesOk'
  <2>. DEFINE m == ConfReq(h, e.hostCid, form)
  <2>1. form \in U16
    BY ConstantsAssumption, Numbers
  <2>2. m \in Packet /\ m.handle = h /\ m.type = "ConfReq" /\ Name(m) = e.hostCid
    BY <1>1, <2>1, PacketType, Numbers DEF ConfReq, Make, Name
  <2>3. Bound(e) /\ Delivers(m) /\ UNCHANGED peer
    BY <1>8 DEF PeerReconfigure, Bound
  <2>. HIDE DEF m, e
  <2>. QED  BY <1>2, <1>a, <2>2, <2>3, BoardFrame
<1>9. ASSUME NEW result \in ConfResults, PeerConcludes(h, c, result)
      PROVE  NamesOk'
  <2>. DEFINE m == ConfRsp(h, e.hostCid, result)
              d == [e EXCEPT !.verdict = result]
  <2>1. result \in U16 /\ result \in {Success, Pending, Refused}
    BY ConstantsAssumption, Numbers
  <2>2. m \in Packet /\ m.handle = h /\ m.type = "ConfRsp" /\ Name(m) = e.hostCid
    BY <1>1, <2>1, PacketType, Numbers DEF ConfRsp, Make, Name
  <2>3. d \in End /\ d.hostCid = e.hostCid
    BY <1>1, <2>1, EndFields DEF End
  <2>4. Bound(e) /\ Delivers(m) /\ SetEnd(h, c, d)
    BY <1>9 DEF PeerConcludes, Bound
  <2>. HIDE DEF m, d, e
  <2>. QED  BY <1>2, <1>a, <2>2, <2>3, <2>4, BoardFrame
<1>. QED  BY <1>3, <1>4, <1>5, <1>6, <1>7, <1>8, <1>9

\* What a board answers.
LEMMA RepliesNames ==
  ASSUME TypeOK, TypeOK', NamesOk, NEW h \in Handle, PeerReply(h)
  PROVE  NamesOk'
<1>. DEFINE m == Head(air[h])
<1>. USE DEF host, store, links, out
<1>1. ASSUME NEW type, PeerReceives(h, type)
      PROVE  /\ Up(h) /\ UNCHANGED <<connections, g_localCid, since, link, tx>>
             /\ m \in Packet /\ m.type = type /\ SentOk(h, m)
             /\ Packets(air'[h]) \subseteq Packets(air[h])
             /\ \A k \in Handle : k # h => air'[k] = air[k]
             /\ m.psm \in Psm /\ m.scid \in Cid /\ m.dcid \in Cid
  <2>1. m \in Packets(air[h]) /\ m \in Packet
    BY <1>1, PeerReceivesPackets
  <2>2. SentOk(h, m)
    BY <2>1 DEF NamesOk, AirIssued
  <2>. QED  BY <1>1, <2>1, <2>2, PeerReceivesPackets, PacketFacts
<1>2. ASSUME NEW c, EndAt(h, c).state # "closed"
      PROVE  /\ c \in PeerCid /\ EndAt(h, c) = peer[h][c] /\ EndAt(h, c) \in End
             /\ EndAt(h, c).hostCid \in Cid
             /\ Bound(EndAt(h, c)) => Issued(h, EndAt(h, c).hostCid)
  <2>1. c \in PeerCid /\ EndAt(h, c) = peer[h][c]
    BY <1>2 DEF EndAt, NewEnd
  <2>2. EndAt(h, c) \in End
    BY EndAtType
  <2>. QED  BY <2>1, <2>2, EndFields DEF NamesOk, EndsIssued
<1>3. ASSUME NEW type, PeerReceives(h, type), UNCHANGED rx,
             \/ UNCHANGED peer
             \/ \E c \in PeerCid, e \in End : SetEnd(h, c, e) /\ (Bound(e) => Issued(h, e.hostCid))
      PROVE  NamesOk'
  BY <1>1, <1>3, BoardFrame
<1>4. ASSUME NEW c \in PeerCid, NEW result \in Results, PeerOnConnReq(h, c, result)
      PROVE  NamesOk'
  <2>. DEFINE n == ConnRsp(h, IF result = Refused THEN 0 ELSE c, m.scid, result)
  <2>1. PeerReceives(h, "ConnReq")
    BY <1>4 DEF PeerOnConnReq
  <2>2. c \in Cid /\ result \in U16 /\ m.scid \in Cid /\ m.psm \in Psm
    BY <1>1, <2>1, ConstantsAssumption, Numbers
  <2>3. Issued(h, m.scid)
    BY <1>1, <2>1 DEF SentOk
  <2>4. n \in Packet /\ n.handle = h /\ n.type = "ConnRsp" /\ Name(n) = m.scid
    BY <2>2, PacketType, Numbers DEF ConnRsp, Make, Name
  <2>5. Delivers(n)
    BY <1>4 DEF PeerOnConnReq
  <2>6. \/ UNCHANGED peer
        \/ \E e \in End : SetEnd(h, c, e) /\ (Bound(e) => Issued(h, e.hostCid))
    <3>1. ASSUME NEW state \in {"config", "pending"}, SetEnd(h, c, NewEnd(state, m.psm, m.scid))
          PROVE  \E e \in End : SetEnd(h, c, e) /\ (Bound(e) => Issued(h, e.hostCid))
      <4>1. NewEnd(state, m.psm, m.scid) \in End /\ NewEnd(state, m.psm, m.scid).hostCid = m.scid
        BY <2>2, EndType DEF EndStates, NewEnd
      <4>. QED  BY <2>3, <3>1, <4>1
    <3>. QED  BY <1>4, <3>1 DEF PeerOnConnReq
  <2>. HIDE DEF n
  <2>. QED  BY <1>1, <2>1, <2>3, <2>4, <2>5, <2>6, BoardFrame
<1>5. CASE PeerOnConnRsp(h)
  <2>. DEFINE e == EndAt(h, m.scid)
  <2>1. PeerReceives(h, "ConnRsp") /\ UNCHANGED rx
    BY <1>5 DEF PeerOnConnRsp
  <2>2. Issued(h, m.dcid) /\ m.dcid \in Cid
    BY <1>1, <2>1 DEF SentOk
  <2>3. CASE UNCHANGED peer
    BY <1>3, <2>1, <2>3
  <2>4. CASE e.state = "waiting" /\ SetEnd(h, m.scid, [e EXCEPT !.state = "config", !.hostCid = m.dcid])
    <3>. DEFINE d == [e EXCEPT !.state = "config", !.hostCid = m.dcid]
    <3>1. m.scid \in PeerCid /\ e \in End
      BY <1>2, <2>4
    <3>2. d \in End /\ d.hostCid = m.dcid
      BY <2>2, <3>1, EndFields DEF End
    <3>3. SetEnd(h, m.scid, d)
      BY <2>4
    <3>. HIDE DEF d
    <3>. QED  BY <1>3, <2>1, <2>2, <3>1, <3>2, <3>3
  <2>5. CASE e.state = "waiting" /\ SetEnd(h, m.scid, [e EXCEPT !.state = "closed"])
    <3>. DEFINE d == [e EXCEPT !.state = "closed"]
    <3>1. m.scid \in PeerCid /\ e \in End
      BY <1>2, <2>5
    <3>2. d \in End /\ ~Bound(d)
      BY <3>1, EndFields DEF End, Bound
    <3>3. SetEnd(h, m.scid, d)
      BY <2>5
    <3>. HIDE DEF d
    <3>. QED  BY <1>3, <2>1, <3>1, <3>2, <3>3
  <2>. QED  BY <1>5, <2>3, <2>4, <2>5 DEF PeerOnConnRsp
<1>6. ASSUME NEW c, NEW d, EndAt(h, c).state # "closed", SetEnd(h, c, d),
             \/ \E v \in {Success, Pending, Refused} :
                  d = [EndAt(h, c) EXCEPT !.rspSent = TRUE, !.verdict = v]
             \/ d = [EndAt(h, c) EXCEPT !.rspGot = TRUE]
             \/ d = [EndAt(h, c) EXCEPT !.state = "closed"]
      PROVE  \E x \in PeerCid, y \in End : SetEnd(h, x, y) /\ (Bound(y) => Issued(h, y.hostCid))
  <2>1. c \in PeerCid /\ EndAt(h, c) \in End /\ (Bound(EndAt(h, c)) => Issued(h, EndAt(h, c).hostCid))
    BY <1>2, <1>6
  <2>2. d \in End /\ d.hostCid = EndAt(h, c).hostCid /\ (Bound(d) => Bound(EndAt(h, c)))
    <3>1. PICK g \in End : g = EndAt(h, c)
      BY <2>1
    <3>2. CASE \/ \E v \in {Success, Pending, Refused} :
                    d = [g EXCEPT !.rspSent = TRUE, !.verdict = v]
               \/ d = [g EXCEPT !.rspGot = TRUE]
      BY <3>1, <3>2 DEF End, EndStates, Bound
    <3>3. CASE d = [g EXCEPT !.state = "closed"]
      BY <3>1, <3>3 DEF End, EndStates, Bound
    <3>. QED  BY <1>6, <3>1, <3>2, <3>3
  <2>. QED  BY <1>6, <2>1, <2>2
<1>7. ASSUME NEW result \in ConfResults, PeerOnConfReq(h, result)
      PROVE  NamesOk'
  <2>. DEFINE e == EndAt(h, m.dcid)
              n == ConfRsp(h, e.hostCid, result)
  <2>1. PeerReceives(h, "ConfReq")
    BY <1>7 DEF PeerOnConfReq
  <2>2. CASE UNCHANGED <<rx, peer>>
    BY <1>3, <2>1, <2>2
  <2>0. result \in U16 /\ result \in {Success, Pending, Refused}
    BY ConstantsAssumption, Numbers
  <2>3. CASE /\ e.state = "config" /\ Delivers(n)
             /\ SetEnd(h, m.dcid, [e EXCEPT !.rspSent = TRUE, !.verdict = result])
    <3>1. e.hostCid \in Cid /\ Issued(h, e.hostCid)
      BY <1>2, <2>3 DEF Bound
    <3>2. n \in Packet /\ n.handle = h /\ n.type = "ConfRsp" /\ Name(n) = e.hostCid
      BY <2>0, <3>1, PacketType, Numbers DEF ConfRsp, Make, Name
    <3>3. \E x \in PeerCid, y \in End : SetEnd(h, x, y) /\ (Bound(y) => Issued(h, y.hostCid))
      BY <1>6, <2>0, <2>3
    <3>4. Delivers(n)
      BY <2>3
    <3>. HIDE DEF n, e
    <3>. QED  BY <1>1, <2>1, <3>1, <3>2, <3>3, <3>4, BoardFrame
  <2>. QED  BY <1>7, <2>2, <2>3 DEF PeerOnConfReq
<1>8. CASE PeerOnConfRsp(h)
  <2>1. PeerReceives(h, "ConfRsp") /\ UNCHANGED rx
    BY <1>8 DEF PeerOnConfRsp
  <2>2. \/ UNCHANGED peer
        \/ \E x \in PeerCid, y \in End : SetEnd(h, x, y) /\ (Bound(y) => Issued(h, y.hostCid))
    BY <1>6, <1>8 DEF PeerOnConfRsp
  <2>. QED  BY <1>3, <2>1, <2>2
<1>9. CASE PeerOnDiscReq(h)
  BY <1>1, <1>9 DEF PeerOnDiscReq, SentOk
<1>10. CASE PeerOnDiscRsp(h)
  <2>1. PeerReceives(h, "DiscRsp") /\ UNCHANGED rx
    BY <1>10 DEF PeerOnDiscRsp
  <2>2. \/ UNCHANGED peer
        \/ \E x \in PeerCid, y \in End : SetEnd(h, x, y) /\ (Bound(y) => Issued(h, y.hostCid))
    BY <1>6, <1>10 DEF PeerOnDiscRsp
  <2>. QED  BY <1>3, <2>1, <2>2
<1>11. CASE PeerOnData(h)
  BY <1>3, <1>11 DEF PeerOnData
<1>. QED  BY <1>4, <1>5, <1>7, <1>8, <1>9, <1>10, <1>11 DEF PeerReply

\* A packet goes from the ring to the link of its board.
LEMMA TransmitNames ==
  ASSUME TypeOK, TypeOK', NamesOk, Transmit
  PROVE  NamesOk'
<1>. DEFINE m == Head(tx)
<1>. USE DEF store, links
<1>1. UNCHANGED <<connections, g_localCid, rx, link, since, peer>>
  BY DEF Transmit
<1>2. FromStore
  BY <1>1, SameStore
<1>3. m \in Packets(tx) /\ m.handle \in Handle
  BY TransmitPackets, PacketFacts
<1>4. \A n \in Packets(tx') : n \in Packets(tx)
  BY TransmitPackets
<1>5. \A h \in Handle : \A n \in Packets(air'[h]) :
        n \in Packets(air[h]) \/ (n \in Packets(tx) /\ n.handle = h)
  BY <1>3, TransmitPackets
<1>6. \A h \in Handle : ~Up(h)' => air'[h] = <<>>
  <2>1. ASSUME NEW h \in Handle, ~Up(h)
        PROVE  air'[h] = <<>>
    BY <1>3, <2>1, TransmitPackets DEF NamesOk, LinksOk
  <2>. QED  BY <1>1, <2>1 DEF Up
<1>7. \A h \in Handle, c \in PeerCid : Bound(peer'[h][c]) => Issued(h, peer'[h][c].hostCid)
  BY <1>1 DEF NamesOk, EndsIssued
<1>. HIDE DEF m
<1>. QED  BY <1>1, <1>2, <1>4, <1>5, <1>6, <1>7, NamesFrame

\* A link goes down: nothing is on its way to the board any more.
LEMMA DownNames ==
  ASSUME TypeOK, TypeOK', NamesOk, NEW h \in Handle, LinkLoss(h)
  PROVE  NamesOk'
<1>. USE DEF store, links, host, out
<1>1. /\ UNCHANGED <<connections, g_localCid, since, peer, tx>> /\ Up(h)
      /\ Delivers(DisconnectionComplete(h))
      /\ link' = [link EXCEPT ![h] = "lost"] /\ air' = [air EXCEPT ![h] = <<>>]
  BY DEF LinkLoss, LinkDown
<1>2. FromStore
  BY <1>1, SameStore
<1>3. /\ link'[h] = "lost" /\ air'[h] = <<>>
      /\ \A k \in Handle : k # h => link'[k] = link[k] /\ air'[k] = air[k]
  BY <1>1 DEF TypeOK
<1>. DEFINE n == DisconnectionComplete(h)
<1>4. n \in Packet /\ n.handle = h /\ n.type = "DisconnectionComplete"
  BY PacketType, Numbers DEF DisconnectionComplete, Make
<1>5. Delivers(n) /\ link[h] # "none"
  BY <1>1 DEF Up
<1>. HIDE DEF n
<1>6. ASSUME NEW m \in Packets(rx')
      PROVE  \/ m \in Packets(rx)
             \/ /\ m.type # "DiscRsp" /\ link[m.handle] # "none"
                /\ m.type \in Naming => Issued(m.handle, Name(m))
  <2>1. m \in Packets(rx) \/ m = n
    BY <1>4, <1>5, DeliversPackets
  <2>. QED  BY <1>4, <1>5, <2>1 DEF Naming
<1>7. \A k \in Handle : \A m \in Packets(air'[k]) : m \in Packets(air[k])
  BY <1>3 DEF Packets
<1>8. \A k \in Handle : link[k] # "none" => link'[k] # "none"
  BY <1>3
<1>9. \A k \in Handle : ~Up(k)' => air'[k] = <<>>
  <2>1. ASSUME NEW k \in Handle, k # h, link'[k] \notin {"ours", "theirs"}
        PROVE  air'[k] = <<>>
    BY <1>3, <2>1 DEF NamesOk, LinksOk, Up
  <2>. QED  BY <1>3, <2>1 DEF Up
<1>10. \A k \in Handle, c \in PeerCid : Bound(peer'[k][c]) => Issued(k, peer'[k][c].hostCid)
  BY <1>1 DEF NamesOk, EndsIssued
<1>. QED  BY <1>1, <1>2, <1>6, <1>7, <1>8, <1>9, <1>10, NamesFrame

\* A link comes up, for the first time or again when nothing of the one before
\* is on its way.
LEMMA UpNames ==
  ASSUME TypeOK, TypeOK', NamesOk, NEW h \in Handle, NEW by \in {Ours, Theirs}, LinkUp(h, by)
  PROVE  NamesOk'
<1>. DEFINE n == ConnectionComplete(h, by)
<1>. USE DEF store, links, host, out
<1>1. /\ UNCHANGED <<connections, g_localCid, tx, air>> /\ Delivers(n)
      /\ link' = [link EXCEPT ![h] = IF by = Ours THEN "ours" ELSE "theirs"]
      /\ since' = [since EXCEPT ![h] = g_localCid]
      /\ peer' = [peer EXCEPT ![h] = NoEnds]
      /\ link[h] = "none" \/ MayRelink(h)
  BY DEF LinkUp
<1>2. FromStore
  BY <1>1, SameStore
<1>3. /\ Up(h)' /\ since'[h] = g_localCid /\ peer'[h] = NoEnds
      /\ \A k \in Handle : k # h => /\ link'[k] = link[k] /\ since'[k] = since[k]
                                    /\ peer'[k] = peer[k]
  BY <1>1 DEF TypeOK, Up
<1>4. n \in Packet /\ n.handle = h /\ n.type = "ConnectionComplete"
  BY PacketType, Numbers DEF ConnectionComplete, Make
<1>5. Packets(rx') = Packets(rx) \cup {n}
  BY <1>1, <1>4, DeliversPackets
<1>. HIDE DEF n
<1>6. air[h] = <<>> /\ Packets(air[h]) = {}
  <2>1. ~Up(h)
    BY <1>1 DEF MayRelink, Up
  <2>. QED  BY <2>1 DEF NamesOk, LinksOk, Packets
<1>7. \A m \in Packets(rx) \cup Packets(tx) : m.handle # h
  <2>1. CASE link[h] = "none"
    BY <2>1 DEF NamesOk, RxIssued, TxIssued
  <2>2. CASE MayRelink(h)
    BY <2>2 DEF MayRelink
  <2>. QED  BY <1>1, <2>1, <2>2
<1>8. \A k \in Handle : link[k] # "none" => link'[k] # "none"
  BY <1>3 DEF Up
<1>a. rx \in Seq(Packet) /\ tx \in Seq(Packet) /\ \A k \in Handle : air[k] \in Seq(Packet)
  BY StateFacts
<1>9. RxIssued'
  <2>1. ASSUME NEW m \in Packets(rx')
        PROVE  /\ m.type # "DiscRsp" /\ link'[m.handle] # "none"
               /\ m.type \in Naming => Issued(m.handle, Name(m))'
    <3>1. CASE m = n
      BY <1>3, <1>4, <3>1 DEF Naming, Up
    <3>2. CASE m \in Packets(rx)
      <4>1. m.handle # h /\ m \in Packet /\ m.handle \in Handle /\ Name(m) \in Nat
        BY <1>7, <1>a, <3>2, PacketsFacts, PacketFacts, NameType
      <4>2. /\ m.type # "DiscRsp" /\ link[m.handle] # "none"
            /\ m.type \in Naming => Issued(m.handle, Name(m))
        BY <3>2 DEF NamesOk, RxIssued
      <4>. QED  BY <1>2, <1>3, <1>8, <4>1, <4>2, IssuedStays
    <3>. QED  BY <1>5, <3>1, <3>2
  <2>. QED  BY <2>1 DEF RxIssued
<1>10. TxIssued'
  <2>1. ASSUME NEW m \in Packets(tx')
        PROVE  link'[m.handle] # "none" /\ SentOk(m.handle, m)'
    <3>1. m \in Packets(tx)
      BY <1>1
    <3>2. m.handle # h /\ m \in Packet /\ m.handle \in Handle
      BY <1>7, <1>a, <3>1, PacketsFacts, PacketFacts
    <3>3. link[m.handle] # "none" /\ SentOk(m.handle, m)
      BY <3>1 DEF NamesOk, TxIssued
    <3>. QED  BY <1>2, <1>3, <1>8, <3>2, <3>3, SentOkStays
  <2>. QED  BY <2>1 DEF TxIssued
<1>11. AirIssued'
  <2>1. ASSUME NEW k \in Handle, NEW m \in Packets(air'[k])
        PROVE  m.handle = k /\ SentOk(k, m)'
    <3>1. m \in Packets(air[k]) /\ k # h
      BY <1>1, <1>6, <2>1
    <3>2. m \in Packet
      BY <1>a, <3>1, PacketsFacts
    <3>3. m.handle = k /\ SentOk(k, m)
      BY <3>1 DEF NamesOk, AirIssued
    <3>. QED  BY <1>2, <1>3, <3>1, <3>2, <3>3, SentOkStays
  <2>. QED  BY <2>1 DEF AirIssued
<1>12. EndsIssued'
  <2>1. ASSUME NEW k \in Handle, NEW c \in PeerCid, Bound(peer'[k][c])
        PROVE  Issued(k, peer[k][c].hostCid)'
    <3>1. k # h
      BY <1>3, <2>1 DEF NoEnds, NewEnd, Bound
    <3>2. PICK x \in Nat : x = peer[k][c].hostCid
      BY HostCidType
    <3>3. Issued(k, x)
      BY <1>3, <2>1, <3>1, <3>2 DEF NamesOk, EndsIssued
    <3>4. Issued(k, x)'
      BY <1>2, <1>3, <3>1, <3>3, IssuedStays
    <3>5. peer'[k][c].hostCid = x
      BY <1>3, <3>1, <3>2
    <3>6. since'[k] <= peer'[k][c].hostCid /\ peer'[k][c].hostCid < g_localCid'
          /\ \A l \in Channels' : l.localCid = peer'[k][c].hostCid => l.handle = k
      BY <3>4, <3>5 DEF Issued
    <3>. QED  BY <3>6 DEF Issued
  <2>. QED  BY <2>1 DEF EndsIssued, Bound
<1>13. LinksOk'
  <2>1. ASSUME NEW k \in Handle, k # h
        PROVE  since'[k] <= g_localCid' /\ (~Up(k)' => air'[k] = <<>>)
    BY <1>1, <1>3, <2>1 DEF NamesOk, LinksOk, Up
  <2>2. since'[h] <= g_localCid'
    BY <1>1, <1>3, StateFacts
  <2>. QED  BY <1>3, <2>1, <2>2 DEF LinksOk
<1>. QED  BY <1>9, <1>10, <1>11, <1>12, <1>13 DEF NamesOk

\* Every step.
LEMMA NextNames ==
  ASSUME "appDisconnect" \notin Moves, CidInv, NamesInv, [Next]_vars
  PROVE  NamesInv'
<1>. SUFFICES ASSUME ~wrapped' PROVE NamesOk'
  BY DEF NamesInv
<1>1. TypeOK /\ TypeOK'
  BY NextType DEF CidInv
<1>2. CASE Handlers
  <2>1. ~wrapped
    BY <1>2, HandlersStore
  <2>. QED  BY <1>1, <1>2, <2>1, HandlersNames DEF NamesInv
<1>3. CASE ~Handlers
  <2>1. UNCHANGED <<connections, g_localCid, wrapped>>
    BY <1>3, OthersKeepStore
  <2>2. NamesOk
    BY <2>1 DEF NamesInv
  <2>3. CASE Transmit
    BY <1>1, <2>2, <2>3, TransmitNames
  <2>4. CASE ControllerDisconnects
    <3>1. tx # <<>> /\ Head(tx).type = "Disconnect"
      BY <2>4 DEF ControllerDisconnects
    <3>2. Head(tx) \in Packets(tx)
      BY <1>1, <3>1, StateFacts, PacketsTail
    <3>. QED  BY <2>2, <3>1, <3>2 DEF NamesOk, TxIssued, SentOk
  <2>5. ASSUME NEW h \in Handle, NEW psm \in AppPsm, AppDisconnect(h, psm)
        PROVE  NamesOk'
    BY <2>5 DEF AppDisconnect, Moving
  <2>6. ASSUME NEW h \in Handle, NEW by \in {Ours, Theirs}, LinkUp(h, by)
        PROVE  NamesOk'
    BY <1>1, <2>2, <2>6, UpNames
  <2>7. ASSUME NEW h \in Handle, LinkLoss(h)
        PROVE  NamesOk'
    BY <1>1, <2>2, <2>7, DownNames
  <2>8. ASSUME NEW h \in Handle, NEW c \in PeerCid,
               \/ \E psm \in PeerPsm : PeerConnect(h, c, psm)
               \/ PeerDisconnect(h, c)
               \/ PeerData(h, c)
               \/ \E result \in Results : PeerDecides(h, c, result)
               \/ \E form \in Forms : PeerConfigure(h, c, form) \/ PeerReconfigure(h, c, form)
               \/ \E result \in ConfResults : PeerConcludes(h, c, result)
        PROVE  NamesOk'
    BY <1>1, <2>2, <2>8, BoardsNames
  <2>9. ASSUME NEW h \in Handle, PeerReply(h)
        PROVE  NamesOk'
    BY <1>1, <2>2, <2>9, RepliesNames
  <2>10. CASE UNCHANGED vars
    <3>1. FromStore
      BY <1>1, <2>1, SameStore
    <3>2. UNCHANGED env /\ rx' = rx /\ tx' = tx
      BY <2>10 DEF vars, out
    <3>. QED  BY <1>1, <2>2, <3>1, <3>2, HostFrame
  <2>. QED  BY <1>3, <2>3, <2>4, <2>5, <2>6, <2>7, <2>8, <2>9, <2>10 DEF Next
<1>. QED  BY <1>2, <1>3

LEMMA InitNames == Init => NamesInv
  <1>. SUFFICES ASSUME Init PROVE NamesOk
    BY DEF NamesInv
  <1>1. Packets(rx) = {} /\ Packets(tx) = {} /\ \A h \in Handle : air[h] = <<>> /\ Packets(air[h]) = {}
    BY DEF Init, Packets
  <1>2. \A h \in Handle, c \in PeerCid : ~Bound(peer[h][c])
    BY DEF Init, NoEnds, NewEnd, Bound
  <1>3. \A h \in Handle : since[h] <= g_localCid
    <2>1. FirstCid \in Nat /\ FirstCid >= 0
      BY ConstantsAssumption, MaxType DEF Cid, U16
    <2>. QED  BY <2>1 DEF Init
  <1>. QED  BY <1>1, <1>2, <1>3 DEF NamesOk, RxIssued, TxIssued, AirIssued, EndsIssued, LinksOk

\* Who takes a channel out of the store: a packet that names it, and its own
\* link is the present one.
LEMMA NamedRemoval ==
  ASSUME CidInv, NamesOk, ~wrapped', [Next]_vars,
         NEW c \in Channels, c.localCid \notin {d.localCid : d \in Channels'}
  PROVE  /\ rx # <<>>
         /\ Head(rx).handle = c.handle
         /\ c.localCid \in {Head(rx).dcid, Head(rx).scid}
         /\ since[c.handle] <= c.localCid
<1>. DEFINE m == Head(rx)
<1>0. TypeOK
  BY DEF CidInv
<1>1. c \notin Channels'
  OBVIOUS
<1>2. ASSUME UNCHANGED connections
      PROVE  FALSE
  BY <1>1, <1>2 DEF Channels
<1>3. Handlers
  BY <1>2, OthersKeepStore
<1>4. ASSUME NEW type \in Naming, Receives(type), c.localCid = Name(m)
      PROVE  /\ rx # <<>> /\ m.handle = c.handle
             /\ c.localCid \in {m.dcid, m.scid}
             /\ since[c.handle] <= c.localCid
  <2>1. m \in Packets(rx) /\ m.type = type /\ rx # <<>>
    BY <1>0, <1>4, ReceivesPackets DEF Receives
  <2>2. Issued(m.handle, Name(m))
    BY <1>4, <2>1 DEF NamesOk, RxIssued
  <2>. QED  BY <1>4, <2>1, <2>2 DEF Issued, Name
<1>5. ASSUME UNCHANGED wrapped, NEW x, NEW p \in Local(m.handle, x), NEW d \in Connection,
             d.localCid = p.to.localCid, connections' = Assign(connections, p, d)
      PROVE  FALSE
  <2>1. p.at # PastEnd
    BY <1>2, <1>5 DEF Assign
  <2>2. p.at \in 1 .. Len(connections) /\ p.to = connections[p.at] /\ p.to \in Channels
    BY <1>0, <1>5, <2>1, LocalPointer
  <2>3. Channels' = (Channels \ {p.to}) \cup {d}
    BY <1>5, <2>1, <2>2, AssignChannels
  <2>. QED  BY <1>5, <2>3
<1>6. ASSUME UNCHANGED <<g_localCid, wrapped>>, NEW x, NEW p \in Local(m.handle, x),
             connections' = Remove(connections, p)
      PROVE  c.localCid = x
  BY <1>1, <1>6, RemovedStore
<1>7. ASSUME NEW x, NEW p \in Local(m.handle, x), NEW r \in Cid
      PROVE  LET k == p.to IN
             /\ [k EXCEPT !.remoteCid = r] \in Connection
             /\ [k EXCEPT !.remoteCid = r].localCid = k.localCid
             /\ [k EXCEPT !.localConfigured = TRUE] \in Connection
             /\ [k EXCEPT !.localConfigured = TRUE].localCid = k.localCid
             /\ [k EXCEPT !.remoteConfigured = TRUE] \in Connection
             /\ [k EXCEPT !.remoteConfigured = TRUE].localCid = k.localCid
  <2>1. PICK k \in Connection : k = p.to
    BY <1>0, <1>7, LocalPointer
  <2>. QED  BY <1>7, <2>1 DEF Connection
<1>8. ASSUME NEW type, Receives(type)
      PROVE  m.handle \in Handle /\ m.psm \in Psm /\ m.scid \in Cid /\ m.dcid \in Cid
  BY <1>0, <1>8, ReceivesPackets, PacketFacts
<1>. USE DEF store
<1>11. ~HandleHCIConnectionComplete
  <2>. SUFFICES ASSUME HandleHCIConnectionComplete PROVE FALSE
    OBVIOUS
  <2>1. /\ TakeCids(2)
        /\ connections' = Emplace(Emplace(connections, NewConnection(m.handle, g_localCid, HidControl, 0)),
                                  NewConnection(m.handle, AfterCid(1), HidInterrupt, 0))
    BY <1>2 DEF HandleHCIConnectionComplete
  <2>2. m.handle \in Handle
    BY <1>8 DEF HandleHCIConnectionComplete
  <2>3. Channels \subseteq Channels'
    BY <1>0, <2>1, <2>2, LinkChannels
  <2>. QED  BY <1>1, <2>3
<1>12. ~HandleHCIDisconnect /\ ~HandleACLData
  BY <1>2 DEF HandleHCIDisconnect, HandleACLData
<1>13. ~HandleL2ConnectionRequest
  <2>. SUFFICES ASSUME HandleL2ConnectionRequest PROVE FALSE
    OBVIOUS
  <2>1. connections' = Emplace(connections, NewConnection(m.handle, g_localCid, m.psm, m.scid))
    BY <1>2 DEF HandleL2ConnectionRequest
  <2>2. NewConnection(m.handle, g_localCid, m.psm, m.scid) \in Connection
    BY <1>0, <1>8, NewConnectionType DEF HandleL2ConnectionRequest, TypeOK
  <2>3. Channels \subseteq Channels'
    BY <1>0, <2>1, <2>2, RequestChannels
  <2>. QED  BY <1>1, <2>3
<1>14. CASE HandleL2ConnectionResponse
  <2>1. Receives("ConnRsp") /\ UNCHANGED <<g_localCid, wrapped>> /\ Name(m) = m.scid /\ m.dcid \in Cid
    BY <1>8, <1>14 DEF HandleL2ConnectionResponse, Receives, Name
  <2>2. PICK p \in Local(m.handle, m.scid) :
          \/ connections' = Assign(connections, p, [p.to EXCEPT !.remoteCid = m.dcid])
          \/ connections' = Remove(connections, p)
    BY <1>2, <1>14 DEF HandleL2ConnectionResponse
  <2>3. connections' = Remove(connections, p)
    BY <1>5, <1>7, <2>1, <2>2
  <2>. QED  BY <1>4, <1>6, <2>1, <2>3 DEF Naming
<1>15. ~HandleL2ConfigurationRequest
  <2>. SUFFICES ASSUME HandleL2ConfigurationRequest PROVE FALSE
    OBVIOUS
  <2>1. PICK p \in Local(m.handle, m.dcid) :
          connections' = Assign(connections, p, [p.to EXCEPT !.remoteConfigured = TRUE])
    BY <1>2 DEF HandleL2ConfigurationRequest
  <2>2. UNCHANGED wrapped
    BY DEF HandleL2ConfigurationRequest
  <2>. QED  BY <1>5, <1>7, <2>1, <2>2, Numbers
<1>16. ~HandleL2ConfigurationResponse
  <2>. SUFFICES ASSUME HandleL2ConfigurationResponse PROVE FALSE
    OBVIOUS
  <2>1. PICK p \in Local(m.handle, m.scid) :
          connections' = Assign(connections, p, [p.to EXCEPT !.localConfigured = TRUE])
    BY <1>2 DEF HandleL2ConfigurationResponse
  <2>2. UNCHANGED wrapped
    BY DEF HandleL2ConfigurationResponse
  <2>. QED  BY <1>5, <1>7, <2>1, <2>2, Numbers
<1>17. CASE HandleL2DisconnectRequest
  <2>1. Receives("DiscReq") /\ UNCHANGED <<g_localCid, wrapped>> /\ Name(m) = m.dcid
    BY <1>17 DEF HandleL2DisconnectRequest, Receives, Name
  <2>2. PICK p \in Local(m.handle, m.dcid) : connections' = Remove(connections, p)
    BY <1>2, <1>17 DEF HandleL2DisconnectRequest
  <2>. QED  BY <1>4, <1>6, <2>1, <2>2 DEF Naming
<1>18. CASE HandleL2DisconnectResponse
  <2>1. Receives("DiscRsp")
    BY <1>18 DEF HandleL2DisconnectResponse
  <2>2. m \in Packets(rx) /\ m.type = "DiscRsp"
    BY <1>0, <2>1, ReceivesPackets
  <2>. QED  BY <2>2 DEF NamesOk, RxIssued
<1>. QED  BY <1>3, <1>11, <1>12, <1>13, <1>14, <1>15, <1>16, <1>17, <1>18 DEF Handlers

\* A channel leaves the store only when a packet of its own link is handled that
\* answers or ends it, as long as g_localCid does not wrap around, for
\* applications that do not close channels: for every number of boards and
\* whatever they do, links that get lost and come back, and packets that are
\* lost in txBuffer.
THEOREM OthersUndisturbedHolds ==
  ASSUME "appDisconnect" \notin Moves
  PROVE  Spec /\ []~wrapped => OthersUndisturbed
<1>. DEFINE A == \A c \in Channels :
                   c.localCid \notin {d.localCid : d \in Channels'} =>
                     /\ rx # <<>>
                     /\ Head(rx).handle = c.handle
                     /\ c.localCid \in {Head(rx).dcid, Head(rx).scid}
<1>1. CidInv /\ NamesInv /\ [Next]_vars => CidInv' /\ NamesInv'
  BY NextCids, NextNames
<1>2. CidInv /\ NamesInv /\ ~wrapped /\ ~wrapped' /\ [Next]_vars => [A]_vars
  BY NamedRemoval DEF NamesInv
<1>3. OthersUndisturbed <=> [][A]_vars
  BY DEF OthersUndisturbed
<1>. HIDE DEF A
<1>4. Init => CidInv /\ NamesInv
  BY InitCids, InitNames
<1>. QED  BY <1>1, <1>2, <1>3, <1>4, PTL DEF Spec
================================================================================
