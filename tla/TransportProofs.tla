----------------------------- MODULE TransportProofs ----------------------------
(* Theorems about Transport, for every value of its constants.             *)
EXTENDS Transport, TLAPS, SequenceTheorems

\* The sizes and the room of the rings are numbers.
LEMMA Constants ==
  /\ RxRoom \in Nat /\ TxRoom \in Nat
  /\ RxSizes \subseteq Nat \ {0} /\ TxSizes \subseteq Nat \ {0}
  /\ Longest(RxRoom) \in Nat /\ Longest(RxRoom) <= RxRoom
  /\ \A size \in TxSizes : size <= TxRoom
  BY TransportAssumption DEF Longest
--------------------------------------------------------------------------------
(* The geometry of a ring.                                                 *)

\* What the lemmas need of the items of either ring.
Placed(S) == \A x \in S : x.at \in Nat /\ x.size \in Nat \ {0}

\* Seen from the oldest item f: an item that wrapped around ends before it;
\* of x and a later y, only y wrapped around, or y comes after the end of x.
Fits(f, x) == x.at < f.at => End(x) <= f.at

Follows(f, x, y) ==
  \/ f.at <= x.at /\ y.at < f.at
  \/ (f.at <= x.at \/ y.at < f.at) /\ End(x) <= y.at

Ring(items, room) ==
  /\ \A i \in DOMAIN items : End(items[i]) <= room /\ Fits(items[1], items[i])
  /\ \A i, j \in DOMAIN items : i < j => Follows(items[1], items[i], items[j])

\* An item gets a place within the memory.
LEMMA PlacesType ==
  ASSUME NEW S, Placed(S), NEW items \in Seq(S), NEW room \in Nat,
         \A i \in DOMAIN items : End(items[i]) <= room,
         NEW size \in Nat \ {0}, size <= room, NEW at \in Places(items, size, room)
  PROVE  at \in Nat /\ at + size <= room
  <1>1. CASE items = <<>>
    BY <1>1 DEF Places
  <1>2. CASE items # <<>>
    <2>1. /\ 1 \in DOMAIN items /\ Len(items) \in DOMAIN items
          /\ items[1] \in S /\ items[Len(items)] \in S
      BY <1>2
    <2>2. /\ items[1].at \in Nat /\ items[1].at <= room
          /\ End(items[Len(items)]) \in Nat
      BY <2>1 DEF Placed, End
    <2>. QED  BY <1>2, <2>2 DEF Places
  <1>. QED  BY <1>1, <1>2

\* In an empty ring there is always a place.
LEMMA EmptyPlaces ==
  ASSUME NEW room \in Nat, NEW size \in Nat, size <= room
  PROVE  Places(<<>>, size, room) # {}
  BY DEF Places

\* Items do not overlap.
LEMMA RingDisjoint ==
  ASSUME NEW S, Placed(S), NEW items \in Seq(S), NEW room \in Nat, Ring(items, room),
         NEW i \in DOMAIN items, NEW j \in DOMAIN items, i # j
  PROVE  Units(items[i]) \cap Units(items[j]) = {}
  <1>1. /\ items[i] \in S /\ items[j] \in S /\ items[1] \in S
        /\ i \in Nat /\ j \in Nat
    OBVIOUS
  <1>2. /\ items[i].at \in Nat /\ items[i].size \in Nat
        /\ items[j].at \in Nat /\ items[j].size \in Nat
        /\ items[1].at \in Nat
    BY <1>1 DEF Placed
  <1>3. ASSUME NEW x \in S, NEW y \in S,
               Fits(items[1], x), Fits(items[1], y), Follows(items[1], x, y)
        PROVE  End(x) <= y.at \/ End(y) <= x.at
    BY <1>1, <1>3 DEF Placed, Fits, Follows, End
  <1>4. Fits(items[1], items[i]) /\ Fits(items[1], items[j])
    BY DEF Ring
  <1>5. Follows(items[1], items[i], items[j]) \/ Follows(items[1], items[j], items[i])
    BY <1>1 DEF Ring
  <1>6. End(items[i]) <= items[j].at \/ End(items[j]) <= items[i].at
    BY <1>1, <1>3, <1>4, <1>5
  <1>. QED  BY <1>2, <1>6 DEF Units, End

\* A new item keeps the geometry, wherever the ring places it.
LEMMA RingAcquire ==
  ASSUME NEW S, Placed(S), NEW items \in Seq(S), NEW room \in Nat, Ring(items, room),
         NEW new \in S, new.size <= room, new.at \in Places(items, new.size, room)
  PROVE  Ring(Append(items, new), room)
  <1>. DEFINE n == Len(items)
              more == Append(items, new)
  <1>0. /\ n \in Nat /\ DOMAIN items = 1 .. n
        /\ DOMAIN more = 1 .. n + 1 /\ more[n + 1] = new
        /\ \A i \in 1 .. n : more[i] = items[i] /\ items[i] \in S
    OBVIOUS
  <1>1. /\ \A i \in 1 .. n : items[i].at \in Nat /\ items[i].size \in Nat \ {0}
        /\ new.at \in Nat /\ new.size \in Nat \ {0} /\ new.at + new.size <= room
    BY <1>0, PlacesType DEF Placed, Ring
  <1>2. CASE items = <<>>
    <2>1. n = 0
      BY <1>2
    <2>. HIDE DEF n, more
    <2>2. \A i \in DOMAIN more : i = n + 1 /\ more[i] = new /\ more[1] = new
      BY <1>0, <2>1
    <2>3. End(new) <= room /\ Fits(new, new)
      BY <1>1 DEF Fits, End
    <2>. QED  BY <2>2, <2>3, <1>0 DEF Ring, more
  <1>3. CASE items # <<>>
    <2>. DEFINE first == items[1]
                last == items[n]
    <2>1. n \in DOMAIN items /\ more[1] = first /\ first \in S /\ last \in S
      BY <1>0, <1>3
    <2>2. \/ /\ new.at = End(last)
             /\ last.at < first.at => new.at + new.size <= first.at
          \/ new.at = 0 /\ first.at <= last.at /\ new.size <= first.at
      <3>1. first.at \in Nat /\ last.at \in Nat
        BY <2>1 DEF Placed
      <3>. QED  BY <1>3, <3>1 DEF Places, Wrapped
    <2>. HIDE DEF n, more, first, last
    <2>3. ASSUME NEW x \in S, x = last \/ Follows(first, x, last)
          PROVE  Follows(first, x, new)
      BY <1>1, <2>1, <2>2, <2>3 DEF Placed, Follows, End
    <2>4. Fits(first, new) /\ End(new) <= room
      BY <1>1, <2>1, <2>2 DEF Placed, Fits, End
    <2>5. \A i \in 1 .. n : Follows(first, items[i], new)
      <3>1. \A i \in 1 .. n : items[i] = last \/ Follows(first, items[i], last)
        BY <1>0, <2>1 DEF Ring, first, last
      <3>. QED  BY <1>0, <2>3, <3>1
    <2>6. \A i \in DOMAIN more : End(more[i]) <= room /\ Fits(first, more[i])
      <3>1. \A i \in 1 .. n : End(items[i]) <= room /\ Fits(first, items[i])
        BY <1>0 DEF Ring, first
      <3>. QED  BY <1>0, <2>4, <3>1
    <2>7. \A i, j \in DOMAIN more : i < j => Follows(first, more[i], more[j])
      <3>1. \A i, j \in 1 .. n : i < j => Follows(first, items[i], items[j])
        BY <1>0 DEF Ring, first
      <3>. QED  BY <1>0, <2>5, <3>1
    <2>. QED  BY <2>1, <2>6, <2>7 DEF Ring, more
  <1>. QED  BY <1>2, <1>3

\* Returning the oldest item keeps it, the others seen from the next one.
LEMMA RingReturn ==
  ASSUME NEW S, Placed(S), NEW items \in Seq(S), NEW room \in Nat, Ring(items, room),
         items # <<>>
  PROVE  Ring(Tail(items), room)
  <1>. DEFINE n == Len(items)
              rest == Tail(items)
              f == items[1]
              u == items[2]
  <1>1. /\ n \in Nat \ {0} /\ DOMAIN items = 1 .. n
        /\ DOMAIN rest = 1 .. n - 1
        /\ \A i \in 1 .. n - 1 : rest[i] = items[i + 1]
        /\ \A i \in 1 .. n : items[i] \in S
    OBVIOUS
  <1>. HIDE DEF n, rest
  <1>2. /\ \A i \in 1 .. n : End(items[i]) <= room /\ Fits(f, items[i])
        /\ \A i, j \in 1 .. n : i < j => Follows(f, items[i], items[j])
    BY <1>1 DEF Ring
  <1>3. \A i \in DOMAIN rest : /\ i + 1 \in 2 .. n /\ rest[i] = items[i + 1] /\ rest[1] = u
    BY <1>1
  <1>4. \A i \in 2 .. n : items[i] = u \/ Follows(f, u, items[i])
    BY <1>1, <1>2
  <1>5. ASSUME NEW x \in S, Fits(f, x), x = u \/ Follows(f, u, x), f \in S, u \in S
        PROVE  Fits(u, x)
    <2>. HIDE DEF f, u
    <2>. QED  BY <1>5 DEF Placed, Fits, Follows, End
  <1>6. ASSUME NEW x \in S, NEW y \in S, f \in S, u \in S,
               x = u \/ Follows(f, u, x), Follows(f, u, y), Follows(f, x, y)
        PROVE  Follows(u, x, y)
    <2>. HIDE DEF f, u
    <2>. QED  BY <1>6 DEF Placed, Follows, End
  <1>7. f \in S
    BY <1>1
  <1>8. ASSUME NEW i \in DOMAIN rest
        PROVE  End(rest[i]) <= room /\ Fits(u, rest[i])
    <2>1. u \in S /\ items[i + 1] \in S /\ i + 1 \in 1 .. n
      BY <1>1, <1>3
    <2>. QED  BY <1>2, <1>3, <1>4, <1>5, <1>7, <2>1
  <1>9. ASSUME NEW i \in DOMAIN rest, NEW j \in DOMAIN rest, i < j
        PROVE  Follows(u, rest[i], rest[j])
    <2>1. u \in S /\ items[i + 1] \in S /\ items[j + 1] \in S
      BY <1>1, <1>3
    <2>2. 2 < j + 1 /\ i + 1 < j + 1 /\ 2 \in 1 .. n /\ i + 1 \in 1 .. n /\ j + 1 \in 1 .. n
      BY <1>1, <1>9
    <2>3. Follows(f, u, items[j + 1]) /\ Follows(f, items[i + 1], items[j + 1])
      BY <1>2, <2>2
    <2>4. items[i + 1] = u \/ Follows(f, u, items[i + 1])
      BY <1>3, <1>4
    <2>. QED  BY <1>3, <1>6, <1>7, <2>1, <2>3, <2>4
  <1>. QED  BY <1>3, <1>8, <1>9 DEF Ring, rest
--------------------------------------------------------------------------------
(* The inductive invariant.                                                *)

TxItem == [at : Nat, size : TxSizes, packet : Packet(TxSizes)]

LEMMA ItemsPlaced == Placed(Item) /\ Placed(TxItem)
  BY TransportAssumption DEF Placed, Item, TxItem

\* recv has an item that it has not completed: the last one.
Filling == controller \in {"acquired", "copied"}

\* The item that recv fills is as long as its packet.
FillingItem ==
  Filling => /\ rx # <<>> /\ ~rx[Len(rx)].full
             /\ rx[Len(rx)].size = packet.size /\ packet.size <= Longest(RxRoom)

AllFull == \A i \in 1 .. FullItems : rx[i].full

\* What recv has copied is still there.
CopiedWhole ==
  controller = "copied" => \A u \in Units(rx[Len(rx)]) : memory[u] = packet

PacketNext ==
  controller # "idle" => packet \in Packet(RxSizes) /\ packet.no = given + 1

HandlingItem == host = "handling" => Readable(rx)

Inv ==
  /\ TypeOK /\ Ring(rx, RxRoom)
  /\ FillingItem /\ AllFull /\ CopiedWhole /\ PacketNext /\ HandlingItem

\* The full items, and the places of the items.
LEMMA FullItemsType ==
  ASSUME Inv
  PROVE  /\ Len(rx) \in Nat /\ DOMAIN rx = 1 .. Len(rx)
         /\ FullItems \in Nat /\ FullItems <= Len(rx)
         /\ Filling => FullItems = Len(rx) - 1 /\ Len(rx) \in DOMAIN rx
         /\ ~Filling => FullItems = Len(rx)
         /\ \A i \in DOMAIN rx : /\ rx[i] \in Item
                                 /\ rx[i].at \in Units(rx[i])
                                 /\ Units(rx[i]) \subseteq 0 .. RxRoom - 1
  <1>1. rx \in Seq(Item) /\ \A i \in DOMAIN rx : End(rx[i]) <= RxRoom
    BY DEF Inv, TypeOK
  <1>2. Len(rx) \in Nat /\ DOMAIN rx = 1 .. Len(rx) /\ \A i \in DOMAIN rx : rx[i] \in Item
    BY <1>1
  <1>3. Filling => Len(rx) > 0
    BY <1>1 DEF Inv, FillingItem
  <1>4. \A i \in DOMAIN rx : /\ rx[i].at \in Units(rx[i])
                             /\ Units(rx[i]) \subseteq 0 .. RxRoom - 1
    BY <1>1, <1>2, ItemsPlaced, Constants DEF Placed, Units, End
  <1>5. Filling => FullItems = Len(rx) - 1
    BY DEF FullItems, Filling
  <1>6. ~Filling => FullItems = Len(rx)
    BY DEF FullItems, Filling
  <1>7. /\ FullItems \in Nat /\ FullItems <= Len(rx)
        /\ Filling => Len(rx) \in DOMAIN rx
    BY <1>2, <1>3, <1>5, <1>6
  <1>. QED  BY <1>2, <1>4, <1>5, <1>6, <1>7

\* A packet of recv has a place in the memory.
LEMMA AcquiresInv ==
  ASSUME Inv, Acquires
  PROVE  Inv'
  <1>. DEFINE item(at) == [at |-> at, size |-> packet.size, full |-> FALSE]
              n == Len(rx)
  <1>1. PICK at \in Places(rx, packet.size, RxRoom) : rx' = Append(rx, item(at))
    BY DEF Acquires, Acquire
  <1>2. /\ controller = "waiting" /\ controller' = "acquired"
        /\ packet.size <= Longest(RxRoom)
        /\ UNCHANGED <<packet, given, memory, host, made, tx, handled>>
    BY DEF Acquires, hosts
  <1>3. rx \in Seq(Item) /\ \A i \in DOMAIN rx : End(rx[i]) <= RxRoom
    BY DEF Inv, TypeOK
  <1>4. packet.size \in RxSizes /\ packet.size \in Nat \ {0} /\ packet.size <= RxRoom
    <2>1. packet \in Packet(RxSizes)
      BY <1>2 DEF Inv, PacketNext
    <2>2. packet.size \in RxSizes
      BY <2>1 DEF Packet
    <2>3. packet.size \in Nat \ {0}
      BY <2>2, Constants
    <2>4. packet.size <= Longest(RxRoom)
      BY <1>2
    <2>. QED  BY <2>2, <2>3, <2>4, Constants
  <1>5. at \in Nat /\ at + packet.size <= RxRoom
    BY <1>1, <1>3, <1>4, ItemsPlaced, Constants, PlacesType
  <1>6. item(at) \in Item
    BY <1>4, <1>5 DEF Item
  <1>7. Ring(rx', RxRoom)
    <2>1. item(at).size <= RxRoom /\ item(at).at \in Places(rx, item(at).size, RxRoom)
      BY <1>1, <1>4
    <2>2. Ring(rx, RxRoom)
      BY DEF Inv
    <2>. QED  BY <1>1, <1>3, <1>6, <2>1, <2>2, ItemsPlaced, Constants, RingAcquire
  <1>8. /\ rx' \in Seq(Item) /\ Len(rx') = n + 1 /\ n \in Nat /\ rx' # <<>>
        /\ rx'[n + 1] = item(at) /\ \A i \in 1 .. n : rx'[i] = rx[i]
    BY <1>1, <1>3, <1>6
  <1>9. TypeOK'
    <2>1. \A i \in DOMAIN rx' : End(rx'[i]) <= RxRoom
      BY <1>7 DEF Ring
    <2>. QED  BY <1>2, <1>8, <2>1 DEF Inv, TypeOK
  <1>10. FillingItem'
    BY <1>2, <1>8 DEF FillingItem, Filling
  <1>11. AllFull'
    <2>1. FullItems = n /\ FullItems' = n
      BY <1>2, <1>8 DEF FullItems
    <2>. QED  BY <1>8, <2>1 DEF Inv, AllFull
  <1>12. HandlingItem'
    <2>1. Readable(rx) => Readable(rx')
      BY <1>3, <1>8 DEF Readable
    <2>. QED  BY <1>2, <2>1 DEF Inv, HandlingItem
  <1>. QED  BY <1>2, <1>7, <1>9, <1>10, <1>11, <1>12 DEF Inv, CopiedWhole, PacketNext

\* recv writes the units of its own item.
LEMMA CopiesInv ==
  ASSUME Inv, Copies
  PROVE  /\ Inv'
         /\ \A i \in 1 .. FullItems : \A u \in Units(rx[i]) : memory'[u] = memory[u]
  <1>. DEFINE mine == Units(rx[Len(rx)])
  <1>1. /\ controller = "acquired" /\ controller' = "copied"
        /\ memory' = [u \in DOMAIN memory |-> IF u \in mine THEN packet ELSE memory[u]]
        /\ UNCHANGED <<packet, given, rx, host, made, tx, handled>>
    BY DEF Copies, hosts
  <1>2. /\ memory \in [0 .. RxRoom - 1 -> Packet(RxSizes) \cup {Blank}]
        /\ packet \in Packet(RxSizes)
    BY <1>1 DEF Inv, TypeOK, PacketNext
  <1>3. Filling /\ Len(rx) \in DOMAIN rx /\ mine \subseteq 0 .. RxRoom - 1
    BY <1>1, FullItemsType DEF Filling
  <1>4. memory' \in [0 .. RxRoom - 1 -> Packet(RxSizes) \cup {Blank}]
    BY <1>1, <1>2
  <1>5. \A u \in mine : memory'[u] = packet
    BY <1>1, <1>2, <1>3
  <1>6. TypeOK'
    BY <1>1, <1>4 DEF Inv, TypeOK
  <1>7. Inv'
    BY <1>1, <1>5, <1>6
       DEF Inv, FillingItem, Filling, AllFull, FullItems, CopiedWhole, PacketNext, HandlingItem
  <1>8. ASSUME NEW i \in 1 .. FullItems, NEW u \in Units(rx[i])
        PROVE  memory'[u] = memory[u]
    <2>1. i \in DOMAIN rx /\ i # Len(rx) /\ Units(rx[i]) \subseteq 0 .. RxRoom - 1
      <3>1. FullItems = Len(rx) - 1 /\ Len(rx) \in Nat /\ DOMAIN rx = 1 .. Len(rx)
        BY <1>3, FullItemsType
      <3>2. i \in DOMAIN rx /\ i # Len(rx)
        BY <3>1
      <3>. QED  BY <3>2, FullItemsType
    <2>2. Units(rx[i]) \cap mine = {}
      <3>1. rx \in Seq(Item) /\ Ring(rx, RxRoom)
        BY DEF Inv, TypeOK
      <3>. QED  BY <1>3, <2>1, <3>1, ItemsPlaced, Constants, RingDisjoint
    <2>. QED  BY <1>1, <1>2, <2>1, <2>2
  <1>. QED  BY <1>7, <1>8

\* The item that recv completes holds its packet.
LEMMA CompletesInv ==
  ASSUME Inv, Completes
  PROVE  /\ Inv'
         /\ Len(rx') = Len(rx) /\ \A i \in 1 .. FullItems : rx'[i] = rx[i]
         /\ Units(rx'[Len(rx)]) = Units(rx[Len(rx)]) /\ rx'[Len(rx)].at = rx[Len(rx)].at
  <1>. DEFINE n == Len(rx)
  <1>1. /\ controller = "copied" /\ controller' = "idle"
        /\ rx' = [rx EXCEPT ![n].full = TRUE] /\ given' = given + 1
        /\ UNCHANGED <<packet, memory, host, made, tx, handled>>
    BY DEF Completes, Complete, hosts
  <1>2. /\ rx \in Seq(Item) /\ n \in DOMAIN rx /\ DOMAIN rx = 1 .. n /\ n \in Nat
        /\ FullItems = n - 1 /\ rx[n] \in Item
    BY <1>1, FullItemsType DEF Filling, Inv, TypeOK
  <1>3. /\ rx' \in Seq(Item) /\ Len(rx') = n /\ DOMAIN rx' = DOMAIN rx
        /\ \A i \in DOMAIN rx : i # n => rx'[i] = rx[i]
        /\ rx'[n] = [rx[n] EXCEPT !.full = TRUE]
    <2>1. [rx[n] EXCEPT !.full = TRUE] \in Item
      BY <1>2 DEF Item
    <2>2. rx' = [rx EXCEPT ![n] = [rx[n] EXCEPT !.full = TRUE]]
      BY <1>1
    <2>. HIDE DEF n
    <2>. QED  BY <1>2, <2>1, <2>2
  <1>4. \A i \in DOMAIN rx : rx'[i].at = rx[i].at /\ rx'[i].size = rx[i].size
    BY <1>2, <1>3 DEF Item
  <1>5. Ring(rx', RxRoom)
    <2>1. Ring(rx, RxRoom)
      BY DEF Inv
    <2>2. /\ \A i \in DOMAIN rx : End(rx'[i]) = End(rx[i])
          /\ 1 \in DOMAIN rx
      BY <1>2, <1>4 DEF End
    <2>. QED  BY <1>3, <1>4, <2>1, <2>2 DEF Ring, Fits, Follows
  <1>6. TypeOK'
    <2>1. \A i \in DOMAIN rx' : End(rx'[i]) <= RxRoom
      BY <1>5 DEF Ring
    <2>2. given' \in Nat
      BY <1>1 DEF Inv, TypeOK
    <2>. QED  BY <1>1, <1>3, <2>1, <2>2 DEF Inv, TypeOK
  <1>7. AllFull'
    <2>1. FullItems' = n
      BY <1>1, <1>3 DEF FullItems
    <2>2. rx'[n].full
      BY <1>2, <1>3 DEF Item
    <2>3. \A i \in 1 .. n : i # n => i \in 1 .. FullItems /\ i \in DOMAIN rx
      <3>1. n \in Nat /\ FullItems = n - 1 /\ DOMAIN rx = 1 .. n
        BY <1>2
      <3>. HIDE DEF n
      <3>. QED  BY <3>1
    <2>4. \A i \in 1 .. FullItems : rx[i].full
      BY DEF Inv, AllFull
    <2>5. \A i \in 1 .. n : rx'[i].full
      BY <1>3, <2>2, <2>3, <2>4
    <2>. QED  BY <2>1, <2>5 DEF AllFull
  <1>8. HandlingItem'
    <2>1. Readable(rx) => Readable(rx')
      <3>1. 1 \in DOMAIN rx
        BY <1>2
      <3>2. rx' # <<>> /\ rx'[n].full
        BY <1>2, <1>3 DEF Item
      <3>3. rx[1].full => rx'[1].full
        BY <1>3, <3>1, <3>2
      <3>. QED  BY <3>2, <3>3 DEF Readable
    <2>. QED  BY <1>1, <2>1 DEF Inv, HandlingItem
  <1>9. Inv'
    BY <1>1, <1>5, <1>6, <1>7, <1>8 DEF Inv, FillingItem, Filling, CopiedWhole, PacketNext
  <1>. QED  BY <1>2, <1>3, <1>4, <1>9 DEF Units, End

\* The host returns the oldest item after its handler; recv keeps its own.
LEMMA ReturnsInv ==
  ASSUME Inv, Returns
  PROVE  /\ Inv'
         /\ FullItems \in Nat \ {0} /\ FullItems' = FullItems - 1
         /\ \A i \in 1 .. FullItems' : rx'[i] = rx[i + 1]
  <1>. DEFINE n == Len(rx)
  <1>1. /\ host = "handling" /\ host' = "sending" /\ rx' = Tail(rx)
        /\ handled' = <<Contents(rx[1])>>
        /\ UNCHANGED <<controller, packet, given, memory, made, tx>>
    BY DEF Returns, At, Return, controllers
  <1>2. rx # <<>> /\ rx[1].full /\ rx \in Seq(Item)
    BY <1>1 DEF Inv, HandlingItem, Readable, TypeOK
  <1>3. /\ n \in Nat \ {0} /\ DOMAIN rx = 1 .. n
        /\ rx' \in Seq(Item) /\ Len(rx') = n - 1 /\ DOMAIN rx' = 1 .. n - 1
        /\ \A i \in 1 .. n - 1 : rx'[i] = rx[i + 1]
    BY <1>1, <1>2
  <1>4. Filling => n > 1 /\ rx' # <<>> /\ rx'[Len(rx')] = rx[n]
    <2>1. Filling => ~rx[n].full
      BY DEF Inv, FillingItem
    <2>2. Filling => n > 1
      BY <1>2, <1>3, <2>1
    <2>. QED  BY <1>3, <2>2
  <1>5. /\ FullItems \in Nat \ {0} /\ FullItems' = FullItems - 1 /\ FullItems <= n
    BY <1>1, <1>3, <1>4 DEF FullItems, Filling
  <1>6. \A i \in 1 .. FullItems' : rx'[i] = rx[i + 1] /\ i + 1 \in 1 .. FullItems
    <2>1. \A i \in 1 .. FullItems - 1 : i \in 1 .. n - 1 /\ i + 1 \in 1 .. FullItems
      BY <1>3, <1>5
    <2>. QED  BY <1>3, <1>5, <2>1
  <1>7. Ring(rx', RxRoom)
    BY <1>1, <1>2, ItemsPlaced, Constants, RingReturn DEF Inv
  <1>8. TypeOK'
    <2>1. \A i \in DOMAIN rx' : End(rx'[i]) <= RxRoom
      BY <1>7 DEF Ring
    <2>. QED  BY <1>1, <1>3, <2>1 DEF Inv, TypeOK
  <1>9. FillingItem' /\ CopiedWhole'
    BY <1>1, <1>4 DEF Inv, FillingItem, CopiedWhole, Filling
  <1>10. AllFull'
    BY <1>6 DEF Inv, AllFull
  <1>11. Inv'
    BY <1>1, <1>7, <1>8, <1>9, <1>10 DEF Inv, PacketNext, HandlingItem
  <1>. QED  BY <1>5, <1>6, <1>11

\* txBuffer keeps its items within its memory; a packet is lost only while
\* others wait.
LEMMA EnqueuesInv ==
  ASSUME Inv, NEW size \in TxSizes, Enqueues(size)
  PROVE  /\ made' = made + 1 /\ made' \in Nat
         /\ tx' \in Seq(TxItem) /\ \A i \in DOMAIN tx' : End(tx'[i]) <= TxRoom
         /\ \/ \E at \in Nat : tx' = Append(tx, [at |-> at, size |-> size,
                                                 packet |-> [no |-> made + 1, size |-> size]])
            \/ tx # <<>> /\ UNCHANGED tx
         /\ UNCHANGED <<controller, packet, given, memory, rx, handled>>
  <1>. DEFINE item(at) == [at |-> at, size |-> size,
                           packet |-> [no |-> made + 1, size |-> size]]
  <1>1. /\ tx \in Seq(TxItem) /\ \A i \in DOMAIN tx : End(tx[i]) <= TxRoom
        /\ made \in Nat
    BY DEF Inv, TypeOK, TxItem
  <1>2. made' = made + 1 /\ UNCHANGED <<controller, packet, given, memory, rx, handled>>
    BY DEF Enqueues, controllers
  <1>3. size \in Nat \ {0} /\ size <= TxRoom /\ TxRoom \in Nat
    BY Constants
  <1>4. CASE UNCHANGED tx /\ Places(tx, size, TxRoom) = {}
    BY <1>1, <1>2, <1>3, <1>4, EmptyPlaces
  <1>5. ASSUME NEW at \in Places(tx, size, TxRoom), tx' = Append(tx, item(at))
        PROVE  /\ at \in Nat
               /\ tx' \in Seq(TxItem) /\ \A i \in DOMAIN tx' : End(tx'[i]) <= TxRoom
    <2>1. at \in Nat /\ at + size <= TxRoom
      BY <1>1, <1>3, ItemsPlaced, PlacesType
    <2>2. item(at) \in TxItem
      BY <1>1, <2>1 DEF TxItem, Packet
    <2>3. tx' \in Seq(TxItem)
      BY <1>1, <1>5, <2>2
    <2>4. /\ Len(tx) \in Nat /\ DOMAIN tx = 1 .. Len(tx) /\ DOMAIN tx' = 1 .. Len(tx) + 1
          /\ tx'[Len(tx) + 1] = item(at) /\ \A i \in 1 .. Len(tx) : tx'[i] = tx[i]
      BY <1>1, <1>5, <2>2
    <2>5. End(item(at)) <= TxRoom
      BY <2>1 DEF End
    <2>. HIDE DEF item
    <2>6. \A i \in 1 .. Len(tx) + 1 : i = Len(tx) + 1 \/ i \in 1 .. Len(tx)
      BY <2>4
    <2>. QED  BY <1>1, <2>1, <2>3, <2>4, <2>5, <2>6
  <1>6. CASE \E at \in Places(tx, size, TxRoom) : tx' = Append(tx, item(at))
    BY <1>1, <1>2, <1>5, <1>6
  <1>7. \/ \E at \in Places(tx, size, TxRoom) : tx' = Append(tx, item(at))
        \/ UNCHANGED tx /\ Places(tx, size, TxRoom) = {}
    BY DEF Enqueues
  <1>. QED  BY <1>4, <1>6, <1>7

\* The controller takes the first packet.
LEMMA TransmitsInv ==
  ASSUME Inv, Transmits
  PROVE  /\ tx # <<>> /\ tx \in Seq(TxItem) /\ tx' = Tail(tx)
         /\ tx' \in Seq(TxItem) /\ \A i \in DOMAIN tx' : End(tx'[i]) <= TxRoom
         /\ host = "sending"
         /\ UNCHANGED <<controller, packet, given, memory, rx, host, made, handled>>
  <1>1. /\ tx # <<>> /\ tx' = Tail(tx) /\ host = "sending"
        /\ UNCHANGED <<controller, packet, given, memory, rx, host, made, handled>>
    BY DEF Transmits, At, controllers
  <1>2. tx \in Seq(TxItem) /\ \A i \in DOMAIN tx : End(tx[i]) <= TxRoom
    BY DEF Inv, TypeOK, TxItem
  <1>3. /\ tx' \in Seq(TxItem) /\ DOMAIN tx' = 1 .. Len(tx) - 1 /\ DOMAIN tx = 1 .. Len(tx)
        /\ Len(tx) \in Nat
        /\ \A i \in 1 .. Len(tx) - 1 : tx'[i] = tx[i + 1]
    BY <1>1, <1>2
  <1>4. \A i \in 1 .. Len(tx) - 1 : i + 1 \in 1 .. Len(tx)
    BY <1>3
  <1>. QED  BY <1>1, <1>2, <1>3, <1>4

\* A step that leaves rxBuffer and what recv does alone.
LEMMA OthersInv ==
  ASSUME Inv, UNCHANGED <<controller, packet, given, memory, rx, handled>>,
         host' \in {"setup", "registered", "sending", "receiving", "handling"},
         host' = "handling" => Readable(rx),
         made' \in Nat, tx' \in Seq(TxItem), \A i \in DOMAIN tx' : End(tx'[i]) <= TxRoom
  PROVE  Inv'
  BY DEF Inv, TypeOK, TxItem, FillingItem, Filling, AllFull, FullItems, CopiedWhole, PacketNext,
         HandlingItem, Readable

LEMMA InitInv == Init => Inv
  <1>. SUFFICES ASSUME Init PROVE Inv
    OBVIOUS
  <1>1. /\ rx = <<>> /\ tx = <<>> /\ Len(rx) = 0 /\ DOMAIN rx = {} /\ DOMAIN tx = {}
        /\ controller = "idle" /\ host = "setup" /\ FullItems = 0
    BY DEF Init, FullItems
  <1>2. TypeOK
    BY <1>1 DEF Init, TypeOK
  <1>3. Ring(rx, RxRoom)
    BY <1>1 DEF Ring
  <1>. QED  BY <1>1, <1>2, <1>3 DEF Inv, FillingItem, Filling, AllFull, CopiedWhole, PacketNext,
                                    HandlingItem

\* Every step keeps the invariant.
LEMMA NextInv == Inv /\ [Next]_vars => Inv'
  <1>. SUFFICES ASSUME Inv, [Next]_vars PROVE Inv'
    OBVIOUS
  <1>0. made \in Nat /\ tx \in Seq(TxItem) /\ \A i \in DOMAIN tx : End(tx[i]) <= TxRoom
    BY DEF Inv, TypeOK, TxItem
  <1>1. ASSUME NEW size \in RxSizes, Calls(size)
        PROVE  Inv'
    <2>1. /\ controller = "idle" /\ controller' = "waiting"
          /\ packet' = [no |-> given + 1, size |-> size]
          /\ UNCHANGED <<given, memory, rx, host, made, tx, handled>>
      BY <1>1 DEF Calls, hosts
    <2>2. given \in Nat
      BY DEF Inv, TypeOK
    <2>3. packet' \in Packet(RxSizes) /\ packet'.no = given + 1
      BY <2>1, <2>2 DEF Packet
    <2>4. FullItems' = FullItems
      BY <2>1 DEF FullItems
    <2>. QED  BY <2>1, <2>3, <2>4 DEF Inv, TypeOK, FillingItem, Filling, AllFull, CopiedWhole,
                                      PacketNext, HandlingItem
  <1>2. CASE Drops
    <2>1. /\ controller = "waiting" /\ controller' = "idle" /\ given' = given + 1
          /\ UNCHANGED <<packet, memory, rx, host, made, tx, handled>>
      BY <1>2 DEF Drops, hosts
    <2>2. given' \in Nat
      BY <2>1 DEF Inv, TypeOK
    <2>3. FullItems' = FullItems
      BY <2>1 DEF FullItems
    <2>. QED  BY <2>1, <2>2, <2>3 DEF Inv, TypeOK, FillingItem, Filling, AllFull, CopiedWhole,
                                      PacketNext, HandlingItem
  <1>3. CASE Receive
    BY <1>2, <1>3, AcquiresInv, CopiesInv, CompletesInv DEF Receive
  <1>4. CASE Registers \/ EndsSending \/ Reads \/ ReadsNothing
    BY <1>0, <1>4, OthersInv DEF Registers, EndsSending, Reads, ReadsNothing, At, controllers
  <1>5. CASE Returns
    BY <1>5, ReturnsInv
  <1>6. ASSUME NEW size \in TxSizes, Resets(size) \/ Puts(size)
        PROVE  Inv'
    <2>1. Enqueues(size) /\ host' \in {"sending", "handling"} /\ (host' = "handling" => host = "handling")
      BY <1>6 DEF Resets, Puts, At
    <2>2. host' = "handling" => Readable(rx)
      BY <2>1 DEF Inv, HandlingItem
    <2>. QED  BY <2>1, <2>2, EnqueuesInv, OthersInv
  <1>7. CASE Transmits
    BY <1>0, <1>7, TransmitsInv, OthersInv
  <1>8. CASE UNCHANGED vars
    <2>1. /\ host' \in {"setup", "registered", "sending", "receiving", "handling"}
          /\ host' = "handling" => Readable(rx)
      BY <1>8 DEF vars, Inv, TypeOK, HandlingItem
    <2>. QED  BY <1>0, <1>8, <2>1, OthersInv DEF vars
  <1>. QED  BY <1>1, <1>3, <1>4, <1>5, <1>6, <1>7, <1>8 DEF Next, Setup, Step

\* Every variable always has its type: with NextInv, the rings' items stay
\* within their memory whatever the two tasks do.
THEOREM TypeCorrect == Spec => []TypeOK
  <1>1. Inv => TypeOK
    BY DEF Inv
  <1>. QED  BY InitInv, NextInv, <1>1, PTL DEF Spec
--------------------------------------------------------------------------------
(* The rings implement the queues.                                         *)

ToHost == [i \in 1 .. FullItems |-> Contents(rx[i])]

ToController == [i \in 1 .. Len(tx) |-> tx[i].packet]

\* One item more at the end.
LEMMA OneMore ==
  ASSUME NEW S, NEW s \in Seq(S), NEW t \in Seq(S), NEW x \in S,
         Len(t) = Len(s) + 1, t[Len(t)] = x, \A i \in 1 .. Len(s) : t[i] = s[i]
  PROVE  t = Append(s, x)
  <1>1. Append(s, x) \in Seq(S) /\ Len(Append(s, x)) = Len(t)
    OBVIOUS
  <1>2. \A i \in 1 .. Len(t) : Append(s, x)[i] = t[i]
    OBVIOUS
  <1>. QED  BY <1>1, <1>2, SeqEqual

\* The first item less.
LEMMA OneLess ==
  ASSUME NEW S, NEW s \in Seq(S), NEW t \in Seq(S),
         s # <<>>, Len(t) = Len(s) - 1, \A i \in 1 .. Len(t) : t[i] = s[i + 1]
  PROVE  t = Tail(s)
  <1>1. Tail(s) \in Seq(S) /\ Len(Tail(s)) = Len(t)
    OBVIOUS
  <1>2. \A i \in 1 .. Len(t) : Tail(s)[i] = t[i]
    OBVIOUS
  <1>. QED  BY <1>1, <1>2, SeqEqual

\* What a handler would see of a full item is a packet, or no whole one.
LEMMA QueuesType ==
  ASSUME Inv
  PROVE  /\ ToHost \in Seq(Packet(RxSizes) \cup {Blank}) /\ Len(ToHost) = FullItems
         /\ \A i \in 1 .. FullItems : ToHost[i] = Contents(rx[i])
         /\ ToController \in Seq(Packet(TxSizes)) /\ Len(ToController) = Len(tx)
         /\ \A i \in 1 .. Len(tx) : ToController[i] = tx[i].packet
         /\ Len(tx) \in Nat
  <1>1. /\ FullItems \in Nat
        /\ \A i \in 1 .. FullItems : Contents(rx[i]) \in Packet(RxSizes) \cup {Blank}
    <2>1. FullItems \in Nat /\ \A i \in 1 .. FullItems : i \in DOMAIN rx
      BY FullItemsType
    <2>2. \A i \in DOMAIN rx : rx[i].at \in 0 .. RxRoom - 1
      BY FullItemsType
    <2>3. memory \in [0 .. RxRoom - 1 -> Packet(RxSizes) \cup {Blank}]
      BY DEF Inv, TypeOK
    <2>. QED  BY <2>1, <2>2, <2>3 DEF Contents
  <1>2. tx \in Seq(TxItem)
    BY DEF Inv, TypeOK, TxItem
  <1>3. Len(tx) \in Nat /\ \A i \in 1 .. Len(tx) : tx[i].packet \in Packet(TxSizes)
    <2>1. Len(tx) \in Nat /\ \A i \in 1 .. Len(tx) : tx[i] \in TxItem
      BY <1>2
    <2>. QED  BY <2>1 DEF TxItem
  <1>. QED  BY <1>1, <1>3 DEF ToHost, ToController

\* The queues of Q are these, by definition.
LEMMA QueuesDefs ==
  /\ Q!Init <=> /\ given = 0 /\ ToHost = <<>> /\ handled = <<>>
                /\ made = 0 /\ ToController = <<>>
  /\ Q!vars = <<given, ToHost, handled, made, ToController>>
  BY DEF Q!Init, Q!vars, ToHost, ToController

\* Steps that change no item of the rings change no queue.
LEMMA Stutters ==
  ASSUME FullItems' = FullItems, \A i \in 1 .. FullItems : Contents(rx[i])' = Contents(rx[i]),
         UNCHANGED <<given, handled, made, tx>>
  PROVE  UNCHANGED Q!vars
  <1>1. ToHost' = ToHost
    BY DEF ToHost
  <1>2. ToController' = ToController
    BY DEF ToController
  <1>. QED  BY <1>1, <1>2, QueuesDefs DEF Q!vars, ToHost, ToController

\* The units that recv writes are not those of packets that wait.
LEMMA CopiesStutters ==
  ASSUME Inv, Copies
  PROVE  UNCHANGED Q!vars
  <1>1. /\ controller = "acquired" /\ controller' = "copied"
        /\ UNCHANGED <<rx, given, made, tx, handled>>
    BY DEF Copies, hosts
  <1>2. FullItems' = FullItems
    BY <1>1 DEF FullItems
  <1>3. ASSUME NEW i \in 1 .. FullItems
        PROVE  Contents(rx[i])' = Contents(rx[i])
    <2>1. i \in DOMAIN rx
      BY FullItemsType
    <2>2. rx[i].at \in Units(rx[i]) /\ \A u \in Units(rx[i]) : memory'[u] = memory[u]
      BY <2>1, FullItemsType, CopiesInv
    <2>3. rx'[i] = rx[i] /\ Units(rx[i])' = Units(rx[i])
      BY <1>1 DEF Units, End
    <2>. QED  BY <2>2, <2>3 DEF Contents
  <1>. QED  BY <1>1, <1>2, <1>3, Stutters

LEMMA AcquiresStutters ==
  ASSUME Inv, Acquires
  PROVE  UNCHANGED Q!vars
  <1>1. /\ controller = "waiting" /\ controller' = "acquired"
        /\ UNCHANGED <<memory, given, made, tx, handled>>
        /\ \E item : rx' = Append(rx, item)
    BY DEF Acquires, Acquire, hosts
  <1>2. rx \in Seq(Item)
    BY DEF Inv, TypeOK
  <1>3. /\ FullItems = Len(rx) /\ FullItems' = Len(rx) /\ Len(rx) \in Nat
        /\ \A i \in 1 .. Len(rx) : rx'[i] = rx[i]
    BY <1>1, <1>2 DEF FullItems
  <1>4. ASSUME NEW i \in 1 .. FullItems
        PROVE  Contents(rx[i])' = Contents(rx[i])
    BY <1>1, <1>3 DEF Contents, Units, End
  <1>. QED  BY <1>1, <1>3, <1>4, Stutters

\* The item that recv completes is delivered: it holds the packet.
LEMMA CompletesDelivers ==
  ASSUME Inv, Completes
  PROVE  \E size \in RxSizes : Q!Deliver(size)
  <1>1. /\ controller = "copied" /\ controller' = "idle" /\ given' = given + 1
        /\ UNCHANGED <<packet, memory, made, tx, handled>>
    BY DEF Completes, hosts
  <1>2. /\ packet = [no |-> given + 1, size |-> packet.size] /\ packet.size \in RxSizes
        /\ packet.size <= Longest(RxRoom)
        /\ packet \in Packet(RxSizes)
    <2>1. packet \in Packet(RxSizes) /\ packet.no = given + 1
      BY <1>1 DEF Inv, PacketNext
    <2>. QED  BY <1>1, <2>1 DEF Packet, Inv, FillingItem, Filling
  <1>n. PICK n \in Nat : n = Len(rx)
    BY FullItemsType
  <1>3. /\ FullItems = n - 1 /\ FullItems' = n /\ n \in Nat /\ n \in DOMAIN rx
        /\ \A i \in 1 .. FullItems : rx'[i] = rx[i]
    <2>1. Len(rx') = n
      BY <1>n, CompletesInv
    <2>2. FullItems' = Len(rx')
      BY <1>1 DEF FullItems
    <2>. QED  BY <1>1, <1>n, <2>1, <2>2, CompletesInv, FullItemsType DEF Filling
  <1>4. Contents(rx[n])' = packet
    <2>1. /\ Units(rx'[n]) = Units(rx[n]) /\ rx'[n].at = rx[n].at
          /\ rx[n].at \in Units(rx[n])
      BY <1>n, <1>3, CompletesInv, FullItemsType
    <2>2. \A u \in Units(rx[n]) : memory[u] = packet
      BY <1>1, <1>n DEF Inv, CopiedWhole
    <2>3. Units(rx[n])' = Units(rx[n])
      BY <2>1 DEF Units, End
    <2>. QED  BY <1>1, <2>1, <2>2, <2>3 DEF Contents
  <1>5. \A i \in 1 .. FullItems : Contents(rx[i])' = Contents(rx[i])
    BY <1>1, <1>3 DEF Contents, Units, End
  <1>6. ToHost' = Append(ToHost, packet)
    <2>1. Inv'
      BY CompletesInv
    <2>2. /\ ToHost' \in Seq(Packet(RxSizes) \cup {Blank}) /\ Len(ToHost') = n
          /\ \A i \in 1 .. n : ToHost'[i] = Contents(rx[i])'
      <3>1. (/\ ToHost \in Seq(Packet(RxSizes) \cup {Blank}) /\ Len(ToHost) = FullItems
             /\ \A i \in 1 .. FullItems : ToHost[i] = Contents(rx[i]))'
        BY <2>1, QueuesType, PTL
      <3>. QED  BY <1>3, <3>1 DEF Packet, Blank
    <2>3. n \in 1 .. n
      <3>1. n # 0
        BY <1>n, <1>3, FullItemsType
      <3>. QED  BY <1>3, <3>1
    <2>. QED  BY <1>2, <1>3, <1>4, <1>5, <2>2, <2>3, QueuesType, OneMore
  <1>7. ToController' = ToController
    BY <1>1 DEF ToController
  <1>8. Q!Deliver(packet.size)
    BY <1>1, <1>2, <1>6, <1>7 DEF Q!Deliver, ToHost, ToController
  <1>. QED  BY <1>2, <1>8

\* A packet that is dropped is delivered to nobody: it is too long.
LEMMA DropsDelivers ==
  ASSUME Inv, Drops
  PROVE  \E size \in RxSizes : Q!Deliver(size)
  <1>1. /\ controller = "waiting" /\ controller' = "idle" /\ given' = given + 1
        /\ packet.size > Longest(RxRoom)
        /\ UNCHANGED <<packet, memory, rx, made, tx, handled>>
    BY DEF Drops, hosts
  <1>2. packet.size \in RxSizes
    BY <1>1 DEF Inv, PacketNext, Packet
  <1>3. FullItems' = FullItems
    BY <1>1 DEF FullItems
  <1>4. ToHost' = ToHost
    BY <1>1, <1>3 DEF ToHost, Contents, Units, End
  <1>5. ToController' = ToController
    BY <1>1 DEF ToController
  <1>6. Q!Deliver(packet.size)
    BY <1>1, <1>4, <1>5 DEF Q!Deliver, ToHost, ToController
  <1>. QED  BY <1>2, <1>6

\* The packet that the handler ran on was the first that waited.
LEMMA ReturnsHandles ==
  ASSUME Inv, Returns
  PROVE  Q!Handle
  <1>1. /\ handled' = <<Contents(rx[1])>>
        /\ UNCHANGED <<controller, packet, given, memory, made, tx>>
    BY DEF Returns, At, controllers
  <1>2. PICK n \in Nat \ {0} : n = FullItems
    BY ReturnsInv
  <1>3. /\ FullItems' = n - 1 /\ \A i \in 1 .. n - 1 : rx'[i] = rx[i + 1]
        /\ Inv'
    BY <1>2, ReturnsInv
  <1>4. /\ ToHost \in Seq(Packet(RxSizes) \cup {Blank}) /\ Len(ToHost) = n
        /\ \A i \in 1 .. n : ToHost[i] = Contents(rx[i])
    BY <1>2, QueuesType
  <1>5. /\ ToHost' \in Seq(Packet(RxSizes) \cup {Blank}) /\ Len(ToHost') = n - 1
        /\ \A i \in 1 .. n - 1 : ToHost'[i] = Contents(rx[i])'
    <2>1. (/\ ToHost \in Seq(Packet(RxSizes) \cup {Blank}) /\ Len(ToHost) = FullItems
           /\ \A i \in 1 .. FullItems : ToHost[i] = Contents(rx[i]))'
      BY <1>3, QueuesType, PTL
    <2>. QED  BY <1>3, <2>1 DEF Packet, Blank
  <1>6. \A i \in 1 .. n - 1 : Contents(rx[i])' = Contents(rx[i + 1])
    BY <1>1, <1>3 DEF Contents, Units, End
  <1>7. ToHost # <<>> /\ Head(ToHost) = Contents(rx[1])
    BY <1>4
  <1>8. ToHost' = Tail(ToHost)
    BY <1>4, <1>5, <1>6, <1>7, OneLess
  <1>9. ToController' = ToController
    BY <1>1 DEF ToController
  <1>. QED  BY <1>1, <1>7, <1>8, <1>9 DEF Q!Handle, ToHost, ToController

\* Steps of the host alone leave the packets for the host alone.
LEMMA HostLeaves ==
  ASSUME UNCHANGED <<controller, memory, rx>>
  PROVE  ToHost' = ToHost
  <1>1. FullItems' = FullItems
    BY DEF FullItems
  <1>. QED  BY <1>1 DEF ToHost, Contents, Units, End

\* A handler's packet is put, or is lost while others wait.
LEMMA EnqueuesPuts ==
  ASSUME Inv, NEW size \in TxSizes, Enqueues(size)
  PROVE  Q!Put(size)
  <1>. DEFINE new == [no |-> made + 1, size |-> size]
  <1>1. /\ made' = made + 1 /\ UNCHANGED <<given, handled>> /\ tx' \in Seq(TxItem)
        /\ made \in Nat /\ tx \in Seq(TxItem)
    BY EnqueuesInv DEF Inv, TypeOK, TxItem
  <1>2. ToHost' = ToHost
    BY EnqueuesInv, HostLeaves
  <1>3. new \in Packet(TxSizes)
    BY <1>1 DEF Packet
  <1>4. PICK n \in Nat : n = Len(tx)
    BY <1>1
  <1>5. CASE \E at \in Nat : tx' = Append(tx, [at |-> at, size |-> size, packet |-> new])
    <2>1. PICK at \in Nat : tx' = Append(tx, [at |-> at, size |-> size, packet |-> new])
      BY <1>5
    <2>2. [at |-> at, size |-> size, packet |-> new] \in TxItem
      BY <1>3 DEF TxItem
    <2>3. /\ Len(tx') = n + 1 /\ tx'[n + 1].packet = new
          /\ \A i \in 1 .. n : tx'[i] = tx[i]
      BY <1>1, <1>4, <2>1, <2>2
    <2>4. ToController \in Seq(Packet(TxSizes)) /\ Len(ToController) = n
          /\ \A i \in 1 .. n : ToController[i] = tx[i].packet
      BY <1>4, QueuesType
    <2>5. ToController' = [i \in 1 .. n + 1 |-> tx'[i].packet]
      BY <2>3 DEF ToController
    <2>6. \A i \in 1 .. n + 1 : tx'[i].packet \in Packet(TxSizes)
      <3>1. \A i \in 1 .. n + 1 : tx'[i] \in TxItem
        BY <1>1, <2>3
      <3>. QED  BY <3>1 DEF TxItem
    <2>7. /\ ToController' \in Seq(Packet(TxSizes)) /\ Len(ToController') = n + 1
          /\ \A i \in 1 .. n + 1 : ToController'[i] = tx'[i].packet
      BY <2>5, <2>6
    <2>8. ToController' = Append(ToController, new)
      <3>. HIDE DEF new
      <3>. QED  BY <1>3, <2>3, <2>4, <2>7, OneMore
    <2>. QED  BY <1>1, <1>2, <2>8 DEF Q!Put, ToHost, ToController
  <1>6. CASE tx # <<>> /\ UNCHANGED tx
    <2>1. ToController' = ToController
      BY <1>6 DEF ToController
    <2>2. Len(ToController) = n /\ n # 0
      BY <1>1, <1>4, <1>6, QueuesType
    <2>3. ToController # <<>>
      BY <2>2
    <2>. QED  BY <1>1, <1>2, <2>1, <2>3 DEF Q!Put, ToHost, ToController
  <1>. QED  BY <1>5, <1>6, EnqueuesInv

\* The controller takes the packet that has waited longest.
LEMMA TransmitsSends ==
  ASSUME Inv, Transmits
  PROVE  Q!Send
  <1>1. /\ tx # <<>> /\ tx \in Seq(TxItem) /\ tx' = Tail(tx)
        /\ UNCHANGED <<given, made, handled, controller, memory, rx>>
    BY TransmitsInv
  <1>2. PICK n \in Nat \ {0} : n = Len(tx)
    BY <1>1
  <1>3. Len(tx') = n - 1 /\ \A i \in 1 .. n - 1 : tx'[i] = tx[i + 1]
    BY <1>1, <1>2
  <1>4. /\ ToController \in Seq(Packet(TxSizes)) /\ Len(ToController) = n
        /\ \A i \in 1 .. n : ToController[i] = tx[i].packet
    BY <1>2, QueuesType
  <1>5. ToController' = [i \in 1 .. n - 1 |-> tx[i + 1].packet]
    BY <1>3 DEF ToController
  <1>6. ToController # <<>>
    BY <1>4
  <1>7. \A i \in 1 .. n - 1 : tx[i + 1].packet \in Packet(TxSizes)
    <2>1. \A i \in 1 .. n - 1 : tx[i + 1] \in TxItem
      BY <1>1, <1>2
    <2>. QED  BY <2>1 DEF TxItem
  <1>8. /\ ToController' \in Seq(Packet(TxSizes)) /\ Len(ToController') = n - 1
        /\ \A i \in 1 .. n - 1 : ToController'[i] = tx[i + 1].packet
    BY <1>5, <1>7
  <1>9. ToController' = Tail(ToController)
    <2>1. \A i \in 1 .. n - 1 : ToController'[i] = ToController[i + 1]
      BY <1>4, <1>8
    <2>. QED  BY <1>4, <1>6, <1>8, <2>1, OneLess
  <1>. QED  BY <1>1, <1>6, <1>9, HostLeaves DEF Q!Send, ToHost, ToController

\* The two tasks and the rings implement the queues: whatever the tasks do at
\* the same time and wherever the rings place their items, packets for the
\* host are handled whole, once and in order, only those too long for the
\* ring are lost; and packets for the controller are lost only while others
\* wait.  (The safety part of ImplementsQueues.)
THEOREM QueuesImplemented == Spec => Q!Spec
  <1>1. Init => Q!Init
    <2>. SUFFICES ASSUME Init PROVE Q!Init
      OBVIOUS
    <2>1. rx = <<>> /\ tx = <<>> /\ FullItems = 0 /\ Len(tx) = 0
      BY DEF Init, FullItems
    <2>2. ToHost = <<>> /\ ToController = <<>>
      BY <2>1 DEF ToHost, ToController
    <2>. QED  BY <2>2, QueuesDefs DEF Init
  <1>2. Inv /\ [Next]_vars => [Q!Next]_(Q!vars)
    <2>. SUFFICES ASSUME Inv, [Next]_vars PROVE Q!Next \/ UNCHANGED Q!vars
      OBVIOUS
    <2>0. \A size \in Sizes : Q!Deliver(size) \/ Q!Put(size) => Q!Next
      BY DEF Q!Next
    <2>1. ASSUME NEW size \in RxSizes, Calls(size)
          PROVE  UNCHANGED Q!vars
      <3>1. UNCHANGED <<given, memory, rx, made, tx, handled>> /\ FullItems' = FullItems
        BY <2>1 DEF Calls, hosts, FullItems
      <3>. QED  BY <3>1, Stutters DEF Contents, Units, End
    <2>2. CASE Receive
      BY <2>0, <2>2, AcquiresStutters, CopiesStutters, CompletesDelivers, DropsDelivers
         DEF Receive, Sizes
    <2>3. CASE Registers \/ EndsSending \/ Reads \/ ReadsNothing \/ UNCHANGED vars
      <3>1. UNCHANGED <<controller, given, memory, rx, made, tx, handled>>
        BY <2>3 DEF Registers, EndsSending, Reads, ReadsNothing, controllers, vars
      <3>. QED  BY <3>1, Stutters DEF FullItems, Contents, Units, End
    <2>4. CASE Returns
      BY <2>4, ReturnsHandles DEF Q!Next
    <2>5. ASSUME NEW size \in TxSizes, Resets(size) \/ Puts(size)
          PROVE  Q!Next
      BY <2>0, <2>5, EnqueuesPuts DEF Resets, Puts, Sizes
    <2>6. CASE Transmits
      BY <2>6, TransmitsSends DEF Q!Next
    <2>. QED  BY <2>1, <2>2, <2>3, <2>4, <2>5, <2>6 DEF Next, Setup, Step
  <1>. QED  BY <1>1, <1>2, InitInv, NextInv, PTL DEF Spec, Q!Spec
================================================================================
