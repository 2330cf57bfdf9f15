-------------------------------- MODULE Transport ------------------------------
(***************************************************************************)
(* The two tasks of the program and the rings between them                 *)
(* (src/src/esp32_bluetooth.cpp: step(), the constructor and recv;         *)
(* src/src/ring_buffer.h).  The controller's task calls recv with each     *)
(* packet it has: recv waits for room in rxBuffer, copies the packet there *)
(* and completes the item.  The host's task sets Bluetooth up and then     *)
(* calls step() for ever: packets of txBuffer go to the controller while   *)
(* it takes them, then a handler runs on the oldest item of rxBuffer,      *)
(* where it lies, and puts packets in txBuffer without waiting.            *)
(*                                                                         *)
(* Only the host's task uses txBuffer, so its items need no memory: an     *)
(* item holds its packet from the start.  What handlers do with a packet   *)
(* is L2cap's and Discovery's.                                             *)
(*                                                                         *)
(* A definition marked "deviation" is a wrong version of the one it        *)
(* precedes, used only to check that properties fail with it.              *)
(***************************************************************************)
EXTENDS RingBuffer

CONSTANTS RxRoom, TxRoom,   \* units of memory of the rings
          RxSizes,          \* sizes of packets the controller has
          TxSizes,          \* sizes of packets that handlers put
          MaxGiven,         \* bound: packets that the controller gives
          MaxMade           \* bound: packets that the host makes

Sizes == RxSizes \cup TxSizes

ASSUME TransportAssumption ==
  /\ RxRoom \in Nat /\ TxRoom \in Nat
  /\ RxSizes \subseteq Nat \ {0}
  /\ TxSizes \subseteq Nat \ {0} /\ TxSizes # {}
  /\ \A size \in TxSizes : size <= Longest(TxRoom)
  /\ MaxGiven \in Nat /\ MaxMade \in Nat \ {0}

VARIABLES
  controller,  \* where the controller's task is
  packet,      \* the packet that it has called recv with
  given,       \* packets that it has given so far
  memory,      \* what the units of rxBuffer hold
  rx,          \* the items of rxBuffer
  host,        \* where the host's task is
  made,        \* packets that the host has made so far
  tx,          \* the items of txBuffer, with their packets
  handled      \* the last packet that a handler ran on: <<>> or <<packet>>

vars == <<controller, packet, given, memory, rx, host, made, tx, handled>>

Packet(sizes) == [no : Nat \ {0}, size : sizes]

\* Memory that no packet was copied to, or that parts of two are in.
Blank == [no |-> 0, size |-> 0]

\* What a handler sees of an item.
Contents(item) ==
  IF \A u \in Units(item) : memory[u] = memory[item.at] THEN memory[item.at] ELSE Blank
--------------------------------------------------------------------------------
(* The controller's task.                                                  *)

controllers == <<controller, packet, given, memory>>
hosts == <<host, made, tx, handled>>

\* It has a packet for the host; recv is registered.
Calls(size) ==
  /\ controller = "idle" /\ host # "setup" /\ given < MaxGiven
  /\ controller' = "waiting"
  /\ packet' = [no |-> given + 1, size |-> size]
  /\ UNCHANGED <<given, memory, rx, hosts>>

\* rxBuffer.allocate(len, portMAX_DELAY).
Acquires ==
  /\ controller = "waiting" /\ packet.size <= Longest(RxRoom)
  /\ \E at \in Places(rx, packet.size, RxRoom) : rx' = Acquire(rx, at, packet.size)
  /\ controller' = "acquired"
  /\ UNCHANGED <<packet, given, memory, hosts>>

\* "Buffer error, dropping packets."
Drops ==
  /\ controller = "waiting" /\ packet.size > Longest(RxRoom)
  /\ controller' = "idle"
  /\ given' = given + 1
  /\ UNCHANGED <<packet, memory, rx, hosts>>

\* memcpy.
Copies ==
  /\ controller = "acquired"
  /\ controller' = "copied"
  /\ memory' = [u \in DOMAIN memory |->
                  IF u \in Units(rx[Len(rx)]) THEN packet ELSE memory[u]]
  /\ UNCHANGED <<packet, given, rx, hosts>>

\* ~RingData at the end of recv.
Completes ==
  /\ controller = "copied"
  /\ rx' = Complete(rx)
  /\ controller' = "idle"
  /\ given' = given + 1
  /\ UNCHANGED <<packet, memory, hosts>>
--------------------------------------------------------------------------------
(* The host's task.                                                        *)

At(here, there) == host = here /\ host' = there

\* The Esp32Bluetooth constructor registers recv and enqueues the reset.
Registers ==
  /\ At("setup", "registered")
  /\ UNCHANGED <<controllers, rx, made, tx, handled>>

\* deviation: the result of allocate is not looked at.
EnqueuesAnyway(size) ==
  /\ made < MaxMade
  /\ made' = made + 1
  /\ \E at \in Places(tx, size, TxRoom) \cup {End(tx[i]) : i \in {Len(tx)} \ {0}} :
       tx' = Append(tx, [at |-> at, size |-> size,
                         packet |-> [no |-> made + 1, size |-> size]])
  /\ UNCHANGED <<controllers, rx, handled>>

\* txBuffer.allocate(size), filled and completed; "failed!" without room.
Enqueues(size) ==
  /\ made < MaxMade
  /\ made' = made + 1
  /\ \/ \E at \in Places(tx, size, TxRoom) :
          tx' = Append(tx, [at |-> at, size |-> size,
                            packet |-> [no |-> made + 1, size |-> size]])
     \/ Places(tx, size, TxRoom) = {} /\ UNCHANGED tx
  /\ UNCHANGED <<controllers, rx, handled>>

Resets(size) == At("registered", "sending") /\ Enqueues(size)

\* One iteration of the loop of step(): the controller takes a packet.  It
\* takes none while its task waits in recv.
Transmits ==
  /\ At("sending", "sending")
  /\ controller # "waiting"
  /\ tx # <<>>
  /\ tx' = Tail(tx)
  /\ UNCHANGED <<controllers, rx, made, handled>>

\* deviation: the loop waits until the controller has taken all.
EndsSendingWaits ==
  /\ At("sending", "receiving") /\ tx = <<>>
  /\ UNCHANGED <<controllers, rx, made, tx, handled>>

\* The loop ends when the controller takes no packet or there is none.
EndsSending ==
  /\ At("sending", "receiving")
  /\ UNCHANGED <<controllers, rx, made, tx, handled>>

Reads ==
  /\ At("receiving", "handling")
  /\ Readable(rx)
  /\ UNCHANGED <<controllers, rx, made, tx, handled>>

ReadsNothing ==
  /\ At("receiving", "sending")
  /\ ~Readable(rx)
  /\ UNCHANGED <<controllers, rx, made, tx, handled>>

Puts(size) == At("handling", "handling") /\ Enqueues(size)

\* The handler has run to its end, on what the item held until then.
Returns ==
  /\ At("handling", "sending")
  /\ handled' = <<Contents(rx[1])>>
  /\ rx' = Return(rx)
  /\ UNCHANGED <<controllers, made, tx>>
--------------------------------------------------------------------------------
Init ==
  /\ controller = "idle" /\ packet = Blank /\ given = 0
  /\ memory = [u \in 0 .. RxRoom - 1 |-> Blank] /\ rx = <<>>
  /\ host = "setup" /\ made = 0 /\ tx = <<>>
  /\ handled = <<>>

Receive == Acquires \/ Drops \/ Copies \/ Completes

Setup == Registers \/ \E size \in TxSizes : Resets(size)

Step == EndsSending \/ Reads \/ ReadsNothing \/ Returns

Next ==
  \/ \E size \in RxSizes : Calls(size)
  \/ Receive
  \/ Setup
  \/ Step
  \/ \E size \in TxSizes : Puts(size)
  \/ Transmits

Spec == Init /\ [][Next]_vars

\* Both tasks run, handlers end, and the controller takes packets again and
\* again.
FairSpec ==
  /\ Spec
  /\ WF_vars(Receive) /\ WF_vars(Setup \/ Step) /\ SF_vars(Transmits)
--------------------------------------------------------------------------------
(* Properties.                                                             *)

Item == [at : Nat, size : RxSizes, full : BOOLEAN]

\* Every variable has its type, and items lie within the rings.
TypeOK ==
  /\ controller \in {"idle", "waiting", "acquired", "copied"}
  /\ packet \in Packet(RxSizes) \cup {Blank} /\ given \in Nat
  /\ memory \in [0 .. RxRoom - 1 -> Packet(RxSizes) \cup {Blank}]
  /\ rx \in Seq(Item) /\ \A i \in DOMAIN rx : End(rx[i]) <= RxRoom
  /\ host \in {"setup", "registered", "sending", "receiving", "handling"}
  /\ made \in Nat
  /\ tx \in Seq([at : Nat, size : TxSizes, packet : Packet(TxSizes)])
  /\ \A i \in DOMAIN tx : End(tx[i]) <= TxRoom

\* The items that are completed: all but the one that recv is filling.
FullItems == IF controller \in {"acquired", "copied"} THEN Len(rx) - 1 ELSE Len(rx)

\* The rings implement the queues: packets are those that the memory of the
\* completed items holds.
Q == INSTANCE Queues WITH
       Limit        <- Longest(RxRoom),
       toHost       <- [i \in 1 .. FullItems |-> Contents(rx[i])],
       toController <- [i \in 1 .. Len(tx) |-> tx[i].packet]

\* Whatever the two tasks do at the same time, the host handles every packet
\* that fits in the ring, whole, once and in order; and the controller gets
\* every packet in order that was not refused for packets that wait.
ImplementsQueues == Q!FairSpec

\* The controller's task does not wait for ever for room in rxBuffer, though
\* it takes no packet from the host meanwhile.
RecvReturns == controller = "waiting" ~> controller = "idle"
================================================================================
