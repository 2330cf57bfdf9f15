--------------------------------- MODULE Queues --------------------------------
(***************************************************************************)
(* What the two ring buffers and step() promise to the layers above them,  *)
(* and what L2cap and Discovery take for granted: a queue of packets from  *)
(* the controller to the handlers, that loses nothing but packets too long *)
(* for the ring, and one of packets from the handlers to the controller,   *)
(* that loses a packet only while others wait in it.                       *)
(*                                                                         *)
(* Packets are numbered on each way in the order in which they are given.  *)
(***************************************************************************)
EXTENDS Naturals, Sequences

CONSTANTS Sizes,    \* sizes of packets
          Limit     \* size of the longest packet for the host that fits

VARIABLES
  given,         \* packets that the controller gave so far
  toHost,        \* packets that the host has not handled
  handled,       \* the last packet handled: <<>> or <<packet>>
  made,          \* packets that handlers made so far
  toController   \* packets that the controller has not taken

vars == <<given, toHost, handled, made, toController>>

Init ==
  /\ given = 0 /\ toHost = <<>> /\ handled = <<>>
  /\ made = 0 /\ toController = <<>>

Deliver(size) ==
  /\ given' = given + 1
  /\ \/ size <= Limit /\ toHost' = Append(toHost, [no |-> given + 1, size |-> size])
     \/ size > Limit /\ UNCHANGED toHost
  /\ UNCHANGED <<handled, made, toController>>

Handle ==
  /\ toHost # <<>>
  /\ handled' = <<Head(toHost)>>
  /\ toHost' = Tail(toHost)
  /\ UNCHANGED <<given, made, toController>>

Put(size) ==
  /\ made' = made + 1
  /\ \/ toController' = Append(toController, [no |-> made + 1, size |-> size])
     \/ toController # <<>> /\ UNCHANGED toController
  /\ UNCHANGED <<given, toHost, handled>>

Send ==
  /\ toController # <<>>
  /\ toController' = Tail(toController)
  /\ UNCHANGED <<given, toHost, handled, made>>

Next ==
  \/ \E size \in Sizes : Deliver(size) \/ Put(size)
  \/ Handle
  \/ Send

Spec == Init /\ [][Next]_vars

\* Every packet that fits is handled, and every one that waits is sent.
FairSpec == Spec /\ WF_vars(Handle) /\ WF_vars(Send)
================================================================================
