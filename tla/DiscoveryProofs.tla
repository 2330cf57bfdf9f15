----------------------------- MODULE DiscoveryProofs -----------------------------
(***************************************************************************)
(* Proofs about the HCI layer, for any devices, capacities and failures:   *)
(* every variable has its type, nameRequests.at never throws, the host     *)
(* scans only when the controller is configured; and, as long as nothing   *)
(* is lost or refused, for the devices that do not call while the host     *)
(* connects to them, the host's records name exactly the requests that are *)
(* outstanding, and one side opens the channels of each link.              *)
(*                                                                         *)
(* The argument.  What the host asks of the controller goes on in threads: *)
(* the bring-up and the scan are one (its commands name no device), and    *)
(* name request and connection of a device are another.  A thread has at   *)
(* most one step under way, as a command in txBuffer, a command that the   *)
(* controller is executing, or the event that ends it in rxBuffer          *)
(* (OneStep).  The thread of a device starts only when a scan finds a      *)
(* device that is not in `discovered', and those whose threads are going   *)
(* on are there until the scan is over (ThreadsKnown): the scan's results  *)
(* come before its end (ScanResults).                                      *)
(***************************************************************************)
EXTENDS Discovery, TLAPS, CommonLemmas

--------------------------------------------------------------------------------
(* Threads.                                                                *)

Steps == Setup \cup {"Inquiry", "NameRequest", "Create"}

\* c is a step of the thread of d; e ends one.
Starts(c, d) == c.op \in Steps /\ c.device = d
Stops(e, d) == e.op \in Steps /\ e.type # "InquiryResult" /\ e.device = d

\* No step of the thread of d is in txBuffer t, in execution D, or in rxBuffer r.
FreeIn(t, D, r, d) ==
  /\ \A i \in DOMAIN t : ~Starts(t[i], d)
  /\ \A c \in D : ~Starts(c, d)
  /\ \A i \in DOMAIN r : ~Stops(r[i], d)

\* There is at most one.
OneStepIn(t, D, r, d) ==
  /\ \A i, j \in DOMAIN t : Starts(t[i], d) /\ Starts(t[j], d) => i = j
  /\ \A c1, c2 \in D : Starts(c1, d) /\ Starts(c2, d) => c1 = c2
  /\ \A i, j \in DOMAIN r : Stops(r[i], d) /\ Stops(r[j], d) => i = j
  /\ \A i \in DOMAIN t, c \in D : ~(Starts(t[i], d) /\ Starts(c, d))
  /\ \A i \in DOMAIN t, j \in DOMAIN r : ~(Starts(t[i], d) /\ Stops(r[j], d))
  /\ \A c \in D, j \in DOMAIN r : ~(Starts(c, d) /\ Stops(r[j], d))

Thread == Device \cup {NoDevice}
Free(d) == FreeIn(tx, doing, rx, d)

--------------------------------------------------------------------------------
(* The inductive invariant.                                                *)

\* The commands of the bring-up before one.
Before(op) ==
  CASE op = "Reset" -> {}
    [] op = "ReadBdAddr" -> {"Reset"}
    [] op = "WriteLocalName" -> {"Reset", "ReadBdAddr"}
    [] op = "WriteClassOfDevice" -> {"Reset", "ReadBdAddr", "WriteLocalName"}
    [] OTHER -> {"Reset", "ReadBdAddr", "WriteLocalName", "WriteClassOfDevice"}

\* A command of the bring-up is sent when those before it were executed, and
\* not after the last; a name request is on record.
CommandOk(c) ==
  /\ c.op \in Setup \cup {"Inquiry"} <=> c.device = NoDevice
  /\ c.op \in Setup => ~initialized /\ Before(c.op) \subseteq configured
  /\ c.op = "Inquiry" => initialized
  /\ c.op = "NameRequest" =>
       c.device \in Wii \cap Discoverable /\ c.device \in nameRequests
  /\ c.op = "Create" => c.device \in Boards \cap Discoverable

\* An event answers a command of its kind.
EventOk(e) ==
  /\ e.type = "CommandComplete" <=> e.op \in Setup
  /\ e.type \in {"InquiryResult", "InquiryComplete"} <=> e.op = "Inquiry"
  /\ e.type = "RemoteName" <=> e.op = "NameRequest"
  /\ e.op = "Create" => e.type = "ConnectionComplete" /\ e.device \in Boards \cap Discoverable
  /\ e.type = "ConnectionComplete" => e.op \in {"Create", "Accept"}
  /\ e.type = "ConnectionRequest" => e.op = "Accept"
  /\ e.type \in {"CommandComplete", "InquiryComplete"} <=> e.device = NoDevice
  /\ e.type = "InquiryResult" => {e.device, e.second} \subseteq Discoverable \cup {NoDevice}
  /\ e.op \in Setup => ~initialized
  /\ e.op \in Setup /\ e.ok => Before(e.op) \cup {e.op} \subseteq configured
  /\ e.op = "Inquiry" => initialized
  /\ e.op = "NameRequest" =>
       e.device \in Wii \cap Discoverable /\ e.device \in nameRequests

CommandsOk == (\A i \in DOMAIN tx : CommandOk(tx[i])) /\ (\A c \in doing : CommandOk(c))
EventsOk == \A i \in DOMAIN rx : EventOk(rx[i])
OneStep == \A d \in Thread : OneStepIn(tx, doing, rx, d)

\* What a scan has found is handled before its end.
ScanResults ==
  \A i \in DOMAIN rx : rx[i].type = "InquiryResult" =>
    \/ \E c \in doing : c.op = "Inquiry"
    \/ \E j \in DOMAIN rx : i < j /\ rx[j].type = "InquiryComplete"

\* A device whose thread is going on is known as long as the scan is.
ThreadsKnown ==
  \A d \in Device : ~Free(d) => initialized /\ (d \in discovered \/ Free(NoDevice))

Inv ==
  /\ TypeOK /\ ~crashed /\ (initialized => configured = Setup)
  /\ CommandsOk /\ EventsOk /\ OneStep /\ ScanResults /\ ThreadsKnown

--------------------------------------------------------------------------------
(* The same for what a link says, as long as nothing was lost or refused,  *)
(* of the devices that do not call while the host connects to them: for    *)
(* these the two ways to a link exclude each other.                        *)

Apart(d) == ~dropped /\ d \notin crossed

CommandFits(c) ==
  /\ c.op \in {"NameRequest", "Create"} => link[c.device] # "ours"
  /\ c.op = "Create" /\ Apart(c.device) => c.device \in connectRequests
  /\ c.op = "Accept" /\ Apart(c.device) => c.device \notin connectRequests

EventFits(e) ==
  /\ e.op = "NameRequest" => link[e.device] # "ours"
  /\ e.op = "Create" /\ e.ok => link[e.device] = "ours"
  /\ e.op = "Create" /\ Apart(e.device) => e.device \in connectRequests
  /\ e.op = "Accept" /\ Apart(e.device) => e.device \notin connectRequests

CommandsFit == (\A i \in DOMAIN tx : CommandFits(tx[i])) /\ (\A c \in doing : CommandFits(c))
EventsFit == \A i \in DOMAIN rx : EventFits(rx[i])

\* The host knows the devices to which it has made a link, as it does those
\* whose threads are going on.
LinksKnown ==
  \A d \in Device : link[d] = "ours" =>
    d \in Boards \cap Discoverable /\ initialized /\ (d \in discovered \/ Free(NoDevice))

LinksCalled == \A d \in Device : link[d] = "theirs" /\ Apart(d) => d \notin connectRequests

\* The host opens channels on the links that it asked for, once it has handled
\* their completion.
OpensOurs == \A d \in opens : Apart(d) => link[d] = "ours"
OursOpened ==
  \A d \in Device : link[d] = "ours" /\ Apart(d) =>
    d \in opens \/ \E i \in DOMAIN rx : rx[i].op = "Create" /\ rx[i].ok /\ rx[i].device = d

\* A command op for d is in txBuffer t, in execution D, or answered in rxBuffer r.
PendingIn(t, D, r, op, d) ==
  \/ \E i \in DOMAIN t : t[i].op = op /\ t[i].device = d
  \/ \E c \in D : c.op = op /\ c.device = d
  \/ \E i \in DOMAIN r : r[i].op = op /\ r[i].device = d

Pending(op, d) == PendingIn(tx, doing, rx, op, d)

\* No request is on record that is not outstanding.
Recorded ==
  /\ connectRequests \subseteq Boards \cap Discoverable
  /\ ~dropped => /\ \A d \in nameRequests : Pending("NameRequest", d)
                 /\ \A d \in connectRequests \ crossed : Pending("Create", d)

LinkInv ==
  /\ CommandsFit /\ EventsFit /\ LinksKnown /\ LinksCalled
  /\ OpensOurs /\ OursOpened /\ Recorded

--------------------------------------------------------------------------------
(* Lemmas about the operators.                                             *)

\* Commands and events are what they are.
LEMMA Formed ==
  /\ Setup = {"Reset", "ReadBdAddr", "WriteLocalName", "WriteClassOfDevice", "WriteScanEnable"}
  /\ Steps \subseteq Op
  /\ \A op \in Op, d \in Device \cup {NoDevice} :
       Cmd(op, d) \in Command /\ Cmd(op, d).op = op /\ Cmd(op, d).device = d
  /\ \A d \in Device : RejectConnection(d) \in Command /\ RejectConnection(d).op = "Accept"
                       /\ RejectConnection(d).device = d
  /\ NoDevice \notin Device /\ Discoverable \subseteq Device /\ Calling \subseteq Device
  /\ Wii \subseteq Device /\ Boards \subseteq Wii
<1>1. DOMAIN BringUp = 1 .. 5
  BY DEF BringUp
<1>2. Setup = {"Reset", "ReadBdAddr", "WriteLocalName", "WriteClassOfDevice", "WriteScanEnable"}
  BY <1>1 DEF Setup, BringUp
<1> QED
  BY <1>2, DiscoveryAssumption DEF Steps, Op, Cmd, Command, RejectConnection, Device, Wii

\* The bring-up goes through its commands in order.
LEMMA NextSetupFacts ==
  /\ Before("Reset") = {}
  /\ Before("WriteScanEnable") \cup {"WriteScanEnable"} = Setup
  /\ \A op \in Setup \ {"WriteScanEnable"} :
       NextSetup(op) \in Setup /\ Before(NextSetup(op)) = Before(op) \cup {op}
<1>1. DOMAIN BringUp = {1, 2, 3, 4, 5} /\ BringUp[1] = "Reset" /\ BringUp[2] = "ReadBdAddr"
      /\ BringUp[3] = "WriteLocalName" /\ BringUp[4] = "WriteClassOfDevice"
      /\ BringUp[5] = "WriteScanEnable"
  BY DEF BringUp
<1>2. ASSUME NEW op, NEW k \in {1, 2, 3, 4}, BringUp[k] = op
      PROVE  NextSetup(op) = BringUp[1 + k]
  <2>1. (CHOOSE i \in DOMAIN BringUp : BringUp[i] = op) = k
    <3>1. \A i \in DOMAIN BringUp : BringUp[i] = op <=> i = k
      BY <1>1, <1>2
    <3> QED
      BY <3>1, <1>1
  <2> QED
    BY <2>1 DEF NextSetup
<1>3. /\ NextSetup("Reset") = "ReadBdAddr" /\ NextSetup("ReadBdAddr") = "WriteLocalName"
      /\ NextSetup("WriteLocalName") = "WriteClassOfDevice"
      /\ NextSetup("WriteClassOfDevice") = "WriteScanEnable"
  <2>1. NextSetup("Reset") = BringUp[1 + 1]
    BY <1>2, <1>1
  <2>2. NextSetup("ReadBdAddr") = BringUp[1 + 2]
    BY <1>2, <1>1
  <2>3. NextSetup("WriteLocalName") = BringUp[1 + 3]
    BY <1>2, <1>1
  <2>4. NextSetup("WriteClassOfDevice") = BringUp[1 + 4]
    BY <1>2, <1>1
  <2> QED
    BY <2>1, <2>2, <2>3, <2>4, <1>1
<1> QED
  BY <1>3, Formed DEF Before

\* A command that is sent is the last in txBuffer, or lost.
LEMMA EnqueueFacts ==
  ASSUME NEW q \in Seq(Command), NEW c \in Command, Len(q) <= TxCap
  PROVE  /\ Enqueue(q, c) \in Seq(Command) /\ Len(Enqueue(q, c)) <= TxCap
         /\ Enqueue(q, c) = q \/ Enqueue(q, c) = Append(q, c)
         /\ \A i \in DOMAIN Enqueue(q, c) :
              Enqueue(q, c)[i] = c \/ (i \in DOMAIN q /\ Enqueue(q, c)[i] = q[i])
         /\ \A i \in DOMAIN q : i \in DOMAIN Enqueue(q, c) /\ Enqueue(q, c)[i] = q[i]
         /\ Len(q) < TxCap => \E i \in DOMAIN Enqueue(q, c) : Enqueue(q, c)[i] = c
<1> TxCap \in Nat
  BY DiscoveryAssumption
<1>1. Len(q) \in Nat /\ DOMAIN q = 1 .. Len(q)
  BY QueueFacts
<1>2. CASE Len(q) < TxCap
  <2>1. Enqueue(q, c) = Append(q, c)
    BY <1>2 DEF Enqueue
  <2>2. Len(q) + 1 \in DOMAIN Append(q, c) /\ Append(q, c)[Len(q) + 1] = c
    BY <1>1, AppendFacts
  <2> QED
    BY <1>1, <1>2, <2>1, <2>2, AppendFacts
<1>3. CASE ~(Len(q) < TxCap)
  BY <1>1, <1>3 DEF Enqueue
<1> QED
  BY <1>2, <1>3

--------------------------------------------------------------------------------
(* Lemmas about threads: what adding, taking and ending a step does.       *)

LEMMA OneStepQueued ==
  ASSUME NEW t \in Seq(Command), NEW D, NEW r, NEW d, NEW c \in Command,
         OneStepIn(t, D, r, d), Starts(c, d) => FreeIn(t, D, r, d)
  PROVE  /\ OneStepIn(Append(t, c), D, r, d)
         /\ ~Starts(c, d) /\ FreeIn(t, D, r, d) => FreeIn(Append(t, c), D, r, d)
<1> DEFINE n == Len(t) + 1
<1>1. /\ DOMAIN Append(t, c) = DOMAIN t \cup {n} /\ n \notin DOMAIN t
      /\ \A i \in DOMAIN t : Append(t, c)[i] = t[i]
      /\ Append(t, c)[n] = c
  BY AppendFacts, QueueFacts
<1> HIDE DEF n
<1>2. OneStepIn(Append(t, c), D, r, d)
  <2>1. CASE Starts(c, d)
    <3>1. FreeIn(t, D, r, d)
      BY <2>1
    <3>2. \A i, j \in DOMAIN Append(t, c) :
            Starts(Append(t, c)[i], d) /\ Starts(Append(t, c)[j], d) => i = j
      BY <1>1, <3>1 DEF FreeIn
    <3> QED
      BY <1>1, <3>1, <3>2 DEF OneStepIn, FreeIn
  <2>2. CASE ~Starts(c, d)
    BY <1>1, <2>2 DEF OneStepIn
  <2> QED
    BY <2>1, <2>2
<1>3. ASSUME ~Starts(c, d), FreeIn(t, D, r, d)
      PROVE  FreeIn(Append(t, c), D, r, d)
  BY <1>1, <1>3 DEF FreeIn
<1> QED
  BY <1>2, <1>3

\* The same for a command that may be lost.
LEMMA OneStepSent ==
  ASSUME NEW t \in Seq(Command), NEW D, NEW r, NEW d, NEW c \in Command, Len(t) <= TxCap,
         OneStepIn(t, D, r, d), Starts(c, d) => FreeIn(t, D, r, d)
  PROVE  /\ OneStepIn(Enqueue(t, c), D, r, d)
         /\ ~Starts(c, d) /\ FreeIn(t, D, r, d) => FreeIn(Enqueue(t, c), D, r, d)
BY EnqueueFacts, OneStepQueued

LEMMA OneStepHandled ==
  ASSUME NEW t, NEW D, NEW r \in Seq(Event), NEW d, r # <<>>, OneStepIn(t, D, r, d)
  PROVE  /\ OneStepIn(t, D, Tail(r), d)
         /\ FreeIn(t, D, r, d) => FreeIn(t, D, Tail(r), d)
         /\ Stops(Head(r), d) => FreeIn(t, D, Tail(r), d)
<1>1. /\ 1 \in DOMAIN r /\ Head(r) = r[1]
      /\ \A i \in DOMAIN Tail(r) : i + 1 \in DOMAIN r /\ i + 1 # 1 /\ Tail(r)[i] = r[i + 1]
      /\ DOMAIN Tail(r) \subseteq Int
  BY TailFacts
<1>2. OneStepIn(t, D, Tail(r), d)
  <2>1. ASSUME NEW i \in DOMAIN Tail(r), NEW j \in DOMAIN Tail(r),
               Stops(Tail(r)[i], d), Stops(Tail(r)[j], d)
        PROVE  i = j
    <3>1. i + 1 = j + 1
      BY <1>1, <2>1 DEF OneStepIn
    <3> QED
      BY <3>1, <1>1
  <2> QED
    BY <1>1, <2>1 DEF OneStepIn
<1>3. FreeIn(t, D, r, d) => FreeIn(t, D, Tail(r), d)
  BY <1>1 DEF FreeIn
<1>4. Stops(Head(r), d) => FreeIn(t, D, Tail(r), d)
  BY <1>1 DEF FreeIn, OneStepIn
<1> QED
  BY <1>2, <1>3, <1>4

LEMMA OneStepTransmitted ==
  ASSUME NEW t \in Seq(Command), NEW D, NEW r, NEW d, t # <<>>, OneStepIn(t, D, r, d)
  PROVE  /\ OneStepIn(Tail(t), D, r, d)
         /\ OneStepIn(Tail(t), D \cup {Head(t)}, r, d)
         /\ FreeIn(t, D, r, d) => FreeIn(Tail(t), D, r, d) /\ FreeIn(Tail(t), D \cup {Head(t)}, r, d)
<1>1. /\ 1 \in DOMAIN t /\ Head(t) = t[1]
      /\ \A i \in DOMAIN Tail(t) : i + 1 \in DOMAIN t /\ i + 1 # 1 /\ Tail(t)[i] = t[i + 1]
      /\ DOMAIN Tail(t) \subseteq Int
  BY TailFacts
<1>2. ASSUME NEW i \in DOMAIN Tail(t), NEW j \in DOMAIN Tail(t),
             Starts(Tail(t)[i], d), Starts(Tail(t)[j], d)
      PROVE  i = j
  <2>1. i + 1 = j + 1
    BY <1>1, <1>2 DEF OneStepIn
  <2> QED
    BY <2>1, <1>1
<1>3. OneStepIn(Tail(t), D, r, d)
  BY <1>1, <1>2 DEF OneStepIn
<1>4. OneStepIn(Tail(t), D \cup {Head(t)}, r, d)
  <2>1. \A i \in DOMAIN Tail(t) : ~(Starts(Tail(t)[i], d) /\ Starts(Head(t), d))
    BY <1>1 DEF OneStepIn
  <2>2. \A c \in D : ~(Starts(Head(t), d) /\ Starts(c, d))
    BY <1>1 DEF OneStepIn
  <2>3. \A j \in DOMAIN r : ~(Starts(Head(t), d) /\ Stops(r[j], d))
    BY <1>1 DEF OneStepIn
  <2> QED
    BY <1>3, <2>1, <2>2, <2>3 DEF OneStepIn
<1>5. FreeIn(t, D, r, d) => FreeIn(Tail(t), D, r, d) /\ FreeIn(Tail(t), D \cup {Head(t)}, r, d)
  BY <1>1 DEF FreeIn
<1> QED
  BY <1>3, <1>4, <1>5

\* The controller ends a command, without an event or with one.
LEMMA OneStepEnded ==
  ASSUME NEW t, NEW D, NEW r \in Seq(Event), NEW d, NEW c \in D, NEW e \in Event,
         OneStepIn(t, D, r, d), Stops(e, d) => Starts(c, d)
  PROVE  /\ OneStepIn(t, D \ {c}, r, d)
         /\ FreeIn(t, D, r, d) => FreeIn(t, D \ {c}, r, d)
         /\ OneStepIn(t, D \ {c}, Append(r, e), d)
         /\ FreeIn(t, D, r, d) => FreeIn(t, D \ {c}, Append(r, e), d)
<1> DEFINE n == Len(r) + 1
<1>1. /\ DOMAIN Append(r, e) = DOMAIN r \cup {n} /\ n \notin DOMAIN r
      /\ \A i \in DOMAIN r : Append(r, e)[i] = r[i]
      /\ Append(r, e)[n] = e
  BY AppendFacts, QueueFacts
<1> HIDE DEF n
<1>2. OneStepIn(t, D \ {c}, r, d) /\ (FreeIn(t, D, r, d) => FreeIn(t, D \ {c}, r, d))
  BY DEF OneStepIn, FreeIn
<1>3. CASE ~Stops(e, d)
  BY <1>1, <1>2, <1>3 DEF OneStepIn, FreeIn
<1>4. CASE Stops(e, d)
  <2>1. Starts(c, d)
    BY <1>4
  <2>2. /\ ~FreeIn(t, D, r, d)
        /\ \A i \in DOMAIN t : ~Starts(t[i], d)
        /\ \A i \in DOMAIN r : ~Stops(r[i], d)
        /\ \A c1 \in D \ {c} : ~Starts(c1, d)
    BY <2>1 DEF OneStepIn, FreeIn
  <2> QED
    BY <1>1, <1>2, <2>2 DEF OneStepIn
<1> QED
  BY <1>3, <1>4

\* An event that ends no step.
LEMMA OneStepTold ==
  ASSUME NEW t, NEW D, NEW r \in Seq(Event), NEW d, NEW e \in Event,
         OneStepIn(t, D, r, d), ~Stops(e, d)
  PROVE  /\ OneStepIn(t, D, Append(r, e), d)
         /\ FreeIn(t, D, r, d) => FreeIn(t, D, Append(r, e), d)
<1> DEFINE n == Len(r) + 1
<1>1. /\ DOMAIN Append(r, e) = DOMAIN r \cup {n} /\ n \notin DOMAIN r
      /\ \A i \in DOMAIN r : Append(r, e)[i] = r[i]
      /\ Append(r, e)[n] = e
  BY AppendFacts, QueueFacts
<1> HIDE DEF n
<1> QED
  BY <1>1 DEF OneStepIn, FreeIn

--------------------------------------------------------------------------------
(* What the handlers of events have in common.                             *)

\* What an item requires still holds when the bring-up went on at most and the
\* name request of its device is on record.
LEMMA OkKept ==
  ASSUME initialized' = initialized, configured \subseteq configured'
  PROVE  /\ \A c : CommandOk(c) /\ (c.op = "NameRequest" => c.device \in nameRequests')
                     => CommandOk(c)'
         /\ \A e : EventOk(e) /\ (e.op = "NameRequest" => e.device \in nameRequests')
                     => EventOk(e)'
BY DEF CommandOk, EventOk

\* After the host has taken an event.
LEMMA Handled ==
  ASSUME Inv, NEW type, Receives(type)
  PROVE  /\ Head(rx) \in Event /\ EventOk(Head(rx)) /\ Head(rx).type = type
         /\ rx' \in Seq(Event) /\ Len(rx') <= RxCap
         /\ \A i \in DOMAIN rx' : i + 1 \in DOMAIN rx /\ rx'[i] = rx[i + 1]
         /\ \A i \in DOMAIN rx' : rx'[i] \in Event /\ EventOk(rx'[i])
         /\ \A d \in Thread : /\ OneStepIn(tx, doing, rx', d)
                              /\ Free(d) => FreeIn(tx, doing, rx', d)
                              /\ Stops(Head(rx), d) => FreeIn(tx, doing, rx', d) /\ ~Free(d)
         /\ ScanResults'
         /\ type = "InquiryResult" => ~FreeIn(tx, doing, rx', NoDevice)
<1>1. rx \in Seq(Event) /\ Len(rx) <= RxCap /\ rx # <<>> /\ rx' = Tail(rx)
      /\ Head(rx).type = type /\ doing' = doing
  BY DEF Inv, TypeOK, Receives, controller
<1>2. /\ Head(rx) \in Event /\ 1 \in DOMAIN rx /\ Head(rx) = rx[1]
      /\ rx' \in Seq(Event) /\ Len(rx') = Len(rx) - 1
      /\ \A i \in DOMAIN rx' : i + 1 \in DOMAIN rx /\ i + 1 # 1 /\ rx'[i] = rx[i + 1]
      /\ DOMAIN rx' = 1 .. Len(rx) - 1 /\ DOMAIN rx = 1 .. Len(rx) /\ Len(rx) \in Nat
  BY <1>1, TailFacts, QueueFacts
<1>3. Len(rx') <= RxCap
  BY <1>1, <1>2, DiscoveryAssumption
<1>4. EventOk(Head(rx)) /\ \A i \in DOMAIN rx' : rx'[i] \in Event /\ EventOk(rx'[i])
  BY <1>2, QueueFacts DEF Inv, EventsOk
<1>5. \A d \in Thread : /\ OneStepIn(tx, doing, rx', d)
                        /\ Free(d) => FreeIn(tx, doing, rx', d)
                        /\ Stops(Head(rx), d) => FreeIn(tx, doing, rx', d) /\ ~Free(d)
  <2>1. \A d \in Thread : Stops(Head(rx), d) => ~Free(d)
    BY <1>2 DEF Free, FreeIn
  <2> QED
    BY <1>1, <2>1, OneStepHandled DEF Inv, OneStep, Free
<1>6. ASSUME NEW i \in DOMAIN rx, rx[i].type = "InquiryResult"
      PROVE  \/ \E c \in doing : c.op = "Inquiry"
             \/ \E j \in DOMAIN rx' : i < j + 1 /\ rx'[j].type = "InquiryComplete"
  <2>1. CASE \E j \in DOMAIN rx : i < j /\ rx[j].type = "InquiryComplete"
    <3>1. PICK j \in DOMAIN rx : i < j /\ rx[j].type = "InquiryComplete"
      BY <2>1
    <3>2. j - 1 \in DOMAIN rx' /\ rx'[j - 1] = rx[j] /\ i < (j - 1) + 1
      BY <1>2, <3>1
    <3> QED
      BY <3>1, <3>2
  <2> QED
    BY <1>6, <2>1 DEF Inv, ScanResults
<1>7. ScanResults'
  <2> SUFFICES ASSUME NEW i \in DOMAIN rx', rx'[i].type = "InquiryResult"
               PROVE  \/ \E c \in doing' : c.op = "Inquiry"
                      \/ \E j \in DOMAIN rx' : i < j /\ rx'[j].type = "InquiryComplete"
    BY DEF ScanResults
  <2>1. \/ \E c \in doing : c.op = "Inquiry"
        \/ \E j \in DOMAIN rx' : i + 1 < j + 1 /\ rx'[j].type = "InquiryComplete"
    BY <1>2, <1>6
  <2> QED
    BY <1>1, <1>2, <2>1
<1>8. ASSUME type = "InquiryResult"
      PROVE  ~FreeIn(tx, doing, rx', NoDevice)
  <2>1. \/ \E c \in doing : c.op = "Inquiry"
        \/ \E j \in DOMAIN rx' : rx'[j].type = "InquiryComplete"
    BY <1>1, <1>2, <1>6, <1>8
  <2>2. ASSUME NEW c \in doing, c.op = "Inquiry"
        PROVE  Starts(c, NoDevice)
    BY <2>2 DEF Inv, CommandsOk, CommandOk, Starts, Steps
  <2>3. ASSUME NEW j \in DOMAIN rx', rx'[j].type = "InquiryComplete"
        PROVE  Stops(rx'[j], NoDevice)
    BY <1>4, <2>3 DEF EventOk, Stops, Steps
  <2> QED
    BY <2>1, <2>2, <2>3 DEF FreeIn
<1> QED
  BY <1>1, <1>2, <1>3, <1>4, <1>5, <1>7, <1>8

\* An event that moves no thread on: the host sends no step, and clears
\* `discovered' at the end of the scan only.
LEMMA OtherHandled ==
  ASSUME Inv, NEW type, Receives(type),
         type # "RemoteName", UNCHANGED <<initialized, nameRequests, crashed>>,
         discovered' = discovered \/ (discovered' = {} /\ type = "InquiryComplete"),
         connectRequests' \subseteq Device, opens' \subseteq Device, scanning' \in BOOLEAN,
         UNCHANGED crossed,
         \/ Silent
         \/ \E c \in Command : Sends(c) /\ c.op \notin Steps /\ c.device \in Device
  PROVE  Inv'
<1>1. /\ Head(rx) \in Event /\ EventOk(Head(rx)) /\ Head(rx).type = type
      /\ rx' \in Seq(Event) /\ Len(rx') <= RxCap
      /\ \A i \in DOMAIN rx' : rx'[i] \in Event /\ EventOk(rx'[i])
      /\ \A d \in Thread : /\ OneStepIn(tx, doing, rx', d)
                           /\ Free(d) => FreeIn(tx, doing, rx', d)
                           /\ Stops(Head(rx), d) => FreeIn(tx, doing, rx', d)
      /\ ScanResults'
  BY Handled
<1>2. UNCHANGED <<configured, doing, link, calling, paired, failed, calls>>
  BY DEF Receives, controller
<1>3. tx \in Seq(Command) /\ Len(tx) <= TxCap
  BY DEF Inv, TypeOK
<1>4. /\ tx' \in Seq(Command) /\ Len(tx') <= TxCap
      /\ \A i \in DOMAIN tx' : CommandOk(tx'[i])
      /\ \A d \in Thread : OneStepIn(tx', doing, rx', d) /\ (Free(d) => FreeIn(tx', doing, rx', d))
      /\ \A d \in Thread : FreeIn(tx, doing, rx', d) => FreeIn(tx', doing, rx', d)
  <2>1. CASE Silent
    BY <1>1, <1>3, <2>1 DEF Silent, Inv, CommandsOk
  <2>2. ASSUME NEW c \in Command, Sends(c), c.op \notin Steps, c.device \in Device
        PROVE  <1>4
    <3>1. CommandOk(c)
      BY <2>2, Formed DEF CommandOk, Steps
    <3>2. \A d \in Thread : ~Starts(c, d)
      BY <2>2 DEF Starts
    <3>3. tx' = Enqueue(tx, c)
      BY <2>2 DEF Sends
    <3>4. \A d \in Thread : OneStepIn(tx', doing, rx', d)
                            /\ (FreeIn(tx, doing, rx', d) => FreeIn(tx', doing, rx', d))
      BY <1>1, <1>3, <3>2, <3>3, OneStepSent
    <3>5. \A i \in DOMAIN tx : CommandOk(tx[i])
      BY DEF Inv, CommandsOk
    <3>6. /\ tx' \in Seq(Command) /\ Len(tx') <= TxCap
          /\ \A i \in DOMAIN tx' : tx'[i] = c \/ (i \in DOMAIN tx /\ tx'[i] = tx[i])
      BY <1>3, <3>3, EnqueueFacts
    <3>7. \A i \in DOMAIN tx' : CommandOk(tx'[i])
      BY <3>1, <3>5, <3>6
    <3> QED
      BY <1>1, <3>4, <3>6, <3>7
  <2> QED
    BY <2>1, <2>2
<1>5. TypeOK'
  <2>1. dropped' \in BOOLEAN
    BY DEF Sends, Silent, Inv, TypeOK
  <2> QED
    BY <1>1, <1>2, <1>4, <2>1 DEF Inv, TypeOK
<1>6. CommandsOk' /\ EventsOk'
  <2>1. \A c \in doing : CommandOk(c)
    BY DEF Inv, CommandsOk
  <2>2. /\ \A c : CommandOk(c) => CommandOk(c)'
        /\ \A e : EventOk(e) => EventOk(e)'
    BY <1>2 DEF CommandOk, EventOk
  <2> QED
    BY <1>1, <1>2, <1>4, <2>1, <2>2 DEF CommandsOk, EventsOk
<1>7. OneStep'
  BY <1>2, <1>4 DEF OneStep
<1>8. ThreadsKnown'
  <2> SUFFICES ASSUME NEW d \in Device, ~FreeIn(tx', doing', rx', d)
               PROVE  initialized' /\ (d \in discovered' \/ FreeIn(tx', doing', rx', NoDevice))
    BY DEF ThreadsKnown, Free
  <2>1. d \in Thread /\ NoDevice \in Thread
    BY DEF Thread
  <2>2. initialized /\ (d \in discovered \/ Free(NoDevice))
    BY <1>2, <1>4, <2>1 DEF Inv, ThreadsKnown
  <2>3. CASE discovered' = discovered
    BY <1>2, <1>4, <2>1, <2>2, <2>3
  <2>4. CASE type = "InquiryComplete"
    <3>1. Stops(Head(rx), NoDevice)
      BY <1>1, <2>4 DEF EventOk, Stops, Steps
    <3> QED
      BY <1>1, <1>2, <1>4, <2>1, <2>2, <3>1
  <2> QED
    BY <2>3, <2>4
<1> QED
  BY <1>1, <1>2, <1>5, <1>6, <1>7, <1>8 DEF Inv

--------------------------------------------------------------------------------
(* Each handler keeps the invariant.                                       *)

LEMMA CommandCompleteKeeps ==
  ASSUME Inv, HandleHCICommandComplete
  PROVE  Inv'
<1> DEFINE e == Head(rx)
<1>1. /\ e \in Event /\ EventOk(e) /\ e.type = "CommandComplete"
      /\ rx' \in Seq(Event) /\ Len(rx') <= RxCap
      /\ \A i \in DOMAIN rx' : rx'[i] \in Event /\ EventOk(rx'[i])
      /\ \A d \in Thread : /\ OneStepIn(tx, doing, rx', d)
                           /\ Free(d) => FreeIn(tx, doing, rx', d)
                           /\ Stops(e, d) => FreeIn(tx, doing, rx', d)
      /\ ScanResults'
  BY Handled DEF HandleHCICommandComplete
<1>2. UNCHANGED <<configured, doing, link, calling, paired, failed, calls,
                  discovered, connectRequests, nameRequests, opens, crossed, crashed>>
  BY DEF HandleHCICommandComplete, Receives, controller
<1>3. e.op \in Setup /\ e.device = NoDevice /\ ~initialized
      /\ (e.ok => Before(e.op) \cup {e.op} \subseteq configured)
  BY <1>1 DEF EventOk
<1>4. FreeIn(tx, doing, rx', NoDevice)
  BY <1>1, <1>3 DEF Stops, Steps, Thread
<1>5. tx \in Seq(Command) /\ Len(tx) <= TxCap
  BY DEF Inv, TypeOK
<1>6. \A d \in Device : d \in Thread /\ d # NoDevice /\ NoDevice \in Thread
  BY Formed DEF Thread
<1>7. \A d \in Device : FreeIn(tx, doing, rx', d)
  BY <1>1, <1>3, <1>6 DEF Inv, ThreadsKnown
<1>8. /\ \A i \in DOMAIN tx : CommandOk(tx[i])
      /\ \A c \in doing : CommandOk(c)
  BY DEF Inv, CommandsOk
<1> HIDE DEF e
\* What follows when a step of the bring-up or the scan is sent.
<1>9. ASSUME NEW c \in Command, c.op \in Steps, c.device = NoDevice, tx' = Enqueue(tx, c)
      PROVE  /\ tx' \in Seq(Command) /\ Len(tx') <= TxCap
             /\ \A i \in DOMAIN tx' : tx'[i] = c \/ (i \in DOMAIN tx /\ tx'[i] = tx[i])
             /\ OneStep'
             /\ ThreadsKnown'
  <2>1. \A d \in Thread : OneStepIn(tx', doing, rx', d)
    BY <1>1, <1>4, <1>5, <1>9, OneStepSent DEF Starts
  <2>2. \A d \in Device : FreeIn(tx', doing, rx', d)
    BY <1>1, <1>5, <1>6, <1>7, <1>9, OneStepSent DEF Starts
  <2> QED
    BY <1>2, <1>5, <1>9, <2>1, <2>2, EnqueueFacts DEF OneStep, ThreadsKnown, Free
<1>10. CASE ~e.ok /\ Silent /\ UNCHANGED <<initialized, scanning>>
  <2>1. connectRequests' \subseteq Device /\ opens' \subseteq Device /\ scanning' \in BOOLEAN
    BY <1>2, <1>10 DEF Inv, TypeOK
  <2>2. Receives("CommandComplete")
    BY DEF HandleHCICommandComplete
  <2> QED
    BY <1>2, <1>10, <2>1, <2>2, OtherHandled
<1>11. CASE /\ e.ok /\ e.op \in Setup \ {"WriteScanEnable"}
            /\ Sends(Cmd(NextSetup(e.op), NoDevice))
            /\ UNCHANGED <<initialized, scanning>>
  <2> DEFINE c == Cmd(NextSetup(e.op), NoDevice)
  <2>1. NextSetup(e.op) \in Setup /\ Before(NextSetup(e.op)) = Before(e.op) \cup {e.op}
    BY <1>11, NextSetupFacts
  <2>2. c \in Command /\ c.op = NextSetup(e.op) /\ c.device = NoDevice /\ c.op \in Steps
    BY <2>1, Formed DEF Op, Steps
  <2>3. tx' = Enqueue(tx, c)
    BY <1>11 DEF Sends
  <2>4. CommandOk(c)
    BY <1>3, <1>11, <2>1, <2>2, Formed DEF CommandOk
  <2> HIDE DEF c
  <2>5. /\ tx' \in Seq(Command) /\ Len(tx') <= TxCap
        /\ \A i \in DOMAIN tx' : tx'[i] = c \/ (i \in DOMAIN tx /\ tx'[i] = tx[i])
        /\ OneStep'
        /\ ThreadsKnown'
    BY <1>9, <2>2, <2>3
  <2>6. CommandsOk' /\ EventsOk'
    <3>1. /\ \A x : CommandOk(x) => CommandOk(x)'
          /\ \A x : EventOk(x) => EventOk(x)'
      BY <1>2, <1>11 DEF CommandOk, EventOk
    <3>2. \A i \in DOMAIN tx' : CommandOk(tx'[i])
      BY <1>8, <2>4, <2>5
    <3> QED
      BY <1>1, <1>2, <1>8, <3>1, <3>2 DEF CommandsOk, EventsOk
  <2>7. dropped' \in BOOLEAN
    BY <1>11 DEF Sends, Inv, TypeOK
  <2>8. TypeOK'
    BY <1>1, <1>2, <1>11, <2>5, <2>7 DEF Inv, TypeOK
  <2> QED
    BY <1>1, <1>2, <1>11, <2>5, <2>6, <2>8 DEF Inv
<1>12. CASE e.ok /\ e.op = "WriteScanEnable" /\ Ready
  <2> DEFINE c == Cmd("Inquiry", NoDevice)
  <2>1. initialized' = TRUE /\ scanning' = TRUE /\ Sends(c)
    BY <1>12 DEF Ready, Sync, ScanStarted, SendHCIScan
  <2>2. c \in Command /\ c.op = "Inquiry" /\ c.device = NoDevice /\ c.op \in Steps
    BY Formed DEF Op, Steps
  <2>3. tx' = Enqueue(tx, c) /\ dropped' \in BOOLEAN
    BY <2>1 DEF Sends, Inv, TypeOK
  <2> HIDE DEF c
  <2>4. /\ tx' \in Seq(Command) /\ Len(tx') <= TxCap
        /\ \A i \in DOMAIN tx' : tx'[i] = c \/ (i \in DOMAIN tx /\ tx'[i] = tx[i])
        /\ OneStep'
        /\ ThreadsKnown'
    BY <1>9, <2>2, <2>3
  <2>5. configured' = Setup
    <3>1. Setup \subseteq configured
      BY <1>3, <1>12, NextSetupFacts
    <3> QED
      BY <1>2, <3>1 DEF Inv, TypeOK
  <2>6. ASSUME NEW x, CommandOk(x), ~Starts(x, NoDevice)
        PROVE  CommandOk(x)'
    BY <1>2, <2>6 DEF CommandOk, Starts, Steps
  <2>7. ASSUME NEW x, EventOk(x), ~Stops(x, NoDevice)
        PROVE  EventOk(x)'
    <3>1. x.op \notin Setup
      BY <2>7 DEF EventOk, Stops, Steps
    <3> QED
      BY <1>2, <2>1, <2>7, <3>1 DEF EventOk
  <2>8. \A x : x = c => CommandOk(x)'
    BY <2>1, <2>2, Formed DEF CommandOk
  <2>9. CommandsOk'
    <3>1. /\ \A i \in DOMAIN tx : ~Starts(tx[i], NoDevice)
          /\ \A x \in doing : ~Starts(x, NoDevice)
      BY <1>4 DEF FreeIn
    <3>2. ASSUME NEW x, x \in doing \/ \E i \in DOMAIN tx : x = tx[i]
          PROVE  CommandOk(x)'
      BY <1>8, <2>6, <3>1, <3>2
    <3>3. ASSUME NEW x, \E i \in DOMAIN tx' : x = tx'[i]
          PROVE  CommandOk(x)'
      BY <2>4, <2>8, <3>2, <3>3
    <3> QED
      BY <1>2, <3>2, <3>3 DEF CommandsOk
  <2>10. EventsOk'
    BY <1>1, <1>4, <2>7 DEF EventsOk, FreeIn
  <2>11. TypeOK'
    BY <1>1, <1>2, <2>1, <2>3, <2>4 DEF Inv, TypeOK
  <2> QED
    BY <1>1, <1>2, <2>4, <2>5, <2>9, <2>10, <2>11 DEF Inv
<1> QED
  BY <1>10, <1>11, <1>12 DEF HandleHCICommandComplete, e

LEMMA InquiryResultKeeps ==
  ASSUME Inv, HandleHCIInquiryResult
  PROVE  Inv'
<1> DEFINE e == Head(rx)
           asked == NewDevices(e) \cap Wii
<1>1. /\ e \in Event /\ EventOk(e) /\ e.type = "InquiryResult"
      /\ rx' \in Seq(Event) /\ Len(rx') <= RxCap
      /\ \A i \in DOMAIN rx' : rx'[i] \in Event /\ EventOk(rx'[i])
      /\ \A d \in Thread : OneStepIn(tx, doing, rx', d) /\ (Free(d) => FreeIn(tx, doing, rx', d))
      /\ ScanResults'
      /\ ~FreeIn(tx, doing, rx', NoDevice)
  BY Handled DEF HandleHCIInquiryResult
<1>2. /\ UNCHANGED <<configured, doing, link, calling, paired, failed, calls,
                     initialized, connectRequests, scanning, opens, crossed, crashed>>
      /\ discovered' = discovered \cup NewDevices(e)
      /\ SendHCIRequestRemoteName(asked, e)
  BY DEF HandleHCIInquiryResult, Receives, controller
<1>3. tx \in Seq(Command) /\ Len(tx) <= TxCap
  BY DEF Inv, TypeOK
<1>4. initialized
  BY <1>1 DEF EventOk
<1>5. \A d \in Device : d \in Thread /\ d # NoDevice /\ NoDevice \in Thread
  BY Formed DEF Thread
<1>6. /\ NewDevices(e) \subseteq Discoverable
      /\ \A d \in NewDevices(e) : d \notin discovered /\ d \in {e.device, e.second}
  BY <1>1 DEF NewDevices, Known, EventOk
<1>7. \A d \in asked : /\ FreeIn(tx, doing, rx', d)
                       /\ d \in Device /\ d \in Wii \cap Discoverable
  <2>1. ~Free(NoDevice)
    BY <1>1, <1>5 DEF Thread
  <2>2. ASSUME NEW d \in asked
        PROVE  d \in Device /\ d \notin discovered
    BY <1>6, Formed
  <2> QED
    BY <1>1, <1>5, <1>6, <2>1, <2>2 DEF Inv, ThreadsKnown
<1>8. nameRequests' = nameRequests \cup asked
  BY <1>2 DEF SendHCIRequestRemoteName
<1>9. asked \subseteq {e.device, e.second}
  BY <1>6
<1>10. \A d \in Device : /\ Cmd("NameRequest", d) \in Command
                         /\ Cmd("NameRequest", d).op = "NameRequest"
                         /\ Cmd("NameRequest", d).device = d
                         /\ \A x : Starts(Cmd("NameRequest", d), x) <=> x = d
  BY Formed DEF Op, Starts, Steps
<1> HIDE DEF e, asked
<1>11. /\ tx' \in Seq(Command) /\ Len(tx') <= TxCap
       /\ \A i \in DOMAIN tx' : \/ \E j \in DOMAIN tx : tx'[i] = tx[j]
                                \/ \E d \in asked : tx'[i] = Cmd("NameRequest", d)
       /\ \A d \in Thread : /\ OneStepIn(tx', doing, rx', d)
                            /\ d \notin asked /\ FreeIn(tx, doing, rx', d) => FreeIn(tx', doing, rx', d)
       /\ dropped' \in BOOLEAN
  <2>1. CASE asked = {} /\ Silent
    BY <1>1, <1>3, <2>1 DEF Silent, Inv, TypeOK
  <2>2. ASSUME NEW d \in asked, asked = {d}, Sends(Cmd("NameRequest", d))
        PROVE  <1>11
    <3> DEFINE c == Cmd("NameRequest", d)
    <3>1. c \in Command /\ \A x : Starts(c, x) <=> x = d
      BY <1>7, <1>10
    <3>2. tx' = Enqueue(tx, c) /\ dropped' \in BOOLEAN
      BY <2>2 DEF Sends, Inv, TypeOK
    <3> HIDE DEF c
    <3>3. \A x \in Thread : /\ OneStepIn(tx', doing, rx', x)
                            /\ x # d /\ FreeIn(tx, doing, rx', x) => FreeIn(tx', doing, rx', x)
      BY <1>1, <1>3, <1>7, <3>1, <3>2, OneStepSent
    <3>4. \A i \in DOMAIN tx' : \/ \E j \in DOMAIN tx : tx'[i] = tx[j]
                                \/ tx'[i] = c
      BY <1>3, <3>1, <3>2, EnqueueFacts
    <3>5. tx' \in Seq(Command) /\ Len(tx') <= TxCap
      BY <1>3, <3>1, <3>2, EnqueueFacts
    <3>6. \A i \in DOMAIN tx' : \/ \E j \in DOMAIN tx : tx'[i] = tx[j]
                                \/ \E x \in asked : tx'[i] = Cmd("NameRequest", x)
      BY <2>2, <3>4 DEF c
    <3> QED
      BY <2>2, <3>2, <3>3, <3>5, <3>6
  <2>3. ASSUME asked = {e.device, e.second}, e.device # e.second,
               tx' = Enqueue2(tx, Cmd("NameRequest", e.device), Cmd("NameRequest", e.second)),
               dropped' = (dropped \/ Len(tx) + 1 >= TxCap)
        PROVE  <1>11
    <3> DEFINE c1 == Cmd("NameRequest", e.device)
               c2 == Cmd("NameRequest", e.second)
               t == Enqueue(tx, c1)
    <3>1. e.device \in asked /\ e.second \in asked
      BY <2>3
    <3>2. /\ c1 \in Command /\ \A x : Starts(c1, x) <=> x = e.device
          /\ c2 \in Command /\ \A x : Starts(c2, x) <=> x = e.second
      BY <1>7, <1>10, <3>1
    <3>3. tx' = Enqueue(t, c2)
      BY <2>3 DEF Enqueue2
    <3>a. e.device \in Thread /\ e.second \in Thread
      BY <1>5, <1>7, <3>1
    <3>b. \A i \in DOMAIN tx' : tx'[i] \in {c1, c2} => \E x \in asked : tx'[i] = Cmd("NameRequest", x)
      BY <3>1
    <3> HIDE DEF c1, c2
    <3>4. /\ t \in Seq(Command) /\ Len(t) <= TxCap
          /\ \A i \in DOMAIN t : t[i] = c1 \/ \E j \in DOMAIN tx : t[i] = tx[j]
      BY <1>3, <3>2, EnqueueFacts
    <3>5. \A x \in Thread :
             /\ OneStepIn(t, doing, rx', x)
             /\ x # e.device /\ FreeIn(tx, doing, rx', x) => FreeIn(t, doing, rx', x)
      BY <1>1, <1>3, <1>7, <3>1, <3>2, OneStepSent
    <3> HIDE DEF t
    <3>6. /\ tx' \in Seq(Command) /\ Len(tx') <= TxCap
          /\ \A i \in DOMAIN tx' : tx'[i] = c2 \/ \E j \in DOMAIN t : tx'[i] = t[j]
      BY <3>2, <3>3, <3>4, EnqueueFacts
    <3>7. FreeIn(t, doing, rx', e.second)
      BY <1>7, <2>3, <3>1, <3>5, <3>a
    <3>8. \A x \in Thread :
             /\ OneStepIn(tx', doing, rx', x)
             /\ x # e.second /\ FreeIn(t, doing, rx', x) => FreeIn(tx', doing, rx', x)
      BY <3>2, <3>3, <3>4, <3>5, <3>7, OneStepSent
    <3>9. \A i \in DOMAIN tx' : tx'[i] \in {c1, c2} \/ \E j \in DOMAIN tx : tx'[i] = tx[j]
      BY <3>4, <3>6
    <3>10. dropped' \in BOOLEAN
      BY <2>3 DEF Inv, TypeOK
    <3>11. \A x \in Thread :
             x \notin asked /\ FreeIn(tx, doing, rx', x) => FreeIn(tx', doing, rx', x)
      BY <3>1, <3>5, <3>8
    <3> QED
      BY <3>6, <3>8, <3>9, <3>10, <3>11, <3>b
  <2> QED
    BY <1>2, <2>1, <2>2, <2>3 DEF SendHCIRequestRemoteName
<1>12. CommandsOk' /\ EventsOk'
  <2>1. /\ \A i \in DOMAIN tx : CommandOk(tx[i])
        /\ \A c \in doing : CommandOk(c)
    BY DEF Inv, CommandsOk
  <2>2. /\ \A x : CommandOk(x) => CommandOk(x)'
        /\ \A x : EventOk(x) => EventOk(x)'
    BY <1>2, <1>8 DEF CommandOk, EventOk
  <2>3. ASSUME NEW d \in asked, NEW x, x = Cmd("NameRequest", d)
        PROVE  CommandOk(x)'
    BY <1>5, <1>7, <1>8, <1>10, <2>3, Formed DEF CommandOk
  <2>4. ASSUME NEW x, \E i \in DOMAIN tx' : x = tx'[i]
        PROVE  CommandOk(x)'
    BY <1>11, <2>1, <2>2, <2>3, <2>4
  <2> QED
    BY <1>1, <1>2, <2>1, <2>2, <2>4 DEF CommandsOk, EventsOk
<1>13. ThreadsKnown'
  <2> SUFFICES ASSUME NEW d \in Device, ~FreeIn(tx', doing', rx', d)
               PROVE  initialized' /\ (d \in discovered' \/ FreeIn(tx', doing', rx', NoDevice))
    BY DEF ThreadsKnown, Free
  <2>1. CASE d \in asked
    BY <1>2, <1>4, <2>1 DEF asked
  <2>2. CASE d \notin asked
    BY <1>1, <1>2, <1>4, <1>5, <1>7, <1>11, <2>2 DEF Inv, ThreadsKnown
  <2> QED
    BY <2>1, <2>2
<1>14. TypeOK'
  <2>1. discovered' \subseteq Device /\ nameRequests' \subseteq Device
    BY <1>2, <1>6, <1>7, <1>8, Formed DEF Inv, TypeOK
  <2> QED
    BY <1>1, <1>2, <1>11, <2>1 DEF Inv, TypeOK
<1> QED
  BY <1>1, <1>2, <1>11, <1>12, <1>13, <1>14 DEF Inv, OneStep

LEMMA RemoteNameKeeps ==
  ASSUME Inv, HandleHCIRemoteNameRequestComplete
  PROVE  Inv'
<1> DEFINE e == Head(rx)
<1>1. /\ e \in Event /\ EventOk(e) /\ e.type = "RemoteName"
      /\ rx' \in Seq(Event) /\ Len(rx') <= RxCap
      /\ \A i \in DOMAIN rx' : rx'[i] \in Event /\ EventOk(rx'[i])
      /\ \A d \in Thread : /\ OneStepIn(tx, doing, rx', d)
                           /\ Free(d) => FreeIn(tx, doing, rx', d)
                           /\ Stops(e, d) => FreeIn(tx, doing, rx', d) /\ ~Free(d)
      /\ ScanResults'
  BY Handled DEF HandleHCIRemoteNameRequestComplete
<1>2. e.op = "NameRequest" /\ e.device \in nameRequests /\ e.device \in Wii \cap Discoverable
  BY <1>1 DEF EventOk
<1>3. UNCHANGED <<configured, doing, link, calling, paired, failed, calls,
                  initialized, discovered, scanning, opens>>
  BY DEF HandleHCIRemoteNameRequestComplete, Receives, controller
<1>4. /\ nameRequests' = nameRequests \ {e.device} /\ UNCHANGED crashed
      /\ \/ UNCHANGED <<connectRequests, crossed>> /\ Silent
         \/ NamedBoard(e) /\ SendHCIConnect(e.device)
  BY <1>2 DEF HandleHCIRemoteNameRequestComplete
<1>5. \A d \in Device : d \in Thread /\ d # NoDevice /\ NoDevice \in Thread
  BY Formed DEF Thread
<1>6. e.device \in Device /\ FreeIn(tx, doing, rx', e.device) /\ ~Free(e.device)
  BY <1>1, <1>2, <1>5, Formed DEF Stops, Steps
<1>7. tx \in Seq(Command) /\ Len(tx) <= TxCap
  BY DEF Inv, TypeOK
<1> HIDE DEF e
<1>8. /\ tx' \in Seq(Command) /\ Len(tx') <= TxCap
      /\ \A i \in DOMAIN tx' : \/ \E j \in DOMAIN tx : tx'[i] = tx[j]
                               \/ tx'[i] = Cmd("Create", e.device) /\ e.device \in Boards
      /\ \A d \in Thread : /\ OneStepIn(tx', doing, rx', d)
                           /\ d # e.device /\ FreeIn(tx, doing, rx', d) => FreeIn(tx', doing, rx', d)
      /\ dropped' \in BOOLEAN /\ connectRequests' \subseteq Device /\ crossed' \subseteq Device
  <2>1. CASE UNCHANGED <<connectRequests, crossed>> /\ Silent
    BY <1>1, <1>7, <2>1 DEF Silent, Inv, TypeOK
  <2>2. CASE NamedBoard(e) /\ SendHCIConnect(e.device)
    <3> DEFINE c == Cmd("Create", e.device)
    <3>1. c \in Command /\ (\A x : Starts(c, x) => x = e.device)
      BY <1>6, Formed DEF Op, Starts
    <3>2. e.device \in Boards /\ tx' = Enqueue(tx, c) /\ dropped' \in BOOLEAN
          /\ connectRequests' \subseteq Device /\ crossed' \subseteq Device
      BY <1>6, <2>2 DEF NamedBoard, SendHCIConnect, Sends, Inv, TypeOK
    <3> HIDE DEF c
    <3>3. \A x \in Thread :
            /\ OneStepIn(tx', doing, rx', x)
            /\ x # e.device /\ FreeIn(tx, doing, rx', x) => FreeIn(tx', doing, rx', x)
      BY <1>1, <1>6, <1>7, <3>1, <3>2, OneStepSent
    <3>4. \A i \in DOMAIN tx' : \/ \E j \in DOMAIN tx : tx'[i] = tx[j]
                                \/ tx'[i] = c
      BY <1>7, <3>1, <3>2, EnqueueFacts
    <3>5. tx' \in Seq(Command) /\ Len(tx') <= TxCap
      BY <1>7, <3>1, <3>2, EnqueueFacts
    <3> QED
      BY <3>2, <3>3, <3>4, <3>5 DEF c
  <2> QED
    BY <1>4, <2>1, <2>2
<1>9. CommandsOk' /\ EventsOk'
  <2>1. /\ \A i \in DOMAIN tx : CommandOk(tx[i]) /\ ~Starts(tx[i], e.device)
        /\ \A c \in doing : CommandOk(c) /\ ~Starts(c, e.device)
        /\ \A i \in DOMAIN rx' : EventOk(rx'[i]) /\ ~Stops(rx'[i], e.device)
    BY <1>1, <1>6 DEF Inv, CommandsOk, FreeIn
  <2>2. /\ \A x : CommandOk(x) /\ ~Starts(x, e.device) => CommandOk(x)'
        /\ \A x : EventOk(x) /\ ~Stops(x, e.device) => EventOk(x)'
    <3>1. ASSUME NEW x, CommandOk(x), ~Starts(x, e.device)
          PROVE  CommandOk(x)'
      BY <1>3, <1>4, <3>1 DEF CommandOk, Starts, Steps
    <3>2. ASSUME NEW x, EventOk(x), ~Stops(x, e.device)
          PROVE  EventOk(x)'
      <4>1. x.op = "NameRequest" => x.device # e.device
        BY <3>2 DEF EventOk, Stops, Steps
      <4> QED
        BY <1>3, <1>4, <3>2, <4>1 DEF EventOk
    <3> QED
      BY <3>1, <3>2
  <2>3. ASSUME NEW x, x = Cmd("Create", e.device), e.device \in Boards
        PROVE  CommandOk(x)'
    <3>1. x.op = "Create" /\ x.device = e.device /\ x.op \notin Setup
      BY <1>6, <2>3, Formed DEF Op
    <3> QED
      BY <1>2, <1>5, <1>6, <2>3, <3>1 DEF CommandOk
  <2>4. ASSUME NEW x, \E i \in DOMAIN tx' : x = tx'[i]
        PROVE  CommandOk(x)'
    BY <1>8, <2>1, <2>2, <2>3, <2>4
  <2> QED
    BY <1>3, <2>1, <2>2, <2>4 DEF CommandsOk, EventsOk
<1>10. ThreadsKnown'
  <2> SUFFICES ASSUME NEW d \in Device, ~FreeIn(tx', doing', rx', d)
               PROVE  initialized' /\ (d \in discovered' \/ FreeIn(tx', doing', rx', NoDevice))
    BY DEF ThreadsKnown, Free
  <2>1. ~Free(d)
    BY <1>1, <1>3, <1>5, <1>6, <1>8
  <2>2. Free(NoDevice) => FreeIn(tx', doing', rx', NoDevice)
    BY <1>1, <1>3, <1>5, <1>6, <1>8
  <2> QED
    BY <1>3, <2>1, <2>2 DEF Inv, ThreadsKnown
<1>11. TypeOK'
  BY <1>1, <1>3, <1>4, <1>8 DEF Inv, TypeOK
<1> QED
  BY <1>1, <1>3, <1>4, <1>8, <1>9, <1>10, <1>11 DEF Inv, OneStep

\* The other handlers move no thread on.
LEMMA OtherHandlersKeep ==
  ASSUME Inv,
         \/ HandleHCIInquiryComplete \/ HandleHCIConnectionComplete
         \/ HandleHCIConnectionRequest \/ HandleHCILinkKeyRequest \/ HandleHCIPINRequest
  PROVE  Inv'
<1>1. connectRequests \subseteq Device /\ opens \subseteq Device /\ scanning \in BOOLEAN
  BY DEF Inv, TypeOK
<1>2. ASSUME NEW type, Receives(type), type # "CommandComplete", type # "InquiryComplete"
      PROVE  Head(rx) \in Event /\ Head(rx).device \in Device
  <2>1. Head(rx) \in Event /\ EventOk(Head(rx)) /\ Head(rx).type = type
    BY <1>2, Handled
  <2> QED
    BY <1>2, <2>1 DEF EventOk, Event
<1>3. \A d \in Device : /\ \A op \in {"Auth", "Accept", "NegativeReply", "PinReply"} :
                             /\ Cmd(op, d) \in Command
                             /\ Cmd(op, d).op \notin Steps /\ Cmd(op, d).device \in Device
                        /\ RejectConnection(d) \in Command
                        /\ RejectConnection(d).op \notin Steps
                        /\ RejectConnection(d).device \in Device
  BY Formed DEF Op, Steps
<1>4. CASE HandleHCIInquiryComplete
  <2>1. /\ Receives("InquiryComplete") /\ scanning' = FALSE /\ discovered' = {}
        /\ UNCHANGED <<initialized, connectRequests, nameRequests, opens, crossed, crashed>>
        /\ Silent
    BY <1>4 DEF HandleHCIInquiryComplete, ScanStopped, Silent
  <2> QED
    BY <1>1, <2>1, OtherHandled
<1>5. CASE HandleHCIConnectionComplete
  <2> DEFINE e == Head(rx)
  <2>1. Receives("ConnectionComplete") /\ e \in Event /\ e.device \in Device
    BY <1>2, <1>5 DEF HandleHCIConnectionComplete
  <2>2. /\ UNCHANGED <<initialized, discovered, nameRequests, scanning, crossed, crashed>>
        /\ connectRequests' = connectRequests \ {e.device}
    BY <1>5 DEF HandleHCIConnectionComplete, Erases
  <2>3. \/ opens' = opens \cup {e.device} /\ Sends(Cmd("Auth", e.device))
        \/ UNCHANGED opens /\ Silent
    BY <1>5 DEF HandleHCIConnectionComplete
  <2> HIDE DEF e
  <2>4. \/ Silent
        \/ \E c \in Command : Sends(c) /\ c.op \notin Steps /\ c.device \in Device
    BY <1>3, <2>1, <2>3
  <2>5. connectRequests' \subseteq Device /\ opens' \subseteq Device /\ scanning' \in BOOLEAN
    BY <1>1, <2>1, <2>2, <2>3
  <2> QED
    BY <2>1, <2>2, <2>4, <2>5, OtherHandled
<1>6. CASE HandleHCIConnectionRequest
  <2>1. Receives("ConnectionRequest") /\ Head(rx).device \in Device /\ UNCHANGED host
    BY <1>2, <1>6 DEF HandleHCIConnectionRequest
  <2>2. \E c \in Command : Sends(c) /\ c.op \notin Steps /\ c.device \in Device
    BY <1>3, <1>6, <2>1 DEF HandleHCIConnectionRequest
  <2> QED
    BY <1>1, <2>1, <2>2, OtherHandled DEF host
<1>7. CASE HandleHCILinkKeyRequest
  <2>1. Receives("LinkKeyRequest") /\ Head(rx).device \in Device /\ UNCHANGED host
    BY <1>2, <1>7 DEF HandleHCILinkKeyRequest
  <2>2. \E c \in Command : Sends(c) /\ c.op \notin Steps /\ c.device \in Device
    BY <1>3, <1>7, <2>1 DEF HandleHCILinkKeyRequest
  <2> QED
    BY <1>1, <2>1, <2>2, OtherHandled DEF host
<1>8. CASE HandleHCIPINRequest
  <2>1. Receives("PINRequest") /\ Head(rx).device \in Device /\ UNCHANGED host
    BY <1>2, <1>8 DEF HandleHCIPINRequest
  <2>2. \E c \in Command : Sends(c) /\ c.op \notin Steps /\ c.device \in Device
    BY <1>3, <1>8, <2>1 DEF HandleHCIPINRequest, PinReply
  <2> QED
    BY <1>1, <2>1, <2>2, OtherHandled DEF host
<1> QED
  BY <1>4, <1>5, <1>6, <1>7, <1>8

LEMMA HandlersKeep ==
  ASSUME Inv, HandleHCIEvent
  PROVE  Inv'
BY CommandCompleteKeeps, InquiryResultKeeps, RemoteNameKeeps, OtherHandlersKeep DEF HandleHCIEvent

--------------------------------------------------------------------------------
(* So do the controller and the devices.                                   *)

LEMMA TransmitKeeps ==
  ASSUME Inv, Transmit
  PROVE  Inv'
<1> DEFINE c == Head(tx)
<1>1. tx \in Seq(Command) /\ Len(tx) <= TxCap /\ tx # <<>> /\ tx' = Tail(tx)
      /\ doing' \in {doing, doing \cup {c}} /\ dropped' \in BOOLEAN
      /\ UNCHANGED <<host, rx, configured, link, calling, paired, failed, calls>>
  BY DEF Inv, TypeOK, Transmit
<1>2. /\ c \in Command /\ 1 \in DOMAIN tx /\ c = tx[1]
      /\ tx' \in Seq(Command) /\ Len(tx') = Len(tx) - 1 /\ Len(tx) \in Nat
      /\ \A i \in DOMAIN tx' : i + 1 \in DOMAIN tx /\ tx'[i] = tx[i + 1]
  BY <1>1, TailFacts, QueueFacts
<1>3. Len(tx') <= TxCap
  BY <1>1, <1>2, DiscoveryAssumption
<1>4. \A d \in Thread : OneStepIn(tx', doing', rx, d) /\ (Free(d) => FreeIn(tx', doing', rx, d))
  BY <1>1, OneStepTransmitted DEF Inv, OneStep, Free
<1>5. CommandsOk' /\ EventsOk'
  <2>1. /\ \A x : CommandOk(x) => CommandOk(x)'
        /\ \A x : EventOk(x) => EventOk(x)'
    BY <1>1 DEF CommandOk, EventOk, host
  <2>2. /\ \A i \in DOMAIN tx : CommandOk(tx[i])
        /\ \A x \in doing : CommandOk(x)
        /\ \A i \in DOMAIN rx : EventOk(rx[i])
    BY DEF Inv, CommandsOk, EventsOk
  <2>3. /\ \A i \in DOMAIN tx' : CommandOk(tx'[i])
        /\ \A x \in doing' : CommandOk(x)
    <3> HIDE DEF c
    <3> QED
      BY <1>1, <1>2, <2>2
  <2> QED
    BY <1>1, <2>1, <2>2, <2>3 DEF CommandsOk, EventsOk
<1>6. TypeOK'
  <2>1. doing' \subseteq Command
    <3> HIDE DEF c
    <3> QED
      BY <1>1, <1>2 DEF Inv, TypeOK
  <2> QED
    BY <1>1, <1>2, <1>3, <2>1 DEF Inv, TypeOK, host
<1>7. ScanResults'
  <2>1. doing \subseteq doing' /\ rx' = rx
    BY <1>1
  <2> QED
    BY <2>1 DEF Inv, ScanResults
<1>8. ThreadsKnown'
  <2> SUFFICES ASSUME NEW d \in Device, ~FreeIn(tx', doing', rx', d)
               PROVE  initialized' /\ (d \in discovered' \/ FreeIn(tx', doing', rx', NoDevice))
    BY DEF ThreadsKnown, Free
  <2> QED
    BY <1>1, <1>4 DEF Inv, ThreadsKnown, Thread, host
<1> QED
  BY <1>1, <1>4, <1>5, <1>6, <1>7, <1>8 DEF Inv, OneStep, host

\* The controller has ended a command with an event.
LEMMA EndedKeeps ==
  ASSUME Inv, NEW c \in doing, NEW e \in Event,
         doing' = doing \ {c}, rx' = Append(rx, e), Len(rx) < RxCap,
         UNCHANGED <<host, tx, dropped>>, TypeOK',
         configured \subseteq configured', configured' \subseteq Setup,
         EventOk(e)', \A d \in Thread : Stops(e, d) => Starts(c, d),
         e.type # "InquiryResult", c.op = "Inquiry" => e.type = "InquiryComplete"
  PROVE  Inv'
<1> DEFINE n == Len(rx) + 1
<1>1. rx \in Seq(Event) /\ tx \in Seq(Command)
  BY DEF Inv, TypeOK
<1>2. /\ DOMAIN rx' = DOMAIN rx \cup {n} /\ n \notin DOMAIN rx /\ \A i \in DOMAIN rx : i < n
      /\ \A i \in DOMAIN rx : rx'[i] = rx[i]
      /\ rx'[n] = e
  BY <1>1, AppendFacts, QueueFacts
<1> HIDE DEF n
<1>3. \A d \in Thread : OneStepIn(tx, doing', rx', d) /\ (Free(d) => FreeIn(tx, doing', rx', d))
  BY <1>1, OneStepEnded DEF Inv, OneStep, Free
<1>4. CommandsOk' /\ EventsOk'
  <2>1. /\ \A x : CommandOk(x) => CommandOk(x)'
        /\ \A x : EventOk(x) => EventOk(x)'
    BY DEF CommandOk, EventOk, host
  <2>2. /\ \A i \in DOMAIN tx : CommandOk(tx[i])
        /\ \A x \in doing : CommandOk(x)
        /\ \A i \in DOMAIN rx : EventOk(rx[i])
    BY DEF Inv, CommandsOk, EventsOk
  <2>3. ASSUME NEW x, \E i \in DOMAIN rx' : x = rx'[i]
        PROVE  EventOk(x)'
    <3>1. CASE x = e
      BY <3>1
    <3>2. CASE \E i \in DOMAIN rx : x = rx[i]
      BY <2>1, <2>2, <3>2
    <3> QED
      BY <1>2, <2>3, <3>1, <3>2
  <2> QED
    BY <2>1, <2>2, <2>3 DEF CommandsOk, EventsOk
<1>5. ScanResults'
  <2> SUFFICES ASSUME NEW i \in DOMAIN rx', rx'[i].type = "InquiryResult"
               PROVE  \/ \E x \in doing' : x.op = "Inquiry"
                      \/ \E j \in DOMAIN rx' : i < j /\ rx'[j].type = "InquiryComplete"
    BY DEF ScanResults
  <2>1. i \in DOMAIN rx /\ rx'[i] = rx[i]
    BY <1>2
  <2>2. \/ \E x \in doing : x.op = "Inquiry"
        \/ \E j \in DOMAIN rx : i < j /\ rx[j].type = "InquiryComplete"
    BY <2>1 DEF Inv, ScanResults
  <2>3. CASE c.op = "Inquiry"
    BY <1>2, <2>1, <2>3
  <2>4. CASE c.op # "Inquiry"
    BY <1>2, <2>2, <2>4
  <2> QED
    BY <2>3, <2>4
<1>6. ThreadsKnown'
  <2> SUFFICES ASSUME NEW d \in Device, ~FreeIn(tx', doing', rx', d)
               PROVE  initialized' /\ (d \in discovered' \/ FreeIn(tx', doing', rx', NoDevice))
    BY DEF ThreadsKnown, Free
  <2> QED
    BY <1>3 DEF Inv, ThreadsKnown, Thread, host
<1> QED
  BY <1>3, <1>4, <1>5, <1>6 DEF Inv, OneStep, host

\* An event of a device or of a scan that goes on.
LEMMA ToldKeeps ==
  ASSUME Inv, NEW e \in Event, rx' = Append(rx, e), Len(rx) < RxCap,
         UNCHANGED <<initialized, discovered, nameRequests, crashed, tx, doing, configured>>, TypeOK',
         EventOk(e), \A d \in Thread : ~Stops(e, d),
         e.type = "InquiryResult" => \E c \in doing : c.op = "Inquiry"
  PROVE  Inv'
<1> DEFINE n == Len(rx) + 1
<1>1. rx \in Seq(Event) /\ tx \in Seq(Command)
  BY DEF Inv, TypeOK
<1>2. /\ DOMAIN rx' = DOMAIN rx \cup {n} /\ n \notin DOMAIN rx
      /\ \A i \in DOMAIN rx : rx'[i] = rx[i]
      /\ rx'[n] = e
  BY <1>1, AppendFacts, QueueFacts
<1> HIDE DEF n
<1>3. \A d \in Thread : OneStepIn(tx, doing, rx', d) /\ (Free(d) => FreeIn(tx, doing, rx', d))
  BY <1>1, OneStepTold DEF Inv, OneStep, Free
<1>4. CommandsOk' /\ EventsOk'
  <2>1. /\ \A x : CommandOk(x) => CommandOk(x)'
        /\ \A x : EventOk(x) => EventOk(x)'
    BY DEF CommandOk, EventOk
  <2>2. /\ \A i \in DOMAIN tx : CommandOk(tx[i])
        /\ \A x \in doing : CommandOk(x)
        /\ \A i \in DOMAIN rx : EventOk(rx[i])
    BY DEF Inv, CommandsOk, EventsOk
  <2>3. \A i \in DOMAIN rx' : EventOk(rx'[i])
    BY <1>2, <2>2
  <2> QED
    BY <2>1, <2>2, <2>3 DEF CommandsOk, EventsOk
<1>5. ScanResults'
  BY <1>2 DEF Inv, ScanResults
<1>6. ThreadsKnown'
  <2> SUFFICES ASSUME NEW d \in Device, ~FreeIn(tx', doing', rx', d)
               PROVE  initialized' /\ (d \in discovered' \/ FreeIn(tx', doing', rx', NoDevice))
    BY DEF ThreadsKnown, Free
  <2> QED
    BY <1>3 DEF Inv, ThreadsKnown, Thread
<1> QED
  BY <1>3, <1>4, <1>5, <1>6 DEF Inv, OneStep

LEMMA ToldTypes ==
  ASSUME Inv, \/ rx' = rx
              \/ \E e \in Event : rx' = Append(rx, e) /\ Len(rx) < RxCap
  PROVE  rx' \in Seq(Event) /\ Len(rx') <= RxCap
<1>1. rx \in Seq(Event) /\ Len(rx) <= RxCap
  BY DEF Inv, TypeOK
<1>2. CASE rx' = rx
  BY <1>1, <1>2
<1>3. ASSUME NEW e \in Event, rx' = Append(rx, e), Len(rx) < RxCap
      PROVE  rx' \in Seq(Event) /\ Len(rx') <= RxCap
  <2>1. Append(rx, e) \in Seq(Event) /\ Len(Append(rx, e)) = Len(rx) + 1 /\ Len(rx) \in Nat
    BY <1>1, AppendFacts, QueueFacts
  <2> QED
    BY <1>3, <2>1, DiscoveryAssumption
<1> QED
  BY <1>2, <1>3

LEMMA ControllerTypes ==
  ASSUME Inv, UNCHANGED <<host, tx, dropped>>, doing' \subseteq doing,
         \/ rx' = rx
         \/ \E e \in Event : rx' = Append(rx, e) /\ Len(rx) < RxCap,
         configured' \subseteq Setup, link' \in [Device -> {"none", "ours", "theirs"}],
         calling' \subseteq Device, paired' \subseteq Device, failed' \subseteq Device, calls' \in Nat
  PROVE  TypeOK'
BY ToldTypes DEF Inv, TypeOK, host

LEMMA ControllerKeeps ==
  ASSUME Inv, NEW c \in doing, ControllerEnds(c)
  PROVE  Inv'
<1>1. CommandOk(c) /\ c \in Command
  BY DEF Inv, CommandsOk, TypeOK
<1>2. c.device = NoDevice \/ (c.device \in Device /\ c.device # NoDevice)
  BY <1>1, Formed DEF Command
<1>3. /\ configured \subseteq Setup /\ link \in [Device -> {"none", "ours", "theirs"}]
      /\ calling \subseteq Device /\ paired \subseteq Device /\ failed \subseteq Device /\ calls \in Nat
  BY DEF Inv, TypeOK
<1>4. c.op \in Setup \cup {"Inquiry"} <=> c.device = NoDevice
  BY <1>1 DEF CommandOk
<1>5. ASSUME NEW type, NEW d, NEW ok
      PROVE  [type |-> type, op |-> c.op, device |-> d, ok |-> ok, second |-> NoDevice].op = c.op
  OBVIOUS
<1>6. ASSUME NEW ok \in BOOLEAN, SetupEnds(c, ok)
      PROVE  Inv'
  <2> DEFINE e == [type |-> "CommandComplete", op |-> c.op, device |-> NoDevice, ok |-> ok,
                   second |-> NoDevice]
  <2>1. /\ c.op \in Setup /\ doing' = doing \ {c} /\ UNCHANGED <<host, tx, dropped>>
        /\ rx' = Append(rx, e) /\ Len(rx) < RxCap
        /\ configured' = IF ok THEN configured \cup {c.op} ELSE configured
        /\ UNCHANGED <<link, calling, paired, failed, calls>>
    BY <1>6 DEF SetupEnds, Ends, Delivers
  <2>2. /\ e \in Event /\ e.op = c.op /\ e.device = NoDevice /\ e.type = "CommandComplete" /\ e.ok = ok
    BY <2>1, Formed DEF Event, EventTypes, Op
  <2>3. \A x : x = e => EventOk(x)'
    <3>1. ~initialized' /\ Before(c.op) \subseteq configured /\ c.op \notin {"Inquiry", "NameRequest", "Create"}
      BY <1>1, <2>1, Formed DEF CommandOk, host
    <3> HIDE DEF e
    <3> QED
      BY <2>1, <2>2, <3>1 DEF EventOk
  <2>4. \A d : Stops(e, d) => Starts(c, d)
    BY <1>4, <2>1 DEF Stops, Starts
  <2>5. configured \subseteq configured' /\ configured' \subseteq Setup
    BY <1>3, <2>1
  <2>6. c.op # "Inquiry"
    BY <2>1, Formed
  <2> HIDE DEF e
  <2>7. TypeOK'
    BY <1>3, <2>1, <2>2, <2>5, ControllerTypes
  <2> QED
    BY <2>1, <2>2, <2>3, <2>4, <2>5, <2>6, <2>7, EndedKeeps
<1>7. ASSUME NEW ok \in BOOLEAN, NameRequestEnds(c, ok)
      PROVE  Inv'
  <2> DEFINE e == [type |-> "RemoteName", op |-> c.op, device |-> c.device, ok |-> ok,
                   second |-> NoDevice]
  <2>1. /\ c.op = "NameRequest" /\ doing' = doing \ {c} /\ UNCHANGED <<host, tx, dropped>>
        /\ rx' = Append(rx, e) /\ Len(rx) < RxCap
        /\ failed' = IF ok THEN failed ELSE failed \cup {c.device}
        /\ UNCHANGED <<configured, link, calling, paired, calls>>
    BY <1>7 DEF NameRequestEnds, Ends, Delivers
  <2>2. c.op \notin Setup /\ c.device \in Device
    BY <1>2, <1>4, <2>1, Formed
  <2>3. /\ e \in Event /\ e.op = c.op /\ e.device = c.device /\ e.type = "RemoteName"
    BY <2>1, <2>2, Formed DEF Event, EventTypes, Op
  <2>4. \A x : x = e => EventOk(x)'
    <3> HIDE DEF e
    <3>1. c.device # NoDevice /\ c.device \in Wii \cap Discoverable /\ c.device \in nameRequests'
      BY <1>1, <2>1, <2>2, Formed DEF CommandOk, host
    <3> QED
      BY <2>1, <2>2, <2>3, <3>1 DEF EventOk
  <2>5. \A d : Stops(e, d) => Starts(c, d)
    BY DEF Stops, Starts
  <2> HIDE DEF e
  <2>6. TypeOK'
    BY <1>3, <2>1, <2>2, <2>3, ControllerTypes
  <2> QED
    BY <1>3, <2>1, <2>3, <2>4, <2>5, <2>6, EndedKeeps
<1>8. ASSUME NEW ok \in BOOLEAN, CreateEnds(c, ok) \/ AcceptEnds(c, ok)
      PROVE  Inv'
  <2> DEFINE e == [type |-> "ConnectionComplete", op |-> c.op, device |-> c.device, ok |-> ok,
                   second |-> NoDevice]
  <2>1. /\ c.op \in {"Create", "Accept"} /\ doing' = doing \ {c} /\ UNCHANGED <<host, tx, dropped>>
        /\ rx' = Append(rx, e) /\ Len(rx) < RxCap
        /\ UNCHANGED <<configured, paired, calls>>
    BY <1>8 DEF CreateEnds, AcceptEnds, Ends, Delivers
  <2>2. c.op \notin Setup /\ c.device \in Device /\ c.device # NoDevice
    BY <1>2, <1>4, <2>1, Formed
  <2>3. /\ link' \in [Device -> {"none", "ours", "theirs"}] /\ calling' \subseteq calling
        /\ failed' \subseteq failed \cup {c.device}
    BY <1>3, <1>8 DEF CreateEnds, AcceptEnds
  <2>4. /\ e \in Event /\ e.op = c.op /\ e.device = c.device /\ e.type = "ConnectionComplete"
    BY <2>1, <2>2, Formed DEF Event, EventTypes, Op
  <2>5. \A x : x = e => EventOk(x)'
    <3> HIDE DEF e
    <3>1. c.op = "Create" => c.device \in Boards \cap Discoverable
      BY <1>1 DEF CommandOk
    <3> QED
      BY <2>1, <2>2, <2>4, <3>1 DEF EventOk
  <2>6. \A d : Stops(e, d) => Starts(c, d)
    BY DEF Stops, Starts
  <2> HIDE DEF e
  <2>7. TypeOK'
    BY <1>3, <2>1, <2>2, <2>3, <2>4, ControllerTypes
  <2> QED
    BY <1>3, <2>1, <2>4, <2>5, <2>6, <2>7, EndedKeeps
<1>9. CASE InquiryEnds(c)
  <2> DEFINE e == [type |-> "InquiryComplete", op |-> c.op, device |-> NoDevice, ok |-> TRUE,
                   second |-> NoDevice]
  <2>1. /\ c.op = "Inquiry" /\ doing' = doing \ {c} /\ UNCHANGED <<host, tx, dropped>>
        /\ rx' = Append(rx, e) /\ Len(rx) < RxCap
        /\ UNCHANGED <<configured, link, calling, paired, failed, calls>>
    BY <1>9 DEF InquiryEnds, Ends, Delivers, environment
  <2>2. /\ e \in Event /\ e.op = c.op /\ e.device = NoDevice /\ e.type = "InquiryComplete"
    BY <2>1, Formed DEF Event, EventTypes, Op
  <2>3. \A x : x = e => EventOk(x)'
    <3> HIDE DEF e
    <3>1. initialized' /\ c.op \notin Setup
      BY <1>1, <2>1, Formed DEF CommandOk, host
    <3> QED
      BY <2>1, <2>2, <3>1 DEF EventOk
  <2>4. \A d : Stops(e, d) => Starts(c, d)
    BY <1>4, <2>1 DEF Stops, Starts
  <2> HIDE DEF e
  <2>5. TypeOK'
    BY <1>3, <2>1, <2>2, ControllerTypes
  <2> QED
    BY <1>3, <2>1, <2>2, <2>3, <2>4, <2>5, EndedKeeps
<1>10. CASE PairingGoesOn(c)
  <2>1. /\ c.op \in {"Auth", "NegativeReply", "PinReply"} /\ doing' = doing \ {c}
        /\ UNCHANGED <<host, tx, dropped, configured, link, calling, failed, calls>>
        /\ paired' \subseteq paired \cup {c.device}
    BY <1>10 DEF PairingGoesOn, Ends
  <2>2. c.op \notin Steps /\ c.op \notin Setup /\ c.device \in Device /\ c.device # NoDevice
    BY <1>2, <1>4, <2>1, Formed DEF Steps
  <2>3. ASSUME NEW type \in {"LinkKeyRequest", "PINRequest"},
               Delivers(type, c.op, c.device, TRUE)
        PROVE  Inv'
    <3> DEFINE e == [type |-> type, op |-> c.op, device |-> c.device, ok |-> TRUE,
                     second |-> NoDevice]
    <3>1. rx' = Append(rx, e) /\ Len(rx) < RxCap
      BY <2>3 DEF Delivers
    <3>2. e \in Event /\ e.op = c.op /\ e.device = c.device /\ e.type = type
      BY <2>1, <2>2, <2>3, Formed DEF Event, EventTypes, Op
    <3> HIDE DEF e
    <3>3. \A x : x = e => EventOk(x)'
      BY <2>1, <2>2, <2>3, <3>2 DEF EventOk
    <3>4. \A d : ~Stops(e, d)
      BY <2>2, <3>2 DEF Stops
    <3>5. TypeOK'
      BY <1>3, <2>1, <2>2, <3>1, <3>2, ControllerTypes
    <3> QED
      BY <1>3, <2>1, <2>3, <3>1, <3>2, <3>3, <3>4, <3>5, EndedKeeps
  <2>4. CASE rx' = rx
    <3>1. TypeOK'
      BY <1>3, <2>1, <2>2, <2>4, ControllerTypes
    <3>2. \A d \in Thread : OneStepIn(tx, doing', rx, d) /\ (Free(d) => FreeIn(tx, doing', rx, d))
      BY <2>1 DEF Inv, OneStep, Free, OneStepIn, FreeIn
    <3>3. CommandsOk' /\ EventsOk'
      <4>1. /\ \A x : CommandOk(x) => CommandOk(x)'
            /\ \A x : EventOk(x) => EventOk(x)'
        BY <2>1 DEF CommandOk, EventOk, host
      <4> QED
        BY <2>1, <2>4, <4>1 DEF Inv, CommandsOk, EventsOk
    <3>4. ScanResults'
      BY <2>1, <2>4 DEF Inv, ScanResults
    <3>5. ThreadsKnown'
      <4> SUFFICES ASSUME NEW d \in Device, ~FreeIn(tx', doing', rx', d)
                   PROVE  initialized' /\ (d \in discovered' \/ FreeIn(tx', doing', rx', NoDevice))
        BY DEF ThreadsKnown, Free
      <4> QED
        BY <2>1, <2>4, <3>2 DEF Inv, ThreadsKnown, Thread, host
    <3> QED
      BY <2>1, <2>4, <3>1, <3>2, <3>3, <3>4, <3>5 DEF Inv, OneStep, host
  <2> QED
    BY <1>10, <2>3, <2>4 DEF PairingGoesOn
<1> QED
  BY <1>6, <1>7, <1>8, <1>9, <1>10 DEF ControllerEnds

LEMMA InquiryFindsKeeps ==
  ASSUME Inv, NEW c \in doing, NEW d \in Device, NEW second \in Device \cup {NoDevice},
         InquiryFinds(c, d, second)
  PROVE  Inv'
<1> DEFINE e == [type |-> "InquiryResult", op |-> c.op, device |-> d, ok |-> TRUE, second |-> second]
<1>1. /\ c.op = "Inquiry" /\ d \in Discoverable /\ second \in Discoverable \cup {NoDevice}
      /\ Len(rx) < RxCap /\ rx' = Append(rx, e)
      /\ UNCHANGED <<doing, configured, link, calling, paired, failed, calls, host, tx, dropped>>
  BY DEF InquiryFinds, environment
<1>2. /\ e \in Event /\ e.op = c.op /\ e.device = d /\ e.type = "InquiryResult" /\ e.second = second
  BY <1>1 DEF Event, EventTypes, Op
<1>3. initialized /\ c.op \notin Setup /\ d # NoDevice
  BY <1>1, Formed DEF Inv, CommandsOk, CommandOk
<1> HIDE DEF e
<1>4. EventOk(e)
  BY <1>1, <1>2, <1>3 DEF EventOk
<1>5. TypeOK'
  BY <1>1, <1>2, ControllerTypes DEF Inv, TypeOK
<1>6. \A x \in Thread : ~Stops(e, x)
  BY <1>2 DEF Stops
<1> QED
  BY <1>1, <1>2, <1>4, <1>5, <1>6, ToldKeeps DEF host

LEMMA DeviceCallsKeeps ==
  ASSUME Inv, NEW d \in Device, DeviceCalls(d)
  PROVE  Inv'
<1> DEFINE e == [type |-> "ConnectionRequest", op |-> "Accept", device |-> d, ok |-> TRUE,
                 second |-> NoDevice]
<1>1. /\ Len(rx) < RxCap /\ rx' = Append(rx, e) /\ calls' = calls + 1 /\ calling' = calling \cup {d}
      /\ UNCHANGED <<configured, doing, link, paired, failed, tx, dropped>>
      /\ UNCHANGED <<initialized, discovered, connectRequests, nameRequests, scanning, opens, crashed>>
      /\ crossed' \in {crossed, crossed \cup {d}}
  BY DEF DeviceCalls, Delivers
<1>2. /\ e \in Event /\ e.op = "Accept" /\ e.device = d /\ e.type = "ConnectionRequest"
      /\ "Accept" \notin Setup /\ d # NoDevice
  BY Formed DEF Event, EventTypes, Op
<1> HIDE DEF e
<1>3. EventOk(e)
  BY <1>2 DEF EventOk
<1>4. TypeOK'
  BY <1>1, <1>2, ToldTypes DEF Inv, TypeOK
<1>5. \A x \in Thread : ~Stops(e, x)
  BY <1>2 DEF Stops, Steps
<1> QED
  BY <1>1, <1>2, <1>3, <1>4, <1>5, ToldKeeps

--------------------------------------------------------------------------------
(* The invariant holds.                                                    *)

LEMMA InitInv ==
  ASSUME Init
  PROVE  Inv
<1> DEFINE c == Cmd("Reset", NoDevice)
<1>1. c \in Command /\ c.op = "Reset" /\ c.device = NoDevice /\ Before("Reset") = {}
  BY Formed, NextSetupFacts DEF Op
<1>2. tx = <<c>> /\ DOMAIN tx = {1} /\ tx[1] = c /\ Len(tx) = 1 /\ rx = <<>> /\ Len(rx) = 0
      /\ doing = {} /\ configured = {} /\ initialized = FALSE /\ discovered = {}
  BY DEF Init
<1> HIDE DEF c
<1>3. TypeOK
  <2>1. tx \in Seq(Command) /\ rx \in Seq(Event)
    BY <1>1, <1>2
  <2> QED
    <3>1. link \in [Device -> {"none", "ours", "theirs"}] /\ calls \in Nat
      BY DEF Init
    <3>2. Len(tx) <= TxCap /\ Len(rx) <= RxCap
      BY <1>2, DiscoveryAssumption
    <3>3. /\ initialized \in BOOLEAN /\ scanning \in BOOLEAN /\ crashed \in BOOLEAN
          /\ dropped \in BOOLEAN
      BY DEF Init
    <3> QED
      BY <2>1, <3>1, <3>2, <3>3 DEF Init, TypeOK
<1>4. CommandOk(c)
  BY <1>1, <1>2, Formed DEF CommandOk
<1>5. CommandsOk /\ EventsOk
  BY <1>2, <1>4 DEF CommandsOk, EventsOk
<1>6. OneStep
  BY <1>2 DEF OneStep, OneStepIn
<1>7. ThreadsKnown
  <2>1. ASSUME NEW d \in Device
        PROVE  Free(d)
    BY <1>1, <1>2, Formed DEF Free, FreeIn, Starts
  <2> QED
    BY <2>1 DEF ThreadsKnown
<1> QED
  BY <1>2, <1>3, <1>5, <1>6, <1>7 DEF Inv, ScanResults, Init

LEMMA NextInv ==
  ASSUME Inv, [Next]_vars
  PROVE  Inv'
<1>1. CASE UNCHANGED vars
  <2>1. UNCHANGED <<initialized, discovered, connectRequests, nameRequests, scanning, opens, crossed,
                    crashed, rx, tx, dropped, configured, doing, link, calling, paired, failed, calls>>
    BY <1>1 DEF vars, host, controller
  <2>2. /\ \A x : CommandOk(x) => CommandOk(x)'
        /\ \A x : EventOk(x) => EventOk(x)'
    BY <2>1 DEF CommandOk, EventOk
  <2>3. TypeOK' /\ ScanResults' /\ OneStep' /\ ThreadsKnown'
    <3>1. TypeOK' /\ ScanResults' /\ OneStep'
      BY <2>1 DEF Inv, TypeOK, ScanResults, OneStep, OneStepIn
    <3>2. \A d : FreeIn(tx', doing', rx', d) <=> Free(d)
      BY <2>1 DEF Free, FreeIn
    <3>3. ThreadsKnown'
      <4> SUFFICES ASSUME NEW d \in Device, ~FreeIn(tx', doing', rx', d)
                   PROVE  initialized' /\ (d \in discovered' \/ FreeIn(tx', doing', rx', NoDevice))
        BY DEF ThreadsKnown, Free
      <4> QED
        BY <2>1, <3>2 DEF Inv, ThreadsKnown
    <3> QED
      BY <3>1, <3>3
  <2>4. CommandsOk' /\ EventsOk'
    BY <2>1, <2>2 DEF Inv, CommandsOk, EventsOk
  <2> QED
    BY <2>1, <2>3, <2>4 DEF Inv
<1> QED
  BY <1>1, HandlersKeep, TransmitKeeps, ControllerKeeps, InquiryFindsKeeps, DeviceCallsKeeps DEF Next

\* Every variable of the HCI layer has its type, and neither queue outgrows its
\* buffer, whatever the controller does and whatever is lost.
THEOREM TypeCorrect == Spec => []TypeOK
<1>1. Inv => TypeOK
  BY DEF Inv
<1> QED
  BY <1>1, InitInv, NextInv, PTL DEF Spec

\* nameRequests.at never throws: every answer to a name request finds the
\* request, although a scan may find a device many times, an event may name a
\* device twice, and commands get lost and fail (handleHCIInqueryResult,
\* handleHCIRemoteNameRequestComplete).
THEOREM NoThrowHolds == Spec => []NoThrow
<1>1. Inv => NoThrow
  BY DEF Inv, NoThrow
<1> QED
  BY <1>1, InitInv, NextInv, PTL DEF Spec

\* The host scans, and takes itself for initialized, only when the controller
\* has executed every command of the bring-up (handleHCICommandComplete).
THEOREM ScanWhenConfiguredHolds == Spec => []ScanWhenConfigured
<1>1. ASSUME Inv
      PROVE  ScanWhenConfigured
  <2>1. ASSUME NEW c \in Waiting("Inquiry")
        PROVE  initialized
    <3>1. c.op = "Inquiry" /\ (c \in doing \/ \E i \in DOMAIN tx : c = tx[i])
      BY <2>1 DEF Waiting
    <3> QED
      BY <1>1, <3>1 DEF Inv, CommandsOk, CommandOk
  <2> QED
    BY <1>1, <2>1 DEF Inv, ScanWhenConfigured
<1> QED
  BY <1>1, InitInv, NextInv, PTL DEF Spec

--------------------------------------------------------------------------------
(* Requests and links.                                                     *)

LEMMA PendingFacts ==
  ASSUME NEW op, NEW d
  PROVE  d \in Outstanding(op) <=> Pending(op, d)
BY DEF Outstanding, Waiting, Answered, Pending, PendingIn

LEMMA PendingSent ==
  ASSUME NEW t \in Seq(Command), NEW D, NEW r, NEW c \in Command, Len(t) <= TxCap
  PROVE  /\ \A op, d : PendingIn(t, D, r, op, d) => PendingIn(Enqueue(t, c), D, r, op, d)
         /\ Len(t) < TxCap => PendingIn(Enqueue(t, c), D, r, c.op, c.device)
<1>1. /\ \A i \in DOMAIN t : i \in DOMAIN Enqueue(t, c) /\ Enqueue(t, c)[i] = t[i]
      /\ Len(t) < TxCap => \E i \in DOMAIN Enqueue(t, c) : Enqueue(t, c)[i] = c
  BY EnqueueFacts
<1>2. ASSUME NEW op, NEW d, PendingIn(t, D, r, op, d)
      PROVE  PendingIn(Enqueue(t, c), D, r, op, d)
  BY <1>1, <1>2 DEF PendingIn
<1> QED
  BY <1>1, <1>2 DEF PendingIn

LEMMA PendingHandled ==
  ASSUME NEW t, NEW D, NEW r \in Seq(Event), r # <<>>, NEW op, NEW d,
         PendingIn(t, D, r, op, d), Head(r).op # op \/ Head(r).device # d
  PROVE  PendingIn(t, D, Tail(r), op, d)
<1>1. /\ Head(r) = r[1] /\ DOMAIN r = 1 .. Len(r) /\ Len(r) \in Nat
      /\ DOMAIN Tail(r) = 1 .. Len(r) - 1
      /\ \A i \in DOMAIN Tail(r) : Tail(r)[i] = r[i + 1]
  BY TailFacts, QueueFacts
<1>2. ASSUME NEW i \in DOMAIN r, i # 1
      PROVE  i - 1 \in DOMAIN Tail(r) /\ Tail(r)[i - 1] = r[i]
  BY <1>1, <1>2
<1> QED
  BY <1>1, <1>2 DEF PendingIn

LEMMA PendingTransmitted ==
  ASSUME NEW t \in Seq(Command), NEW D, NEW D1, NEW r, t # <<>>, NEW op, NEW d,
         PendingIn(t, D, r, op, d), D \subseteq D1,
         Head(t).op = op /\ Head(t).device = d => Head(t) \in D1
  PROVE  PendingIn(Tail(t), D1, r, op, d)
<1>1. /\ Head(t) = t[1] /\ DOMAIN t = 1 .. Len(t) /\ Len(t) \in Nat
      /\ DOMAIN Tail(t) = 1 .. Len(t) - 1
      /\ \A i \in DOMAIN Tail(t) : Tail(t)[i] = t[i + 1]
  BY TailFacts, QueueFacts
<1>2. ASSUME NEW i \in DOMAIN t, i # 1
      PROVE  i - 1 \in DOMAIN Tail(t) /\ Tail(t)[i - 1] = t[i]
  BY <1>1, <1>2
<1> QED
  BY <1>1, <1>2 DEF PendingIn

LEMMA PendingEnded ==
  ASSUME NEW t, NEW D, NEW r \in Seq(Event), NEW c \in D, NEW e \in Event,
         e.op = c.op, e.device = c.device, NEW op, NEW d, PendingIn(t, D, r, op, d)
  PROVE  PendingIn(t, D \ {c}, Append(r, e), op, d)
<1> DEFINE n == Len(r) + 1
<1>1. /\ DOMAIN Append(r, e) = DOMAIN r \cup {n}
      /\ \A i \in DOMAIN r : Append(r, e)[i] = r[i]
      /\ Append(r, e)[n] = e
  BY AppendFacts, QueueFacts
<1> HIDE DEF n
<1> QED
  BY <1>1 DEF PendingIn

\* What the links and the records say survives an event that changes neither
\* records nor links, when what the host sends is no request.
LEMMA OtherHandledLinks ==
  ASSUME Inv, LinkInv, LinksKnown', NEW type, Receives(type),
         type \notin {"RemoteName", "ConnectionComplete"},
         UNCHANGED <<connectRequests, nameRequests, opens, crossed>>,
         \/ Silent
         \/ \E c \in Command : Sends(c) /\ c.op \notin {"NameRequest", "Create"} /\ CommandFits(c)
  PROVE  LinkInv'
<1>1. /\ rx \in Seq(Event) /\ rx # <<>> /\ rx' = Tail(rx)
      /\ UNCHANGED <<doing, link>>
      /\ tx \in Seq(Command) /\ Len(tx) <= TxCap
  BY DEF Inv, TypeOK, Receives, controller
<1>2. Head(rx).op \notin {"NameRequest", "Create"}
  BY Handled DEF EventOk
<1>3. /\ DOMAIN rx = 1 .. Len(rx) /\ Len(rx) \in Nat /\ Head(rx) = rx[1]
      /\ DOMAIN rx' = 1 .. Len(rx) - 1
      /\ \A i \in DOMAIN rx' : i + 1 \in DOMAIN rx /\ rx'[i] = rx[i + 1]
  BY <1>1, TailFacts, QueueFacts
<1>4. /\ \A i \in DOMAIN tx' : CommandFits(tx'[i])
      /\ \A op, d : PendingIn(tx, doing, rx', op, d) => PendingIn(tx', doing, rx', op, d)
      /\ ~dropped' => ~dropped
  <2>1. \A i \in DOMAIN tx : CommandFits(tx[i])
    BY DEF LinkInv, CommandsFit
  <2>2. CASE Silent
    BY <2>1, <2>2 DEF Silent
  <2>3. ASSUME NEW c \in Command, Sends(c), CommandFits(c)
        PROVE  <1>4
    <3>1. tx' = Enqueue(tx, c) /\ (~dropped' => ~dropped)
      BY <2>3 DEF Sends
    <3>2. \A i \in DOMAIN tx' : tx'[i] = c \/ (i \in DOMAIN tx /\ tx'[i] = tx[i])
      BY <1>1, <3>1, EnqueueFacts
    <3>3. \A op, d : PendingIn(tx, doing, rx', op, d) => PendingIn(tx', doing, rx', op, d)
      BY <1>1, <3>1, PendingSent
    <3> QED
      BY <2>1, <2>3, <3>1, <3>2, <3>3
  <2> QED
    BY <2>2, <2>3
<1>5. CommandsFit' /\ EventsFit'
  <2>1. /\ \A x : CommandFits(x) => CommandFits(x)'
        /\ \A x : EventFits(x) => EventFits(x)'
    BY <1>1, <1>4 DEF CommandFits, EventFits, Apart
  <2>2. \A i \in DOMAIN rx' : EventFits(rx'[i])
    BY <1>3 DEF LinkInv, EventsFit
  <2> QED
    BY <1>1, <1>4, <2>1, <2>2 DEF LinkInv, CommandsFit, EventsFit
<1>6. OursOpened'
  <2> SUFFICES ASSUME NEW d \in Device, link[d] = "ours", d \notin opens, Apart(d)
               PROVE  \E i \in DOMAIN rx' : rx'[i].op = "Create" /\ rx'[i].ok /\ rx'[i].device = d
    BY <1>1, <1>4 DEF OursOpened, Apart
  <2>1. PICK i \in DOMAIN rx : rx[i].op = "Create" /\ rx[i].ok /\ rx[i].device = d
    BY DEF LinkInv, OursOpened
  <2>2. i - 1 \in DOMAIN rx' /\ rx'[i - 1] = rx[i]
    BY <1>2, <1>3, <2>1
  <2> QED
    BY <2>1, <2>2
<1>7. Recorded'
  <2>1. \A op \in {"NameRequest", "Create"} : \A d : Pending(op, d) => PendingIn(tx', doing', rx', op, d)
    BY <1>1, <1>2, <1>4, PendingHandled DEF Pending
  <2> QED
    BY <1>4, <2>1 DEF LinkInv, Recorded, Pending
<1> QED
  BY <1>1, <1>4, <1>5, <1>6, <1>7 DEF LinkInv, LinksCalled, OpensOurs, Apart

\* The devices with a link of the host's stay known: `discovered' is cleared
\* only when the scan is over, and no scan begins.
LEMMA LinksKnownHandled ==
  ASSUME Inv, LinkInv, NEW type, Receives(type), UNCHANGED initialized,
         discovered \subseteq discovered' \/ type = "InquiryComplete",
         \/ Silent
         \/ \E c \in Command : Sends(c) /\ ~Starts(c, NoDevice)
  PROVE  LinksKnown'
<1>1. /\ Head(rx) \in Event /\ EventOk(Head(rx)) /\ Head(rx).type = type
      /\ \A d \in Thread : /\ OneStepIn(tx, doing, rx', d)
                           /\ Free(d) => FreeIn(tx, doing, rx', d)
                           /\ Stops(Head(rx), d) => FreeIn(tx, doing, rx', d)
  BY Handled
<1>2. UNCHANGED <<doing, link>> /\ tx \in Seq(Command) /\ Len(tx) <= TxCap /\ NoDevice \in Thread
  BY DEF Receives, controller, Inv, TypeOK, Thread
<1>3. FreeIn(tx, doing, rx', NoDevice) => FreeIn(tx', doing', rx', NoDevice)
  <2>1. CASE Silent
    BY <1>2, <2>1 DEF Silent
  <2>2. ASSUME NEW c \in Command, Sends(c), ~Starts(c, NoDevice)
        PROVE  <1>3
    BY <1>1, <1>2, <2>2, OneStepSent DEF Sends
  <2> QED
    BY <2>1, <2>2
<1>4. CASE type = "InquiryComplete"
  <2>1. Stops(Head(rx), NoDevice)
    BY <1>1, <1>4 DEF EventOk, Stops, Steps
  <2> QED
    BY <1>1, <1>2, <1>3, <2>1 DEF LinkInv, LinksKnown, Free
<1>5. CASE discovered \subseteq discovered'
  BY <1>1, <1>2, <1>3, <1>5 DEF LinkInv, LinksKnown, Free
<1> QED
  BY <1>4, <1>5

LEMMA OtherHandlersKeepLinks ==
  ASSUME Inv, LinkInv,
         \/ HandleHCICommandComplete \/ HandleHCIInquiryComplete
         \/ HandleHCIConnectionRequest \/ HandleHCILinkKeyRequest \/ HandleHCIPINRequest
  PROVE  LinkInv'
<1>1. \A type : Receives(type) => /\ EventOk(Head(rx)) /\ Head(rx).type = type
                                  /\ EventFits(Head(rx))
  <2>1. \A type : Receives(type) => EventOk(Head(rx)) /\ Head(rx).type = type
    BY Handled
  <2>2. rx # <<>> => EventFits(Head(rx))
    BY TailFacts DEF Inv, TypeOK, LinkInv, EventsFit
  <2> QED
    BY <2>1, <2>2 DEF Receives
<1>2. CASE HandleHCICommandComplete
  <2>1. /\ Receives("CommandComplete") /\ ~initialized
        /\ UNCHANGED <<connectRequests, nameRequests, opens, crossed, link>>
    BY <1>1, <1>2 DEF HandleHCICommandComplete, EventOk, Receives, controller
  <2>2. LinksKnown'
    BY <2>1 DEF LinkInv, LinksKnown
  <2>3. ASSUME NEW op \in Setup \cup {"Inquiry"}
        PROVE  LET c == Cmd(op, NoDevice)
               IN  c \in Command /\ c.op \notin {"NameRequest", "Create"} /\ CommandFits(c)
    BY Formed DEF Op, CommandFits
  <2>4. \/ Silent
        \/ \E op \in Setup \cup {"Inquiry"} : Sends(Cmd(op, NoDevice))
    <3>1. CASE Ready
      BY <3>1 DEF Ready, Sync, SendHCIScan
    <3> QED
      BY <1>2, <3>1, NextSetupFacts DEF HandleHCICommandComplete
  <2> QED
    BY <2>1, <2>2, <2>3, <2>4, OtherHandledLinks
<1>3. CASE HandleHCIInquiryComplete
  <2>1. /\ Receives("InquiryComplete") /\ Silent
        /\ UNCHANGED <<initialized, connectRequests, nameRequests, opens, crossed>>
    BY <1>3 DEF HandleHCIInquiryComplete, Silent
  <2>2. LinksKnown'
    BY <2>1, LinksKnownHandled
  <2> QED
    BY <2>1, <2>2, OtherHandledLinks
<1>4. ASSUME NEW type \in {"ConnectionRequest", "LinkKeyRequest", "PINRequest"}, Receives(type),
             UNCHANGED host, NEW c \in Command, Sends(c), c.device = Head(rx).device,
             c.op \in {"NegativeReply", "PinReply"} \/ (c.op = "Accept" /\ Head(rx).op = "Accept")
      PROVE  LinkInv'
  <2>1. c.op \notin {"NameRequest", "Create"} /\ CommandFits(c)
    BY <1>1, <1>4 DEF CommandFits, EventFits
  <2>2. ~Starts(c, NoDevice)
    BY <1>4, Formed DEF Starts, Steps
  <2>3. LinksKnown'
    BY <1>4, <2>2, LinksKnownHandled DEF host
  <2> QED
    BY <1>4, <2>1, <2>3, OtherHandledLinks DEF host
<1>5. ASSUME NEW type \in {"ConnectionRequest", "LinkKeyRequest", "PINRequest"}, Receives(type)
      PROVE  Head(rx).device \in Device
  <2>1. Head(rx) \in Event
    BY <1>5, Handled
  <2> QED
    BY <1>1, <1>5, <2>1 DEF EventOk, Event
<1>6. CASE HandleHCIConnectionRequest
  <2> DEFINE c == IF Head(rx).device \in Wii THEN Cmd("Accept", Head(rx).device)
                  ELSE RejectConnection(Head(rx).device)
  <2>1. Receives("ConnectionRequest") /\ UNCHANGED host /\ Sends(c)
    BY <1>6 DEF HandleHCIConnectionRequest
  <2>2. c \in Command /\ c.op = "Accept" /\ c.device = Head(rx).device
    BY <1>5, <2>1, Formed DEF Op
  <2>3. Head(rx).op = "Accept"
    BY <1>1, <2>1 DEF EventOk
  <2> HIDE DEF c
  <2> QED
    BY <1>4, <2>1, <2>2, <2>3
<1>7. CASE HandleHCILinkKeyRequest
  <2>1. Receives("LinkKeyRequest") /\ UNCHANGED host /\ Sends(Cmd("NegativeReply", Head(rx).device))
    BY <1>7 DEF HandleHCILinkKeyRequest
  <2> QED
    BY <1>4, <1>5, <2>1, Formed DEF Op
<1>8. CASE HandleHCIPINRequest
  <2>1. Receives("PINRequest") /\ UNCHANGED host /\ Sends(Cmd("PinReply", Head(rx).device))
    BY <1>8 DEF HandleHCIPINRequest, PinReply
  <2> QED
    BY <1>4, <1>5, <2>1, Formed DEF Op
<1> QED
  BY <1>2, <1>3, <1>6, <1>7, <1>8

LEMMA InquiryResultKeepsLinks ==
  ASSUME Inv, LinkInv, HandleHCIInquiryResult
  PROVE  LinkInv'
<1> DEFINE e == Head(rx)
           asked == NewDevices(e) \cap Wii
<1>1. /\ e \in Event /\ EventOk(e) /\ e.type = "InquiryResult"
      /\ \A d \in Thread : Free(d) => FreeIn(tx, doing, rx', d)
      /\ ~FreeIn(tx, doing, rx', NoDevice)
      /\ \A i \in DOMAIN rx' : i + 1 \in DOMAIN rx /\ rx'[i] = rx[i + 1]
  BY Handled DEF HandleHCIInquiryResult
<1>2. /\ UNCHANGED <<doing, link, initialized, connectRequests, opens, crossed>>
      /\ discovered' = discovered \cup NewDevices(e)
      /\ SendHCIRequestRemoteName(asked, e)
      /\ rx \in Seq(Event) /\ rx # <<>> /\ rx' = Tail(rx)
      /\ tx \in Seq(Command) /\ Len(tx) <= TxCap
      /\ DOMAIN rx = 1 .. Len(rx) /\ Len(rx) \in Nat /\ e = rx[1] /\ DOMAIN rx' = 1 .. Len(rx) - 1
  BY TailFacts, QueueFacts DEF HandleHCIInquiryResult, Receives, controller, Inv, TypeOK
<1>3. ~Free(NoDevice)
  BY <1>1 DEF Thread
<1>4. /\ nameRequests' = nameRequests \cup asked
      /\ NewDevices(e) \subseteq Discoverable
      /\ \A d \in asked : d \notin discovered /\ d \in Device
      /\ asked \subseteq {e.device, e.second}
  BY <1>1, <1>2, Formed DEF NewDevices, Known, EventOk, SendHCIRequestRemoteName
<1>5. \A d \in asked : link[d] # "ours"
  BY <1>3, <1>4 DEF LinkInv, LinksKnown
<1>6. e.op = "Inquiry"
  BY <1>1 DEF EventOk
<1>7. \A d \in Device : /\ Cmd("NameRequest", d) \in Command
                        /\ Cmd("NameRequest", d).op = "NameRequest"
                        /\ Cmd("NameRequest", d).device = d
  BY Formed DEF Op
<1>8. \A op \in {"NameRequest", "Create"} : \A d :
        Pending(op, d) => PendingIn(tx, doing, rx', op, d)
  BY <1>2, <1>6, PendingHandled DEF Pending
<1> HIDE DEF e, asked
<1>9. /\ \A i \in DOMAIN tx' : \/ \E j \in DOMAIN tx : tx'[i] = tx[j]
                               \/ \E d \in asked : tx'[i] = Cmd("NameRequest", d)
      /\ \A op, d : PendingIn(tx, doing, rx', op, d) => PendingIn(tx', doing, rx', op, d)
      /\ ~dropped' => ~dropped /\ \A d \in asked : PendingIn(tx', doing, rx', "NameRequest", d)
  <2>1. CASE asked = {} /\ Silent
    BY <2>1 DEF Silent
  <2>2. ASSUME NEW d \in asked, asked = {d}, Sends(Cmd("NameRequest", d))
        PROVE  <1>9
    <3> DEFINE c == Cmd("NameRequest", d)
    <3>1. c \in Command /\ c.op = "NameRequest" /\ c.device = d
      BY <1>4, <1>7
    <3>2. tx' = Enqueue(tx, c) /\ (~dropped' => ~dropped /\ ~(Len(tx) >= TxCap))
      BY <2>2 DEF Sends
    <3>3. \A i \in DOMAIN tx' : c # tx'[i] => \E j \in DOMAIN tx : tx'[i] = tx[j]
      <4> HIDE DEF c
      <4> QED
        BY <1>2, <3>1, <3>2, EnqueueFacts
    <3>4. /\ \A op, x : PendingIn(tx, doing, rx', op, x) => PendingIn(tx', doing, rx', op, x)
          /\ Len(tx) < TxCap => PendingIn(tx', doing, rx', "NameRequest", d)
      <4> HIDE DEF c
      <4>1. /\ \A op, x : PendingIn(tx, doing, rx', op, x) => PendingIn(tx', doing, rx', op, x)
            /\ Len(tx) < TxCap => PendingIn(tx', doing, rx', c.op, c.device)
        BY <1>2, <3>1, <3>2, PendingSent
      <4> QED
        BY <3>1, <4>1
    <3>5. ~(Len(tx) >= TxCap) => Len(tx) < TxCap
      BY <1>2, QueueFacts, DiscoveryAssumption
    <3> QED
      BY <2>2, <3>2, <3>3, <3>4, <3>5
  <2>3. ASSUME asked = {e.device, e.second}, e.device # e.second,
               tx' = Enqueue2(tx, Cmd("NameRequest", e.device), Cmd("NameRequest", e.second)),
               dropped' = (dropped \/ Len(tx) + 1 >= TxCap)
        PROVE  <1>9
    <3> DEFINE c1 == Cmd("NameRequest", e.device)
               c2 == Cmd("NameRequest", e.second)
               t == Enqueue(tx, c1)
    <3>1. /\ c1 \in Command /\ c1.op = "NameRequest" /\ c1.device = e.device
          /\ c2 \in Command /\ c2.op = "NameRequest" /\ c2.device = e.second
      BY <1>4, <1>7, <2>3
    <3>2. tx' = Enqueue(t, c2)
      BY <2>3 DEF Enqueue2
    <3>3. \A i \in DOMAIN tx' : tx'[i] \in {c1, c2} => \E x \in asked : tx'[i] = Cmd("NameRequest", x)
      BY <2>3
    <3>4. Len(tx) + 1 < TxCap => t = Append(tx, c1) /\ Len(tx) < TxCap
      BY <1>2, QueueFacts, DiscoveryAssumption DEF Enqueue
    <3> HIDE DEF c1, c2
    <3>5. /\ t \in Seq(Command) /\ Len(t) <= TxCap
          /\ \A i \in DOMAIN t : t[i] = c1 \/ \E j \in DOMAIN tx : t[i] = tx[j]
      BY <1>2, <3>1, EnqueueFacts
    <3>6. /\ \A op, x : PendingIn(tx, doing, rx', op, x) => PendingIn(t, doing, rx', op, x)
          /\ Len(tx) < TxCap => PendingIn(t, doing, rx', c1.op, c1.device)
      BY <1>2, <3>1, PendingSent
    <3> HIDE DEF t
    <3>7. \A i \in DOMAIN tx' : tx'[i] = c2 \/ \E j \in DOMAIN t : tx'[i] = t[j]
      BY <3>1, <3>2, <3>5, EnqueueFacts
    <3>8. /\ \A op, x : PendingIn(t, doing, rx', op, x) => PendingIn(tx', doing, rx', op, x)
          /\ Len(t) < TxCap => PendingIn(tx', doing, rx', c2.op, c2.device)
      BY <3>1, <3>2, <3>5, PendingSent
    <3>9. Len(tx) + 1 < TxCap => Len(t) < TxCap
      BY <1>2, <3>1, <3>4, AppendFacts
    <3>10. \A i \in DOMAIN tx' : tx'[i] \in {c1, c2} \/ \E j \in DOMAIN tx : tx'[i] = tx[j]
      BY <3>5, <3>7
    <3>11. ~dropped' => ~dropped /\ Len(tx) + 1 < TxCap
      <4>1. ~dropped' => ~dropped /\ ~(Len(tx) + 1 >= TxCap)
        BY <2>3
      <4>2. ~(Len(tx) + 1 >= TxCap) => Len(tx) + 1 < TxCap
        BY <1>2, QueueFacts, DiscoveryAssumption
      <4> QED
        BY <4>1, <4>2
    <3>12. Len(tx) + 1 < TxCap => \A d \in asked : PendingIn(tx', doing, rx', "NameRequest", d)
      <4>1. Len(tx) + 1 < TxCap => PendingIn(tx', doing, rx', "NameRequest", e.device)
                                   /\ PendingIn(tx', doing, rx', "NameRequest", e.second)
        BY <3>1, <3>4, <3>6, <3>8, <3>9
      <4> QED
        BY <2>3, <4>1
    <3> QED
      BY <3>3, <3>6, <3>8, <3>10, <3>11, <3>12
  <2> QED
    BY <1>2, <2>1, <2>2, <2>3 DEF SendHCIRequestRemoteName
<1>10. CommandsFit' /\ EventsFit'
  <2>1. /\ \A x : CommandFits(x) => CommandFits(x)'
        /\ \A x : EventFits(x) => EventFits(x)'
    BY <1>2, <1>9 DEF CommandFits, EventFits, Apart
  <2>2. \A i \in DOMAIN rx' : EventFits(rx'[i])
    BY <1>1 DEF LinkInv, EventsFit
  <2>3. /\ \A i \in DOMAIN tx : CommandFits(tx[i])
        /\ \A c \in doing : CommandFits(c)
    BY DEF LinkInv, CommandsFit
  <2>4. \A d \in asked : CommandFits(Cmd("NameRequest", d))
    BY <1>4, <1>5, <1>7 DEF CommandFits
  <2>5. \A i \in DOMAIN tx' : CommandFits(tx'[i])
    BY <1>9, <2>3, <2>4
  <2> QED
    BY <1>2, <2>1, <2>2, <2>3, <2>5 DEF CommandsFit, EventsFit
<1>11. LinksKnown'
  BY <1>2, <1>3 DEF LinkInv, LinksKnown
<1>12. OursOpened'
  <2> SUFFICES ASSUME NEW d \in Device, link[d] = "ours", d \notin opens, Apart(d)
               PROVE  \E i \in DOMAIN rx' : rx'[i].op = "Create" /\ rx'[i].ok /\ rx'[i].device = d
    BY <1>2, <1>9 DEF OursOpened, Apart
  <2>1. PICK i \in DOMAIN rx : rx[i].op = "Create" /\ rx[i].ok /\ rx[i].device = d
    BY DEF LinkInv, OursOpened
  <2>2. i # 1 /\ i - 1 \in DOMAIN rx' /\ (i - 1) + 1 = i
    BY <1>2, <1>6, <2>1
  <2> QED
    BY <1>1, <2>1, <2>2
<1>13. Recorded'
  BY <1>2, <1>4, <1>8, <1>9 DEF LinkInv, Recorded, Pending
<1> QED
  BY <1>2, <1>9, <1>10, <1>11, <1>12, <1>13 DEF LinkInv, LinksCalled, OpensOurs, Apart

LEMMA RemoteNameKeepsLinks ==
  ASSUME Inv, LinkInv, HandleHCIRemoteNameRequestComplete
  PROVE  LinkInv'
<1> DEFINE e == Head(rx)
           c == Cmd("Create", e.device)
<1>1. /\ e \in Event /\ EventOk(e) /\ e.type = "RemoteName" /\ Receives("RemoteName")
      /\ \A i \in DOMAIN rx' : i + 1 \in DOMAIN rx /\ rx'[i] = rx[i + 1]
  BY Handled DEF HandleHCIRemoteNameRequestComplete
<1>2. e.op = "NameRequest" /\ e.device \in nameRequests /\ e.device \in Wii \cap Discoverable
      /\ e.device \in Device
  BY <1>1, Formed DEF EventOk
<1>3. /\ UNCHANGED <<doing, link, initialized, discovered, opens>>
      /\ rx \in Seq(Event) /\ rx # <<>> /\ rx' = Tail(rx)
      /\ tx \in Seq(Command) /\ Len(tx) <= TxCap
      /\ DOMAIN rx = 1 .. Len(rx) /\ Len(rx) \in Nat /\ e = rx[1] /\ DOMAIN rx' = 1 .. Len(rx) - 1
  BY TailFacts, QueueFacts
     DEF HandleHCIRemoteNameRequestComplete, Receives, controller, Inv, TypeOK
<1>4. /\ nameRequests' = nameRequests \ {e.device}
      /\ \/ UNCHANGED <<connectRequests, crossed>> /\ Silent
         \/ /\ e.device \in Boards /\ Sends(c)
            /\ connectRequests' = connectRequests \cup {e.device}
            /\ crossed' = IF Called(e.device) THEN crossed \cup {e.device} ELSE crossed
  BY <1>2 DEF HandleHCIRemoteNameRequestComplete, NamedBoard, SendHCIConnect
<1>5. c \in Command /\ c.op = "Create" /\ c.device = e.device /\ ~Starts(c, NoDevice)
  BY <1>2, Formed DEF Op, Starts
<1>6. link[e.device] # "ours"
  BY <1>2, <1>3 DEF LinkInv, EventsFit, EventFits
<1> HIDE DEF e, c
<1>7. LinksKnown'
  BY <1>1, <1>3, <1>4, <1>5, LinksKnownHandled
<1>8. \A op, d : PendingIn(tx, doing, rx', op, d) => PendingIn(tx', doing, rx', op, d)
  BY <1>3, <1>4, <1>5, PendingSent DEF Silent, Sends
\* A device that has called and that the host connects to counts as crossed.
<1>9. /\ \A d : Apart(d)' => Apart(d)
      /\ connectRequests \subseteq connectRequests'
      /\ \A d : Called(d) /\ Apart(d)' => (d \in connectRequests' => d \in connectRequests)
  <2>1. ~dropped' => ~dropped
    BY <1>4 DEF Sends, Silent
  <2>2. crossed \subseteq crossed'
    BY <1>4
  <2>3. \A d : Called(d) /\ d \notin crossed' => (d \in connectRequests' => d \in connectRequests)
    BY <1>4
  <2> QED
    BY <1>4, <2>1, <2>2, <2>3 DEF Apart
<1>14. /\ \A x : CommandFits(x) /\ (x.op = "Accept" => Called(x.device)) => CommandFits(x)'
       /\ \A x : EventFits(x) /\ (x.op = "Accept" => Called(x.device)) => EventFits(x)'
  BY <1>3, <1>9 DEF CommandFits, EventFits
<1>15. /\ \A i \in DOMAIN tx : tx[i].op = "Accept" => Called(tx[i].device)
       /\ \A x \in doing : x.op = "Accept" => Called(x.device)
       /\ \A i \in DOMAIN rx : rx[i].op = "Accept" => Called(rx[i].device)
       /\ \A d : link[d] = "theirs" => Called(d)
  BY PendingFacts DEF Called, Pending, PendingIn
<1>10. CommandsFit' /\ EventsFit'
  <2>1. /\ \A i \in DOMAIN tx : CommandFits(tx[i])
        /\ \A x \in doing : CommandFits(x)
        /\ \A i \in DOMAIN rx' : EventFits(rx'[i]) /\ (rx'[i].op = "Accept" => Called(rx'[i].device))
    BY <1>1, <1>15 DEF LinkInv, CommandsFit, EventsFit
  <2>2. CASE UNCHANGED <<connectRequests, crossed>> /\ Silent
    BY <1>3, <1>14, <1>15, <2>1, <2>2 DEF CommandsFit, EventsFit, Silent
  <2>3. CASE Sends(c) /\ connectRequests' = connectRequests \cup {e.device}
    <3>1. \A x : x = c => CommandFits(x)'
      BY <1>3, <1>5, <1>6, <2>3 DEF CommandFits
    <3>2. \A i \in DOMAIN tx' : tx'[i] = c \/ \E j \in DOMAIN tx : tx'[i] = tx[j]
      BY <1>3, <1>5, <2>3, EnqueueFacts DEF Sends
    <3>3. ASSUME NEW x, \E i \in DOMAIN tx' : x = tx'[i]
          PROVE  CommandFits(x)'
      BY <1>14, <1>15, <2>1, <3>1, <3>2, <3>3
    <3> QED
      BY <1>3, <1>14, <1>15, <2>1, <3>3 DEF CommandsFit, EventsFit
  <2> QED
    BY <1>4, <2>2, <2>3
<1>11. OursOpened'
  <2> SUFFICES ASSUME NEW d \in Device, link[d] = "ours", d \notin opens, Apart(d)
               PROVE  \E i \in DOMAIN rx' : rx'[i].op = "Create" /\ rx'[i].ok /\ rx'[i].device = d
    BY <1>3, <1>9 DEF OursOpened
  <2>1. PICK i \in DOMAIN rx : rx[i].op = "Create" /\ rx[i].ok /\ rx[i].device = d
    BY DEF LinkInv, OursOpened
  <2>2. i # 1 /\ i - 1 \in DOMAIN rx' /\ (i - 1) + 1 = i
    BY <1>2, <1>3, <2>1
  <2> QED
    BY <1>1, <2>1, <2>2
<1>12. Recorded'
  <2>1. connectRequests' \subseteq Boards \cap Discoverable
    BY <1>2, <1>4 DEF LinkInv, Recorded
  <2>2. ~dropped' => ~dropped
    BY <1>4 DEF Sends, Silent
  <2>3. ASSUME ~dropped', NEW d \in nameRequests'
        PROVE  PendingIn(tx', doing', rx', "NameRequest", d)
    <3>1. Pending("NameRequest", d) /\ d # e.device
      BY <1>4, <2>2, <2>3 DEF LinkInv, Recorded
    <3>2. PendingIn(tx, doing, rx', "NameRequest", d)
      BY <1>3, <3>1, PendingHandled DEF Pending, e
    <3> QED
      BY <1>3, <1>8, <3>2
  <2>4. ASSUME ~dropped', NEW d \in connectRequests, d \notin crossed'
        PROVE  PendingIn(tx', doing', rx', "Create", d)
    <3>1. Pending("Create", d)
      BY <1>4, <2>2, <2>4 DEF LinkInv, Recorded
    <3>2. PendingIn(tx, doing, rx', "Create", d)
      BY <1>2, <1>3, <3>1, PendingHandled DEF Pending, e
    <3> QED
      BY <1>3, <1>8, <3>2
  <2>5. ASSUME ~dropped', Sends(c)
        PROVE  PendingIn(tx', doing', rx', "Create", e.device)
    <3>1. Len(tx) < TxCap
      <4>1. ~(Len(tx) >= TxCap)
        BY <2>5 DEF Sends
      <4> QED
        BY <1>3, <4>1, QueueFacts, DiscoveryAssumption
    <3>2. tx' = Enqueue(tx, c)
      BY <2>5 DEF Sends
    <3>3. PendingIn(Enqueue(tx, c), doing, rx', c.op, c.device)
      BY <1>3, <1>5, <3>1, PendingSent
    <3> QED
      BY <1>3, <1>5, <3>2, <3>3
  <2> QED
    BY <1>4, <2>1, <2>3, <2>4, <2>5 DEF Recorded, Pending
<1>13. LinksCalled' /\ OpensOurs'
  BY <1>3, <1>9, <1>15 DEF LinkInv, LinksCalled, OpensOurs
<1> QED
  BY <1>7, <1>10, <1>11, <1>12, <1>13 DEF LinkInv

LEMMA ConnectionCompleteKeepsLinks ==
  ASSUME Inv, LinkInv, HandleHCIConnectionComplete
  PROVE  LinkInv'
<1> DEFINE e == Head(rx)
           c == Cmd("Auth", e.device)
<1>1. /\ e \in Event /\ EventOk(e) /\ e.type = "ConnectionComplete" /\ Receives("ConnectionComplete")
      /\ \A i \in DOMAIN rx' : i + 1 \in DOMAIN rx /\ rx'[i] = rx[i + 1] /\ EventOk(rx'[i])
      /\ \A d \in Thread : Stops(e, d) => FreeIn(tx, doing, rx', d)
  BY Handled DEF HandleHCIConnectionComplete
<1>2. e.op \in {"Create", "Accept"} /\ e.device \in Device
  BY <1>1 DEF EventOk, Event
<1>3. /\ UNCHANGED <<doing, link, initialized, discovered, nameRequests, crossed>>
      /\ rx \in Seq(Event) /\ rx # <<>> /\ rx' = Tail(rx)
      /\ tx \in Seq(Command) /\ Len(tx) <= TxCap
      /\ DOMAIN rx = 1 .. Len(rx) /\ Len(rx) \in Nat /\ e = rx[1] /\ DOMAIN rx' = 1 .. Len(rx) - 1
  BY TailFacts, QueueFacts DEF HandleHCIConnectionComplete, Receives, controller, Inv, TypeOK
<1>4. /\ connectRequests' = connectRequests \ {e.device}
      /\ \/ e.ok /\ e.device \in connectRequests /\ opens' = opens \cup {e.device} /\ Sends(c)
         \/ (~e.ok \/ e.device \notin connectRequests) /\ UNCHANGED opens /\ Silent
  BY DEF HandleHCIConnectionComplete, Erases, Accepted
<1>5. c \in Command /\ c.op = "Auth" /\ ~Starts(c, NoDevice)
  BY <1>2, Formed DEF Op, Starts, Steps
<1>6. EventFits(e)
  BY <1>3 DEF LinkInv, EventsFit
<1> HIDE DEF e, c
<1>7. LinksKnown'
  BY <1>1, <1>3, <1>4, <1>5, LinksKnownHandled
<1>13. \A d : Apart(d)' => Apart(d)
  BY <1>3, <1>4 DEF Apart, Sends, Silent
\* Another connection that the host asks for is to another device.
<1>8. ASSUME Apart(e.device)
      PROVE
      /\ \A i \in DOMAIN tx : tx[i].op = "Create" => tx[i].device # e.device
      /\ \A x \in doing : x.op = "Create" => x.device # e.device
      /\ \A i \in DOMAIN rx' : rx'[i].op = "Create" => rx'[i].device # e.device
  <2>1. CASE e.op = "Create"
    <3>1. FreeIn(tx, doing, rx', e.device)
      BY <1>1, <1>2, <2>1 DEF Stops, Steps, Thread
    <3> QED
      BY <1>1, <3>1 DEF FreeIn, Starts, Stops, Steps, EventOk
  <2>2. CASE e.op = "Accept"
    <3>1. e.device \notin connectRequests
      BY <1>6, <1>8, <2>2 DEF EventFits
    <3>2. /\ \A i \in DOMAIN tx : CommandFits(tx[i])
          /\ \A x \in doing : CommandFits(x)
          /\ \A i \in DOMAIN rx' : EventFits(rx'[i])
      BY <1>1 DEF LinkInv, CommandsFit, EventsFit
    <3> QED
      BY <1>8, <3>1, <3>2 DEF CommandFits, EventFits
  <2> QED
    BY <1>2, <2>1, <2>2
<1>9. CommandsFit' /\ EventsFit'
  <2>1. /\ \A x : CommandFits(x) /\ (Apart(e.device) /\ x.op = "Create" => x.device # e.device)
                 => CommandFits(x)'
        /\ \A x : EventFits(x) /\ (Apart(e.device) /\ x.op = "Create" => x.device # e.device)
                 => EventFits(x)'
    BY <1>3, <1>4, <1>13 DEF CommandFits, EventFits
  <2>2. /\ \A i \in DOMAIN tx : CommandFits(tx[i])
        /\ \A x \in doing : CommandFits(x)
        /\ \A i \in DOMAIN rx' : EventFits(rx'[i])
    BY <1>1 DEF LinkInv, CommandsFit, EventsFit
  <2>3. \A x : x = c => CommandFits(x)'
    BY <1>5 DEF CommandFits
  <2>4. \A i \in DOMAIN tx' : tx'[i] = c \/ \E j \in DOMAIN tx : tx'[i] = tx[j]
    BY <1>3, <1>4, <1>5, EnqueueFacts DEF Sends, Silent
  <2>5. ASSUME NEW x, \E i \in DOMAIN tx' : x = tx'[i]
        PROVE  CommandFits(x)'
    BY <1>8, <2>1, <2>2, <2>3, <2>4, <2>5
  <2> QED
    BY <1>3, <1>8, <2>1, <2>2, <2>5 DEF CommandsFit, EventsFit
<1>10. OpensOurs'
  <2>1. e.ok /\ e.device \in connectRequests /\ Apart(e.device) => link[e.device] = "ours"
    BY <1>2, <1>6 DEF EventFits
  <2> QED
    BY <1>3, <1>4, <1>13, <2>1 DEF LinkInv, OpensOurs
<1>11. OursOpened'
  <2> SUFFICES ASSUME NEW d \in Device, link[d] = "ours", d \notin opens', Apart(d)
               PROVE  \E i \in DOMAIN rx' : rx'[i].op = "Create" /\ rx'[i].ok /\ rx'[i].device = d
    BY <1>3, <1>13 DEF OursOpened
  <2>1. PICK i \in DOMAIN rx : rx[i].op = "Create" /\ rx[i].ok /\ rx[i].device = d
    BY <1>4 DEF LinkInv, OursOpened
  <2>2. i # 1
    BY <1>3, <1>4, <1>6, <2>1 DEF EventFits
  <2>3. i - 1 \in DOMAIN rx' /\ (i - 1) + 1 = i
    BY <1>3, <2>2
  <2> QED
    BY <1>1, <2>1, <2>3
<1>12. Recorded'
  <2>1. \A op, d : PendingIn(tx, doing, rx', op, d) => PendingIn(tx', doing, rx', op, d)
    BY <1>3, <1>4, <1>5, PendingSent DEF Silent, Sends
  <2>2. ~dropped' => ~dropped
    BY <1>4 DEF Sends, Silent
  <2>3. \A d \in nameRequests : Pending("NameRequest", d) => PendingIn(tx, doing, rx', "NameRequest", d)
    BY <1>2, <1>3, PendingHandled DEF Pending, e
  <2>4. \A d \in connectRequests' : Pending("Create", d) => PendingIn(tx, doing, rx', "Create", d)
    BY <1>3, <1>4, PendingHandled DEF Pending, e
  <2> QED
    BY <1>3, <1>4, <2>1, <2>2, <2>3, <2>4 DEF LinkInv, Recorded, Pending
<1> QED
  BY <1>3, <1>4, <1>7, <1>9, <1>10, <1>11, <1>12, <1>13 DEF LinkInv, LinksCalled

LEMMA TransmitKeepsLinks ==
  ASSUME Inv, LinkInv, Transmit
  PROVE  LinkInv'
<1> DEFINE c == Head(tx)
<1>1. tx \in Seq(Command) /\ tx # <<>> /\ tx' = Tail(tx)
      /\ doing \subseteq doing' /\ doing' \subseteq doing \cup {c}
      /\ UNCHANGED <<host, rx, configured, link, calling, paired, failed, calls>>
      /\ (c \in doing' \/ Refuses(c) \/ dropped') /\ (~dropped' => ~dropped)
  BY DEF Inv, TypeOK, Transmit
<1>2. /\ 1 \in DOMAIN tx /\ c = tx[1]
      /\ \A i \in DOMAIN tx' : i + 1 \in DOMAIN tx /\ tx'[i] = tx[i + 1]
  BY <1>1, TailFacts
<1>3. CommandOk(c) /\ CommandFits(c)
  BY <1>2 DEF Inv, CommandsOk, LinkInv, CommandsFit
\* No request is refused.
<1>4. /\ ~dropped' /\ c.op = "NameRequest" => c \in doing'
      /\ ~dropped' /\ c.op = "Create" /\ c.device \notin crossed => c \in doing'
  <2>1. ASSUME c.op = "Create", Apart(c.device)
        PROVE  link[c.device] = "none"
    <3>1. c.device \in connectRequests /\ c.device \in Device /\ link[c.device] # "ours"
      BY <1>3, <2>1, Formed DEF CommandOk, CommandFits
    <3>2. link[c.device] # "theirs"
      BY <2>1, <3>1 DEF LinkInv, LinksCalled
    <3> QED
      BY <3>1, <3>2 DEF Inv, TypeOK
  <2> QED
    BY <1>1, <2>1 DEF Refuses, Apart
<1>5. CommandsFit' /\ EventsFit'
  <2>1. /\ \A x : CommandFits(x) => CommandFits(x)'
        /\ \A x : EventFits(x) => EventFits(x)'
    BY <1>1 DEF CommandFits, EventFits, Apart, host
  <2>2. /\ \A i \in DOMAIN tx : CommandFits(tx[i])
        /\ \A x \in doing : CommandFits(x)
        /\ \A i \in DOMAIN rx : EventFits(rx[i])
    BY DEF LinkInv, CommandsFit, EventsFit
  <2> HIDE DEF c
  <2>3. /\ \A i \in DOMAIN tx' : CommandFits(tx'[i])
        /\ \A x \in doing' : CommandFits(x)
    BY <1>1, <1>2, <1>3, <2>2
  <2> QED
    BY <1>1, <2>1, <2>2, <2>3 DEF CommandsFit, EventsFit
<1>6. LinksKnown'
  <2>1. \A d \in Thread : OneStepIn(tx', doing', rx, d) /\ (Free(d) => FreeIn(tx', doing', rx, d))
    <3>1. doing' \in {doing, doing \cup {c}}
      BY DEF Transmit
    <3> QED
      BY <1>1, <3>1, OneStepTransmitted DEF Inv, OneStep, Free
  <2> QED
    BY <1>1, <2>1 DEF LinkInv, LinksKnown, Free, Thread, host
<1>7. Recorded'
  <2> SUFFICES ASSUME ~dropped'
               PROVE  /\ \A d \in nameRequests : PendingIn(tx', doing', rx', "NameRequest", d)
                      /\ \A d \in connectRequests \ crossed : PendingIn(tx', doing', rx', "Create", d)
    BY <1>1 DEF LinkInv, Recorded, Pending, host
  <2> HIDE DEF c
  <2>1. \A d : c.op = "NameRequest" /\ c.device = d => c \in doing'
    BY <1>4
  <2>2. \A d : d \notin crossed /\ c.op = "Create" /\ c.device = d => c \in doing'
    BY <1>4
  <2>3. \A d \in nameRequests : PendingIn(tx', doing', rx', "NameRequest", d)
    <3>1. \A d \in nameRequests : PendingIn(tx, doing, rx, "NameRequest", d)
      BY <1>1 DEF LinkInv, Recorded, Pending
    <3> QED
      BY <1>1, <2>1, <3>1, PendingTransmitted DEF c
  <2>4. \A d \in connectRequests \ crossed : PendingIn(tx', doing', rx', "Create", d)
    <3>1. \A d \in connectRequests \ crossed : PendingIn(tx, doing, rx, "Create", d)
      BY <1>1 DEF LinkInv, Recorded, Pending
    <3> QED
      BY <1>1, <2>2, <3>1, PendingTransmitted DEF c
  <2> QED
    BY <2>3, <2>4
<1>8. LinksCalled' /\ OpensOurs' /\ OursOpened'
  BY <1>1 DEF LinkInv, LinksCalled, OpensOurs, OursOpened, Apart, host
<1> QED
  BY <1>5, <1>6, <1>7, <1>8 DEF LinkInv

LEMMA HandlersKeepLinks ==
  ASSUME Inv, LinkInv, HandleHCIEvent
  PROVE  LinkInv'
BY InquiryResultKeepsLinks, RemoteNameKeepsLinks, ConnectionCompleteKeepsLinks,
   OtherHandlersKeepLinks DEF HandleHCIEvent

\* The controller has ended a command with an event; a link that was not there
\* may have been made.
LEMMA EndedKeepsLinks ==
  ASSUME Inv, LinkInv, NEW c \in doing, NEW e \in Event,
         doing' = doing \ {c}, rx' = Append(rx, e), UNCHANGED <<host, tx, dropped>>,
         e.op = c.op, e.device = c.device, \A x : x = e => EventFits(x)',
         \A d \in Device :
           \/ link'[d] = link[d]
           \/ /\ link[d] = "none" /\ d = c.device
              /\ \/ link'[d] = "ours" /\ c.op = "Create" /\ e.ok
                 \/ link'[d] = "theirs" /\ c.op = "Accept"
  PROVE  LinkInv'
<1> DEFINE n == Len(rx) + 1
<1>1. rx \in Seq(Event) /\ tx \in Seq(Command) /\ opens \subseteq Device /\ doing \subseteq Command
  BY DEF Inv, TypeOK
<1>2. /\ DOMAIN rx' = DOMAIN rx \cup {n}
      /\ \A i \in DOMAIN rx : rx'[i] = rx[i]
      /\ rx'[n] = e
  BY <1>1, AppendFacts, QueueFacts
<1> HIDE DEF n
<1>3. CommandOk(c) /\ CommandFits(c)
  BY DEF Inv, CommandsOk, LinkInv, CommandsFit
<1>4. \A d \in Device : link'[d] = "ours" =>
        link[d] = "ours" \/ (d = c.device /\ c.op = "Create" /\ e.ok)
  OBVIOUS
\* No name request or connection to the device is under way elsewhere.
<1>5. ASSUME c.op = "Create"
      PROVE  /\ \A i \in DOMAIN tx : ~Starts(tx[i], c.device)
             /\ \A x \in doing \ {c} : ~Starts(x, c.device)
             /\ \A i \in DOMAIN rx : ~Stops(rx[i], c.device)
             /\ ~Free(c.device) /\ c.device \in Device
  <2>1. Starts(c, c.device) /\ c.device \in Device
    BY <1>3, <1>5, Formed DEF Starts, Steps, CommandOk
  <2> QED
    BY <2>1 DEF Inv, OneStep, OneStepIn, Thread, Free, FreeIn
<1>6. CommandsFit'
  <2>1. ASSUME NEW x \in Command, CommandOk(x), CommandFits(x),
               c.op = "Create" => ~Starts(x, c.device)
        PROVE  CommandFits(x)'
    <3>1. ASSUME x.op \in {"NameRequest", "Create"}
          PROVE  link'[x.device] # "ours"
      <4>1. x.device \in Device /\ link[x.device] # "ours"
        BY <2>1, <3>1, Formed DEF CommandOk, CommandFits
      <4>2. x.device # c.device \/ c.op # "Create"
        BY <2>1, <3>1 DEF Starts, Steps
      <4> QED
        BY <1>4, <4>1, <4>2
    <3> QED
      BY <2>1, <3>1 DEF CommandFits, Apart, host
  <2>2. /\ \A i \in DOMAIN tx : CommandOk(tx[i]) /\ CommandFits(tx[i]) /\ tx[i] \in Command
        /\ \A x \in doing : CommandOk(x) /\ CommandFits(x) /\ x \in Command
    BY <1>1, QueueFacts DEF Inv, CommandsOk, LinkInv, CommandsFit
  <2>3. ASSUME NEW x, (\E i \in DOMAIN tx : x = tx[i]) \/ x \in doing \ {c}
        PROVE  CommandFits(x)'
    BY <1>5, <2>1, <2>2, <2>3
  <2> QED
    BY <2>3 DEF CommandsFit
<1>7. EventsFit'
  <2>1. ASSUME NEW x \in Event, EventOk(x), EventFits(x),
               c.op = "Create" => ~Stops(x, c.device)
        PROVE  EventFits(x)'
    <3>1. ASSUME x.op = "NameRequest"
          PROVE  link'[x.device] # "ours"
      <4>1. x.device \in Device /\ link[x.device] # "ours" /\ x.type = "RemoteName"
        BY <2>1, <3>1, Formed DEF EventOk, EventFits
      <4>2. x.device # c.device \/ c.op # "Create"
        BY <2>1, <3>1, <4>1 DEF Stops, Steps
      <4> QED
        BY <1>4, <4>1, <4>2
    <3>2. ASSUME x.op = "Create", x.ok
          PROVE  link'[x.device] = "ours"
      <4>1. x.device \in Device /\ link[x.device] = "ours"
        BY <2>1, <3>2, Formed DEF EventOk, EventFits
      <4> QED
        BY <4>1
    <3> QED
      BY <2>1, <3>1, <3>2 DEF EventFits, Apart, host
  <2>2. \A i \in DOMAIN rx : EventOk(rx[i]) /\ EventFits(rx[i]) /\ rx[i] \in Event
    BY <1>1, QueueFacts DEF Inv, EventsOk, LinkInv, EventsFit
  <2>3. ASSUME NEW x, \E i \in DOMAIN rx' : x = rx'[i]
        PROVE  EventFits(x)'
    BY <1>2, <1>5, <2>1, <2>2, <2>3
  <2> QED
    BY <2>3 DEF EventsFit
<1>8. LinksKnown'
  <2>1. Free(NoDevice) => FreeIn(tx', doing', rx', NoDevice)
    <3>1. \A d : Stops(e, d) => Starts(c, d)
      BY DEF Starts, Stops
    <3> QED
      BY <1>1, <3>1, OneStepEnded DEF Inv, OneStep, Free, Thread
  <2>2. ASSUME c.op = "Create"
        PROVE  c.device \in Boards \cap Discoverable /\ initialized
               /\ (c.device \in discovered \/ Free(NoDevice))
    BY <1>3, <1>5, <2>2 DEF Inv, ThreadsKnown, CommandOk
  <2>3. ASSUME NEW d \in Device, link'[d] = "ours"
        PROVE  d \in Boards \cap Discoverable /\ initialized
               /\ (d \in discovered \/ Free(NoDevice))
    BY <1>4, <2>2, <2>3 DEF LinkInv, LinksKnown
  <2> QED
    BY <2>1, <2>3 DEF LinksKnown, Free, host
<1>9. LinksCalled'
  BY <1>3 DEF LinkInv, LinksCalled, CommandFits, Apart, host
<1>10. OpensOurs'
  <2>1. \A d \in opens : (Apart(d) => link[d] = "ours") /\ d \in Device
    BY <1>1 DEF LinkInv, OpensOurs
  <2> QED
    BY <2>1 DEF OpensOurs, Apart, host
<1>11. OursOpened'
  <2> SUFFICES ASSUME NEW d \in Device, link'[d] = "ours", d \notin opens, Apart(d)
               PROVE  \E i \in DOMAIN rx' : rx'[i].op = "Create" /\ rx'[i].ok /\ rx'[i].device = d
    BY DEF OursOpened, Apart, host
  <2>1. CASE link[d] = "ours"
    BY <1>2, <2>1 DEF LinkInv, OursOpened
  <2>2. CASE d = c.device /\ c.op = "Create" /\ e.ok
    BY <1>2, <2>2
  <2> QED
    BY <1>4, <2>1, <2>2
<1>12. Recorded'
  <2>1. \A op, d : Pending(op, d) => PendingIn(tx', doing', rx', op, d)
    BY <1>1, PendingEnded DEF Pending
  <2> QED
    BY <2>1 DEF LinkInv, Recorded, Pending, host
<1> QED
  BY <1>6, <1>7, <1>8, <1>9, <1>10, <1>11, <1>12 DEF LinkInv

\* The host does not see that pairing is over; or it is told of a call, or of
\* what a scan has found.
LEMMA ToldKeepsLinks ==
  ASSUME Inv, LinkInv, UNCHANGED <<initialized, discovered, connectRequests, nameRequests, opens>>,
         UNCHANGED <<tx, dropped, link>>, crossed \subseteq crossed',
         \/ rx' = rx /\ \E c \in doing : c.op = "PinReply" /\ doing' = doing \ {c}
         \/ /\ doing' = doing
            /\ \E e \in Event : /\ rx' = Append(rx, e) /\ (\A x : x = e => EventFits(x)')
                                /\ e.type \in {"InquiryResult", "ConnectionRequest"} /\ EventOk(e)
  PROVE  LinkInv'
<1>1. rx \in Seq(Event) /\ tx \in Seq(Command)
  BY DEF Inv, TypeOK
<1>2. /\ \A x : CommandFits(x) => CommandFits(x)'
      /\ \A x : EventFits(x) => EventFits(x)'
  BY DEF CommandFits, EventFits, Apart
<1>3. /\ doing' \subseteq doing
      /\ \A i \in DOMAIN rx : i \in DOMAIN rx' /\ rx'[i] = rx[i]
      /\ \A i \in DOMAIN rx' : \A x : x = rx'[i] => EventFits(x)'
      /\ Free(NoDevice) => FreeIn(tx', doing', rx', NoDevice)
      /\ \A op \in {"NameRequest", "Create"} : \A d : Pending(op, d) => PendingIn(tx', doing', rx', op, d)
  <2>1. \A i \in DOMAIN rx : EventFits(rx[i])
    BY DEF LinkInv, EventsFit
  <2>2. ASSUME rx' = rx, NEW c \in doing, c.op = "PinReply", doing' = doing \ {c}
        PROVE  <1>3
    BY <1>2, <2>1, <2>2 DEF Free, FreeIn, Pending, PendingIn
  <2>3. ASSUME doing' = doing, NEW e \in Event, rx' = Append(rx, e), \A x : x = e => EventFits(x)', EventOk(e),
               e.type \in {"InquiryResult", "ConnectionRequest"}
        PROVE  <1>3
    <3> DEFINE n == Len(rx) + 1
    <3>1. /\ DOMAIN rx' = DOMAIN rx \cup {n}
          /\ \A i \in DOMAIN rx : rx'[i] = rx[i]
          /\ rx'[n] = e
      BY <1>1, <2>3, AppendFacts, QueueFacts
    <3> HIDE DEF n
    <3>2. ~Stops(e, NoDevice)
      BY <2>3 DEF Stops, EventOk
    <3>3. Free(NoDevice) => FreeIn(tx', doing', rx', NoDevice)
      BY <2>3, <3>1, <3>2 DEF Free, FreeIn
    <3>4. \A op, d : Pending(op, d) => PendingIn(tx', doing', rx', op, d)
      BY <2>3, <3>1 DEF Pending, PendingIn
    <3> QED
      BY <1>2, <2>1, <2>3, <3>1, <3>3, <3>4
  <2> QED
    BY <2>2, <2>3
<1>4. CommandsFit' /\ EventsFit'
  BY <1>2, <1>3 DEF LinkInv, CommandsFit, EventsFit
<1>5. LinksKnown'
  BY <1>3 DEF LinkInv, LinksKnown, Free
<1>6. Recorded'
  BY <1>3 DEF LinkInv, Recorded, Pending
<1>7. LinksCalled' /\ OpensOurs' /\ OursOpened'
  BY <1>3 DEF LinkInv, LinksCalled, OpensOurs, OursOpened, Apart
<1> QED
  BY <1>4, <1>5, <1>6, <1>7 DEF LinkInv

LEMMA ControllerKeepsLinks ==
  ASSUME Inv, LinkInv, NEW c \in doing, ControllerEnds(c)
  PROVE  LinkInv'
<1>1. /\ CommandOk(c) /\ CommandFits(c) /\ c \in Command
      /\ link \in [Device -> {"none", "ours", "theirs"}]
  BY DEF Inv, CommandsOk, TypeOK, LinkInv, CommandsFit
<1>2. c.device \in Device \cup {NoDevice} /\ c.op \in Op
  BY <1>1 DEF Command
<1>3. ASSUME NEW type \in EventTypes, NEW ok \in BOOLEAN, Ends(c),
             Delivers(type, c.op, c.device, ok),
             c.op \notin {"Create", "Accept"}, link' = link
      PROVE  LinkInv'
  <2> DEFINE e == [type |-> type, op |-> c.op, device |-> c.device, ok |-> ok, second |-> NoDevice]
  <2>1. e \in Event /\ e.op = c.op /\ e.device = c.device /\ rx' = Append(rx, e)
    BY <1>2, <1>3 DEF Event, Delivers
  <2>2. doing' = doing \ {c} /\ UNCHANGED <<host, tx, dropped>>
    BY <1>3 DEF Ends
  <2> HIDE DEF e
  <2>3. \A x : x = e => EventFits(x)'
    BY <1>1, <1>3, <2>1 DEF CommandFits, EventFits
  <2> QED
    BY <1>3, <2>1, <2>2, <2>3, EndedKeepsLinks
<1>4. ASSUME NEW ok \in BOOLEAN, CreateEnds(c, ok) \/ AcceptEnds(c, ok)
      PROVE  LinkInv'
  <2> DEFINE e == [type |-> "ConnectionComplete", op |-> c.op, device |-> c.device, ok |-> ok,
                   second |-> NoDevice]
  <2>1. /\ e \in Event /\ e.op = c.op /\ e.device = c.device /\ e.ok = ok
        /\ rx' = Append(rx, e)
    BY <1>2, <1>4 DEF Event, EventTypes, Delivers, CreateEnds, AcceptEnds
  <2>2. doing' = doing \ {c} /\ UNCHANGED <<host, tx, dropped>>
    BY <1>4 DEF Ends, CreateEnds, AcceptEnds
  <2>3. c.device \in Device
    BY <1>1, <1>2, <1>4, Formed DEF CommandOk, CreateEnds, AcceptEnds
  <2> HIDE DEF e
  <2>4. /\ c.op = "Create" /\ ok => link' = [link EXCEPT ![c.device] = "ours"]
                                    /\ link[c.device] = "none"
        /\ c.op = "Accept" /\ ok => link' = [link EXCEPT ![c.device] = "theirs"]
                                    /\ link[c.device] = "none"
        /\ ~ok => link' = link
        /\ c.op \in {"Create", "Accept"}
    BY <1>4 DEF CreateEnds, AcceptEnds
  <2>5. \A x : x = e => EventFits(x)'
    <3>1. /\ c.op = "Create" /\ Apart(c.device)' => c.device \in connectRequests'
          /\ c.op = "Accept" /\ Apart(c.device)' => c.device \notin connectRequests'
      BY <1>1, <2>2 DEF CommandFits, Apart, host
    <3>2. c.op = "Create" /\ ok => link'[c.device] = "ours"
      BY <1>1, <2>3, <2>4
    <3> QED
      BY <2>1, <2>4, <3>1, <3>2 DEF EventFits
  <2>6. \A d \in Device :
           \/ link'[d] = link[d]
           \/ /\ link[d] = "none" /\ d = c.device
              /\ \/ link'[d] = "ours" /\ c.op = "Create" /\ ok
                 \/ link'[d] = "theirs" /\ c.op = "Accept"
    BY <1>1, <2>3, <2>4
  <2> QED
    BY <2>1, <2>2, <2>5, <2>6, EndedKeepsLinks
<1>5. ASSUME NEW ok \in BOOLEAN, SetupEnds(c, ok)
      PROVE  LinkInv'
  <2>1. c.device = NoDevice /\ c.op \notin {"Create", "Accept"}
    BY <1>1, <1>5, Formed DEF CommandOk, SetupEnds
  <2> QED
    BY <1>3, <1>5, <2>1 DEF SetupEnds, EventTypes
<1>6. ASSUME NEW ok \in BOOLEAN, NameRequestEnds(c, ok)
      PROVE  LinkInv'
  BY <1>3, <1>6 DEF NameRequestEnds, EventTypes
<1>7. CASE InquiryEnds(c)
  <2>1. c.device = NoDevice /\ c.op = "Inquiry"
    BY <1>1, <1>7 DEF CommandOk, InquiryEnds
  <2> QED
    BY <1>3, <1>7, <2>1 DEF InquiryEnds, EventTypes, environment
<1>8. CASE PairingGoesOn(c)
  <2>1. CASE c.op = "PinReply" /\ rx' = rx
    BY <1>8, <2>1, ToldKeepsLinks DEF PairingGoesOn, Ends, host
  <2>2. ASSUME c.op \in {"Auth", "NegativeReply"},
               NEW type \in {"LinkKeyRequest", "PINRequest"}, Delivers(type, c.op, c.device, TRUE)
        PROVE  LinkInv'
    BY <1>3, <1>8, <2>2 DEF PairingGoesOn, EventTypes
  <2> QED
    BY <1>8, <2>1, <2>2 DEF PairingGoesOn
<1> QED
  BY <1>4, <1>5, <1>6, <1>7, <1>8 DEF ControllerEnds

LEMMA EnvironmentKeepsLinks ==
  ASSUME Inv, LinkInv,
         \/ \E c \in doing, d \in Device, second \in Device \cup {NoDevice} : InquiryFinds(c, d, second)
         \/ \E d \in Device : DeviceCalls(d)
  PROVE  LinkInv'
<1>1. ASSUME NEW c \in doing, NEW d \in Device, NEW second \in Device \cup {NoDevice},
             InquiryFinds(c, d, second)
      PROVE  LinkInv'
  <2> DEFINE e == [type |-> "InquiryResult", op |-> c.op, device |-> d, ok |-> TRUE, second |-> second]
  <2>1. /\ c.op = "Inquiry" /\ rx' = Append(rx, e) /\ doing' = doing
        /\ UNCHANGED <<host, tx, dropped, link>>
        /\ d \in Discoverable /\ second \in Discoverable \cup {NoDevice}
    BY <1>1 DEF InquiryFinds, environment
  <2>2. /\ e \in Event /\ e.op = "Inquiry" /\ e.type = "InquiryResult"
        /\ e.device = d /\ e.second = second
    BY <2>1 DEF Event, EventTypes, Op
  <2> HIDE DEF e
  <2>3. (\A x : x = e => EventFits(x)') /\ EventOk(e)
    <3>1. initialized /\ "Inquiry" \notin Setup /\ d # NoDevice
      BY <2>1, Formed DEF Inv, CommandsOk, CommandOk
    <3> QED
      BY <2>1, <2>2, <3>1 DEF EventFits, EventOk
  <2> QED
    BY <2>1, <2>2, <2>3, ToldKeepsLinks DEF host
<1>2. ASSUME NEW d \in Device, DeviceCalls(d)
      PROVE  LinkInv'
  <2> DEFINE e == [type |-> "ConnectionRequest", op |-> "Accept", device |-> d, ok |-> TRUE,
                   second |-> NoDevice]
  <2>1. /\ rx' = Append(rx, e) /\ doing' = doing /\ UNCHANGED <<tx, dropped, link>>
        /\ UNCHANGED <<initialized, discovered, connectRequests, nameRequests, opens>>
        /\ crossed \subseteq crossed' /\ (d \notin crossed' => ~Pending("Create", d))
    BY <1>2, PendingFacts DEF DeviceCalls, Delivers
  <2>2. e \in Event /\ e.op = "Accept" /\ e.type = "ConnectionRequest" /\ e.device = d
    BY DEF Event, EventTypes, Op
  <2> HIDE DEF e
  <2>3. Apart(d)' => d \notin connectRequests
    BY <2>1 DEF LinkInv, Recorded, Apart
  <2>4. (\A x : x = e => EventFits(x)') /\ EventOk(e)
    BY <2>1, <2>2, <2>3, Formed DEF EventFits, EventOk
  <2> QED
    BY <2>1, <2>2, <2>4, ToldKeepsLinks
<1> QED
  BY <1>1, <1>2

LEMMA InitLinks ==
  ASSUME Init
  PROVE  LinkInv
<1> DEFINE c == Cmd("Reset", NoDevice)
<1>1. c.op = "Reset"
  BY Formed DEF Op
<1>2. tx = <<c>> /\ DOMAIN tx = {1} /\ tx[1] = c /\ rx = <<>> /\ doing = {} /\ opens = {}
      /\ connectRequests = {} /\ nameRequests = {} /\ \A d \in Device : link[d] = "none"
  BY DEF Init
<1> HIDE DEF c
<1>3. CommandsFit /\ EventsFit
  BY <1>1, <1>2 DEF CommandsFit, EventsFit, CommandFits
<1> QED
  BY <1>2, <1>3 DEF LinkInv, LinksKnown, LinksCalled, OpensOurs, OursOpened, Recorded

LEMMA NextLinks ==
  ASSUME Inv, LinkInv, [Next]_vars
  PROVE  LinkInv'
<1>1. CASE UNCHANGED vars
  <2>1. UNCHANGED <<initialized, discovered, connectRequests, nameRequests, scanning, opens, crossed,
                    crashed, rx, tx, dropped, configured, doing, link, calling, paired, failed, calls>>
    BY <1>1 DEF vars, host, controller
  <2>2. /\ \A x : CommandFits(x) => CommandFits(x)'
        /\ \A x : EventFits(x) => EventFits(x)'
    BY <2>1 DEF CommandFits, EventFits, Apart
  <2>3. CommandsFit' /\ EventsFit'
    BY <2>1, <2>2 DEF LinkInv, CommandsFit, EventsFit
  <2>4. LinksKnown'
    <3>1. FreeIn(tx', doing', rx', NoDevice) <=> Free(NoDevice)
      BY <2>1 DEF Free, FreeIn
    <3> QED
      BY <2>1, <3>1 DEF LinkInv, LinksKnown, Free
  <2>5. Recorded'
    <3>1. \A op, d : Pending(op, d) <=> PendingIn(tx', doing', rx', op, d)
      BY <2>1 DEF Pending, PendingIn
    <3> QED
      BY <2>1, <3>1 DEF LinkInv, Recorded, Pending
  <2>6. LinksCalled' /\ OpensOurs' /\ OursOpened'
    BY <2>1 DEF LinkInv, LinksCalled, OpensOurs, OursOpened, Apart
  <2> QED
    BY <2>3, <2>4, <2>5, <2>6 DEF LinkInv
<1> QED
  BY <1>1, HandlersKeepLinks, TransmitKeepsLinks, ControllerKeepsLinks, EnvironmentKeepsLinks DEF Next

\* As long as nothing was lost or refused, the records of name requests name
\* exactly the devices whose request is outstanding, and so do the records of
\* connections for the devices that do not call while the host connects to
\* them (nameRequests and connectRequests of Impl).
THEOREM RequestsOutstandingHolds == Spec => []RequestsOutstanding
<1>1. ASSUME Inv, LinkInv, ~dropped
      PROVE  /\ nameRequests = Outstanding("NameRequest")
             /\ connectRequests \ crossed = Outstanding("Create") \ crossed
  <2>1. ASSUME NEW d, Pending("NameRequest", d)
        PROVE  d \in nameRequests
    <3>1. /\ \A i \in DOMAIN tx : CommandOk(tx[i])
          /\ \A c \in doing : CommandOk(c)
          /\ \A i \in DOMAIN rx : EventOk(rx[i])
      BY <1>1 DEF Inv, CommandsOk, EventsOk
    <3> QED
      BY <2>1, <3>1 DEF Pending, PendingIn, CommandOk, EventOk
  <2>2. ASSUME NEW d, Pending("Create", d), d \notin crossed
        PROVE  d \in connectRequests
    <3>1. /\ \A i \in DOMAIN tx : CommandFits(tx[i])
          /\ \A c \in doing : CommandFits(c)
          /\ \A i \in DOMAIN rx : EventFits(rx[i])
      BY <1>1 DEF LinkInv, CommandsFit, EventsFit
    <3>2. Apart(d)
      BY <1>1, <2>2 DEF Apart
    <3> QED
      BY <2>2, <3>1, <3>2 DEF Pending, PendingIn, CommandFits, EventFits
  <2>3. /\ \A d \in nameRequests : Pending("NameRequest", d)
        /\ \A d \in connectRequests \ crossed : Pending("Create", d)
    BY <1>1 DEF LinkInv, Recorded
  <2> QED
    BY <2>1, <2>2, <2>3, PendingFacts
<1>2. Inv /\ LinkInv => RequestsOutstanding
  BY <1>1 DEF RequestsOutstanding
<1>3. Init => Inv /\ LinkInv
  BY InitInv, InitLinks
<1>4. Inv /\ LinkInv /\ [Next]_vars => (Inv /\ LinkInv)'
  BY NextInv, NextLinks
<1> QED
  BY <1>2, <1>3, <1>4, PTL DEF Spec

\* One side opens the channels of the link of a device that does not call while
\* the host connects to it: the host if it asked for the link, or else the
\* device (wiipp.cpp:238), as long as nothing was lost or refused.  Both
\* exceptions are needed: see the run discovery_collision, and that nothing takes
\* back the record of a request that was lost or refused.
THEOREM OneOpenerHolds == Spec => []OneOpenerInOrder
<1>1. ASSUME Inv, LinkInv, ~dropped, NEW d \in Device \ crossed
      PROVE  OpenedOnce(d)
  <2> SUFFICES ASSUME \A i \in DOMAIN rx : rx[i].type = "ConnectionComplete" => rx[i].device # d
               PROVE  d \in opens <=> link[d] = "ours"
    BY DEF OpenedOnce
  <2>1. \A i \in DOMAIN rx : rx[i].op = "Create" => rx[i].type = "ConnectionComplete"
    BY <1>1 DEF Inv, EventsOk, EventOk
  <2>2. Apart(d)
    BY <1>1 DEF Apart
  <2> QED
    BY <1>1, <2>1, <2>2 DEF LinkInv, OpensOurs, OursOpened
<1>2. Inv /\ LinkInv => OneOpenerInOrder
  BY <1>1 DEF OneOpenerInOrder
<1>3. Init => Inv /\ LinkInv
  BY InitInv, InitLinks
<1>4. Inv /\ LinkInv /\ [Next]_vars => (Inv /\ LinkInv)'
  BY NextInv, NextLinks
<1> QED
  BY <1>2, <1>3, <1>4, PTL DEF Spec

================================================================================
