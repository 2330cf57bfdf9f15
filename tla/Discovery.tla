------------------------------- MODULE Discovery -------------------------------
(***************************************************************************)
(* The HCI layer of the host (src/src/esp32_bluetooth.cpp, handleHCIEvent  *)
(* and the commands it leads to), with the listeners of the Wii object     *)
(* (src/lib/wiipp/src/wiipp.cpp) and of the application (src/src/main.cpp, *)
(* which scans once, when Bluetooth is ready): bringing the controller up, *)
(* scanning, asking devices for their names, connecting to balance boards, *)
(* answering devices that connect by themselves, and pairing.              *)
(*                                                                         *)
(* As in L2cap, one task takes commands out of txBuffer and handles one    *)
(* event of rxBuffer at a time, a command that does not fit is lost, and   *)
(* the controller waits for room.  What happens to a link that is up is    *)
(* L2cap's: here the host decides whether to open its channels.            *)
(*                                                                         *)
(* The controller and the devices are external.  The controller executes   *)
(* several commands at a time, ends them in any order, and refuses (with   *)
(* an event that the host ignores) what does not fit the state of a        *)
(* device, and may refuse any command for reasons of its own.              *)
(***************************************************************************)
EXTENDS Naturals, Sequences, FiniteSets

CONSTANTS Boards,        \* balance boards
          Remotes,       \* other devices with the class of Wii controllers
          Strangers,     \* devices of other classes
          NoDevice,      \* in commands and events that name no device
          Discoverable,  \* the devices that a scan finds
          Calling,       \* the devices that connect by themselves
          Failures,      \* what may fail: "bringUp", "name", "connect", or be
                         \*   refused for no reason seen here: "refuse"
          RxCap,         \* bound: events in rxBuffer
          TxCap,         \* bound: commands in txBuffer
          MaxCalls       \* bound: connection requests of devices

Device == Boards \cup Remotes \cup Strangers
Wii == Boards \cup Remotes   \* class of device 0x042500

ASSUME DiscoveryAssumption ==
  /\ Boards \cap Remotes = {} /\ Wii \cap Strangers = {}
  /\ NoDevice \notin Device
  /\ Discoverable \subseteq Device /\ Calling \subseteq Device
  /\ Failures \subseteq {"bringUp", "name", "connect", "refuse"}
  /\ RxCap \in Nat \ {0} /\ TxCap \in Nat \ {0} /\ MaxCalls \in Nat

VARIABLES
  initialized,      \* Impl::initialized
  discovered,       \* Impl::discovered
  connectRequests,  \* Impl::connectRequests
  nameRequests,     \* Impl::nameRequests, its keys
  scanning,         \* main.cpp's LED: on from ScanStarted to ScanStopped
  opens,            \* ghost: devices to which the host opens channels
  crossed,          \* ghost: devices that have called the host and that the host
                    \*   has connected to, the one before the other was over
  crashed,          \* nameRequests.at has thrown
  rx,               \* rxBuffer
  tx,               \* txBuffer
  dropped,          \* ghost: a command was lost because txBuffer was full, or
                    \*   refused for a reason that is not modelled
  configured,       \* bring-up commands that the controller has executed
  doing,            \* commands that the controller is executing
  link,             \* per device: "none", "ours" or "theirs"
  calling,          \* devices whose connection request is not answered
  paired,           \* devices that have paired
  failed,           \* ghost: devices for which a command has failed
  calls             \* connection requests of devices so far

host == <<initialized, discovered, connectRequests, nameRequests, scanning, opens, crossed,
          crashed>>
controller == <<configured, doing, link, calling, paired, failed, calls>>
vars == <<host, rx, tx, dropped, controller>>

\* The commands of the bring-up, in order.
BringUp == <<"Reset", "ReadBdAddr", "WriteLocalName", "WriteClassOfDevice", "WriteScanEnable">>
Setup == {BringUp[i] : i \in DOMAIN BringUp}
Op == Setup \cup {"Inquiry", "NameRequest", "Create", "Accept", "Auth",
                  "NegativeReply", "PinReply"}

\* role is the last byte of Accept.
Command == [op: Op, device: Device \cup {NoDevice}, role: {0, 15}]
Cmd(op, d) == [op |-> op, device |-> d, role |-> 0]

EventTypes == {"CommandComplete", "InquiryResult", "InquiryComplete", "RemoteName",
               "ConnectionComplete", "ConnectionRequest", "LinkKeyRequest", "PINRequest"}
\* second is the second device of an InquiryResult, if there is one.
Event == [type: EventTypes, op: Op, device: Device \cup {NoDevice}, ok: BOOLEAN,
          second: Device \cup {NoDevice}]

EnqueueAlways(q, c) == Append(q, c)   \* deviation

Enqueue(q, c) == IF Len(q) < TxCap THEN Append(q, c) ELSE q
Enqueue2(q, c1, c2) == Enqueue(Enqueue(q, c1), c2)
Sends(c) == tx' = Enqueue(tx, c) /\ dropped' = (dropped \/ Len(tx) >= TxCap)
Silent == UNCHANGED <<tx, dropped>>

Waiting(op) == {c \in doing \cup {tx[i] : i \in DOMAIN tx} : c.op = op}
Answered(op) == {i \in DOMAIN rx : rx[i].op = op}

\* The devices for which a command is on its way, being executed, or answered
\* by an event that the host has not handled.
Outstanding(op) == {c.device : c \in Waiting(op)} \cup {rx[i].device : i \in Answered(op)}

\* A device has connected by itself, or its request to has not come to an end.
Called(d) == d \in Outstanding("Accept") \/ link[d] = "theirs"
--------------------------------------------------------------------------------
(* The host's handlers.  A definition marked "deviation" is a wrong        *)
(* version of the one it precedes, used only to check that properties fail *)
(* with it.                                                                *)

Receives(type) ==
  /\ ~crashed
  /\ rx # <<>> /\ Head(rx).type = type
  /\ rx' = Tail(rx)
  /\ UNCHANGED controller

\* Each command of the bring-up follows the success of the one before; the
\* last makes the application scan.
NextSetupSkips(op) ==   \* deviation
  IF op = "WriteLocalName" THEN "WriteScanEnable"
    ELSE BringUp[1 + CHOOSE i \in DOMAIN BringUp : BringUp[i] = op]

NextSetup(op) == BringUp[1 + CHOOSE i \in DOMAIN BringUp : BringUp[i] = op]

ScanStarted == scanning' = TRUE
ScanStopped == scanning' = FALSE

SendHCIScan(ready) == IF ready THEN Sends(Cmd("Inquiry", NoDevice)) ELSE Silent

\* The application is told that the scan has started whether or not it has.
Sync(ready) == ScanStarted /\ SendHCIScan(ready)

\* deviation: the application is called before initialized is set.
ReadyTooEarly == initialized' = TRUE /\ Sync(initialized)

\* initialized is set, then the application is called.
Ready == initialized' = TRUE /\ Sync(initialized')

HandleHCICommandComplete ==
  /\ Receives("CommandComplete")
  /\ LET e == Head(rx) IN
     \/ ~e.ok /\ Silent /\ UNCHANGED <<initialized, scanning>>
     \/ /\ e.ok /\ e.op \in Setup \ {"WriteScanEnable"}
        /\ Sends(Cmd(NextSetup(e.op), NoDevice))
        /\ UNCHANGED <<initialized, scanning>>
     \/ e.ok /\ e.op = "WriteScanEnable" /\ Ready
  /\ UNCHANGED <<discovered, connectRequests, nameRequests, opens, crossed, crashed>>

\* deviation: no result counts as a repetition.
KnownNever(d) == FALSE

\* !discovered.emplace(...).second
Known(d) == d \in discovered

\* The devices of the event that are new: one that is there twice is known
\* when its second entry is read.
NewDevices(e) == {d \in {e.device, e.second} \ {NoDevice} : ~Known(d)}

\* sendHCIRequestRemoteName for each of some devices of an event, in its order.
SendHCIRequestRemoteName(devices, e) ==
  /\ nameRequests' = nameRequests \cup devices
  /\ \/ devices = {} /\ Silent
     \/ \E d \in devices : devices = {d} /\ Sends(Cmd("NameRequest", d))
     \/ /\ devices = {e.device, e.second} /\ e.device # e.second
        /\ tx' = Enqueue2(tx, Cmd("NameRequest", e.device), Cmd("NameRequest", e.second))
        /\ dropped' = (dropped \/ Len(tx) + 1 >= TxCap)

\* The listener asks each new Wii device for its name.
HandleHCIInquiryResult ==
  /\ Receives("InquiryResult")
  /\ LET new == NewDevices(Head(rx)) IN
     /\ discovered' = discovered \cup new
     /\ SendHCIRequestRemoteName(new \cap Wii, Head(rx))
  /\ UNCHANGED <<initialized, connectRequests, scanning, opens, crossed, crashed>>

HandleHCIInquiryComplete ==
  /\ Receives("InquiryComplete")
  /\ ScanStopped
  /\ discovered' = {}
  /\ UNCHANGED <<initialized, connectRequests, nameRequests, opens, crossed, crashed>>
  /\ Silent

\* deviation: the name that the comment at wiipp.cpp:225 speaks of.
NamedRemote(e) == e.ok /\ e.device \in Remotes

\* The name is that of a balance board; a failed request has none.
NamedBoard(e) == e.ok /\ e.device \in Boards

SendHCIConnect(d) ==
  /\ connectRequests' = connectRequests \cup {d}
  /\ Sends(Cmd("Create", d))
  /\ crossed' = IF Called(d) THEN crossed \cup {d} ELSE crossed

\* nameRequests.at throws when the device has no request.
HandleHCIRemoteNameRequestComplete ==
  /\ Receives("RemoteName")
  /\ LET e == Head(rx) IN
     \/ /\ e.device \notin nameRequests
        /\ crashed' = TRUE
        /\ UNCHANGED <<connectRequests, nameRequests, crossed>> /\ Silent
     \/ /\ e.device \in nameRequests
        /\ nameRequests' = nameRequests \ {e.device}
        /\ \/ ~NamedBoard(e) /\ UNCHANGED <<connectRequests, crossed>> /\ Silent
           \/ NamedBoard(e) /\ SendHCIConnect(e.device)
        /\ UNCHANGED crashed
  /\ UNCHANGED <<initialized, discovered, scanning, opens>>

\* deviation: the request is erased before it is looked up.
AcceptedAlways(d) == TRUE

\* HCIConnectionEstablished::accepted
Accepted(d) == d \notin connectRequests

\* deviation: the request is not erased.
Keeps(d) == UNCHANGED connectRequests

Erases(d) == connectRequests' = connectRequests \ {d}

\* On a link that it did not accept, the listener asks for authentication and
\* opens the channels (L2cap!HandleHCIConnectionComplete).
HandleHCIConnectionComplete ==
  /\ Receives("ConnectionComplete")
  /\ LET e == Head(rx) IN
     /\ Erases(e.device)
     /\ \/ e.ok /\ ~Accepted(e.device)
           /\ opens' = opens \cup {e.device}
           /\ Sends(Cmd("Auth", e.device))
        \/ (~e.ok \/ Accepted(e.device)) /\ UNCHANGED opens /\ Silent
  /\ UNCHANGED <<initialized, discovered, nameRequests, scanning, crossed, crashed>>

\* enqueue_cmd_reject_connection writes the operation code of Accept, with
\* the reason where the role goes.
RejectConnection(d) == [op |-> "Accept", device |-> d, role |-> 15]

HandleHCIConnectionRequest ==
  /\ Receives("ConnectionRequest")
  /\ LET d == Head(rx).device IN
     Sends(IF d \in Wii THEN Cmd("Accept", d) ELSE RejectConnection(d))
  /\ UNCHANGED host

HandleHCILinkKeyRequest ==
  /\ Receives("LinkKeyRequest")
  /\ Sends(Cmd("NegativeReply", Head(rx).device))
  /\ UNCHANGED host

\* deviation: the operation code of the other reply.
PinReplyAsNegative(d) == Cmd("NegativeReply", d)

PinReply(d) == Cmd("PinReply", d)

HandleHCIPINRequest ==
  /\ Receives("PINRequest")
  /\ Sends(PinReply(Head(rx).device))
  /\ UNCHANGED host

HandleHCIEvent ==
  \/ HandleHCICommandComplete
  \/ HandleHCIInquiryResult
  \/ HandleHCIInquiryComplete
  \/ HandleHCIRemoteNameRequestComplete
  \/ HandleHCIConnectionComplete
  \/ HandleHCIConnectionRequest
  \/ HandleHCILinkKeyRequest
  \/ HandleHCIPINRequest

\* The controller always refuses what it is already executing, a connection
\* to a device with a link, and what does not fit the state of a link.
Refuses(c) ==
  \/ c \in doing
  \/ c.op = "Create" /\ link[c.device] # "none"
  \/ c.op = "Accept" /\ c.device \notin calling
  \/ c.op = "Auth" /\ link[c.device] = "none"

\* The commands that are answered by a Command Status event.
MayRefuse == {"Inquiry", "NameRequest", "Create", "Accept", "Auth"}

\* One iteration of the sending loop of step().
Transmit ==
  /\ ~crashed
  /\ tx # <<>>
  /\ tx' = Tail(tx)
  /\ \/ /\ doing' = IF Refuses(Head(tx)) THEN doing ELSE doing \cup {Head(tx)}
        /\ UNCHANGED dropped
     \/ /\ "refuse" \in Failures /\ Head(tx).op \in MayRefuse
        /\ dropped' = TRUE
        /\ UNCHANGED doing
  /\ UNCHANGED <<host, rx, configured, link, calling, paired, failed, calls>>
--------------------------------------------------------------------------------
(* The controller and the devices (external).                              *)

Delivers(type, op, d, ok) ==
  /\ Len(rx) < RxCap
  /\ rx' = Append(rx, [type |-> type, op |-> op, device |-> d, ok |-> ok, second |-> NoDevice])

Ends(c) ==
  /\ c \in doing
  /\ doing' = doing \ {c}
  /\ UNCHANGED <<host, tx, dropped>>

environment == <<configured, link, calling, paired, failed, calls>>

SetupEnds(c, ok) ==
  /\ c.op \in Setup /\ Ends(c)
  /\ ok \/ "bringUp" \in Failures
  /\ Delivers("CommandComplete", c.op, NoDevice, ok)
  /\ configured' = IF ok THEN configured \cup {c.op} ELSE configured
  /\ UNCHANGED <<link, calling, paired, failed, calls>>

\* A scan may find two devices at once, and a device more than once.
InquiryFinds(c, d, second) ==
  /\ c.op = "Inquiry" /\ c \in doing
  /\ d \in Discoverable /\ second \in Discoverable \cup {NoDevice}
  /\ Len(rx) < RxCap
  /\ rx' = Append(rx, [type |-> "InquiryResult", op |-> c.op, device |-> d, ok |-> TRUE,
                       second |-> second])
  /\ UNCHANGED <<doing, environment, host, tx, dropped>>

InquiryEnds(c) ==
  /\ c.op = "Inquiry" /\ Ends(c)
  /\ Delivers("InquiryComplete", c.op, NoDevice, TRUE)
  /\ UNCHANGED environment

NameRequestEnds(c, ok) ==
  /\ c.op = "NameRequest" /\ Ends(c)
  /\ ok \/ "name" \in Failures
  /\ Delivers("RemoteName", c.op, c.device, ok)
  /\ failed' = IF ok THEN failed ELSE failed \cup {c.device}
  /\ UNCHANGED <<configured, link, calling, paired, calls>>

\* A connection fails when the device has made a link in the meantime.
CreateEnds(c, ok) ==
  /\ c.op = "Create" /\ Ends(c)
  /\ IF ok THEN link[c.device] = "none"
           ELSE link[c.device] # "none" \/ "connect" \in Failures
  /\ Delivers("ConnectionComplete", c.op, c.device, ok)
  /\ link' = IF ok THEN [link EXCEPT ![c.device] = "ours"] ELSE link
  /\ failed' = IF ok THEN failed ELSE failed \cup {c.device}
  /\ UNCHANGED <<configured, calling, paired, calls>>

\* Whether a controller takes a role that there is not is left open.
AcceptEnds(c, ok) ==
  /\ c.op = "Accept" /\ Ends(c)
  /\ IF ok THEN link[c.device] = "none"
           ELSE link[c.device] # "none" \/ "connect" \in Failures \/ c.role # 0
  /\ Delivers("ConnectionComplete", c.op, c.device, ok)
  /\ link' = IF ok THEN [link EXCEPT ![c.device] = "theirs"] ELSE link
  /\ calling' = calling \ {c.device}
  /\ UNCHANGED <<configured, paired, failed, calls>>

\* Pairing: the host has no link key and sends a PIN.
PairingGoesOn(c) ==
  /\ Ends(c)
  /\ \/ c.op = "Auth" /\ Delivers("LinkKeyRequest", c.op, c.device, TRUE) /\ UNCHANGED paired
     \/ c.op = "NegativeReply" /\ Delivers("PINRequest", c.op, c.device, TRUE) /\ UNCHANGED paired
     \/ c.op = "PinReply" /\ paired' = paired \cup {c.device} /\ UNCHANGED rx
  /\ UNCHANGED <<configured, link, calling, failed, calls>>

ControllerEnds(c) ==
  \/ \E ok \in BOOLEAN : \/ SetupEnds(c, ok) \/ NameRequestEnds(c, ok)
                         \/ CreateEnds(c, ok) \/ AcceptEnds(c, ok)
  \/ InquiryEnds(c)
  \/ PairingGoesOn(c)

\* A device connects by itself once the controller may be found.
DeviceCalls(d) ==
  /\ d \in Calling /\ calls < MaxCalls
  /\ "WriteScanEnable" \in configured
  /\ link[d] = "none" /\ d \notin calling
  /\ Delivers("ConnectionRequest", "Accept", d, TRUE)
  /\ calling' = calling \cup {d}
  /\ calls' = calls + 1
  /\ crossed' = IF d \in Outstanding("Create") THEN crossed \cup {d} ELSE crossed
  /\ UNCHANGED <<configured, doing, link, paired, failed, tx, dropped>>
  /\ UNCHANGED <<initialized, discovered, connectRequests, nameRequests, scanning, opens, crashed>>
--------------------------------------------------------------------------------
\* The constructor enqueues the reset before the first step.
Init ==
  /\ initialized = FALSE /\ discovered = {} /\ connectRequests = {} /\ nameRequests = {}
  /\ scanning = FALSE /\ opens = {} /\ crossed = {} /\ crashed = FALSE
  /\ rx = <<>> /\ tx = <<Cmd("Reset", NoDevice)>> /\ dropped = FALSE
  /\ configured = {} /\ doing = {} /\ calling = {} /\ paired = {} /\ failed = {}
  /\ calls = 0
  /\ link = [d \in Device |-> "none"]

Next ==
  \/ HandleHCIEvent
  \/ Transmit
  \/ \E c \in doing :
       \/ ControllerEnds(c)
       \/ \E d \in Device, second \in Device \cup {NoDevice} : InquiryFinds(c, d, second)
  \/ \E d \in Device : DeviceCalls(d)

Spec == Init /\ [][Next]_vars

\* loop() calls step() for ever, and the controller ends what it executes,
\* even when results of the scan compete for rxBuffer.  What a scan finds and which devices
\* connect is left open.
Fairness ==
  /\ WF_vars(HandleHCIEvent)
  /\ WF_vars(Transmit)
  /\ SF_vars(\E c \in doing : ControllerEnds(c))

FairSpec == Spec /\ Fairness
--------------------------------------------------------------------------------
(* Properties.                                                             *)

\* Every variable has its type.
TypeOK ==
  /\ initialized \in BOOLEAN /\ scanning \in BOOLEAN /\ crashed \in BOOLEAN
  /\ discovered \subseteq Device /\ connectRequests \subseteq Device
  /\ nameRequests \subseteq Device /\ opens \subseteq Device /\ crossed \subseteq Device
  /\ rx \in Seq(Event) /\ Len(rx) <= RxCap
  /\ tx \in Seq(Command) /\ Len(tx) <= TxCap /\ dropped \in BOOLEAN
  /\ configured \subseteq Setup /\ doing \subseteq Command
  /\ link \in [Device -> {"none", "ours", "theirs"}]
  /\ calling \subseteq Device /\ paired \subseteq Device /\ failed \subseteq Device /\ calls \in Nat

\* Every answer to a name request finds the request, although a scan may find
\* a device many times (nameRequests.at does not throw).
NoThrow == ~crashed

\* As long as no command was lost or refused, the host's records of name and
\* connection requests name the devices whose request is outstanding, and no
\* other: a stale record would make a link that the host accepts later look
\* like one that it asked for.  A device that calls while the host connects to
\* it is excepted: the completion of either link erases the record.
RequestsOutstanding ==
  ~dropped => /\ nameRequests = Outstanding("NameRequest")
              /\ connectRequests \ crossed = Outstanding("Create") \ crossed

\* Of the link to d, if there is one and the host has handled its completion,
\* exactly one side opens the channels: the host if it asked for the link, or
\* else the device.
OpenedOnce(d) ==
  link[d] # "none" /\ (\A i \in DOMAIN rx : rx[i].type = "ConnectionComplete" => rx[i].device # d)
    => (d \in opens <=> link[d] = "ours")

\* One side opens the channels of each link ("We accepted a connection from an
\* authenticated Wiimote. ... it will establish the L2 connections",
\* wiipp.cpp:238).
OneOpener == \A d \in Device : OpenedOnce(d)

\* The same for the devices that do not call while the host connects to them,
\* nor the other way round, as long as no command was lost or refused.  So one
\* side opens the channels also when a device calls after the host's own
\* connection to it has failed: the record of that (connectRequests) is gone.
OneOpenerInOrder == ~dropped => \A d \in Device \ crossed : OpenedOnce(d)

\* The host scans, and takes itself for initialized, only when the controller
\* has executed every command of the bring-up.
ScanWhenConfigured ==
  initialized \/ Waiting("Inquiry") # {} => configured = Setup

\* No link is accepted from a device that is no Wii controller
\* (enqueue_cmd_reject_connection; "Return true if wiimote", wiipp.cpp:208).
NoStranger == \A c \in Waiting("Accept") : c.device \in Wii

\* A scan that the application is told of ends, unless a command is lost or refused.
ScanEnds == scanning ~> ~scanning \/ dropped

\* A balance board that a scan finds gets its channels opened by the host,
\* unless a command is lost, refused or fails or the board calls by itself.
BoardsOpened ==
  \A d \in Boards :
    (\E i \in DOMAIN rx : rx[i].type = "InquiryResult" /\ d \in {rx[i].device, rx[i].second})
      ~> d \in opens \/ dropped \/ d \in failed \cup crossed

\* A device whose link the host asked for gets paired.
PairingEnds == \A d \in Device : d \in opens ~> d \in paired \/ dropped
================================================================================
