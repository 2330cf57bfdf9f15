--------------------------------- MODULE L2cap ---------------------------------
(***************************************************************************)
(* The L2CAP layer of the host: the channels it opens, accepts, configures *)
(* and closes over each connection handle (src/src/esp32_bluetooth.cpp,    *)
(* handleACLEvent and what it calls), with the listener that the Wii       *)
(* object attaches to it (src/lib/wiipp/src/wiipp.cpp) and the two ring    *)
(* buffers between the host and the Bluetooth controller.                  *)
(*                                                                         *)
(* The host runs in one task: step() first hands the packets of txBuffer   *)
(* to the controller while the controller has room, then handles one       *)
(* packet of rxBuffer; each iteration of the first loop (Transmit) and     *)
(* each handler (HandleXxx) is an action, since the controller may refuse  *)
(* packets between any two.  Handlers put packets in txBuffer without      *)
(* waiting, and a packet that does not fit is lost (CHECK_RESULT logs it). *)
(* The controller's task puts packets in rxBuffer and waits for room.      *)
(*                                                                         *)
(* The other side is external: the controller, the radio and the board     *)
(* (LinkXxx, PeerXxx).  A link is reliable and in order (the baseband      *)
(* retransmits); the two directions of it, the rings and different boards  *)
(* interleave freely.                                                      *)
(*                                                                         *)
(* Signalling identifiers, which the host never compares, the mtu and the  *)
(* bytes of data packets are left out.                                     *)
(***************************************************************************)
EXTENDS ConnectionStore, FiniteSets

CONSTANTS PeerCid,   \* channel identifiers a board uses on its side
          PeerPsm,   \* PSMs a board asks for on a link it has made
          Results,   \* results a board gives to a connection request
          ConfResults,  \* results a board gives to a configuration request
          Forms,     \* forms of a board's configuration request
          AppPsm,    \* PSMs of the channels the application closes
          Moves,     \* which optional moves the environment has
          FirstCid,  \* initial value of g_localCid (0x0040 in the code)
          RxCap,     \* bound: packets in rxBuffer (1024 bytes in the code)
          TxCap,     \* bound: room of txBuffer, in the units of Size
          AirCap,    \* bound: packets the controller has yet to deliver
          MaxOpens,  \* bound: links and channels that boards start
          MaxMoves   \* bound: optional moves taken on a link, and on any two

HidControl == 17      \* 0x0011
HidInterrupt == 19    \* 0x0013

\* Results of a connection request: 0, 1, and one that stands for 2 and above;
\* and of a configuration request: accepted, not yet decided, not accepted.
Success == 0
Pending == 1
Refused == 4

\* Forms of a configuration request: no continuation flag and the MTU option
\* alone (length 8), or any other.
MtuOnly == 0
OtherOptions == 1

\* Who made a link.
Ours == 0
Theirs == 1

MoveKinds == {"data", "reconfigure", "peerDisconnect", "appDisconnect", "linkLoss", "relink"}

ASSUME ConstantsAssumption ==
  /\ PeerCid \subseteq Cid \ {0}
  /\ PeerPsm \subseteq Psm /\ AppPsm \subseteq Psm
  /\ Results \subseteq {Success, Pending, Refused}
  /\ ConfResults \subseteq {Success, Pending, Refused}
  /\ Forms \subseteq {MtuOnly, OtherOptions}
  /\ Moves \subseteq MoveKinds
  /\ FirstCid \in Cid
  /\ RxCap \in Nat \ {0} /\ TxCap \in Nat \ {0} /\ AirCap \in Nat \ {0}
  /\ MaxOpens \in Nat /\ MaxMoves \in Nat

VARIABLES
  connections,  \* Impl::connections, elements of the vector
  grown,        \* whether the vector ever held an element
  g_localCid,   \* next channel identifier to hand out
  boards,       \* Wii::connectedBoards, its keys
  rx,           \* rxBuffer
  tx,           \* txBuffer
  dropped,      \* ghost: a packet was lost because txBuffer was full
  crashed,      \* an exception left loop(), or a null pointer was written
  pastEnd,      \* ghost: a handler used storage past the vector's end
  wrapped,      \* ghost: g_localCid has wrapped around
  greeted,      \* ghost: BalanceBoardConnected events not followed by a
                \*        BalanceBoardDisconnected one, per handle
  link,         \* per handle: "none", "ours", "theirs" or "lost"
  since,        \* ghost: g_localCid when the link came up, per handle
  peer,         \* per handle and identifier: the board's end of a channel
  air,          \* per handle: packets the controller has yet to deliver
  opens,        \* links and channels started by boards so far
  moves         \* per handle: optional moves taken so far

store == <<connections, grown, g_localCid, wrapped>>
app   == <<boards, greeted>>
fault == <<crashed, pastEnd>>
links == <<link, since>>
env   == <<links, peer, air, opens, moves>>
out   == <<tx, dropped>>
vars  == <<store, app, fault, rx, out, env>>
--------------------------------------------------------------------------------
(* Packets.  Every packet has the same fields; those its type does not use *)
(* are 0.  arg is the result of a ConnRsp or a ConfRsp, the form of a      *)
(* ConfReq and who made the link of a ConnectionComplete.                  *)
(*                                                                         *)
(* A definition marked "deviation" here and below is a wrong version of    *)
(* the one it precedes.  No specification uses it; it serves to check that *)
(* a property fails when the code is wrong in that way.                    *)

PacketTypes == {"ConnectionComplete", "DisconnectionComplete", "Auth", "Disconnect",
                "ConnReq", "ConnRsp", "ConfReq", "ConfRsp", "DiscReq", "DiscRsp",
                "Reject", "Data"}

Packet == [type: PacketTypes, handle: Handle, psm: Psm, dcid: Cid, scid: Cid, arg: U16]

Make(type, h, psm, dcid, scid, arg) ==
  [type |-> type, handle |-> h, psm |-> psm, dcid |-> dcid, scid |-> scid, arg |-> arg]

ConnectionComplete(h, by)     == Make("ConnectionComplete", h, 0, 0, 0, by)
DisconnectionComplete(h)      == Make("DisconnectionComplete", h, 0, 0, 0, 0)
Auth(h)                       == Make("Auth", h, 0, 0, 0, 0)
Disconnect(h)                 == Make("Disconnect", h, 0, 0, 0, 0)
ConnReq(h, psm, scid)         == Make("ConnReq", h, psm, 0, scid, 0)
ConnRsp(h, dcid, scid, res)   == Make("ConnRsp", h, 0, dcid, scid, res)
ConfReq(h, dcid, form)        == Make("ConfReq", h, 0, dcid, 0, form)
ConfRsp(h, scid, res)         == Make("ConfRsp", h, 0, 0, scid, res)
DiscReq(h, dcid, scid)        == Make("DiscReq", h, 0, dcid, scid, 0)
DiscRspSwapped(h, dcid, scid) == Make("DiscRsp", h, 0, scid, dcid, 0)          \* deviation
DiscRsp(h, dcid, scid)        == Make("DiscRsp", h, 0, dcid, scid, 0)
Reject(h)                     == Make("Reject", h, 0, 0, 0, 0)
Data(h, psm, dcid)            == Make("Data", h, psm, dcid, 0, 0)

HciCommand == {"Auth", "Disconnect"}
Signal == {"ConnReq", "ConnRsp", "ConfReq", "ConfRsp", "DiscReq", "DiscRsp", "Reject"}

\* Room a packet takes in the ring: signalling packets are about twice as
\* long as HCI commands and the board's reports.
Size(m) == IF m.type \in Signal THEN 2 ELSE 1

Packets(q) == {q[i] : i \in DOMAIN q}

Signals(q) == {i \in DOMAIN q : q[i].type \in Signal}
Used(q) == Len(q) + Cardinality(Signals(q))

\* RingBuffer::allocate without waiting: the packet is lost when it does not
\* fit, and a later shorter one may still fit.
Enqueue(q, m) == IF Used(q) + Size(m) <= TxCap THEN Append(q, m) ELSE q

Enqueue2(q, m1, m2)     == Enqueue(Enqueue(q, m1), m2)
Enqueue3(q, m1, m2, m3) == Enqueue(Enqueue2(q, m1, m2), m3)

\* txBuffer becomes q, after n packets were to be put in it.
Sends(q, n) ==
  /\ tx' = q
  /\ dropped' = (dropped \/ Len(q) < Len(tx) + n)
--------------------------------------------------------------------------------
(* Steps shared by the host's handlers.                                    *)

\* step() reads the packet at the head of rxBuffer and dispatches on it.
Receives(type) ==
  /\ ~crashed
  /\ rx # <<>>
  /\ Head(rx).type = type
  /\ rx' = Tail(rx)
  /\ UNCHANGED env

Local(h, cid) == FindLocal(connections, grown, h, cid)
ByPsm(h, psm) == FindPsm(connections, grown, h, psm)

\* Using the pointer p, valid or not.
Uses(p) == pastEnd' = (pastEnd \/ p.at = PastEnd)

\* g_localCid++, n times: a 16-bit counter.
Wraps(n)    == g_localCid + n > MaxU16
AfterCid(n) == IF Wraps(n) THEN g_localCid + n - MaxU16 - 1 ELSE g_localCid + n
TakeCidsNoIncrement(n) == UNCHANGED <<g_localCid, wrapped>>   \* deviation
TakeCids(n) == g_localCid' = AfterCid(n) /\ wrapped' = (wrapped \/ Wraps(n))

\* deviation: the flags start set.
NewConnectionConfigured(h, cid, psm, remoteCid) ==
  [handle |-> h, localCid |-> cid, psm |-> psm, remoteCid |-> remoteCid,
   localConfigured |-> TRUE, remoteConfigured |-> TRUE]

\* deviation: the identifiers of the two sides are swapped.
NewConnectionSwapped(h, cid, psm, remoteCid) ==
  [handle |-> h, localCid |-> remoteCid, psm |-> psm, remoteCid |-> cid,
   localConfigured |-> FALSE, remoteConfigured |-> FALSE]

\* deviation: the counter is read again after its increment.
NewConnectionNextCid(h, cid, psm, remoteCid) ==
  [handle |-> h, localCid |-> cid + 1, psm |-> psm, remoteCid |-> remoteCid,
   localConfigured |-> FALSE, remoteConfigured |-> FALSE]

NewConnection(h, cid, psm, remoteCid) ==
  [handle |-> h, localCid |-> cid, psm |-> psm, remoteCid |-> remoteCid,
   localConfigured |-> FALSE, remoteConfigured |-> FALSE]

\* sendL2Data: the packets it may enqueue for handle h and the given psm,
\* each with the pointer it read the remote identifier through.
L2Data(h, psm) ==
  {[uses |-> p, packet |-> Data(h, psm, p.to.remoteCid)] : p \in ByPsm(h, psm)}

\* The Wii listener on ACLConnectionEstablished{h, psm}, called in a handler
\* that used the pointer p and has put n packets in txBuffer, which is at
\* q.  emplace keeps a board that is there.
Established(h, psm, p, q, n) ==
  IF psm # HidInterrupt
    THEN Uses(p) /\ Sends(q, n) /\ UNCHANGED app
    ELSE /\ boards' = boards \cup {h}
         /\ greeted' = [greeted EXCEPT ![h] = @ + 1]
         /\ \/ IsNull(ByPsm(h, HidInterrupt)) /\ Uses(p) /\ Sends(q, n)
            \/ \E d \in L2Data(h, HidInterrupt) :       \* setLeds
                 /\ pastEnd' = (pastEnd \/ p.at = PastEnd \/ d.uses.at = PastEnd)
                 /\ Sends(Enqueue(q, d.packet), n + 1)
--------------------------------------------------------------------------------
(* The host's handlers, one per packet type.                               *)

\* A link is up.  On one the host asked for, the Wii listener asks for
\* authentication and for both HID channels; on one it accepted it waits for
\* the board to open them.
HandleHCIConnectionComplete ==
  /\ Receives("ConnectionComplete")
  /\ LET m == Head(rx)
         control == NewConnection(m.handle, g_localCid, HidControl, 0)
         interrupt == NewConnection(m.handle, AfterCid(1), HidInterrupt, 0)
     IN  \/ m.arg = Theirs /\ UNCHANGED <<store, out>>
         \/ /\ m.arg = Ours
            /\ Sends(Enqueue3(tx, Auth(m.handle),
                              ConnReq(m.handle, HidControl, control.localCid),
                              ConnReq(m.handle, HidInterrupt, interrupt.localCid)), 3)
            /\ connections' = Emplace(Emplace(connections, control), interrupt)
            /\ grown' = TRUE
            /\ TakeCids(2)
  /\ UNCHANGED <<app, fault>>

\* A link is gone: the listener logs it.
HandleHCIDisconnect ==
  /\ Receives("DisconnectionComplete")
  /\ UNCHANGED <<store, app, fault, out>>

AcceptsControl(psm) == psm = HidControl   \* deviation

\* The listener's answer to a board's connection request.
Accepts(psm) == psm \in {HidControl, HidInterrupt}

\* A refused request takes a channel identifier too.
HandleL2ConnectionRequest ==
  /\ Receives("ConnReq")
  /\ TakeCids(1)
  /\ LET m == Head(rx) IN
     \/ /\ Accepts(m.psm)
        /\ connections' = Emplace(connections,
                                  NewConnection(m.handle, g_localCid, m.psm, m.scid))
        /\ grown' = TRUE
        /\ Sends(Enqueue2(tx, ConnRsp(m.handle, g_localCid, m.scid, Success),
                          ConfReq(m.handle, m.scid, MtuOnly)), 2)
     \/ /\ ~Accepts(m.psm)
        /\ Sends(Enqueue(tx, ConnRsp(m.handle, g_localCid, m.scid, Refused)), 1)
        /\ UNCHANGED <<connections, grown>>
  /\ UNCHANGED <<app, fault>>

\* Success starts the host's side of the configuration; the listener ignores
\* a failure; on Pending the host waits for another response.
HandleL2ConnectionResponse ==
  /\ Receives("ConnRsp")
  /\ LET m == Head(rx)
         found == Local(m.handle, m.scid)
     IN  \/ IsNull(found) /\ UNCHANGED <<connections, out, pastEnd>>
         \/ \E p \in found :
              /\ Uses(p)
              /\ \/ /\ m.arg = Success
                    /\ connections' = Assign(connections, p, [p.to EXCEPT !.remoteCid = m.dcid])
                    /\ Sends(Enqueue(tx, ConfReq(m.handle, m.dcid, MtuOnly)), 1)
                 \/ /\ m.arg >= 2
                    /\ connections' = Remove(connections, p)
                    /\ UNCHANGED out
                 \/ m.arg = Pending /\ UNCHANGED <<connections, out>>
  /\ UNCHANGED <<grown, g_localCid, wrapped, app, crashed>>

\* Only a request without continuation that has the MTU option alone is
\* answered.  The answer may be lost in a full ring; the channel counts as
\* configured all the same.
HandleL2ConfigurationRequest ==
  /\ Receives("ConfReq")
  /\ LET m == Head(rx)
         found == Local(m.handle, m.dcid)
     IN  \/ m.arg # MtuOnly /\ UNCHANGED <<connections, out, app, pastEnd>>
         \/ m.arg = MtuOnly /\ IsNull(found) /\ UNCHANGED <<connections, out, app, pastEnd>>
         \/ /\ m.arg = MtuOnly
            /\ \E p \in found :
                 LET q == Enqueue(tx, ConfRsp(m.handle, p.to.remoteCid, Success)) IN
                 /\ connections' = Assign(connections, p, [p.to EXCEPT !.remoteConfigured = TRUE])
                 /\ IF p.to.localConfigured
                      THEN Established(m.handle, p.to.psm, p, q, 1)
                      ELSE Uses(p) /\ Sends(q, 1) /\ UNCHANGED app
  /\ UNCHANGED <<grown, g_localCid, wrapped, crashed>>

\* deviation: only a configuration request completes the configuration.
ConfigurationResponseIncomplete ==
  /\ Receives("ConfRsp")
  /\ \E p \in Local(Head(rx).handle, Head(rx).scid) :
       connections' = Assign(connections, p, [p.to EXCEPT !.localConfigured = TRUE])
  /\ UNCHANGED <<grown, g_localCid, wrapped, app, fault, out>>

\* The result of the response is not read, and the channel is written before
\* the pointer is tested.
HandleL2ConfigurationResponse ==
  /\ Receives("ConfRsp")
  /\ LET m == Head(rx)
         found == Local(m.handle, m.scid)
     IN  \/ IsNull(found) /\ crashed' = TRUE /\ UNCHANGED <<connections, out, app, pastEnd>>
         \/ \E p \in found :
              /\ connections' = Assign(connections, p, [p.to EXCEPT !.localConfigured = TRUE])
              /\ IF p.to.remoteConfigured
                   THEN Established(m.handle, p.to.psm, p, tx, 0)
                   ELSE Uses(p) /\ UNCHANGED <<out, app>>
              /\ UNCHANGED crashed
  /\ UNCHANGED <<grown, g_localCid, wrapped>>

\* The board closes a channel: answered and removed, the listener is not told.
HandleL2DisconnectRequest ==
  /\ Receives("DiscReq")
  /\ LET m == Head(rx)
         found == Local(m.handle, m.dcid)
     IN  \/ IsNull(found) /\ UNCHANGED <<connections, out, pastEnd>>
         \/ \E p \in found :
              /\ Uses(p)
              /\ \/ /\ p.to.remoteCid = m.scid
                    /\ Sends(Enqueue(tx, DiscRsp(m.handle, p.to.localCid, p.to.remoteCid)), 1)
                    /\ connections' = Remove(connections, p)
                 \/ p.to.remoteCid # m.scid /\ UNCHANGED <<connections, out>>
  /\ UNCHANGED <<grown, g_localCid, wrapped, app, crashed>>

\* The Wii listener on ACLDisconnected{h, psm}: for the interrupt channel it
\* forgets the board and drops the link.
Disconnected(h, psm) ==
  \/ /\ psm = HidInterrupt
     /\ boards' = boards \ {h}
     /\ greeted' = [greeted EXCEPT ![h] = 0]
     /\ Sends(Enqueue(tx, Disconnect(h)), 1)
  \/ psm # HidInterrupt /\ UNCHANGED <<out, app>>

\* The board has closed a channel the host asked it to.
HandleL2DisconnectResponse ==
  /\ Receives("DiscRsp")
  /\ LET m == Head(rx)
         found == Local(m.handle, m.scid)
     IN  \/ IsNull(found) /\ UNCHANGED <<connections, out, app, pastEnd>>
         \/ \E p \in found :
              /\ Uses(p)
              /\ connections' = Remove(connections, p)
              /\ Disconnected(m.handle, p.to.psm)
  /\ UNCHANGED <<grown, g_localCid, wrapped, crashed>>

\* Every packet whose first byte is no code above is data for the board on
\* that handle, whatever channel it came by: connectedBoards.at throws when
\* there is none.  A report may make the board object write or read memory
\* or set its reporting mode, which sends one packet.
HandleACLData ==
  /\ \/ Receives("Data")
     \/ Receives("Reject")
  /\ LET m == Head(rx) IN
     \/ m.handle \notin boards /\ crashed' = TRUE /\ UNCHANGED <<out, pastEnd>>
     \/ m.handle \in boards /\ UNCHANGED <<out, fault>>
     \/ /\ m.handle \in boards
        /\ m.type = "Data"
        /\ \E d \in L2Data(m.handle, HidInterrupt) :
             /\ Uses(d.uses)
             /\ Sends(Enqueue(tx, d.packet), 1)
        /\ UNCHANGED crashed
  /\ UNCHANGED <<store, app>>

\* One iteration of the sending loop of step(): the controller takes a packet
\* for a live link, and drops one for a handle it does not know.
Transmit ==
  /\ ~crashed
  /\ tx # <<>>
  /\ Head(tx).type # "Disconnect"
  /\ LET m == Head(tx) IN
     \/ /\ m.type \notin HciCommand
        /\ link[m.handle] \in {"ours", "theirs"}
        /\ Len(air[m.handle]) < AirCap
        /\ air' = [air EXCEPT ![m.handle] = Append(@, m)]
     \/ (m.type \in HciCommand \/ link[m.handle] \notin {"ours", "theirs"}) /\ UNCHANGED air
  /\ tx' = Tail(tx)
  /\ UNCHANGED <<store, app, fault, dropped, rx, links, peer, opens, moves>>

\* An optional move on the link h, of the given kind.
Moving(h, kind) ==
  /\ kind \in Moves /\ moves[h] < MaxMoves
  /\ \A g \in Handle \ {h} : moves[g] + moves[h] < MaxMoves
  /\ moves' = [moves EXCEPT ![h] = @ + 1]

\* The application asks for a channel of a board it was told of to be closed
\* (l2cap_disconnect).  The channel stays in the store until the response.
AppDisconnect(h, psm) ==
  /\ Moving(h, "appDisconnect")
  /\ ~crashed
  /\ h \in boards
  /\ \/ IsNull(ByPsm(h, psm)) /\ UNCHANGED <<out, pastEnd>>
     \/ \E p \in ByPsm(h, psm) :
          /\ Uses(p)
          /\ Sends(Enqueue(tx, DiscReq(h, p.to.remoteCid, p.to.localCid)), 1)
  /\ UNCHANGED <<store, app, crashed, rx, links, peer, air, opens>>
--------------------------------------------------------------------------------
(* The controller, the radio and the boards (external).                    *)

\* A board's end of a channel.  rspSent: the board has answered the host's
\* configuration request; verdict: the result it gave last.
EndStates == {"closed", "pending", "waiting", "config", "closing"}
End == [state: EndStates, psm: Psm, hostCid: Cid,
        reqSent: BOOLEAN, rspSent: BOOLEAN, rspGot: BOOLEAN,
        verdict: {Success, Pending, Refused}]

NewEnd(state, psm, hostCid) ==
  [state |-> state, psm |-> psm, hostCid |-> hostCid,
   reqSent |-> FALSE, rspSent |-> FALSE, rspGot |-> FALSE, verdict |-> Pending]

NoEnds == [c \in PeerCid |-> NewEnd("closed", 0, 0)]

Up(h) == link[h] \in {"ours", "theirs"}
EndAt(h, c) == IF c \in PeerCid THEN peer[h][c] ELSE NewEnd("closed", 0, 0)
IsOpen(e) == e.state = "config" /\ e.rspSent /\ e.verdict = Success /\ e.rspGot

DeliversNoWait(m) == rx' = Append(rx, m)   \* deviation

\* The controller's task waits for room in rxBuffer.
Delivers(m) == Len(rx) < RxCap /\ rx' = Append(rx, m)

SetEnd(h, c, e) == peer' = [peer EXCEPT ![h][c] = e]

host == <<store, app, fault, out>>

\* A handle is used again.  The host accepts or makes the new link after it
\* has handled the loss of the old one, by a command that comes after what it
\* has sent on that (Discovery): nothing of the old link is on its way.
MayRelink(h) ==
  /\ link[h] = "lost" /\ "relink" \in Moves
  /\ \A m \in Packets(rx) \cup Packets(tx) : m.handle # h

\* The controller completes a connection the host asked for (by = Ours) or
\* accepted.
LinkUp(h, by) ==
  /\ opens < MaxOpens
  /\ link[h] = "none" \/ MayRelink(h)
  /\ Delivers(ConnectionComplete(h, by))
  /\ link' = [link EXCEPT ![h] = IF by = Ours THEN "ours" ELSE "theirs"]
  /\ since' = [since EXCEPT ![h] = g_localCid]
  /\ peer' = [peer EXCEPT ![h] = NoEnds]
  /\ opens' = opens + 1
  /\ UNCHANGED <<host, air, moves>>

LinkDown(h) ==
  /\ Delivers(DisconnectionComplete(h))
  /\ link' = [link EXCEPT ![h] = "lost"] /\ UNCHANGED since
  /\ air' = [air EXCEPT ![h] = <<>>]
  /\ UNCHANGED <<peer, opens>>

\* Supervision timeout: the board went out of range or was switched off.
LinkLoss(h) ==
  /\ Moving(h, "linkLoss")
  /\ Up(h)
  /\ LinkDown(h)
  /\ UNCHANGED host

\* The controller executes the host's HCI_Disconnect.
ControllerDisconnects ==
  /\ ~crashed
  /\ tx # <<>>
  /\ LET m == Head(tx) IN
     /\ m.type = "Disconnect"
     /\ \/ Up(m.handle) /\ LinkDown(m.handle)
        \/ ~Up(m.handle) /\ UNCHANGED <<rx, links, peer, air, opens>>
  /\ tx' = Tail(tx)
  /\ UNCHANGED <<store, app, fault, dropped, moves>>

\* On a link it made, a board opens each channel it wants.
PeerConnect(h, c, psm) ==
  /\ opens < MaxOpens
  /\ link[h] = "theirs"
  /\ psm \in PeerPsm
  /\ peer[h][c].state = "closed"
  /\ \A d \in PeerCid : peer[h][d].psm = psm => peer[h][d].state = "closed"
  /\ Delivers(ConnReq(h, psm, c))
  /\ SetEnd(h, c, NewEnd("waiting", psm, 0))
  /\ opens' = opens + 1
  /\ UNCHANGED <<host, links, air, moves>>

\* The board receives the packet at the head of its link.
PeerReceives(h, type) ==
  /\ Up(h)
  /\ air[h] # <<>>
  /\ Head(air[h]).type = type
  /\ air' = [air EXCEPT ![h] = Tail(@)]
  /\ UNCHANGED <<host, links, opens, moves>>

PeerOnConnReq(h, c, result) ==
  /\ PeerReceives(h, "ConnReq")
  /\ peer[h][c].state = "closed"
  /\ LET m == Head(air[h]) IN
     /\ Delivers(ConnRsp(h, IF result = Refused THEN 0 ELSE c, m.scid, result))
     /\ \/ result = Success /\ SetEnd(h, c, NewEnd("config", m.psm, m.scid))
        \/ result = Pending /\ SetEnd(h, c, NewEnd("pending", m.psm, m.scid))
        \/ result = Refused /\ UNCHANGED peer

\* After a pending response comes a final one.
PeerDecides(h, c, result) ==
  /\ Up(h)
  /\ peer[h][c].state = "pending"
  /\ LET e == peer[h][c] IN
     /\ Delivers(ConnRsp(h, IF result = Refused THEN 0 ELSE c, e.hostCid, result))
     /\ \/ result = Success /\ SetEnd(h, c, [e EXCEPT !.state = "config"])
        \/ result = Refused /\ SetEnd(h, c, [e EXCEPT !.state = "closed"])
  /\ UNCHANGED <<host, links, air, opens, moves>>

PeerOnConnRsp(h) ==
  /\ PeerReceives(h, "ConnRsp")
  /\ LET m == Head(air[h])
         e == EndAt(h, m.scid)
     IN  \/ /\ e.state = "waiting" /\ m.arg = Success
            /\ SetEnd(h, m.scid, [e EXCEPT !.state = "config", !.hostCid = m.dcid])
         \/ /\ e.state = "waiting" /\ m.arg = Refused
            /\ SetEnd(h, m.scid, [e EXCEPT !.state = "closed"])
         \/ e.state # "waiting" /\ UNCHANGED peer
  /\ UNCHANGED rx

\* The board's first configuration request for a channel.
PeerConfigure(h, c, form) ==
  /\ Up(h)
  /\ LET e == peer[h][c] IN
     /\ e.state = "config" /\ ~e.reqSent
     /\ Delivers(ConfReq(h, e.hostCid, form))
     /\ SetEnd(h, c, [e EXCEPT !.reqSent = TRUE])
  /\ UNCHANGED <<host, links, air, opens, moves>>

\* A later one: after a request that the host did not answer, or did not
\* answer in time, or to configure an open channel again.
PeerReconfigure(h, c, form) ==
  /\ Moving(h, "reconfigure")
  /\ Up(h)
  /\ peer[h][c].state = "config" /\ peer[h][c].reqSent
  /\ Delivers(ConfReq(h, peer[h][c].hostCid, form))
  /\ UNCHANGED <<host, links, peer, air, opens>>

\* A board that is closing a channel, or has closed it, drops what still
\* comes for it.
PeerOnConfReq(h, result) ==
  /\ PeerReceives(h, "ConfReq")
  /\ LET m == Head(air[h])
         e == EndAt(h, m.dcid)
     IN  \/ /\ e.state = "config"
            /\ Delivers(ConfRsp(h, e.hostCid, result))
            /\ SetEnd(h, m.dcid, [e EXCEPT !.rspSent = TRUE, !.verdict = result])
         \/ e.state # "config" /\ UNCHANGED <<rx, peer>>

\* After a pending response to a configuration request comes a final one.
PeerConcludes(h, c, result) ==
  /\ Moving(h, "reconfigure")
  /\ Up(h)
  /\ LET e == peer[h][c] IN
     /\ e.state = "config" /\ e.rspSent /\ e.verdict = Pending
     /\ result # Pending
     /\ Delivers(ConfRsp(h, e.hostCid, result))
     /\ SetEnd(h, c, [e EXCEPT !.verdict = result])
  /\ UNCHANGED <<host, links, air, opens>>

PeerOnConfRsp(h) ==
  /\ PeerReceives(h, "ConfRsp")
  /\ LET m == Head(air[h])
         e == EndAt(h, m.scid)
     IN  \/ e.state = "config" /\ SetEnd(h, m.scid, [e EXCEPT !.rspGot = TRUE])
         \/ e.state # "config" /\ UNCHANGED peer
  /\ UNCHANGED rx

PeerDisconnect(h, c) ==
  /\ Moving(h, "peerDisconnect")
  /\ Up(h)
  /\ LET e == peer[h][c] IN
     /\ e.state = "config"
     /\ Delivers(DiscReq(h, e.hostCid, c))
     /\ SetEnd(h, c, [e EXCEPT !.state = "closing"])
  /\ UNCHANGED <<host, links, air, opens>>

\* Answered also while closing; a request for no channel of the board's is
\* rejected.
PeerOnDiscReq(h) ==
  /\ PeerReceives(h, "DiscReq")
  /\ LET m == Head(air[h])
         e == EndAt(h, m.dcid)
     IN  \/ /\ e.state # "closed"
            /\ Delivers(DiscRsp(h, m.dcid, m.scid))
            /\ SetEnd(h, m.dcid, [e EXCEPT !.state = "closed"])
         \/ e.state = "closed" /\ Delivers(Reject(h)) /\ UNCHANGED peer

PeerOnDiscRsp(h) ==
  /\ PeerReceives(h, "DiscRsp")
  /\ LET m == Head(air[h])
         e == EndAt(h, m.scid)
     IN  \/ e.state = "closing" /\ SetEnd(h, m.scid, [e EXCEPT !.state = "closed"])
         \/ e.state # "closing" /\ UNCHANGED peer
  /\ UNCHANGED rx

PeerOnData(h) ==
  /\ PeerReceives(h, "Data")
  /\ UNCHANGED <<rx, peer>>

\* A board sends reports once its interrupt channel is open.
PeerData(h, c) ==
  /\ "data" \in Moves
  /\ Up(h)
  /\ IsOpen(peer[h][c])
  /\ peer[h][c].psm = HidInterrupt
  /\ Delivers(Data(h, HidInterrupt, peer[h][c].hostCid))
  /\ UNCHANGED <<host, links, peer, air, opens, moves>>
--------------------------------------------------------------------------------
Init ==
  /\ connections = <<>> /\ grown = FALSE
  /\ g_localCid = FirstCid /\ wrapped = FALSE
  /\ boards = {} /\ greeted = [h \in Handle |-> 0]
  /\ dropped = FALSE /\ crashed = FALSE /\ pastEnd = FALSE
  /\ rx = <<>> /\ tx = <<>>
  /\ link = [h \in Handle |-> "none"] /\ since = [h \in Handle |-> 0]
  /\ peer = [h \in Handle |-> NoEnds]
  /\ air = [h \in Handle |-> <<>>]
  /\ opens = 0 /\ moves = [h \in Handle |-> 0]

Handlers ==
  \/ HandleHCIConnectionComplete
  \/ HandleHCIDisconnect
  \/ HandleL2ConnectionRequest
  \/ HandleL2ConnectionResponse
  \/ HandleL2ConfigurationRequest
  \/ HandleL2ConfigurationResponse
  \/ HandleL2DisconnectRequest
  \/ HandleL2DisconnectResponse
  \/ HandleACLData

PeerReply(h) ==
  \/ \E c \in PeerCid, result \in Results : PeerOnConnReq(h, c, result)
  \/ PeerOnConnRsp(h)
  \/ \E result \in ConfResults : PeerOnConfReq(h, result)
  \/ PeerOnConfRsp(h)
  \/ PeerOnDiscReq(h)
  \/ PeerOnDiscRsp(h)
  \/ PeerOnData(h)

Next ==
  \/ Handlers
  \/ Transmit
  \/ ControllerDisconnects
  \/ \E h \in Handle :
       \/ \E psm \in AppPsm : AppDisconnect(h, psm)
       \/ \E by \in {Ours, Theirs} : LinkUp(h, by)
       \/ LinkLoss(h)
       \/ \E c \in PeerCid, psm \in PeerPsm : PeerConnect(h, c, psm)
       \/ \E c \in PeerCid : PeerDisconnect(h, c)
       \/ \E c \in PeerCid : PeerData(h, c)
       \/ \E c \in PeerCid, result \in Results : PeerDecides(h, c, result)
       \/ \E c \in PeerCid, form \in Forms : PeerConfigure(h, c, form)
       \/ \E c \in PeerCid, form \in Forms : PeerReconfigure(h, c, form)
       \/ \E c \in PeerCid, result \in ConfResults : PeerConcludes(h, c, result)
       \/ PeerReply(h)

Spec == Init /\ [][Next]_vars

\* loop() calls step() for ever, and the controller takes each packet in the
\* end.  The board answers what it receives, goes on with what it has begun
\* and, on a link it made, opens its channels; the controller's task serves
\* it again and again while other packets compete for rxBuffer, hence strong
\* fairness.  Links coming up or getting lost, data and the optional moves
\* have none.
Fairness ==
  /\ WF_vars(Handlers)
  /\ WF_vars(Transmit \/ ControllerDisconnects)
  /\ \A h \in Handle :
       /\ SF_vars(PeerReply(h))
       /\ \A c \in PeerCid :
            /\ SF_vars(\E result \in Results : PeerDecides(h, c, result))
            /\ SF_vars(\E form \in Forms : PeerConfigure(h, c, form))
       /\ \A psm \in PeerPsm : SF_vars(\E c \in PeerCid : PeerConnect(h, c, psm))

FairSpec == Spec /\ Fairness
--------------------------------------------------------------------------------
(* Properties.                                                             *)

\* Every variable has its type; what the controller's task fills keeps to its
\* bounds.
TypeOK ==
  /\ connections \in Seq(Connection) /\ grown \in BOOLEAN
  /\ g_localCid \in Cid /\ wrapped \in BOOLEAN
  /\ boards \subseteq Handle /\ greeted \in [Handle -> Nat]
  /\ dropped \in BOOLEAN /\ crashed \in BOOLEAN /\ pastEnd \in BOOLEAN
  /\ rx \in Seq(Packet) /\ Len(rx) <= RxCap
  /\ tx \in Seq(Packet)
  /\ link \in [Handle -> {"none", "ours", "theirs", "lost"}] /\ since \in [Handle -> Cid]
  /\ peer \in [Handle -> [PeerCid -> End]]
  /\ air \in [Handle -> Seq(Packet)] /\ \A h \in Handle : Len(air[h]) <= AirCap
  /\ opens \in Nat /\ moves \in [Handle -> Nat]

Channels == {connections[i] : i \in DOMAIN connections}
ToBoard(h) == {m \in Packets(tx) : m.handle = h} \cup Packets(air[h])

\* Until the 16-bit counter g_localCid wraps around, no two channels in the
\* store have the same local identifier, on whatever links they are: what
\* makes findLocal right although it ignores the handle.
UniqueLocalCid ==
  ~wrapped => \A i, j \in DOMAIN connections :
                 connections[i].localCid = connections[j].localCid => i = j

\* The channel is one of the present link of its handle, not of one before.
Present(c) == Up(c.handle) /\ c.localCid >= since[c.handle]

\* The board has closed the channel at the host's request, and its answer is
\* on its way.
Closed(c) == DiscRsp(c.handle, c.remoteCid, c.localCid) \in Packets(rx)

\* The two sides of a live link agree on a channel whose remote identifier
\* the host knows: the board's end that it names is of the same PSM, and has
\* the host's identifier for it unless the answer with it is on its way; or
\* the board has closed it at the host's request.
CidAgreement ==
  \A c \in Channels : Present(c) /\ c.remoteCid # 0 /\ ~Closed(c) =>
    LET e == EndAt(c.handle, c.remoteCid) IN
    /\ e.psm = c.psm
    /\ e.hostCid = c.localCid \/ e.state = "waiting"

\* As long as no packet was lost in txBuffer, the board has sent its request
\* for a channel that is configured on both sides for the host and has answered
\* the host's; it has an answer to its own too, or one is on its way, or it is
\* closing the channel or has closed it at the host's request.  What the board
\* has answered is left open: the host takes a refusal for an acceptance, and
\* an answer that is not final for a final one.
ConfigExchanged ==
  ~dropped =>
    \A c \in Channels : Present(c) /\ c.localConfigured /\ c.remoteConfigured =>
    LET e == EndAt(c.handle, c.remoteCid) IN
    \/ e.state = "closing"
    \/ Closed(c)
    \/ /\ e.state = "config" /\ e.rspSent /\ e.reqSent
       /\ e.rspGot \/ ConfRsp(c.handle, c.remoteCid, Success) \in ToBoard(c.handle)

\* Data on its way to a board is addressed to an end that the board has not
\* closed and uses for the PSM that the sender named (l2send_data's handle and
\* psm), unless a channel of an earlier link is still in the store, which
\* findPsm finds first.
RightChannel ==
  \A h \in Handle : Up(h) /\ (\A c \in Channels : c.handle = h => Present(c)) =>
    \A m \in ToBoard(h) : m.type = "Data" =>
      /\ EndAt(h, m.dcid).psm = m.psm
      /\ EndAt(h, m.dcid).state \in {"config", "closing"}

\* No report of a board that waits for its interrupt channel to be open, and no
\* command reject, reaches connectedBoards.at before the board is in
\* connectedBoards, and no null pointer is written, whatever the boards answer
\* and repeat.  (Another signalling packet, as an echo or information request,
\* does reach it at any time; the boards modelled send none.)
NoUncaught == ~crashed

\* No handler uses the pointer of a lookup that missed.
NoPastEnd == ~pastEnd

\* The application is told of a board once and, before it is told that the
\* board is gone, at most once more for each time that the board repeated a
\* configuration request or response, that a channel was closed or that the
\* link was lost, however the packets of two channels and two directions
\* interleave: any of these does make the two handlers dispatch
\* ACLConnectionEstablished again.
ConnectedOnce == \A h \in Handle : greeted[h] <= 1 + moves[h]

\* A channel leaves the store only when a packet of its own link is handled
\* that answers or ends it.
OthersUndisturbed ==
  [][\A c \in Channels :
       c.localCid \notin {d.localCid : d \in Channels'} =>
         /\ rx # <<>>
         /\ Head(rx).handle = c.handle
         /\ c.localCid \in {Head(rx).dcid, Head(rx).scid}]_vars

\* An identifier that a channel in the store had, or that was handed out for
\* none, never names a later channel: a packet that comes late, of an earlier
\* channel or link, cannot be taken for one of a channel opened since.
NeverReused ==
  [][~wrapped' => \A c \in Channels' :
       c.localCid < g_localCid => c.localCid \in {d.localCid : d \in Channels}]_vars

\* Channels live as ChannelLifecycle says, as long as g_localCid has not
\* wrapped around: identifiers are not used again, a channel is configured only
\* once both identifiers are known, channels end one by one, and a board is in
\* connectedBoards from the step that completes its interrupt channel on.
Lifecycle == INSTANCE ChannelLifecycle WITH
               Interrupt <- HidInterrupt,
               used      <- FirstCid .. g_localCid - 1,
               live      <- Channels

ImplementsLifecycle == Lifecycle!Spec

\* Both HID channels of a link end up configured, whoever made the link,
\* unless the link or a packet is lost or the board closes a channel (the
\* board accepts them and uses MTU-only configuration requests).
ChannelsOpen ==
  \A h \in Handle, psm \in {HidControl, HidInterrupt} :
    Up(h) ~> \/ dropped \/ ~Up(h) \/ moves[h] > 0
             \/ \E c \in Channels : /\ c.handle = h /\ c.psm = psm
                                    /\ c.localConfigured /\ c.remoteConfigured

\* A channel that a board closes gets closed on both sides, unless the link
\* or a packet is lost.
PeerCloses ==
  \A h \in Handle, c \in PeerCid :
    Up(h) /\ peer[h][c].state = "closing" ~>
      \/ dropped \/ ~Up(h)
      \/ /\ peer[h][c].state # "closing"
         /\ peer[h][c].hostCid \notin {d.localCid : d \in Channels}

\* A board whose interrupt channel the application closes leaves
\* connectedBoards and its link is dropped, unless a packet is lost.
DisconnectEnds ==
  \A h \in Handle :
    (\E m \in ToBoard(h), c \in Channels :
        m.type = "DiscReq" /\ m.scid = c.localCid /\ c.psm = HidInterrupt)
      ~> dropped \/ (h \notin boards /\ ~Up(h))
================================================================================
