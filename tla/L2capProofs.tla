------------------------------ MODULE L2capProofs ------------------------------
(* Theorems about L2cap, for every value of its constants.                 *)
EXTENDS L2cap, TLAPS, SequenceTheorems

\* Hides the 16-bit bound behind what proofs need of it.
LEMMA MaxType == MaxU16 \in Nat /\ MaxU16 >= 19
  BY DEF MaxU16

\* The numbers that packets carry fit their fields.
LEMMA Numbers == /\ {0, 1, 4, 17, 19} \subseteq U16
                 /\ {Ours, Theirs, Success, Pending, Refused, MtuOnly, OtherOptions,
                     HidControl, HidInterrupt} \subseteq U16
                 /\ 0 \in Psm /\ 0 \in Cid /\ HidControl \in Psm /\ HidInterrupt \in Psm
  BY MaxType DEF Psm, Cid, U16, Ours, Theirs, Success, Pending, Refused, MtuOnly, OtherOptions,
         HidControl, HidInterrupt

\* Every constructor of a packet makes a packet.
LEMMA PacketType ==
  ASSUME NEW h \in Handle, NEW psm \in Psm, NEW d \in Cid, NEW s \in Cid, NEW a \in U16
  PROVE  /\ ConnectionComplete(h, a) \in Packet
         /\ DisconnectionComplete(h) \in Packet
         /\ Auth(h) \in Packet
         /\ Disconnect(h) \in Packet
         /\ ConnReq(h, psm, s) \in Packet
         /\ ConnRsp(h, d, s, a) \in Packet
         /\ ConfReq(h, d, a) \in Packet
         /\ ConfRsp(h, s, a) \in Packet
         /\ DiscReq(h, d, s) \in Packet
         /\ DiscRsp(h, d, s) \in Packet
         /\ Reject(h) \in Packet
         /\ Data(h, psm, d) \in Packet
  BY Numbers DEF ConnectionComplete, DisconnectionComplete, Auth, Disconnect, ConnReq, ConnRsp,
     ConfReq, ConfRsp, DiscReq, DiscRsp, Reject, Data, Make, Packet, PacketTypes, Psm, Cid

\* A ring of packets stays one, whether or not the new packet fits.
LEMMA EnqueueType ==
  ASSUME NEW q \in Seq(Packet), NEW m \in Packet
  PROVE  Enqueue(q, m) \in Seq(Packet)
  BY DEF Enqueue

\* A pointer reads a channel and is past the end or inside the vector.
LEMMA PointersType ==
  ASSUME NEW conns \in Seq(Connection), NEW g, NEW hits \in SUBSET DOMAIN conns,
         NEW p \in Pointers(conns, g, hits)
  PROVE  /\ p.to \in Connection
         /\ p.at = PastEnd \/ (p.at \in 1 .. Len(conns) /\ p.to = conns[p.at])
  BY JunkAssumption DEF Pointers, PastEnd

\* A write through a pointer, past the end or not, keeps a vector of channels.
LEMMA AssignType ==
  ASSUME NEW conns \in Seq(Connection), NEW p, NEW c \in Connection,
         p.at = PastEnd \/ p.at \in 1 .. Len(conns)
  PROVE  Assign(conns, p, c) \in Seq(Connection)
  BY DEF Assign

\* So does removing the element that a pointer points at.
LEMMA RemoveType ==
  ASSUME NEW conns \in Seq(Connection), NEW p,
         p.at = PastEnd \/ p.at \in 1 .. Len(conns)
  PROVE  Remove(conns, p) \in Seq(Connection)
  BY DEF Remove

\* findLocal and findPsm return such pointers.
LEMMA FoundType ==
  ASSUME connections \in Seq(Connection), NEW h, NEW x,
         NEW p \in Local(h, x) \cup ByPsm(h, x)
  PROVE  /\ p.to \in Connection
         /\ p.at = PastEnd \/ (p.at \in 1 .. Len(connections) /\ p.to = connections[p.at])
  <1>1. CASE p \in Local(h, x)
    <2>. DEFINE hits == {i \in DOMAIN connections : h = h /\ connections[i].localCid = x}
    <2>1. p \in Pointers(connections, grown, hits)
      BY <1>1 DEF Local, FindLocal
    <2>. QED  BY <2>1, PointersType
  <1>2. CASE p \in ByPsm(h, x)
    <2>. DEFINE hits == {i \in DOMAIN connections : h = h /\ connections[i].psm = x}
    <2>1. p \in Pointers(connections, grown, hits)
      BY <1>2 DEF ByPsm, FindPsm
    <2>. QED  BY <2>1, PointersType
  <1>. QED  BY <1>1, <1>2

\* What handlers read from and write to a channel fits.
LEMMA ConnectionFields ==
  ASSUME NEW c \in Connection
  PROVE  /\ c.psm \in Psm /\ c.localCid \in Cid /\ c.remoteCid \in Cid
         /\ \A r \in Cid : [c EXCEPT !.remoteCid = r] \in Connection
         /\ [c EXCEPT !.localConfigured = TRUE] \in Connection
         /\ [c EXCEPT !.remoteConfigured = TRUE] \in Connection
  BY DEF Connection

\* sendL2Data makes a packet, from a pointer that findPsm returned.
LEMMA L2DataType ==
  ASSUME connections \in Seq(Connection), NEW h \in Handle, NEW psm \in Psm,
         NEW d \in L2Data(h, psm)
  PROVE  d.packet \in Packet /\ d.uses \in ByPsm(h, psm)
  <1>1. PICK p \in ByPsm(h, psm) : d = [uses |-> p, packet |-> Data(h, psm, p.to.remoteCid)]
    BY DEF L2Data
  <1>2. p.to.remoteCid \in Cid
    BY FoundType, ConnectionFields
  <1>3. Data(h, psm, p.to.remoteCid) \in Packet
    BY <1>2, PacketType, Numbers
  <1>. QED  BY <1>1, <1>3

\* Taking the head of rxBuffer.
LEMMA ReceivesType ==
  ASSUME TypeOK, NEW type, Receives(type)
  PROVE  /\ Head(rx) \in Packet
         /\ rx' \in Seq(Packet) /\ Len(rx') <= RxCap
         /\ UNCHANGED env
  <1>1. rx \in Seq(Packet) /\ rx # <<>> /\ rx' = Tail(rx) /\ Len(rx) <= RxCap
    BY DEF TypeOK, Receives
  <1>2. Head(rx) \in Packet /\ Tail(rx) \in Seq(Packet) /\ Len(Tail(rx)) = Len(rx) - 1
    BY <1>1, HeadTailProperties
  <1>3. RxCap \in Nat
    BY ConstantsAssumption
  <1>. QED  BY <1>1, <1>2, <1>3, LenProperties DEF Receives

\* Replacing txBuffer.
LEMMA SendsType ==
  ASSUME TypeOK, NEW q \in Seq(Packet), NEW n \in Nat, Sends(q, n)
  PROVE  tx' \in Seq(Packet) /\ dropped' \in BOOLEAN
  BY DEF Sends, TypeOK

\* What the listener on ACLConnectionEstablished leaves.
LEMMA EstablishedType ==
  ASSUME TypeOK, NEW h \in Handle, NEW psm \in Psm, NEW p, NEW q \in Seq(Packet), NEW n \in Nat,
         Established(h, psm, p, q, n)
  PROVE  /\ tx' \in Seq(Packet) /\ dropped' \in BOOLEAN /\ pastEnd' \in BOOLEAN
         /\ boards' \subseteq Handle /\ greeted' \in [Handle -> Nat]
  <1>1. CASE psm # HidInterrupt
    BY <1>1, SendsType DEF Established, Uses, app, TypeOK
  <1>2. CASE psm = HidInterrupt
    <2>. DEFINE times == greeted[h] + 1
    <2>1. boards' = boards \cup {h} /\ greeted' = [greeted EXCEPT ![h] = times]
      BY <1>2 DEF Established
    <2>2. greeted \in [Handle -> Nat] /\ boards \subseteq Handle
      BY DEF TypeOK
    <2>3. times \in Nat
      BY <2>2
    <2>4. boards' \subseteq Handle /\ greeted' \in [Handle -> Nat]
      <3>. HIDE DEF times
      <3>. QED  BY <2>1, <2>2, <2>3
    <2>5. CASE Uses(p) /\ Sends(q, n)
      BY <2>5, <2>4, SendsType DEF Uses, TypeOK
    <2>6. ASSUME NEW d \in L2Data(h, HidInterrupt),
                 pastEnd' = (pastEnd \/ p.at = PastEnd \/ d.uses.at = PastEnd),
                 Sends(Enqueue(q, d.packet), n + 1)
          PROVE  tx' \in Seq(Packet) /\ dropped' \in BOOLEAN /\ pastEnd' \in BOOLEAN
      <3>1. Enqueue(q, d.packet) \in Seq(Packet)
        BY L2DataType, EnqueueType, Numbers DEF Psm, TypeOK
      <3>2. n + 1 \in Nat
        OBVIOUS
      <3>. QED  BY <2>6, <3>1, <3>2, SendsType DEF TypeOK
    <2>7. \/ Uses(p) /\ Sends(q, n)
          \/ \E d \in L2Data(h, HidInterrupt) :
               /\ pastEnd' = (pastEnd \/ p.at = PastEnd \/ d.uses.at = PastEnd)
               /\ Sends(Enqueue(q, d.packet), n + 1)
      BY <1>2, Zenon DEF Established
    <2>. QED  BY <2>4, <2>5, <2>6, <2>7, Zenon
  <1>. QED  BY <1>1, <1>2

\* The identifier counter wraps around within 16 bits ...
LEMMA AfterCidType ==
  ASSUME TypeOK, NEW n \in 1 .. 2
  PROVE  AfterCid(n) \in Cid
  <1>1. g_localCid \in 0 .. MaxU16
    BY DEF TypeOK, Cid, U16
  <1>. QED  BY <1>1, MaxType DEF AfterCid, Wraps, Cid, U16

\* ... and stays there when identifiers are taken.
LEMMA TakeCidsType ==
  ASSUME TypeOK, NEW n \in 1 .. 2, TakeCids(n)
  PROVE  g_localCid' \in Cid /\ wrapped' \in BOOLEAN
  BY AfterCidType DEF TypeOK, TakeCids

\* A new channel is one.
LEMMA NewConnectionType ==
  ASSUME NEW h \in Handle, NEW cid \in Cid, NEW psm \in Psm, NEW r \in Cid
  PROVE  NewConnection(h, cid, psm, r) \in Connection
  BY DEF NewConnection, Connection

\* Every handler of the host keeps the types.
LEMMA HandlersType ==
  ASSUME TypeOK, Handlers
  PROVE  TypeOK'
<1>. USE DEF store, app, fault, out, env, links
<1>1. CASE HandleHCIConnectionComplete
  <2>. DEFINE m == Head(rx)
              control == NewConnection(m.handle, g_localCid, HidControl, 0)
              interrupt == NewConnection(m.handle, AfterCid(1), HidInterrupt, 0)
              q == Enqueue3(tx, Auth(m.handle),
                            ConnReq(m.handle, HidControl, control.localCid),
                            ConnReq(m.handle, HidInterrupt, interrupt.localCid))
  <2>1. Receives("ConnectionComplete") /\ UNCHANGED <<app, fault>>
    BY <1>1 DEF HandleHCIConnectionComplete
  <2>2. m \in Packet /\ rx' \in Seq(Packet) /\ Len(rx') <= RxCap /\ UNCHANGED env
    BY <2>1, ReceivesType
  <2>3. CASE UNCHANGED <<store, out>>
    BY <2>1, <2>2, <2>3 DEF TypeOK
  <2>4. CASE /\ Sends(q, 3)
             /\ connections' = Emplace(Emplace(connections, control), interrupt)
             /\ grown' = TRUE
             /\ TakeCids(2)
    <3>1. m.handle \in Handle /\ g_localCid \in Cid /\ AfterCid(1) \in Cid
      <4>1. 1 \in 1 .. 2
        OBVIOUS
      <4>. QED  BY <2>2, <4>1, AfterCidType DEF TypeOK, Packet
    <3>2. control \in Connection /\ interrupt \in Connection
      BY <3>1, NewConnectionType, Numbers DEF Psm, Cid
    <3>3. /\ Auth(m.handle) \in Packet
          /\ ConnReq(m.handle, HidControl, control.localCid) \in Packet
          /\ ConnReq(m.handle, HidInterrupt, interrupt.localCid) \in Packet
      BY <3>1, <3>2, PacketType, Numbers, ConnectionFields DEF Psm
    <3>4. q \in Seq(Packet)
      BY <3>3, EnqueueType DEF Enqueue3, Enqueue2, TypeOK
    <3>5. tx' \in Seq(Packet) /\ dropped' \in BOOLEAN
      BY <3>4, <2>4, SendsType
    <3>6. connections' \in Seq(Connection)
      BY <3>2, <2>4 DEF Emplace, TypeOK
    <3>7. g_localCid' \in Cid /\ wrapped' \in BOOLEAN
      BY <2>4, TakeCidsType
    <3>. QED  BY <2>1, <2>2, <2>4, <3>5, <3>6, <3>7 DEF TypeOK
  <2>. QED  BY <1>1, <2>3, <2>4 DEF HandleHCIConnectionComplete
<1>2. CASE HandleHCIDisconnect
  BY <1>2, ReceivesType DEF HandleHCIDisconnect, TypeOK
<1>3. CASE HandleL2ConnectionRequest
  <2>. DEFINE m == Head(rx)
              q == Enqueue2(tx, ConnRsp(m.handle, g_localCid, m.scid, Success),
                            ConfReq(m.handle, m.scid, MtuOnly))
              r == Enqueue(tx, ConnRsp(m.handle, g_localCid, m.scid, Refused))
  <2>1. Receives("ConnReq") /\ TakeCids(1) /\ UNCHANGED <<app, fault>>
    BY <1>3 DEF HandleL2ConnectionRequest
  <2>2. m \in Packet /\ rx' \in Seq(Packet) /\ Len(rx') <= RxCap /\ UNCHANGED env
    BY <2>1, ReceivesType
  <2>3. g_localCid' \in Cid /\ wrapped' \in BOOLEAN
    BY <2>1, TakeCidsType
  <2>4. m.handle \in Handle /\ m.scid \in Cid /\ m.psm \in Psm /\ g_localCid \in Cid
    BY <2>2 DEF Packet, TypeOK
  <2>5. q \in Seq(Packet) /\ r \in Seq(Packet)
    BY <2>4, PacketType, EnqueueType, Numbers DEF Enqueue2, TypeOK
  <2>6. NewConnection(m.handle, g_localCid, m.psm, m.scid) \in Connection
    BY <2>4, NewConnectionType
  <2>7. CASE /\ connections' = Emplace(connections,
                                       NewConnection(m.handle, g_localCid, m.psm, m.scid))
             /\ grown' = TRUE
             /\ Sends(q, 2)
    <3>1. tx' \in Seq(Packet) /\ dropped' \in BOOLEAN
      BY <2>5, <2>7, SendsType
    <3>2. connections' \in Seq(Connection)
      BY <2>6, <2>7 DEF Emplace, TypeOK
    <3>. QED  BY <2>1, <2>2, <2>3, <2>7, <3>1, <3>2 DEF TypeOK
  <2>8. CASE Sends(r, 1) /\ UNCHANGED <<connections, grown>>
    <3>1. tx' \in Seq(Packet) /\ dropped' \in BOOLEAN
      BY <2>5, <2>8, SendsType
    <3>. QED  BY <2>1, <2>2, <2>3, <2>8, <3>1 DEF TypeOK
  <2>. QED  BY <1>3, <2>7, <2>8 DEF HandleL2ConnectionRequest
<1>4. CASE HandleL2ConnectionResponse
  <2>. DEFINE m == Head(rx)
  <2>1. Receives("ConnRsp") /\ UNCHANGED <<grown, g_localCid, wrapped, app, crashed>>
    BY <1>4 DEF HandleL2ConnectionResponse
  <2>2. m \in Packet /\ rx' \in Seq(Packet) /\ Len(rx') <= RxCap /\ UNCHANGED env
    BY <2>1, ReceivesType
  <2>3. m.handle \in Handle /\ m.scid \in Cid /\ m.dcid \in Cid
    BY <2>2 DEF Packet
  <2>4. CASE UNCHANGED <<connections, out, pastEnd>>
    BY <2>1, <2>2, <2>4 DEF TypeOK
  <2>5. ASSUME NEW p \in Local(m.handle, m.scid),
               Uses(p),
               \/ /\ connections' = Assign(connections, p, [p.to EXCEPT !.remoteCid = m.dcid])
                  /\ Sends(Enqueue(tx, ConfReq(m.handle, m.dcid, MtuOnly)), 1)
               \/ connections' = Remove(connections, p) /\ UNCHANGED out
               \/ UNCHANGED <<connections, out>>
        PROVE  TypeOK'
    <3>1. p.to \in Connection /\ (p.at = PastEnd \/ p.at \in 1 .. Len(connections))
      BY FoundType DEF TypeOK
    <3>2. Enqueue(tx, ConfReq(m.handle, m.dcid, MtuOnly)) \in Seq(Packet)
      <4>1. ConfReq(m.handle, m.dcid, MtuOnly) \in Packet
        BY <2>3, PacketType, Numbers
      <4>. QED  BY <4>1, EnqueueType DEF TypeOK
    <3>3. [p.to EXCEPT !.remoteCid = m.dcid] \in Connection
      BY <2>3, <3>1, ConnectionFields
    <3>4. connections' \in Seq(Connection)
      BY <2>5, <3>1, <3>3, AssignType, RemoveType DEF TypeOK
    <3>5. tx' \in Seq(Packet) /\ dropped' \in BOOLEAN
      BY <2>5, <3>2, SendsType DEF TypeOK
    <3>6. pastEnd' \in BOOLEAN
      BY <2>5 DEF Uses, TypeOK
    <3>. QED  BY <2>1, <2>2, <3>4, <3>5, <3>6 DEF TypeOK
  <2>. QED  BY <1>4, <2>4, <2>5 DEF HandleL2ConnectionResponse
<1>5. CASE HandleL2ConfigurationRequest
  <2>. DEFINE m == Head(rx)
  <2>1. Receives("ConfReq") /\ UNCHANGED <<grown, g_localCid, wrapped, crashed>>
    BY <1>5 DEF HandleL2ConfigurationRequest
  <2>2. m \in Packet /\ rx' \in Seq(Packet) /\ Len(rx') <= RxCap /\ UNCHANGED env
    BY <2>1, ReceivesType
  <2>3. m.handle \in Handle /\ m.dcid \in Cid
    BY <2>2 DEF Packet
  <2>4. CASE UNCHANGED <<connections, out, app, pastEnd>>
    BY <2>1, <2>2, <2>4 DEF TypeOK
  <2>5. ASSUME NEW p \in Local(m.handle, m.dcid), NEW q,
               q = Enqueue(tx, ConfRsp(m.handle, p.to.remoteCid, Success)),
               connections' = Assign(connections, p, [p.to EXCEPT !.remoteConfigured = TRUE]),
               \/ Established(m.handle, p.to.psm, p, q, 1)
               \/ Uses(p) /\ Sends(q, 1) /\ UNCHANGED app
        PROVE  TypeOK'
    <3>1. p.to \in Connection /\ (p.at = PastEnd \/ p.at \in 1 .. Len(connections))
      BY FoundType DEF TypeOK
    <3>2. /\ p.to.psm \in Psm /\ p.to.remoteCid \in Cid
          /\ [p.to EXCEPT !.remoteConfigured = TRUE] \in Connection
      BY <3>1, ConnectionFields
    <3>3. q \in Seq(Packet)
      BY <2>3, <2>5, <3>2, PacketType, EnqueueType, Numbers DEF TypeOK
    <3>4. connections' \in Seq(Connection)
      BY <2>5, <3>1, <3>2, AssignType DEF TypeOK
    <3>5. /\ tx' \in Seq(Packet) /\ dropped' \in BOOLEAN /\ pastEnd' \in BOOLEAN
          /\ boards' \subseteq Handle /\ greeted' \in [Handle -> Nat]
      <4>1. CASE Established(m.handle, p.to.psm, p, q, 1)
        BY <4>1, <2>3, <3>2, <3>3, EstablishedType
      <4>2. CASE Uses(p) /\ Sends(q, 1) /\ UNCHANGED app
        BY <4>2, <3>3, SendsType DEF Uses, TypeOK
      <4>. QED  BY <2>5, <4>1, <4>2
    <3>. QED  BY <2>1, <2>2, <3>4, <3>5 DEF TypeOK
  <2>6. \/ UNCHANGED <<connections, out, app, pastEnd>>
        \/ \E p \in Local(m.handle, m.dcid) :
             LET q == Enqueue(tx, ConfRsp(m.handle, p.to.remoteCid, Success)) IN
             /\ connections' = Assign(connections, p, [p.to EXCEPT !.remoteConfigured = TRUE])
             /\ \/ Established(m.handle, p.to.psm, p, q, 1)
                \/ Uses(p) /\ Sends(q, 1) /\ UNCHANGED app
    BY <1>5 DEF HandleL2ConfigurationRequest
  <2>. QED  BY <2>4, <2>5, <2>6
<1>6. CASE HandleL2ConfigurationResponse
  <2>. DEFINE m == Head(rx)
  <2>1. Receives("ConfRsp") /\ UNCHANGED <<grown, g_localCid, wrapped>>
    BY <1>6 DEF HandleL2ConfigurationResponse
  <2>2. m \in Packet /\ rx' \in Seq(Packet) /\ Len(rx') <= RxCap /\ UNCHANGED env
    BY <2>1, ReceivesType
  <2>3. m.handle \in Handle
    BY <2>2 DEF Packet
  <2>4. CASE crashed' = TRUE /\ UNCHANGED <<connections, out, app, pastEnd>>
    BY <2>1, <2>2, <2>4 DEF TypeOK
  <2>5. ASSUME NEW p \in Local(m.handle, m.scid), UNCHANGED crashed,
               connections' = Assign(connections, p, [p.to EXCEPT !.localConfigured = TRUE]),
               \/ Established(m.handle, p.to.psm, p, tx, 0)
               \/ Uses(p) /\ UNCHANGED <<out, app>>
        PROVE  TypeOK'
    <3>1. p.to \in Connection /\ (p.at = PastEnd \/ p.at \in 1 .. Len(connections))
      BY FoundType DEF TypeOK
    <3>2. p.to.psm \in Psm /\ [p.to EXCEPT !.localConfigured = TRUE] \in Connection
      BY <3>1, ConnectionFields
    <3>3. connections' \in Seq(Connection)
      BY <2>5, <3>1, <3>2, AssignType DEF TypeOK
    <3>4. /\ tx' \in Seq(Packet) /\ dropped' \in BOOLEAN /\ pastEnd' \in BOOLEAN
          /\ boards' \subseteq Handle /\ greeted' \in [Handle -> Nat]
      <4>1. CASE Established(m.handle, p.to.psm, p, tx, 0)
        <5>1. tx \in Seq(Packet) /\ 0 \in Nat
          BY DEF TypeOK
        <5>. QED  BY <4>1, <5>1, <2>3, <3>2, EstablishedType
      <4>2. CASE Uses(p) /\ UNCHANGED <<out, app>>
        BY <4>2 DEF Uses, TypeOK
      <4>. QED  BY <2>5, <4>1, <4>2
    <3>. QED  BY <2>1, <2>2, <2>5, <3>3, <3>4 DEF TypeOK
  <2>6. \/ crashed' = TRUE /\ UNCHANGED <<connections, out, app, pastEnd>>
        \/ \E p \in Local(m.handle, m.scid) :
             /\ connections' = Assign(connections, p, [p.to EXCEPT !.localConfigured = TRUE])
             /\ \/ Established(m.handle, p.to.psm, p, tx, 0)
                \/ Uses(p) /\ UNCHANGED <<out, app>>
             /\ UNCHANGED crashed
    BY <1>6 DEF HandleL2ConfigurationResponse
  <2>. QED  BY <2>4, <2>5, <2>6
<1>7. CASE HandleL2DisconnectRequest
  <2>. DEFINE m == Head(rx)
  <2>1. Receives("DiscReq") /\ UNCHANGED <<grown, g_localCid, wrapped, app, crashed>>
    BY <1>7 DEF HandleL2DisconnectRequest
  <2>2. m \in Packet /\ rx' \in Seq(Packet) /\ Len(rx') <= RxCap /\ UNCHANGED env
    BY <2>1, ReceivesType
  <2>3. m.handle \in Handle
    BY <2>2 DEF Packet
  <2>4. CASE UNCHANGED <<connections, out, pastEnd>>
    BY <2>1, <2>2, <2>4 DEF TypeOK
  <2>5. ASSUME NEW p \in Local(m.handle, m.dcid), Uses(p),
               \/ /\ Sends(Enqueue(tx, DiscRsp(m.handle, p.to.localCid, p.to.remoteCid)), 1)
                  /\ connections' = Remove(connections, p)
               \/ UNCHANGED <<connections, out>>
        PROVE  TypeOK'
    <3>1. p.to \in Connection /\ (p.at = PastEnd \/ p.at \in 1 .. Len(connections))
      BY FoundType DEF TypeOK
    <3>2. p.to.localCid \in Cid /\ p.to.remoteCid \in Cid
      BY <3>1, ConnectionFields
    <3>3. Enqueue(tx, DiscRsp(m.handle, p.to.localCid, p.to.remoteCid)) \in Seq(Packet)
      <4>1. DiscRsp(m.handle, p.to.localCid, p.to.remoteCid) \in Packet
        BY <2>3, <3>2, PacketType, Numbers
      <4>. QED  BY <4>1, EnqueueType DEF TypeOK
    <3>4. connections' \in Seq(Connection)
      BY <2>5, <3>1, RemoveType DEF TypeOK
    <3>5. tx' \in Seq(Packet) /\ dropped' \in BOOLEAN
      BY <2>5, <3>3, SendsType DEF TypeOK
    <3>6. pastEnd' \in BOOLEAN
      BY <2>5 DEF Uses, TypeOK
    <3>. QED  BY <2>1, <2>2, <3>4, <3>5, <3>6 DEF TypeOK
  <2>. QED  BY <1>7, <2>4, <2>5 DEF HandleL2DisconnectRequest
<1>8. CASE HandleL2DisconnectResponse
  <2>. DEFINE m == Head(rx)
  <2>1. Receives("DiscRsp") /\ UNCHANGED <<grown, g_localCid, wrapped, crashed>>
    BY <1>8 DEF HandleL2DisconnectResponse
  <2>2. m \in Packet /\ rx' \in Seq(Packet) /\ Len(rx') <= RxCap /\ UNCHANGED env
    BY <2>1, ReceivesType
  <2>3. m.handle \in Handle
    BY <2>2 DEF Packet
  <2>4. CASE UNCHANGED <<connections, out, app, pastEnd>>
    BY <2>1, <2>2, <2>4 DEF TypeOK
  <2>5. ASSUME NEW p \in Local(m.handle, m.scid), Uses(p),
               connections' = Remove(connections, p),
               \/ /\ boards' = boards \ {m.handle}
                  /\ greeted' = [greeted EXCEPT ![m.handle] = 0]
                  /\ Sends(Enqueue(tx, Disconnect(m.handle)), 1)
               \/ UNCHANGED <<out, app>>
        PROVE  TypeOK'
    <3>1. p.at = PastEnd \/ p.at \in 1 .. Len(connections)
      BY FoundType DEF TypeOK
    <3>2. Enqueue(tx, Disconnect(m.handle)) \in Seq(Packet)
      <4>1. Disconnect(m.handle) \in Packet
        BY <2>3, PacketType, Numbers
      <4>. QED  BY <4>1, EnqueueType DEF TypeOK
    <3>3. connections' \in Seq(Connection)
      BY <2>5, <3>1, RemoveType DEF TypeOK
    <3>4. tx' \in Seq(Packet) /\ dropped' \in BOOLEAN
      BY <2>5, <3>2, SendsType DEF TypeOK
    <3>5. boards' \subseteq Handle /\ greeted' \in [Handle -> Nat]
      <4>1. boards \subseteq Handle /\ greeted \in [Handle -> Nat] /\ 0 \in Nat
        BY DEF TypeOK
      <4>2. CASE boards' = boards \ {m.handle} /\ greeted' = [greeted EXCEPT ![m.handle] = 0]
        BY <4>1, <4>2
      <4>3. CASE UNCHANGED app
        BY <4>1, <4>3
      <4>. QED  BY <2>5, <4>2, <4>3
    <3>6. pastEnd' \in BOOLEAN
      BY <2>5 DEF Uses, TypeOK
    <3>. QED  BY <2>1, <2>2, <3>3, <3>4, <3>5, <3>6 DEF TypeOK
  <2>. QED  BY <1>8, <2>4, <2>5 DEF HandleL2DisconnectResponse, Disconnected
<1>9. CASE HandleACLData
  <2>. DEFINE m == Head(rx)
  <2>1. PICK type : Receives(type)
    BY <1>9 DEF HandleACLData
  <2>2. m \in Packet /\ rx' \in Seq(Packet) /\ Len(rx') <= RxCap /\ UNCHANGED env
    BY <2>1, ReceivesType
  <2>3. m.handle \in Handle /\ UNCHANGED <<store, app>>
    BY <1>9, <2>2 DEF Packet, HandleACLData
  <2>4. CASE crashed' = TRUE /\ UNCHANGED <<out, pastEnd>>
    BY <2>2, <2>3, <2>4 DEF TypeOK
  <2>5. CASE UNCHANGED <<out, fault>>
    BY <2>2, <2>3, <2>5 DEF TypeOK
  <2>6. ASSUME NEW d \in L2Data(m.handle, HidInterrupt), UNCHANGED crashed,
               Uses(d.uses), Sends(Enqueue(tx, d.packet), 1)
        PROVE  TypeOK'
    <3>1. Enqueue(tx, d.packet) \in Seq(Packet)
      BY <2>3, L2DataType, EnqueueType, Numbers DEF TypeOK, Psm
    <3>2. tx' \in Seq(Packet) /\ dropped' \in BOOLEAN
      BY <2>6, <3>1, SendsType
    <3>3. pastEnd' \in BOOLEAN
      BY <2>6 DEF Uses, TypeOK
    <3>. QED  BY <2>2, <2>3, <2>6, <3>2, <3>3 DEF TypeOK
  <2>. QED  BY <1>9, <2>4, <2>5, <2>6 DEF HandleACLData
<1>. QED  BY <1>1, <1>2, <1>3, <1>4, <1>5, <1>6, <1>7, <1>8, <1>9 DEF Handlers

\* Counting an optional move.
LEMMA MovingType ==
  ASSUME TypeOK, NEW h \in Handle, NEW kind, Moving(h, kind)
  PROVE  moves' \in [Handle -> Nat]
  BY DEF Moving, TypeOK

\* So do the sending loop and the application's request.
LEMMA HostStepsType ==
  ASSUME TypeOK, NEW h \in Handle, NEW psm, Transmit \/ AppDisconnect(h, psm)
  PROVE  TypeOK'
<1>. USE DEF store, app, fault, out, env, links
<1>1. CASE Transmit
  <2>1. tx \in Seq(Packet) /\ tx # <<>> /\ tx' = Tail(tx)
    BY <1>1 DEF Transmit, TypeOK
  <2>2. Head(tx) \in Packet /\ tx' \in Seq(Packet)
    BY <2>1, HeadTailProperties
  <2>3. air' \in [Handle -> Seq(Packet)] /\ \A k \in Handle : Len(air'[k]) <= AirCap
    <3>1. CASE UNCHANGED air
      BY <3>1 DEF TypeOK
    <3>2. CASE /\ Len(air[Head(tx).handle]) < AirCap
               /\ air' = [air EXCEPT ![Head(tx).handle] = Append(@, Head(tx))]
      <4>1. Head(tx).handle \in Handle
        BY <2>2 DEF Packet
      <4>2. AirCap \in Nat
        BY ConstantsAssumption
      <4>. QED  BY <2>2, <3>2, <4>1, <4>2 DEF TypeOK
    <3>. QED  BY <1>1, <3>1, <3>2 DEF Transmit
  <2>. QED  BY <1>1, <2>2, <2>3 DEF Transmit, TypeOK
<1>2. CASE AppDisconnect(h, psm)
  <2>1. UNCHANGED <<store, app, crashed, rx, links, peer, air, opens>> /\ moves' \in [Handle -> Nat]
    BY <1>2, MovingType DEF AppDisconnect
  <2>2. CASE UNCHANGED <<out, pastEnd>>
    BY <2>1, <2>2 DEF TypeOK
  <2>3. ASSUME NEW p \in ByPsm(h, psm), Uses(p),
               Sends(Enqueue(tx, DiscReq(h, p.to.remoteCid, p.to.localCid)), 1)
        PROVE  TypeOK'
    <3>1. p.to.localCid \in Cid /\ p.to.remoteCid \in Cid
      BY FoundType, ConnectionFields DEF TypeOK
    <3>2. DiscReq(h, p.to.remoteCid, p.to.localCid) \in Packet
      BY <3>1, PacketType, Numbers
    <3>3. Enqueue(tx, DiscReq(h, p.to.remoteCid, p.to.localCid)) \in Seq(Packet)
      BY <3>2, EnqueueType DEF TypeOK
    <3>4. tx' \in Seq(Packet) /\ dropped' \in BOOLEAN
      BY <2>3, <3>3, SendsType
    <3>5. pastEnd' \in BOOLEAN
      BY <2>3 DEF Uses, TypeOK
    <3>. QED  BY <2>1, <3>4, <3>5 DEF TypeOK
  <2>. QED  BY <1>2, <2>2, <2>3 DEF AppDisconnect
<1>. QED  BY <1>1, <1>2

\* The controller's task waits for room in rxBuffer, which keeps its bound.
LEMMA DeliversType ==
  ASSUME TypeOK, NEW m \in Packet, Delivers(m)
  PROVE  rx' \in Seq(Packet) /\ Len(rx') <= RxCap
  BY ConstantsAssumption DEF TypeOK, Delivers

\* Replacing a board's end of a channel.
LEMMA SetEndType ==
  ASSUME TypeOK, NEW h \in Handle, NEW c \in PeerCid, NEW e \in End, SetEnd(h, c, e)
  PROVE  peer' \in [Handle -> [PeerCid -> End]]
  BY DEF TypeOK, SetEnd

\* A new end is one.
LEMMA EndType ==
  ASSUME NEW state \in EndStates, NEW psm \in Psm, NEW cid \in Cid
  PROVE  NewEnd(state, psm, cid) \in End
  BY DEF NewEnd, End

\* So is the end that an identifier names, used or not.
LEMMA EndAtType ==
  ASSUME TypeOK, NEW h \in Handle, NEW c
  PROVE  EndAt(h, c) \in End
  BY EndType, Numbers DEF TypeOK, EndAt, EndStates

\* What boards read from and write to an end fits.
LEMMA EndFields ==
  ASSUME NEW e \in End
  PROVE  /\ e.psm \in Psm /\ e.hostCid \in Cid
         /\ [e EXCEPT !.state = "config"] \in End
         /\ [e EXCEPT !.state = "closing"] \in End
         /\ [e EXCEPT !.state = "closed"] \in End
         /\ [e EXCEPT !.reqSent = TRUE] \in End
         /\ \A v \in {Success, Pending, Refused} :
              /\ [e EXCEPT !.rspSent = TRUE, !.verdict = v] \in End
              /\ [e EXCEPT !.verdict = v] \in End
         /\ [e EXCEPT !.rspGot = TRUE] \in End
         /\ \A d \in Cid : [e EXCEPT !.state = "config", !.hostCid = d] \in End
  BY DEF End, EndStates

\* Taking the head of the packets on their way to a board.
LEMMA PeerReceivesType ==
  ASSUME TypeOK, NEW h \in Handle, NEW type, PeerReceives(h, type)
  PROVE  /\ Head(air[h]) \in Packet
         /\ air' \in [Handle -> Seq(Packet)] /\ \A k \in Handle : Len(air'[k]) <= AirCap
         /\ UNCHANGED <<host, links, opens, moves>>
  <1>1. air[h] \in Seq(Packet) /\ air[h] # <<>> /\ Len(air[h]) <= AirCap
    BY DEF TypeOK, PeerReceives
  <1>2. Head(air[h]) \in Packet /\ Tail(air[h]) \in Seq(Packet)
          /\ Len(Tail(air[h])) = Len(air[h]) - 1
    BY <1>1, HeadTailProperties
  <1>3. AirCap \in Nat /\ Len(air[h]) \in Nat
    BY <1>1, ConstantsAssumption, LenProperties
  <1>. QED  BY <1>1, <1>2, <1>3 DEF TypeOK, PeerReceives

\* What is left to show of an action of the environment.
LEMMA EnvironmentType ==
  ASSUME TypeOK, UNCHANGED host,
         rx' \in Seq(Packet), Len(rx') <= RxCap,
         link' \in [Handle -> {"none", "ours", "theirs", "lost"}], since' \in [Handle -> Cid],
         peer' \in [Handle -> [PeerCid -> End]],
         air' \in [Handle -> Seq(Packet)], \A k \in Handle : Len(air'[k]) <= AirCap,
         opens' \in Nat, moves' \in [Handle -> Nat]
  PROVE  TypeOK'
  BY DEF TypeOK, host, store, app, fault, out

\* Links that come up and go down keep the types.
LEMMA LinksType ==
  ASSUME TypeOK, NEW h \in Handle, NEW by \in {Ours, Theirs},
         LinkUp(h, by) \/ LinkLoss(h) \/ ControllerDisconnects
  PROVE  TypeOK'
<1>1. CASE LinkUp(h, by)
  <2>1. ConnectionComplete(h, by) \in Packet
    BY PacketType, Numbers
  <2>2. NoEnds \in [PeerCid -> End]
    BY EndType, Numbers DEF NoEnds, EndStates
  <2>3. rx' \in Seq(Packet) /\ Len(rx') <= RxCap
    BY <1>1, <2>1, DeliversType DEF LinkUp
  <2>4. /\ UNCHANGED host /\ opens' \in Nat /\ moves' \in [Handle -> Nat]
        /\ link' \in [Handle -> {"none", "ours", "theirs", "lost"}] /\ since' \in [Handle -> Cid]
        /\ peer' \in [Handle -> [PeerCid -> End]]
        /\ air' \in [Handle -> Seq(Packet)] /\ \A k \in Handle : Len(air'[k]) <= AirCap
    BY <1>1, <2>2 DEF LinkUp, TypeOK
  <2>. QED  BY <2>3, <2>4, EnvironmentType
<1>2. ASSUME NEW k \in Handle, LinkDown(k)
      PROVE  /\ rx' \in Seq(Packet) /\ Len(rx') <= RxCap /\ UNCHANGED <<peer, opens>>
             /\ link' \in [Handle -> {"none", "ours", "theirs", "lost"}] /\ since' \in [Handle -> Cid]
             /\ air' \in [Handle -> Seq(Packet)] /\ \A j \in Handle : Len(air'[j]) <= AirCap
  <2>1. DisconnectionComplete(k) \in Packet
    BY PacketType, Numbers
  <2>2. rx' \in Seq(Packet) /\ Len(rx') <= RxCap
    BY <1>2, <2>1, DeliversType DEF LinkDown
  <2>3. <<>> \in Seq(Packet) /\ Len(<<>>) <= AirCap
    BY ConstantsAssumption
  <2>. QED  BY <1>2, <2>2, <2>3 DEF LinkDown, TypeOK
<1>3. CASE LinkLoss(h)
  <2>1. LinkDown(h) /\ UNCHANGED host /\ moves' \in [Handle -> Nat]
    BY <1>3, MovingType DEF LinkLoss
  <2>. QED  BY <2>1, <1>2, EnvironmentType DEF TypeOK, links
<1>4. CASE ControllerDisconnects
  <2>. DEFINE m == Head(tx)
  <2>1. /\ tx \in Seq(Packet) /\ tx # <<>> /\ tx' = Tail(tx)
        /\ UNCHANGED <<store, app, fault, dropped, moves>>
    BY <1>4 DEF ControllerDisconnects, TypeOK
  <2>2. m \in Packet /\ tx' \in Seq(Packet)
    BY <2>1, HeadTailProperties
  <2>3. CASE LinkDown(m.handle)
    BY <2>1, <2>2, <2>3, <1>2 DEF TypeOK, Packet, store, app, fault
  <2>4. CASE UNCHANGED <<rx, links, peer, air, opens>>
    BY <2>1, <2>2, <2>4 DEF TypeOK, store, app, fault, links
  <2>. QED  BY <1>4, <2>3, <2>4 DEF ControllerDisconnects
<1>. QED  BY <1>1, <1>3, <1>4

\* So does what a board starts by itself.
LEMMA PeersType ==
  ASSUME TypeOK, NEW h \in Handle, NEW c \in PeerCid,
         \/ \E psm \in PeerPsm : PeerConnect(h, c, psm)
         \/ PeerDisconnect(h, c)
         \/ PeerData(h, c)
         \/ \E result \in Results : PeerDecides(h, c, result)
         \/ \E form \in Forms : PeerConfigure(h, c, form) \/ PeerReconfigure(h, c, form)
         \/ \E result \in ConfResults : PeerConcludes(h, c, result)
  PROVE  TypeOK'
<1>. DEFINE e == peer[h][c]
<1>0. /\ c \in Cid /\ PeerPsm \subseteq Psm /\ Forms \subseteq U16 /\ Results \subseteq U16
      /\ 0 \in Cid /\ 0 \in Psm /\ 0 \in U16
      /\ e \in End /\ e.hostCid \in Cid /\ e.psm \in Psm
  <2>1. /\ c \in Cid /\ PeerPsm \subseteq Psm /\ Forms \subseteq U16 /\ Results \subseteq U16
        /\ 0 \in Cid /\ 0 \in Psm /\ 0 \in U16
    BY ConstantsAssumption, Numbers DEF Cid
  <2>2. e \in End
    BY DEF TypeOK
  <2>. QED  BY <2>1, <2>2, EndFields
<1>1. ASSUME NEW psm \in PeerPsm, PeerConnect(h, c, psm)
      PROVE  TypeOK'
  <2>1. ConnReq(h, psm, c) \in Packet /\ NewEnd("waiting", psm, 0) \in End
    BY <1>0, PacketType, EndType DEF EndStates
  <2>2. /\ rx' \in Seq(Packet) /\ Len(rx') <= RxCap
        /\ peer' \in [Handle -> [PeerCid -> End]]
    BY <1>1, <2>1, DeliversType, SetEndType DEF PeerConnect
  <2>3. UNCHANGED <<host, links, air, moves>> /\ opens' \in Nat
    BY <1>1 DEF PeerConnect, TypeOK
  <2>. QED  BY <2>2, <2>3, EnvironmentType DEF TypeOK, links
<1>2. CASE PeerDisconnect(h, c)
  <2>1. DiscReq(h, e.hostCid, c) \in Packet /\ [e EXCEPT !.state = "closing"] \in End
    BY <1>0, PacketType, EndFields
  <2>2. /\ rx' \in Seq(Packet) /\ Len(rx') <= RxCap
        /\ peer' \in [Handle -> [PeerCid -> End]]
    BY <1>2, <2>1, DeliversType, SetEndType DEF PeerDisconnect
  <2>3. UNCHANGED <<host, links, air, opens>> /\ moves' \in [Handle -> Nat]
    BY <1>2, MovingType DEF PeerDisconnect
  <2>. QED  BY <2>2, <2>3, EnvironmentType DEF TypeOK, links
<1>3. CASE PeerData(h, c)
  <2>1. Data(h, HidInterrupt, e.hostCid) \in Packet
    BY <1>0, PacketType, Numbers
  <2>2. rx' \in Seq(Packet) /\ Len(rx') <= RxCap
    BY <1>3, <2>1, DeliversType DEF PeerData
  <2>3. UNCHANGED <<host, links, peer, air, opens, moves>>
    BY <1>3 DEF PeerData
  <2>. QED  BY <2>2, <2>3, EnvironmentType DEF TypeOK, links
<1>4. ASSUME NEW result \in Results, PeerDecides(h, c, result)
      PROVE  TypeOK'
  <2>1. UNCHANGED <<host, links, air, opens, moves>>
    BY <1>4 DEF PeerDecides
  <2>2. ConnRsp(h, IF result = Refused THEN 0 ELSE c, e.hostCid, result) \in Packet
    BY <1>0, PacketType
  <2>3. [e EXCEPT !.state = "config"] \in End /\ [e EXCEPT !.state = "closed"] \in End
    BY <1>0, EndFields
  <2>4. rx' \in Seq(Packet) /\ Len(rx') <= RxCap
    BY <1>4, <2>2, DeliversType DEF PeerDecides
  <2>5. peer' \in [Handle -> [PeerCid -> End]]
    BY <1>4, <2>3, SetEndType DEF PeerDecides
  <2>. QED  BY <2>1, <2>4, <2>5, EnvironmentType DEF TypeOK, links
<1>5. ASSUME NEW form \in Forms, PeerConfigure(h, c, form)
      PROVE  TypeOK'
  <2>1. ConfReq(h, e.hostCid, form) \in Packet /\ [e EXCEPT !.reqSent = TRUE] \in End
    BY <1>0, PacketType, EndFields
  <2>2. /\ rx' \in Seq(Packet) /\ Len(rx') <= RxCap
        /\ peer' \in [Handle -> [PeerCid -> End]]
    BY <1>5, <2>1, DeliversType, SetEndType DEF PeerConfigure
  <2>3. UNCHANGED <<host, links, air, opens, moves>>
    BY <1>5 DEF PeerConfigure
  <2>. QED  BY <2>2, <2>3, EnvironmentType DEF TypeOK, links
<1>6. ASSUME NEW form \in Forms, PeerReconfigure(h, c, form)
      PROVE  TypeOK'
  <2>1. ConfReq(h, e.hostCid, form) \in Packet
    BY <1>0, PacketType
  <2>2. rx' \in Seq(Packet) /\ Len(rx') <= RxCap
    BY <1>6, <2>1, DeliversType DEF PeerReconfigure
  <2>3. UNCHANGED <<host, links, peer, air, opens>> /\ moves' \in [Handle -> Nat]
    BY <1>6, MovingType DEF PeerReconfigure
  <2>. QED  BY <2>2, <2>3, EnvironmentType DEF TypeOK, links
<1>7. ASSUME NEW result \in ConfResults, PeerConcludes(h, c, result)
      PROVE  TypeOK'
  <2>1. result \in U16 /\ result \in {Success, Pending, Refused}
    BY ConstantsAssumption, Numbers
  <2>2. ConfRsp(h, e.hostCid, result) \in Packet /\ [e EXCEPT !.verdict = result] \in End
    BY <1>0, <2>1, PacketType, EndFields
  <2>3. /\ rx' \in Seq(Packet) /\ Len(rx') <= RxCap
        /\ peer' \in [Handle -> [PeerCid -> End]]
    BY <1>7, <2>2, DeliversType, SetEndType DEF PeerConcludes
  <2>4. UNCHANGED <<host, links, air, opens>> /\ moves' \in [Handle -> Nat]
    BY <1>7, MovingType DEF PeerConcludes
  <2>. QED  BY <2>3, <2>4, EnvironmentType DEF TypeOK, links
<1>. QED  BY <1>1, <1>2, <1>3, <1>4, <1>5, <1>6, <1>7

\* So does what a board answers.
LEMMA PeerReplyType ==
  ASSUME TypeOK, NEW h \in Handle, PeerReply(h)
  PROVE  TypeOK'
<1>. DEFINE m == Head(air[h])
<1>1. PICK type : PeerReceives(h, type)
  BY DEF PeerReply, PeerOnConnReq, PeerOnConnRsp, PeerOnConfReq, PeerOnConfRsp, PeerOnDiscReq,
         PeerOnDiscRsp, PeerOnData
<1>2. /\ m \in Packet
      /\ air' \in [Handle -> Seq(Packet)] /\ \A k \in Handle : Len(air'[k]) <= AirCap
      /\ UNCHANGED <<host, links, opens, moves>>
  BY <1>1, PeerReceivesType
<1>3. /\ m.psm \in Psm /\ m.dcid \in Cid /\ m.scid \in Cid
      /\ EndAt(h, m.dcid) \in End /\ EndAt(h, m.scid) \in End
      /\ EndAt(h, m.dcid).hostCid \in Cid
  BY <1>2, EndAtType, EndFields DEF Packet
<1>4. /\ EndAt(h, m.dcid).state # "closed" => m.dcid \in PeerCid
      /\ EndAt(h, m.scid).state # "closed" => m.scid \in PeerCid
  BY DEF EndAt, NewEnd
<1>5. /\ rx' \in Seq(Packet) /\ Len(rx') <= RxCap
      /\ peer' \in [Handle -> [PeerCid -> End]]
  <2>0. UNCHANGED rx => rx' \in Seq(Packet) /\ Len(rx') <= RxCap
    BY DEF TypeOK
  <2>9. UNCHANGED peer => peer' \in [Handle -> [PeerCid -> End]]
    BY DEF TypeOK
  <2>1. ASSUME NEW c \in PeerCid, NEW result \in Results, PeerOnConnReq(h, c, result)
        PROVE  /\ rx' \in Seq(Packet) /\ Len(rx') <= RxCap
               /\ peer' \in [Handle -> [PeerCid -> End]]
    <3>1. c \in Cid /\ result \in U16 /\ 0 \in Cid
      BY ConstantsAssumption, Numbers
    <3>2. /\ ConnRsp(h, IF result = Refused THEN 0 ELSE c, m.scid, result) \in Packet
          /\ NewEnd("config", m.psm, m.scid) \in End /\ NewEnd("pending", m.psm, m.scid) \in End
      BY <1>3, <3>1, PacketType, EndType DEF EndStates
    <3>. QED  BY <2>1, <2>9, <3>2, DeliversType, SetEndType DEF PeerOnConnReq
  <2>2. CASE PeerOnConnRsp(h)
    <3>1. /\ [EndAt(h, m.scid) EXCEPT !.state = "config", !.hostCid = m.dcid] \in End
          /\ [EndAt(h, m.scid) EXCEPT !.state = "closed"] \in End
      BY <1>3, EndFields
    <3>. QED  BY <2>2, <2>0, <2>9, <1>4, <3>1, SetEndType DEF PeerOnConnRsp
  <2>3. ASSUME NEW result \in ConfResults, PeerOnConfReq(h, result)
        PROVE  /\ rx' \in Seq(Packet) /\ Len(rx') <= RxCap
               /\ peer' \in [Handle -> [PeerCid -> End]]
    <3>0. result \in U16 /\ result \in {Success, Pending, Refused}
      BY ConstantsAssumption, Numbers
    <3>1. /\ [EndAt(h, m.dcid) EXCEPT !.rspSent = TRUE, !.verdict = result] \in End
          /\ ConfRsp(h, EndAt(h, m.dcid).hostCid, result) \in Packet
      BY <1>3, <3>0, EndFields, PacketType, Numbers
    <3>. QED  BY <2>3, <2>0, <2>9, <1>4, <3>1, DeliversType, SetEndType DEF PeerOnConfReq
  <2>4. CASE PeerOnConfRsp(h)
    <3>1. [EndAt(h, m.scid) EXCEPT !.rspGot = TRUE] \in End
      BY <1>3, EndFields
    <3>. QED  BY <2>4, <2>0, <2>9, <1>4, <3>1, SetEndType DEF PeerOnConfRsp
  <2>5. CASE PeerOnDiscReq(h)
    <3>1. /\ [EndAt(h, m.dcid) EXCEPT !.state = "closed"] \in End
          /\ DiscRsp(h, m.dcid, m.scid) \in Packet /\ Reject(h) \in Packet
      BY <1>3, EndFields, PacketType, Numbers
    <3>. QED  BY <2>5, <2>9, <1>4, <3>1, DeliversType, SetEndType DEF PeerOnDiscReq
  <2>6. CASE PeerOnDiscRsp(h)
    <3>1. [EndAt(h, m.scid) EXCEPT !.state = "closed"] \in End
      BY <1>3, EndFields
    <3>. QED  BY <2>6, <2>0, <2>9, <1>4, <3>1, SetEndType DEF PeerOnDiscRsp
  <2>7. CASE PeerOnData(h)
    BY <2>7, <2>0, <2>9 DEF PeerOnData
  <2>. QED  BY <2>1, <2>2, <2>3, <2>4, <2>5, <2>6, <2>7 DEF PeerReply
<1>. QED  BY <1>2, <1>5, EnvironmentType DEF TypeOK, links

\* The initial state has the types.
LEMMA InitType == Init => TypeOK
  <1>1. NoEnds \in [PeerCid -> End]
    BY EndType, Numbers DEF NoEnds, EndStates
  <1>2. RxCap \in Nat /\ AirCap \in Nat /\ FirstCid \in Cid
    BY ConstantsAssumption
  <1>3. /\ <<>> \in Seq(Connection) /\ <<>> \in Seq(Packet)
        /\ Len(<<>>) <= RxCap /\ Len(<<>>) <= AirCap
    BY <1>2
  <1>4. Init => /\ connections \in Seq(Connection) /\ g_localCid \in Cid
                /\ boards \subseteq Handle /\ greeted \in [Handle -> Nat]
    BY <1>2, <1>3 DEF Init
  <1>7. Init => grown \in BOOLEAN /\ wrapped \in BOOLEAN
    BY DEF Init
  <1>5. Init => /\ dropped \in BOOLEAN /\ crashed \in BOOLEAN /\ pastEnd \in BOOLEAN
                /\ rx \in Seq(Packet) /\ Len(rx) <= RxCap /\ tx \in Seq(Packet)
    BY <1>3 DEF Init
  <1>6. 0 \in Cid
    BY Numbers
  <1>8. Init => /\ link \in [Handle -> {"none", "ours", "theirs", "lost"}]
                /\ since \in [Handle -> Cid]
                /\ peer \in [Handle -> [PeerCid -> End]]
                /\ air \in [Handle -> Seq(Packet)] /\ \A h \in Handle : Len(air[h]) <= AirCap
                /\ opens \in Nat /\ moves \in [Handle -> Nat]
    BY <1>1, <1>3, <1>6 DEF Init
  <1>. QED  BY <1>4, <1>5, <1>8, <1>7 DEF TypeOK

\* Every step keeps the types.
LEMMA NextType == TypeOK /\ [Next]_vars => TypeOK'
  <1>. SUFFICES ASSUME TypeOK, [Next]_vars PROVE TypeOK'
    OBVIOUS
  <1>1. CASE Handlers
    BY <1>1, HandlersType
  <1>2. CASE Transmit
    <2>1. Handle # {}
      BY <1>2, HeadTailProperties DEF Transmit, TypeOK, Packet
    <2>. QED  BY <1>2, <2>1, HostStepsType
  <1>3. CASE ControllerDisconnects
    <2>1. Handle # {}
      BY <1>3, HeadTailProperties DEF ControllerDisconnects, TypeOK, Packet
    <2>. QED  BY <1>3, <2>1, LinksType
  <1>4. ASSUME NEW h \in Handle
        PROVE  /\ \A psm \in AppPsm : AppDisconnect(h, psm) => TypeOK'
               /\ \A by \in {Ours, Theirs} : LinkUp(h, by) => TypeOK'
               /\ LinkLoss(h) => TypeOK'
               /\ PeerReply(h) => TypeOK'
    BY HostStepsType, LinksType, PeerReplyType
  <1>5. ASSUME NEW h \in Handle, NEW c \in PeerCid
        PROVE  /\ \A psm \in PeerPsm : PeerConnect(h, c, psm) => TypeOK'
               /\ PeerDisconnect(h, c) => TypeOK'
               /\ PeerData(h, c) => TypeOK'
               /\ \A result \in Results : PeerDecides(h, c, result) => TypeOK'
               /\ \A form \in Forms : PeerConfigure(h, c, form) => TypeOK'
               /\ \A form \in Forms : PeerReconfigure(h, c, form) => TypeOK'
               /\ \A result \in ConfResults : PeerConcludes(h, c, result) => TypeOK'
    BY PeersType
  <1>6. CASE UNCHANGED vars
    BY <1>6 DEF vars, store, app, fault, out, env, links, TypeOK
  <1>. QED  BY <1>1, <1>2, <1>3, <1>4, <1>5, <1>6 DEF Next

\* Every variable keeps its type, whatever the constants: in particular the
\* host's counters stay 16 bits wide and the two queues that the controller
\* fills stay within their bounds.
THEOREM TypeCorrect == Spec => []TypeOK
  BY InitType, NextType, PTL DEF Spec
--------------------------------------------------------------------------------
(* UniqueLocalCid is not inductive: that a new identifier is unlike those  *)
(* in the store needs that all of those are below g_localCid.              *)

CidsBelow == ~wrapped => \A i \in DOMAIN connections : connections[i].localCid < g_localCid

CidInv == TypeOK /\ CidsBelow /\ UniqueLocalCid

\* What NeverReused says of a step, of the places in the store.
OldCids ==
  ~wrapped' =>
    \A i \in DOMAIN connections' : connections'[i].localCid < g_localCid =>
      \E j \in DOMAIN connections : connections[j].localCid = connections'[i].localCid

\* What the lemmas below show of every step.
CidStep == CidsBelow' /\ UniqueLocalCid' /\ OldCids

\* Changing a channel in place, but not its local identifier.
LEMMA AssignCids ==
  ASSUME CidInv, NEW p, NEW c \in Connection,
         p.at = PastEnd \/ (p.at \in 1 .. Len(connections) /\ c.localCid = connections[p.at].localCid),
         connections' = Assign(connections, p, c), UNCHANGED <<g_localCid, wrapped>>
  PROVE  CidStep
  <1>1. connections \in Seq(Connection)
    BY DEF CidInv, TypeOK
  <1>2. DOMAIN connections' = DOMAIN connections
    BY <1>1 DEF Assign
  <1>3. \A i \in DOMAIN connections : connections'[i].localCid = connections[i].localCid
    BY <1>1 DEF Assign, PastEnd
  <1>. QED  BY <1>2, <1>3 DEF CidInv, CidsBelow, UniqueLocalCid, CidStep, OldCids

\* Taking a channel out.
LEMMA RemoveCids ==
  ASSUME CidInv, NEW p, p.at = PastEnd \/ p.at \in 1 .. Len(connections),
         connections' = Remove(connections, p), UNCHANGED <<g_localCid, wrapped>>
  PROVE  CidStep
  <1>. DEFINE from(i) == IF i < p.at THEN i ELSE i + 1
  <1>1. connections \in Seq(Connection) /\ Len(connections) \in Nat
    BY LenProperties DEF CidInv, TypeOK
  <1>2. CASE p.at = PastEnd
    BY <1>2 DEF Remove, CidInv, CidsBelow, UniqueLocalCid, CidStep, OldCids
  <1>3. CASE p.at \in 1 .. Len(connections) /\ p.at # PastEnd
    <2>. DEFINE before == SubSeq(connections, 1, p.at - 1)
                after == SubSeq(connections, p.at + 1, Len(connections))
    <2>0. connections' = before \o after
      BY <1>3 DEF Remove
    <2>1. /\ before \in Seq(Connection) /\ Len(before) = p.at - 1
          /\ \A i \in 1 .. Len(before) : before[i] = connections[i]
          /\ after \in Seq(Connection) /\ Len(after) = Len(connections) - p.at
          /\ \A i \in 1 .. Len(after) : after[i] = connections[p.at + i]
      BY <1>1, <1>3
    <2>. HIDE DEF before, after
    <2>2. /\ connections' \in Seq(Connection)
          /\ Len(connections') = Len(before) + Len(after)
          /\ \A i \in 1 .. Len(connections') :
               connections'[i] = IF i <= Len(before) THEN before[i] ELSE after[i - Len(before)]
      <3>1. /\ before \o after \in Seq(Connection)
            /\ Len(before \o after) = Len(before) + Len(after)
            /\ \A i \in 1 .. Len(before) + Len(after) :
                 (before \o after)[i] = IF i <= Len(before) THEN before[i] ELSE after[i - Len(before)]
        BY <2>1, ConcatProperties, Zenon
      <3>. QED  BY <2>0, <3>1, Zenon
    <2>3. \A i \in 1 .. Len(connections') :
            from(i) \in 1 .. Len(connections) /\ connections'[i] = connections[from(i)]
      <3>. SUFFICES ASSUME NEW i \in 1 .. Len(connections')
                    PROVE  from(i) \in 1 .. Len(connections)
                           /\ connections'[i] = connections[from(i)]
        OBVIOUS
      <3>1. CASE i <= Len(before)
        <4>1. connections'[i] = connections[i]
          BY <1>1, <1>3, <2>1, <2>2, <3>1
        <4>. QED  BY <1>1, <1>3, <2>1, <2>2, <3>1, <4>1
      <3>2. CASE i > Len(before)
        <4>1. i - Len(before) \in 1 .. Len(after) /\ p.at + (i - Len(before)) = i + 1
          BY <1>1, <1>3, <2>1, <2>2, <3>2
        <4>2. connections'[i] = connections[i + 1]
          <5>1. connections'[i] = after[i - Len(before)]
            BY <1>1, <1>3, <2>1, <2>2, <3>2
          <5>2. after[i - Len(before)] = connections[p.at + (i - Len(before))]
            BY <2>1, <4>1, Zenon
          <5>. QED  BY <5>1, <5>2, <4>1
        <4>. QED  BY <1>1, <1>3, <2>1, <2>2, <3>2, <4>2
      <3>. QED  BY <1>1, <1>3, <2>1, <3>1, <3>2
    <2>4. \A i, j \in 1 .. Len(connections') : from(i) = from(j) => i = j
      BY <1>1, <1>3, <2>1, <2>2
    <2>5. DOMAIN connections = 1 .. Len(connections) /\ DOMAIN connections' = 1 .. Len(connections')
      BY <1>1, <2>2
    <2>. HIDE DEF from
    <2>. QED  BY <2>3, <2>4, <2>5 DEF CidInv, CidsBelow, UniqueLocalCid, CidStep, OldCids
  <1>. QED  BY <1>2, <1>3

\* Adding a channel with the next identifier.
LEMMA EmplaceCids ==
  ASSUME CidInv, NEW c \in Connection, c.localCid = g_localCid, TakeCids(1),
         connections' = Emplace(connections, c)
  PROVE  CidStep
  <1>1. connections \in Seq(Connection) /\ g_localCid \in Nat
    BY DEF CidInv, TypeOK, Cid, U16
  <1>2. \A i \in DOMAIN connections : connections[i].localCid \in Nat
    <2>1. \A i \in DOMAIN connections : connections[i] \in Connection
      BY <1>1
    <2>2. Cid \subseteq Nat
      BY MaxType DEF Cid, U16
    <2>. QED  BY <2>1, <2>2, ConnectionFields, Zenon
  <1>3. /\ DOMAIN connections' = 1 .. Len(connections) + 1
        /\ \A i \in DOMAIN connections : connections'[i] = connections[i]
        /\ connections'[Len(connections) + 1] = c
        /\ DOMAIN connections = 1 .. Len(connections) /\ Len(connections) \in Nat
    BY <1>1 DEF Emplace
  <1>4. ~wrapped' => ~wrapped /\ g_localCid' = g_localCid + 1
    BY DEF TakeCids, AfterCid
  <1>5. ~wrapped => \A i \in DOMAIN connections : connections[i].localCid < g_localCid
    BY DEF CidInv, CidsBelow
  <1>6. \A i \in DOMAIN connections' :
          i \in DOMAIN connections \/ i = Len(connections) + 1
    BY <1>3
  <1>7. CidsBelow'
    BY <1>1, <1>2, <1>3, <1>4, <1>5, <1>6 DEF CidsBelow
  <1>8. UniqueLocalCid'
    BY <1>1, <1>2, <1>3, <1>4, <1>5, <1>6 DEF UniqueLocalCid, CidInv
  <1>9. OldCids
    BY <1>1, <1>3, <1>6 DEF OldCids
  <1>. QED  BY <1>7, <1>8, <1>9 DEF CidStep

\* A host's link adds two.
LEMMA Emplace2Cids ==
  ASSUME CidInv, NEW c \in Connection, NEW d \in Connection,
         c.localCid = g_localCid, d.localCid = AfterCid(1), TakeCids(2),
         connections' = Emplace(Emplace(connections, c), d)
  PROVE  CidStep
  <1>1. connections \in Seq(Connection) /\ g_localCid \in Nat /\ MaxU16 \in Nat
    BY MaxType DEF CidInv, TypeOK, Cid, U16
  <1>2. \A i \in DOMAIN connections : connections[i].localCid \in Nat
    <2>1. \A i \in DOMAIN connections : connections[i] \in Connection
      BY <1>1
    <2>2. Cid \subseteq Nat
      BY MaxType DEF Cid, U16
    <2>. QED  BY <2>1, <2>2, ConnectionFields, Zenon
  <1>3. /\ DOMAIN connections' = 1 .. Len(connections) + 2
        /\ \A i \in DOMAIN connections : connections'[i] = connections[i]
        /\ connections'[Len(connections) + 1] = c
        /\ connections'[Len(connections) + 2] = d
        /\ DOMAIN connections = 1 .. Len(connections) /\ Len(connections) \in Nat
    BY <1>1 DEF Emplace
  <1>4. ~wrapped' => ~wrapped /\ g_localCid' = g_localCid + 2 /\ d.localCid = g_localCid + 1
    <2>1. ~wrapped' => ~wrapped /\ ~Wraps(2)
      BY DEF TakeCids
    <2>2. ~Wraps(2) => ~Wraps(1)
      BY <1>1 DEF Wraps
    <2>. QED  BY <2>1, <2>2 DEF TakeCids, AfterCid
  <1>5. ~wrapped => \A i \in DOMAIN connections : connections[i].localCid < g_localCid
    BY DEF CidInv, CidsBelow
  <1>6. \A i \in DOMAIN connections' :
          i \in DOMAIN connections \/ i = Len(connections) + 1 \/ i = Len(connections) + 2
    BY <1>3
  <1>7. CidsBelow'
    BY <1>1, <1>2, <1>3, <1>4, <1>5, <1>6 DEF CidsBelow
  <1>8. UniqueLocalCid'
    BY <1>1, <1>2, <1>3, <1>4, <1>5, <1>6 DEF UniqueLocalCid, CidInv
  <1>9. OldCids
    BY <1>1, <1>3, <1>4, <1>6 DEF OldCids
  <1>. QED  BY <1>7, <1>8, <1>9 DEF CidStep

\* A step that leaves the store and the counter alone.
LEMMA SameCids ==
  ASSUME CidInv, UNCHANGED <<connections, g_localCid, wrapped>>
  PROVE  CidStep
  BY DEF CidInv, CidsBelow, UniqueLocalCid, CidStep, OldCids

\* A pointer to an element of the store reads that element.
LEMMA FoundCid ==
  ASSUME CidInv, NEW h, NEW x, NEW p \in Local(h, x)
  PROVE  /\ p.at = PastEnd \/ p.at \in 1 .. Len(connections)
         /\ p.at = PastEnd \/ (p.at \in 1 .. Len(connections) /\ p.to = connections[p.at])
         /\ p.to \in Connection
  BY FoundType DEF CidInv, TypeOK

\* Every handler of the host keeps identifiers unique and below the counter.
LEMMA HandlersCids ==
  ASSUME CidInv, Handlers
  PROVE  CidStep
<1>. DEFINE m == Head(rx)
<1>. USE DEF store
<1>0. ASSUME NEW type, Receives(type)
      PROVE  m.handle \in Handle /\ m.psm \in Psm /\ m.scid \in Cid /\ m.dcid \in Cid
  BY <1>0, ReceivesType DEF CidInv, Packet
<1>1. CASE HandleHCIConnectionComplete
  <2>. DEFINE control == NewConnection(m.handle, g_localCid, HidControl, 0)
              interrupt == NewConnection(m.handle, AfterCid(1), HidInterrupt, 0)
  <2>1. CASE UNCHANGED store
    BY <2>1, SameCids
  <2>2. CASE connections' = Emplace(Emplace(connections, control), interrupt) /\ TakeCids(2)
    <3>1. 1 \in 1 .. 2
      OBVIOUS
    <3>2. m.handle \in Handle /\ g_localCid \in Cid /\ AfterCid(1) \in Cid
      BY <1>0, <1>1, <3>1, AfterCidType DEF HandleHCIConnectionComplete, CidInv, TypeOK
    <3>3. control \in Connection /\ interrupt \in Connection
      BY <3>2, NewConnectionType, Numbers
    <3>4. control.localCid = g_localCid /\ interrupt.localCid = AfterCid(1)
      BY DEF NewConnection
    <3>. QED  BY <2>2, <3>3, <3>4, Emplace2Cids
  <2>. QED  BY <1>1, <2>1, <2>2 DEF HandleHCIConnectionComplete
<1>2. CASE HandleHCIDisconnect
  BY <1>2, SameCids DEF HandleHCIDisconnect
<1>3. CASE HandleL2ConnectionRequest
  <2>1. TakeCids(1) /\ m.handle \in Handle /\ m.psm \in Psm /\ m.scid \in Cid
    BY <1>0, <1>3 DEF HandleL2ConnectionRequest
  <2>2. CASE connections' = Emplace(connections,
                                    NewConnection(m.handle, g_localCid, m.psm, m.scid))
    <3>1. NewConnection(m.handle, g_localCid, m.psm, m.scid) \in Connection
      BY <2>1, NewConnectionType DEF CidInv, TypeOK
    <3>2. NewConnection(m.handle, g_localCid, m.psm, m.scid).localCid = g_localCid
      BY DEF NewConnection
    <3>. QED  BY <2>1, <2>2, <3>1, <3>2, EmplaceCids
  <2>3. CASE UNCHANGED connections
    <3>1. connections \in Seq(Connection) /\ g_localCid \in Nat
      BY MaxType DEF CidInv, TypeOK, Cid, U16
    <3>2. \A i \in DOMAIN connections : connections[i].localCid \in Nat
      <4>1. \A i \in DOMAIN connections : connections[i] \in Connection
        BY <3>1
      <4>2. Cid \subseteq Nat
        BY MaxType DEF Cid, U16
      <4>. QED  BY <4>1, <4>2, ConnectionFields, Zenon
    <3>3. ~wrapped' => ~wrapped /\ g_localCid' = g_localCid + 1
      BY <2>1 DEF TakeCids, AfterCid
    <3>4. ~wrapped => /\ \A i \in DOMAIN connections : connections[i].localCid < g_localCid
                      /\ \A i, j \in DOMAIN connections :
                           connections[i].localCid = connections[j].localCid => i = j
      BY DEF CidInv, CidsBelow, UniqueLocalCid
    <3>5. CidsBelow'
      BY <2>3, <3>1, <3>2, <3>3, <3>4 DEF CidsBelow
    <3>. QED  BY <2>3, <3>3, <3>4, <3>5 DEF UniqueLocalCid, CidStep, OldCids
  <2>. QED  BY <1>3, <2>2, <2>3 DEF HandleL2ConnectionRequest
<1>4. CASE HandleL2ConnectionResponse
  <2>1. UNCHANGED <<g_localCid, wrapped>> /\ m.dcid \in Cid
    BY <1>0, <1>4 DEF HandleL2ConnectionResponse
  <2>2. CASE UNCHANGED connections
    BY <2>1, <2>2, SameCids
  <2>3. ASSUME NEW p \in Local(m.handle, m.scid),
               connections' = Assign(connections, p, [p.to EXCEPT !.remoteCid = m.dcid])
        PROVE  CidStep
    <3>1. /\ [p.to EXCEPT !.remoteCid = m.dcid] \in Connection
          /\ [p.to EXCEPT !.remoteCid = m.dcid].localCid = p.to.localCid
      BY <2>1, FoundCid, ConnectionFields DEF Connection
    <3>. QED  BY <2>1, <2>3, <3>1, FoundCid, AssignCids
  <2>4. ASSUME NEW p \in Local(m.handle, m.scid), connections' = Remove(connections, p)
        PROVE  CidStep
    BY <2>1, <2>4, FoundCid, RemoveCids
  <2>. QED  BY <1>4, <2>2, <2>3, <2>4 DEF HandleL2ConnectionResponse
<1>5. CASE HandleL2ConfigurationRequest
  <2>1. UNCHANGED <<g_localCid, wrapped>>
    BY <1>5 DEF HandleL2ConfigurationRequest
  <2>2. CASE UNCHANGED connections
    BY <2>1, <2>2, SameCids
  <2>3. ASSUME NEW p \in Local(m.handle, m.dcid),
               connections' = Assign(connections, p, [p.to EXCEPT !.remoteConfigured = TRUE])
        PROVE  CidStep
    <3>1. /\ [p.to EXCEPT !.remoteConfigured = TRUE] \in Connection
          /\ [p.to EXCEPT !.remoteConfigured = TRUE].localCid = p.to.localCid
      BY FoundCid, ConnectionFields DEF Connection
    <3>. QED  BY <2>1, <2>3, <3>1, FoundCid, AssignCids
  <2>. QED  BY <1>5, <2>2, <2>3 DEF HandleL2ConfigurationRequest
<1>6. CASE HandleL2ConfigurationResponse
  <2>1. UNCHANGED <<g_localCid, wrapped>>
    BY <1>6 DEF HandleL2ConfigurationResponse
  <2>2. CASE UNCHANGED connections
    BY <2>1, <2>2, SameCids
  <2>3. ASSUME NEW p \in Local(m.handle, m.scid),
               connections' = Assign(connections, p, [p.to EXCEPT !.localConfigured = TRUE])
        PROVE  CidStep
    <3>1. /\ [p.to EXCEPT !.localConfigured = TRUE] \in Connection
          /\ [p.to EXCEPT !.localConfigured = TRUE].localCid = p.to.localCid
      BY FoundCid, ConnectionFields DEF Connection
    <3>. QED  BY <2>1, <2>3, <3>1, FoundCid, AssignCids
  <2>. QED  BY <1>6, <2>2, <2>3 DEF HandleL2ConfigurationResponse
<1>7. CASE HandleL2DisconnectRequest
  <2>1. UNCHANGED <<g_localCid, wrapped>>
    BY <1>7 DEF HandleL2DisconnectRequest
  <2>2. CASE UNCHANGED connections
    BY <2>1, <2>2, SameCids
  <2>3. ASSUME NEW p \in Local(m.handle, m.dcid), connections' = Remove(connections, p)
        PROVE  CidStep
    BY <2>1, <2>3, FoundCid, RemoveCids
  <2>. QED  BY <1>7, <2>2, <2>3 DEF HandleL2DisconnectRequest
<1>8. CASE HandleL2DisconnectResponse
  <2>1. UNCHANGED <<g_localCid, wrapped>>
    BY <1>8 DEF HandleL2DisconnectResponse
  <2>2. CASE UNCHANGED connections
    BY <2>1, <2>2, SameCids
  <2>3. ASSUME NEW p \in Local(m.handle, m.scid), connections' = Remove(connections, p)
        PROVE  CidStep
    BY <2>1, <2>3, FoundCid, RemoveCids
  <2>. QED  BY <1>8, <2>2, <2>3 DEF HandleL2DisconnectResponse
<1>9. CASE HandleACLData
  BY <1>9, SameCids DEF HandleACLData
<1>. QED  BY <1>1, <1>2, <1>3, <1>4, <1>5, <1>6, <1>7, <1>8, <1>9 DEF Handlers

\* Only the host's handlers write the store.
LEMMA OthersKeepStore ==
  ASSUME [Next]_vars, ~Handlers
  PROVE  UNCHANGED <<connections, g_localCid, wrapped>>
  <1>. USE DEF store, host
  <1>1. ASSUME NEW h \in Handle, PeerReply(h)
        PROVE  UNCHANGED store
    BY <1>1 DEF PeerReply, PeerOnConnReq, PeerOnConnRsp, PeerOnConfReq, PeerOnConfRsp,
                PeerOnDiscReq, PeerOnDiscRsp, PeerOnData, PeerReceives
  <1>. QED  BY <1>1 DEF Next, vars, Transmit, ControllerDisconnects, AppDisconnect, LinkUp,
                        LinkLoss, PeerConnect, PeerDisconnect, PeerData, PeerDecides, PeerConfigure,
                        PeerReconfigure, PeerConcludes

\* Every step does.
LEMMA NextCids == CidInv /\ [Next]_vars => CidInv' /\ CidStep
  <1>. SUFFICES ASSUME CidInv, [Next]_vars PROVE CidInv' /\ CidStep
    OBVIOUS
  <1>1. TypeOK'
    BY NextType DEF CidInv
  <1>2. CASE Handlers
    BY <1>1, <1>2, HandlersCids DEF CidInv, CidStep
  <1>3. CASE ~Handlers
    BY <1>1, <1>3, OthersKeepStore, SameCids DEF CidInv, CidStep
  <1>. QED  BY <1>2, <1>3

LEMMA InitCids == Init => CidInv
  <1>1. Init => DOMAIN connections = {}
    BY DEF Init
  <1>. QED  BY <1>1, InitType DEF CidInv, CidsBelow, UniqueLocalCid

\* Until g_localCid wraps around, no two channels of the store have the same
\* local identifier, whatever the boards do, on however many links and
\* however many packets are lost: findLocal returns the one channel that has
\* the identifier, so that ignoring the handle does no harm there.
THEOREM UniqueLocalCidHolds == Spec => []UniqueLocalCid
  <1>1. CidInv => UniqueLocalCid
    BY DEF CidInv
  <1>. QED  BY InitCids, NextCids, <1>1, PTL DEF Spec

\* Nor does a channel ever get an identifier that one before it had: what
\* boards still send to a channel that is gone, over its link or, after a
\* reconnection, over the next one, reaches no other channel.
THEOREM NeverReusedHolds == Spec => NeverReused
  <1>. DEFINE A == ~wrapped' => \A c \in Channels' :
                     c.localCid < g_localCid => c.localCid \in {d.localCid : d \in Channels}
  <1>1. CidStep => A
    BY DEF CidStep, OldCids, Channels
  <1>2. CidInv /\ [Next]_vars => CidInv' /\ [A]_vars
    BY <1>1, NextCids
  <1>3. NeverReused <=> [][A]_vars
    BY DEF NeverReused
  <1>. QED  BY InitCids, <1>2, <1>3, PTL DEF Spec
================================================================================
