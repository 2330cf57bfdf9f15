------------------------- MODULE L2capProtocolProofs --------------------------
(* The protocol on one link, between the host's channels of it and the       *)
(* board's ends, and what follows from it for the host while no identifier   *)
(* wraps and the application closes no channel: no lookup that its handlers  *)
(* rely on misses, no exception leaves loop() with the boards modelled, both *)
(* sides agree on every channel and have configured those that the host      *)
(* calls configured, the application is told no more often of a board than   *)
(* that gives cause for, data goes to an end that has not closed and is of   *)
(* its PSM for as long as there is one board, and every channel has the      *)
(* lifecycle of ChannelLifecycle.                                            *)
(*                                                                           *)
(* The protocol is a relation of five things, those of one link: R and O,    *)
(* the packets on their way from and to the board; K, the host's channels of *)
(* the present link; P, the board's ends; and L, whose link it is.  The      *)
(* lemmas about it speak of no variables: each says that one step of one     *)
(* side keeps the relation.                                                  *)
EXTENDS L2capNamesProofs, FiniteSetTheorems

Fresh(k)        == k.remoteCid = 0 /\ ~k.localConfigured /\ ~k.remoteConfigured
Live(e)         == e.state \in {"config", "closing"}
Final(m)        == m.type = "DiscReq" \/ (m.type = "ConnRsp" /\ m.arg = Refused)
Known(K, x)     == \E k \in K : k.localCid = x
Nameless(R, x)  == \A m \in R : m.type \in Naming => Name(m) # x
Unbound(P, x)   == \A c \in PeerCid : Bound(P[c]) => P[c].hostCid # x

\* The packets to a board that are for one of its ends, and for which.
ToEnd == {"ConnRsp", "ConfReq", "ConfRsp", "DiscRsp"}
EndOf(m) == IF m.type = "ConfReq" THEN m.dcid ELSE m.scid
Unaddressed(O, c) == \A m \in O : m.type \in ToEnd => EndOf(m) # c

\* The board's acceptance of the channel x, by its end c, is on its way; so is
\* its answer to the host's configuration request.
Accepted(R, x, c) == \E m \in R : /\ m.type = "ConnRsp" /\ m.arg = Success
                                  /\ m.scid = x /\ m.dcid = c
Answered(R, x)    == \E m \in R : m.type = "ConfRsp" /\ m.scid = x

\* Which packet of a link may come before which in rxBuffer ...
RxBefore(a, b) ==
  /\ ~(a.type = "ConnectionComplete" /\ b.type = "ConnectionComplete")
  /\ a.type = "ConnReq" /\ b.type = "ConnReq" => a.psm # b.psm /\ a.scid # b.scid
  /\ a.type \in Naming /\ b.type \in Naming /\ Name(a) = Name(b) =>
       /\ ~Final(a)
       /\ b.type = "ConnRsp" => a.type = "ConnRsp" /\ a.arg = Pending
       /\ b.type = "ConfRsp" => a.type # "Data"

\* ... and on its way to a board.
OutBefore(a, b) ==
  /\ a.type = "ConnReq" /\ b.type = "ConnReq" => a.scid # b.scid
  /\ a.type \in ToEnd /\ b.type \in ToEnd /\ EndOf(a) = EndOf(b) =>
       /\ a.type = b.type => a.type = "ConfRsp"
       /\ a.type # "DiscRsp" /\ ~(a.type = "ConnRsp" /\ a.arg = Refused)

AllowedRx  == {ab \in Packet \X Packet : ab[1].handle = ab[2].handle => RxBefore(ab[1], ab[2])}
AllowedOut == {ab \in Packet \X Packet : ab[1].handle = ab[2].handle => OutBefore(ab[1], ab[2])}
--------------------------------------------------------------------------------
(* From the board.                                                           *)

\* Whatever names a channel names one that is there.
RxNames(R, K) == \A m \in R :
  /\ m.type \in {"ConnectionComplete", "DisconnectionComplete", "ConnReq"} \cup Naming
  /\ m.type \in Naming => Known(K, Name(m))

\* A link that the host made is handled before any channel is on it.
RxLink(R, K, L) == \A m \in R : m.type = "ConnectionComplete" /\ m.arg = Ours =>
  L # "theirs" /\ K = {} /\ \A n \in R : n.type # "ConnReq"

RxConnReq(R, O, K, P) == \A m \in R : m.type = "ConnReq" =>
  /\ m.scid \in PeerCid
  /\ P[m.scid].state = "waiting" /\ P[m.scid].psm = m.psm
  /\ \A k \in K : k.remoteCid # m.scid /\ k.psm # m.psm
  /\ Unaddressed(O, m.scid)

RxConnRsp(R, O, K, P) == \A m \in R : m.type = "ConnRsp" =>
  /\ m.arg \in {Success, Pending, Refused}
  /\ \A k \in K : k.localCid = m.scid => Fresh(k)
  /\ m.arg = Success =>
       /\ m.dcid \in PeerCid
       /\ Live(P[m.dcid]) /\ P[m.dcid].hostCid = m.scid
       /\ \A k \in K : k.localCid = m.scid => k.psm = P[m.dcid].psm
       /\ Unaddressed(O, m.dcid)
  /\ m.arg = Refused => Unbound(P, m.scid)

RxConfReq(R, K, P) == \A m \in R : m.type = "ConfReq" =>
  \E c \in PeerCid :
    /\ Live(P[c]) /\ P[c].reqSent /\ P[c].hostCid = m.dcid
    /\ \A k \in K : k.localCid = m.dcid => k.remoteCid # 0 \/ Accepted(R, m.dcid, c)

RxConfRsp(R, K, P) == \A m \in R : m.type = "ConfRsp" =>
  \E c \in PeerCid :
    /\ Live(P[c]) /\ P[c].rspSent /\ P[c].hostCid = m.scid
    /\ \A k \in K : k.localCid = m.scid => k.remoteCid # 0

RxDiscReq(R, K, P) == \A m \in R : m.type = "DiscReq" =>
  /\ m.scid \in PeerCid
  /\ P[m.scid].state = "closing" /\ P[m.scid].hostCid = m.dcid
  /\ \A k \in K : k.localCid = m.dcid =>
       k.remoteCid = m.scid \/ (k.remoteCid = 0 /\ Accepted(R, m.dcid, m.scid))

RxData(R, K) == \A m \in R : m.type = "Data" =>
  \A k \in K : k.localCid = m.dcid =>
    /\ k.psm = HidInterrupt /\ k.remoteConfigured
    /\ k.localConfigured \/ Answered(R, m.dcid)
--------------------------------------------------------------------------------
(* To the board.                                                             *)

OutEnds(O, P) == \A m \in O : m.type \in ToEnd =>
  EndOf(m) \in PeerCid /\ P[EndOf(m)].state \in {"waiting", "config", "closing"}

OutConnReq(R, O, K, P) == \A m \in O : m.type = "ConnReq" =>
  /\ Known(K, m.scid)
  /\ \A k \in K : k.localCid = m.scid => Fresh(k) /\ k.psm = m.psm
  /\ Nameless(R, m.scid) /\ Unbound(P, m.scid)

OutConnRsp(O, K, P) == \A m \in O : m.type = "ConnRsp" =>
  /\ P[m.scid].state = "waiting"
  /\ m.arg = Success => /\ Known(K, m.dcid)
                        /\ \A k \in K : k.localCid = m.dcid => k.remoteCid = m.scid
  /\ m.arg = Refused => \A k \in K : k.remoteCid # m.scid

OutConfReq(R, O, K) == \A m \in O : m.type = "ConfReq" =>
  \A k \in K : k.remoteCid = m.dcid => ~k.localConfigured /\ ~Answered(R, k.localCid)

OutConfRsp(O, K) == \A m \in O : m.type = "ConfRsp" =>
  \A k \in K : k.remoteCid = m.scid => k.remoteConfigured

OutDiscRsp(O, K, P) == \A m \in O : m.type = "DiscRsp" =>
  /\ P[m.scid].state = "closing"
  /\ \A k \in K : k.remoteCid # m.scid
  /\ ~Known(K, P[m.scid].hostCid)
--------------------------------------------------------------------------------
(* The board's ends and the host's channels.                                 *)

EndsNew(P) == \A c \in PeerCid : P[c].state \in {"waiting", "pending"} =>
  ~P[c].reqSent /\ ~P[c].rspSent /\ ~P[c].rspGot

EndsPending(R, K, P) == \A c \in PeerCid : P[c].state = "pending" =>
  /\ Known(K, P[c].hostCid)
  /\ \A k \in K : k.localCid = P[c].hostCid => Fresh(k) /\ k.psm = P[c].psm
  /\ \A m \in R : m.type \in Naming /\ Name(m) = P[c].hostCid => m.type = "ConnRsp" /\ m.arg = Pending

\* What is on its way from an end that is being or has been configured.
EndsSent(R, K, P) == \A c \in PeerCid : P[c].state = "config" =>
  /\ Known(K, P[c].hostCid)
  /\ \A m \in R : m.type \in Naming /\ Name(m) = P[c].hostCid =>
       /\ ~Final(m)
       /\ m.type = "ConfReq" => P[c].reqSent
       /\ m.type = "ConfRsp" => P[c].rspSent
       /\ m.type = "Data" => P[c].verdict = Success

\* What the host has of it.
EndsConfig(R, K, P) == \A c \in PeerCid : P[c].state = "config" =>
  \A k \in K : k.localCid = P[c].hostCid =>
    /\ k.psm = P[c].psm
    /\ k.remoteCid = c \/ (k.remoteCid = 0 /\ Accepted(R, P[c].hostCid, c))
    /\ k.remoteConfigured => P[c].reqSent
    /\ P[c].rspSent <=> k.localConfigured \/ Answered(R, P[c].hostCid)
    /\ P[c].rspGot => k.remoteConfigured

EndsDistinct(P) == \A c, d \in PeerCid :
  Bound(P[c]) /\ Bound(P[d]) /\ P[c].hostCid = P[d].hostCid => c = d

ChannelsNew(K, L) == \A k \in K : k.remoteCid = 0 => Fresh(k) /\ L # "theirs"

ChannelsBound(R, K, P) == \A k \in K : k.remoteCid # 0 =>
  /\ k.remoteCid \in PeerCid /\ P[k.remoteCid].psm = k.psm
  /\ \/ /\ P[k.remoteCid].state = "waiting" /\ ~k.localConfigured /\ ~k.remoteConfigured
        /\ Nameless(R, k.localCid) /\ Unbound(P, k.localCid)
     \/ /\ Live(P[k.remoteCid]) /\ P[k.remoteCid].hostCid = k.localCid
        /\ k.localConfigured => P[k.remoteCid].rspSent
        /\ k.remoteConfigured => P[k.remoteCid].reqSent

ChannelsDistinct(K) == \A k, l \in K :
  \/ k.localCid = l.localCid \/ k.psm = l.psm \/ (k.remoteCid = l.remoteCid /\ k.remoteCid # 0)
  => k = l

Protocol(R, O, K, P, L) ==
  /\ RxNames(R, K) /\ RxLink(R, K, L)
  /\ RxConnReq(R, O, K, P) /\ RxConnRsp(R, O, K, P)
  /\ RxConfReq(R, K, P) /\ RxConfRsp(R, K, P) /\ RxDiscReq(R, K, P) /\ RxData(R, K)
  /\ OutEnds(O, P) /\ OutConnReq(R, O, K, P) /\ OutConnRsp(O, K, P)
  /\ OutConfReq(R, O, K) /\ OutConfRsp(O, K) /\ OutDiscRsp(O, K, P)
  /\ EndsNew(P) /\ EndsPending(R, K, P) /\ EndsSent(R, K, P) /\ EndsConfig(R, K, P)
  /\ EndsDistinct(P)
  /\ ChannelsNew(K, L) /\ ChannelsBound(R, K, P) /\ ChannelsDistinct(K)

FromBoard(h)  == {m \in Packets(rx) : m.handle = h}
ChannelsOf(h) == {k \in Channels : k.handle = h /\ since[h] <= k.localCid}

LinkAt(h) == Protocol(FromBoard(h), ToBoard(h), ChannelsOf(h), peer[h], link[h])

LinksProtocol == \A h \in Handle : LinkAt(h)

\* The order of what is in the queue q to the boards, and of what the
\* controller has of it already.
OutOk(q) ==
  /\ Along(AllowedOut, q)
  /\ \A h \in Handle : \A a \in Packets(air[h]), b \in Packets(q) : <<a, b>> \in AllowedOut

Orders ==
  /\ Along(AllowedRx, rx) /\ OutOk(tx)
  /\ \A h \in Handle : Along(AllowedOut, air[h])
--------------------------------------------------------------------------------
(* What steps do to them.                                                    *)

\* The host takes m out of rxBuffer; the board, from its link.
TakesRx(R, m, R2)  == /\ m \in R /\ R2 \subseteq R /\ R \subseteq R2 \cup {m}
                      /\ \A n \in R2 : RxBefore(m, n)
TakesOut(O, m, O2) == /\ m \in O /\ O2 \subseteq O /\ O \subseteq O2 \cup {m}
                      /\ \A n \in O2 : OutBefore(m, n)

\* The identifier x has not been handed out.
Unused(x, R, O, K, P) ==
  /\ ~Known(K, x) /\ Nameless(R, x) /\ Unbound(P, x)
  /\ \A m \in O : /\ m.type = "ConnReq" => m.scid # x
                  /\ m.type = "ConnRsp" => m.dcid # x

\* The board's end c becomes e; the host's channel k becomes l.
EndBecomes(P, c, e, P2) == P2[c] = e /\ \A d \in PeerCid : d # c => P2[d] = P[d]
Becomes(K, k, l, K2) == /\ k \in K /\ l.localCid = k.localCid /\ l.psm = k.psm
                        /\ K2 = (K \ {k}) \cup {l}

LEMMA ZeroEnd == 0 \notin PeerCid
  BY ConstantsAssumption
--------------------------------------------------------------------------------
(* The host's steps.                                                         *)

\* Packets that no channel or end waits for are handled, sent or lost, or come
\* from the controller; the link may be lost.
LEMMA QuietStep ==
  ASSUME NEW R, NEW O, NEW K, NEW P, NEW L, Protocol(R, O, K, P, L),
         NEW R2, \A m \in R2 : m \in R \/ m.type = "DisconnectionComplete",
         \A m \in R : m \in R2 \/ ~(m.type = "ConfRsp" \/ (m.type = "ConnRsp" /\ m.arg = Success)),
         NEW O2, \A m \in O2 : m \in O \/ m.type \in {"Auth", "Data"},
         NEW L2, L2 = L \/ L2 = "lost"
  PROVE  Protocol(R2, O2, K, P, L2)
<1>1. RxNames(R2, K)
  BY DEF Protocol, RxNames, Known, Naming, ToEnd
<1>2. RxLink(R2, K, L2)
  BY DEF Protocol, RxLink
<1>3. RxConnReq(R2, O2, K, P)
  BY DEF Protocol, RxConnReq, Unaddressed, Naming, ToEnd
<1>4. RxConnRsp(R2, O2, K, P)
  BY DEF Protocol, RxConnRsp, Fresh, Live, Unaddressed, Unbound, Naming, ToEnd
<1>5. RxConfReq(R2, K, P)
  BY DEF Protocol, RxConfReq, Live, Accepted, Naming, ToEnd
<1>6. RxConfRsp(R2, K, P)
  BY DEF Protocol, RxConfRsp, Live, Naming, ToEnd
<1>7. RxDiscReq(R2, K, P)
  BY DEF Protocol, RxDiscReq, Accepted, Naming, ToEnd
<1>8. RxData(R2, K)
  BY DEF Protocol, RxData, Answered, Naming, ToEnd
<1>9. OutEnds(O2, P)
  BY DEF Protocol, OutEnds, Naming, ToEnd
<1>10. OutConnReq(R2, O2, K, P)
  BY DEF Protocol, OutConnReq, Known, Fresh, Nameless, Unbound, Naming, ToEnd
<1>11. OutConnRsp(O2, K, P)
  BY DEF Protocol, OutConnRsp, Known, Naming, ToEnd
<1>12. OutConfReq(R2, O2, K)
  BY DEF Protocol, OutConfReq, Answered, Naming, ToEnd
<1>13. OutConfRsp(O2, K)
  BY DEF Protocol, OutConfRsp, Naming, ToEnd
<1>14. OutDiscRsp(O2, K, P)
  BY DEF Protocol, OutDiscRsp, Known, Naming, ToEnd
<1>15. EndsNew(P)
  BY DEF Protocol
<1>16. EndsPending(R2, K, P)
  BY DEF Protocol, EndsPending, Known, Fresh, Naming, ToEnd
<1>17. EndsSent(R2, K, P)
  BY DEF Protocol, EndsSent, Known, Final, Naming, ToEnd
<1>18. EndsConfig(R2, K, P)
  BY DEF Protocol, EndsConfig, Accepted, Answered, Naming, ToEnd
<1>19. EndsDistinct(P)
  BY DEF Protocol
<1>20. ChannelsNew(K, L2)
  BY DEF Protocol, ChannelsNew, Fresh, Naming, ToEnd
<1>21. ChannelsBound(R2, K, P)
  BY DEF Protocol, ChannelsBound, Nameless, Unbound, Live, Naming, ToEnd
<1>22. ChannelsDistinct(K)
  BY DEF Protocol
<1>. QED  BY <1>1, <1>2, <1>3, <1>4, <1>5, <1>6, <1>7, <1>8, <1>9, <1>10, <1>11, <1>12, <1>13,
           <1>14, <1>15, <1>16, <1>17, <1>18, <1>19, <1>20, <1>21, <1>22 DEF Protocol

\* A link is up that the host has made: it asks for both channels.
LEMMA LinkStep ==
  ASSUME NEW R, NEW O, NEW K, NEW P, NEW L, Protocol(R, O, K, P, L),
         NEW m, m.type = "ConnectionComplete", m.arg = Ours, NEW R2, TakesRx(R, m, R2),
         NEW x, Unused(x, R, O, K, P), NEW y, Unused(y, R, O, K, P), x # y,
         NEW k, k.localCid = x, k.psm = HidControl, Fresh(k),
         NEW l, l.localCid = y, l.psm = HidInterrupt, Fresh(l),
         NEW a, a.type = "Auth", NEW b, b.type = "ConnReq", b.scid = x, b.psm = HidControl,
         NEW c, c.type = "ConnReq", c.scid = y, c.psm = HidInterrupt,
         NEW O2, \A n \in O2 : n \in O \/ n \in {a, b, c}, NEW K2, K2 = K \cup {k, l}
  PROVE  /\ Protocol(R2, O2, K2, P, L)
         /\ \A n \in O : OutBefore(n, a) /\ OutBefore(n, b) /\ OutBefore(n, c)
         /\ OutBefore(a, b) /\ OutBefore(a, c) /\ OutBefore(b, c)
<1>0. L # "theirs" /\ K = {} /\ R2 \subseteq R /\ (\A n \in R2 : RxBefore(m, n))
      /\ (\A n \in R : n.type # "ConnReq") /\ \A n \in R : n.type \notin Naming
  BY DEF Protocol, RxLink, RxNames, Known, TakesRx
<1>1. RxNames(R2, K2)
  BY <1>0 DEF Protocol, RxNames, Known
<1>2. RxLink(R2, K2, L)
  BY <1>0 DEF Protocol, RxLink, RxBefore
<1>3. RxConnReq(R2, O2, K2, P)
  BY <1>0 DEF Protocol, RxConnReq, Unaddressed
<1>4. RxConnRsp(R2, O2, K2, P)
  BY <1>0 DEF Protocol, RxConnRsp, Fresh, Live, Unaddressed, Unbound, RxNames, Known, Naming
<1>5. RxConfReq(R2, K2, P)
  BY <1>0 DEF Protocol, RxConfReq, Live, Accepted, RxNames, Known, Naming
<1>6. RxConfRsp(R2, K2, P)
  BY <1>0 DEF Protocol, RxConfRsp, Live, RxNames, Known, Naming
<1>7. RxDiscReq(R2, K2, P)
  BY <1>0 DEF Protocol, RxDiscReq, Accepted, RxNames, Known, Naming
<1>8. RxData(R2, K2)
  BY <1>0 DEF Protocol, RxData, Answered, RxNames, Known, Naming
<1>9. OutEnds(O2, P)
  BY <1>0 DEF Protocol, OutEnds, ToEnd
<1>10. OutConnReq(R2, O2, K2, P)
  BY <1>0 DEF Protocol, OutConnReq, Known, Fresh, Nameless, Unbound, Unused
<1>11. OutConnRsp(O2, K2, P)
  BY <1>0, ZeroEnd DEF Protocol, OutConnRsp, Known, Fresh, OutEnds, ToEnd, EndOf
<1>12. OutConfReq(R2, O2, K2)
  BY <1>0, ZeroEnd DEF Protocol, OutConfReq, Answered, Fresh, OutEnds, ToEnd, EndOf
<1>13. OutConfRsp(O2, K2)
  BY <1>0, ZeroEnd DEF Protocol, OutConfRsp, Fresh, OutEnds, ToEnd, EndOf
<1>14. OutDiscRsp(O2, K2, P)
  BY <1>0, ZeroEnd DEF Protocol, OutDiscRsp, Known, Fresh, OutEnds, ToEnd, EndOf, Unused,
         Unbound, Bound
<1>15. EndsNew(P)
  BY DEF Protocol
<1>16. EndsPending(R2, K2, P)
  BY <1>0 DEF Protocol, EndsPending, Known, Fresh, RxLink
<1>17. EndsSent(R2, K2, P)
  BY <1>0 DEF Protocol, EndsSent, Known, Final, RxLink
<1>18. EndsConfig(R2, K2, P)
  BY <1>0 DEF Protocol, EndsConfig, Accepted, Answered, EndsSent, Known, Final
<1>19. EndsDistinct(P)
  BY DEF Protocol
<1>20. ChannelsNew(K2, L)
  BY <1>0 DEF Protocol, ChannelsNew, Fresh
<1>21. ChannelsBound(R2, K2, P)
  BY <1>0 DEF Protocol, ChannelsBound, Nameless, Unbound, Live, Fresh
<1>22. ChannelsDistinct(K2)
  BY <1>0 DEF Protocol, ChannelsDistinct, Fresh, HidControl, HidInterrupt
<1>23. \A n \in O : OutBefore(n, a) /\ OutBefore(n, b) /\ OutBefore(n, c)
  BY DEF OutBefore, Unused, ToEnd
<1>24. OutBefore(a, b) /\ OutBefore(a, c) /\ OutBefore(b, c)
  BY DEF OutBefore, ToEnd
<1>. QED  BY <1>23, <1>24, <1>1, <1>2, <1>3, <1>4, <1>5, <1>6, <1>7, <1>8, <1>9, <1>10, <1>11, <1>12, <1>13,
           <1>14, <1>15, <1>16, <1>17, <1>18, <1>19, <1>20, <1>21, <1>22 DEF Protocol

\* A board asks for a channel that the host accepts.
LEMMA RequestStep ==
  ASSUME NEW R, NEW O, NEW K, NEW P, NEW L, Protocol(R, O, K, P, L),
         NEW m, m.type = "ConnReq", NEW R2, TakesRx(R, m, R2), NEW x, Unused(x, R, O, K, P),
         NEW k, k.localCid = x, k.psm = m.psm, k.remoteCid = m.scid,
         ~k.localConfigured, ~k.remoteConfigured, NEW K2, K2 = K \cup {k},
         NEW a, a.type = "ConnRsp", a.dcid = x, a.scid = m.scid, a.arg = Success,
         NEW b, b.type = "ConfReq", b.dcid = m.scid,
         NEW O2, \A n \in O2 : n \in O \/ n \in {a, b}
  PROVE  /\ Protocol(R2, O2, K2, P, L)
         /\ \A n \in O : OutBefore(n, a) /\ OutBefore(n, b)
         /\ OutBefore(a, b)
<1>0. m \in R /\ R2 \subseteq R /\ R \subseteq R2 \cup {m} /\ \A n \in R2 : RxBefore(m, n)
  BY DEF TakesRx
<1>1. RxNames(R2, K2)
  BY <1>0 DEF Protocol, RxNames, Known
<1>2. RxLink(R2, K2, L)
  BY <1>0 DEF Protocol, RxLink
<1>3. RxConnReq(R2, O2, K2, P)
  BY <1>0 DEF Protocol, RxConnReq, Unaddressed, RxBefore, ToEnd, EndOf
<1>4. RxConnRsp(R2, O2, K2, P)
  BY <1>0 DEF Protocol, RxConnRsp, Fresh, Live, Unaddressed, Unbound, Unused, Nameless, Naming,
         Name, Known, ToEnd, EndOf, RxConnReq
<1>5. RxConfReq(R2, K2, P)
  BY <1>0 DEF Protocol, RxConfReq, Live, Accepted, Unused, Nameless, Naming, Name, Known
<1>6. RxConfRsp(R2, K2, P)
  BY <1>0 DEF Protocol, RxConfRsp, Live, Unused, Nameless, Naming, Name
<1>7. RxDiscReq(R2, K2, P)
  BY <1>0 DEF Protocol, RxDiscReq, Accepted, Unused, Nameless, Naming, Name
<1>8. RxData(R2, K2)
  BY <1>0 DEF Protocol, RxData, Answered, Unused, Nameless, Naming, Name
<1>9. OutEnds(O2, P)
  BY <1>0 DEF Protocol, OutEnds, ToEnd, EndOf, RxConnReq, Unaddressed
<1>10. OutConnReq(R2, O2, K2, P)
  BY <1>0 DEF Protocol, OutConnReq, Known, Fresh, Nameless, Unbound, Unused
<1>11. OutConnRsp(O2, K2, P)
  BY <1>0 DEF Protocol, OutConnRsp, Known, Unused, Refused, Success, RxConnReq, Unaddressed,
         ToEnd, EndOf
<1>12. OutConfReq(R2, O2, K2)
  BY <1>0 DEF Protocol, OutConfReq, Answered, RxConnReq, Unaddressed, ToEnd, EndOf, Unused,
         Nameless, Naming, Name
<1>13. OutConfRsp(O2, K2)
  BY <1>0 DEF Protocol, OutConfRsp, RxConnReq, Unaddressed, ToEnd, EndOf
<1>14. OutDiscRsp(O2, K2, P)
  BY <1>0 DEF Protocol, OutDiscRsp, Known, RxConnReq, Unaddressed, OutEnds, ToEnd, EndOf,
         Unused, Unbound, Bound
<1>15. EndsNew(P)
  BY DEF Protocol
<1>16. EndsPending(R2, K2, P)
  BY <1>0 DEF Protocol, EndsPending, Known, Fresh, Unused, Unbound, Bound
<1>17. EndsSent(R2, K2, P)
  BY <1>0 DEF Protocol, EndsSent, Known, Final
<1>18. EndsConfig(R2, K2, P)
  BY <1>0 DEF Protocol, EndsConfig, Accepted, Answered, Unused, Unbound, Bound
<1>19. EndsDistinct(P)
  BY DEF Protocol
<1>20. ChannelsNew(K2, L)
  BY <1>0, ZeroEnd DEF Protocol, ChannelsNew, Fresh, RxConnReq, Unaddressed
<1>21. ChannelsBound(R2, K2, P)
  BY <1>0 DEF Protocol, ChannelsBound, Nameless, Unbound, Live, RxConnReq, Unaddressed, Unused
<1>22. ChannelsDistinct(K2)
  BY <1>0 DEF Protocol, ChannelsDistinct, Unused, Known, RxConnReq, Unaddressed
<1>23. \A n \in O : OutBefore(n, a) /\ OutBefore(n, b)
  BY <1>0 DEF Protocol, RxConnReq, Unaddressed, OutBefore, ToEnd, EndOf
<1>24. OutBefore(a, b)
  BY DEF OutBefore, ToEnd, Success, Refused
<1>. QED  BY <1>23, <1>24, <1>1, <1>2, <1>3, <1>4, <1>5, <1>6, <1>7, <1>8, <1>9, <1>10, <1>11, <1>12, <1>13,
           <1>14, <1>15, <1>16, <1>17, <1>18, <1>19, <1>20, <1>21, <1>22 DEF Protocol

\* A board asks for a channel that the host refuses.
LEMMA RefuseStep ==
  ASSUME NEW R, NEW O, NEW K, NEW P, NEW L, Protocol(R, O, K, P, L),
         NEW m, m.type = "ConnReq", NEW R2, TakesRx(R, m, R2),
         NEW a, a.type = "ConnRsp", a.scid = m.scid, a.arg = Refused,
         NEW O2, \A n \in O2 : n \in O \/ n = a
  PROVE  /\ Protocol(R2, O2, K, P, L)
         /\ \A n \in O : OutBefore(n, a)
<1>0. m \in R /\ R2 \subseteq R /\ R \subseteq R2 \cup {m} /\ \A n \in R2 : RxBefore(m, n)
  BY DEF TakesRx
<1>1. RxNames(R2, K)
  BY <1>0 DEF Protocol, RxNames, Known
<1>2. RxLink(R2, K, L)
  BY <1>0 DEF Protocol, RxLink
<1>3. RxConnReq(R2, O2, K, P)
  BY <1>0 DEF Protocol, RxConnReq, Unaddressed, RxBefore, ToEnd, EndOf
<1>4. RxConnRsp(R2, O2, K, P)
  BY <1>0 DEF Protocol, RxConnRsp, Fresh, Live, Unaddressed, Unbound, RxConnReq, ToEnd, EndOf
<1>5. RxConfReq(R2, K, P)
  BY <1>0 DEF Protocol, RxConfReq, Live, Accepted
<1>6. RxConfRsp(R2, K, P)
  BY <1>0 DEF Protocol, RxConfRsp, Live
<1>7. RxDiscReq(R2, K, P)
  BY <1>0 DEF Protocol, RxDiscReq, Accepted
<1>8. RxData(R2, K)
  BY <1>0 DEF Protocol, RxData, Answered
<1>9. OutEnds(O2, P)
  BY <1>0 DEF Protocol, OutEnds, ToEnd, EndOf, RxConnReq, Unaddressed
<1>10. OutConnReq(R2, O2, K, P)
  BY <1>0 DEF Protocol, OutConnReq, Known, Fresh, Nameless, Unbound
<1>11. OutConnRsp(O2, K, P)
  BY <1>0 DEF Protocol, OutConnRsp, Known, Refused, Success, RxConnReq, Unaddressed
<1>12. OutConfReq(R2, O2, K)
  BY <1>0 DEF Protocol, OutConfReq, Answered
<1>13. OutConfRsp(O2, K)
  BY <1>0 DEF Protocol, OutConfRsp
<1>14. OutDiscRsp(O2, K, P)
  BY <1>0 DEF Protocol, OutDiscRsp, Known
<1>15. EndsNew(P)
  BY DEF Protocol
<1>16. EndsPending(R2, K, P)
  BY <1>0 DEF Protocol, EndsPending, Known, Fresh
<1>17. EndsSent(R2, K, P)
  BY <1>0 DEF Protocol, EndsSent, Known, Final
<1>18. EndsConfig(R2, K, P)
  BY <1>0 DEF Protocol, EndsConfig, Accepted, Answered
<1>19. EndsDistinct(P)
  BY DEF Protocol
<1>20. ChannelsNew(K, L)
  BY DEF Protocol
<1>21. ChannelsBound(R2, K, P)
  BY <1>0 DEF Protocol, ChannelsBound, Nameless, Unbound, Live
<1>22. ChannelsDistinct(K)
  BY DEF Protocol
<1>23. \A n \in O : OutBefore(n, a)
  BY <1>0 DEF Protocol, RxConnReq, Unaddressed, OutBefore, ToEnd, EndOf
<1>. QED  BY <1>23, <1>1, <1>2, <1>3, <1>4, <1>5, <1>6, <1>7, <1>8, <1>9, <1>10, <1>11, <1>12, <1>13,
           <1>14, <1>15, <1>16, <1>17, <1>18, <1>19, <1>20, <1>21, <1>22 DEF Protocol

\* A board accepts the channel k: the host asks for its configuration.
LEMMA AcceptedStep ==
  ASSUME NEW R, NEW O, NEW K, NEW P, NEW L, Protocol(R, O, K, P, L),
         NEW m, m.type = "ConnRsp", m.arg = Success, NEW R2, TakesRx(R, m, R2),
         NEW k \in K, k.localCid = m.scid,
         NEW l, l.localCid = k.localCid, l.psm = k.psm, l.remoteCid = m.dcid,
         l.localConfigured = k.localConfigured, l.remoteConfigured = k.remoteConfigured,
         NEW K2, K2 = (K \ {k}) \cup {l},
         NEW b, b.type = "ConfReq", b.dcid = m.dcid,
         NEW O2, \A n \in O2 : n \in O \/ n = b
  PROVE  /\ Protocol(R2, O2, K2, P, L)
         /\ \A n \in O : OutBefore(n, b)
<1>0. m \in R /\ R2 \subseteq R /\ R \subseteq R2 \cup {m} /\ \A n \in R2 : RxBefore(m, n)
  BY DEF TakesRx
<1>00. /\ Fresh(k) /\ m.dcid \in PeerCid /\ Live(P[m.dcid]) /\ P[m.dcid].hostCid = m.scid
       /\ k.psm = P[m.dcid].psm /\ Unaddressed(O, m.dcid)
  BY <1>0 DEF Protocol, RxConnRsp
<1>000. /\ \A j \in K : j.remoteCid # m.dcid
        /\ \A n \in R2 : n.type = "ConnRsp" => n.scid # m.scid
        /\ \A x, c : x # m.scid /\ Accepted(R, x, c) => Accepted(R2, x, c)
  <2>1. ASSUME NEW j \in K, j.remoteCid = m.dcid
        PROVE  FALSE
    BY <1>00, <2>1, ZeroEnd DEF Protocol, ChannelsBound, ChannelsDistinct, Live, Fresh
  <2>2. \A n \in R2 : n.type = "ConnRsp" => n.scid # m.scid
    BY <1>0 DEF RxBefore, Naming, Name, Success, Pending
  <2>. QED  BY <1>0, <2>1, <2>2 DEF Accepted
<1>1. RxNames(R2, K2)
  BY <1>0, <1>00, <1>000 DEF Protocol, RxNames, Known
<1>2. RxLink(R2, K2, L)
  BY <1>0, <1>00, <1>000 DEF Protocol, RxLink
<1>3. RxConnReq(R2, O2, K2, P)
  BY <1>0, <1>00, <1>000 DEF Protocol, RxConnReq, Unaddressed, Live, ToEnd, EndOf
<1>4. RxConnRsp(R2, O2, K2, P)
  BY <1>0, <1>00, <1>000 DEF Protocol, RxConnRsp, Fresh, Live, Unaddressed, Unbound, ToEnd,
         EndOf
<1>5. RxConfReq(R2, K2, P)
  BY <1>0, <1>00, <1>000, ZeroEnd DEF Protocol, RxConfReq, Live, Accepted, Fresh,
         ChannelsDistinct
<1>6. RxConfRsp(R2, K2, P)
  BY <1>0, <1>00, <1>000 DEF Protocol, RxConfRsp, Live, Fresh, ChannelsDistinct
<1>7. RxDiscReq(R2, K2, P)
  BY <1>0, <1>00, <1>000, ZeroEnd DEF Protocol, RxDiscReq, Accepted, Fresh, ChannelsDistinct
<1>8. RxData(R2, K2)
  BY <1>0, <1>00, <1>000 DEF Protocol, RxData, Answered, Fresh, ChannelsDistinct
<1>9. OutEnds(O2, P)
  BY <1>0, <1>00, <1>000 DEF Protocol, OutEnds, ToEnd, EndOf, Live
<1>10. OutConnReq(R2, O2, K2, P)
  BY <1>0, <1>00, <1>000 DEF Protocol, OutConnReq, Known, Fresh, Nameless, Unbound, Naming,
         Name
<1>11. OutConnRsp(O2, K2, P)
  BY <1>0, <1>00, <1>000, ZeroEnd DEF Protocol, OutConnRsp, Known, Fresh, OutEnds, ToEnd,
         EndOf, Live
<1>12. OutConfReq(R2, O2, K2)
  BY <1>0, <1>00, <1>000 DEF Protocol, OutConfReq, Answered, RxConfRsp, Live, Fresh,
         Unaddressed, ToEnd, EndOf
<1>13. OutConfRsp(O2, K2)
  BY <1>0, <1>00, <1>000 DEF Protocol, OutConfRsp, Unaddressed, ToEnd, EndOf
<1>14. OutDiscRsp(O2, K2, P)
  BY <1>0, <1>00, <1>000 DEF Protocol, OutDiscRsp, Known, Unaddressed, ToEnd, EndOf
<1>15. EndsNew(P)
  BY DEF Protocol
<1>16. EndsPending(R2, K2, P)
  BY <1>0, <1>00, <1>000 DEF Protocol, EndsPending, Known, Fresh, Naming, Name, Success,
         Pending
<1>17. EndsSent(R2, K2, P)
  BY <1>0, <1>00, <1>000 DEF Protocol, EndsSent, Known, Final
<1>18. EndsConfig(R2, K2, P)
  BY <1>0, <1>00, <1>000 DEF Protocol, EndsConfig, Accepted, Answered, EndsDistinct, Bound,
         Live, ChannelsDistinct
<1>19. EndsDistinct(P)
  BY DEF Protocol
<1>20. ChannelsNew(K2, L)
  BY <1>0, <1>00, <1>000, ZeroEnd DEF Protocol, ChannelsNew, Fresh
<1>21. ChannelsBound(R2, K2, P)
  BY <1>0, <1>00, <1>000 DEF Protocol, ChannelsBound, Nameless, Unbound, Live, Fresh
<1>22. ChannelsDistinct(K2)
  BY <1>0, <1>00, <1>000 DEF Protocol, ChannelsDistinct
<1>23. \A n \in O : OutBefore(n, b)
  BY <1>00 DEF Unaddressed, OutBefore, ToEnd, EndOf
<1>. QED  BY <1>23, <1>1, <1>2, <1>3, <1>4, <1>5, <1>6, <1>7, <1>8, <1>9, <1>10, <1>11, <1>12, <1>13,
           <1>14, <1>15, <1>16, <1>17, <1>18, <1>19, <1>20, <1>21, <1>22 DEF Protocol

\* A board refuses the channel k.
LEMMA RefusedStep ==
  ASSUME NEW R, NEW O, NEW K, NEW P, NEW L, Protocol(R, O, K, P, L),
         NEW m, m.type = "ConnRsp", m.arg = Refused, NEW R2, TakesRx(R, m, R2),
         NEW k \in K, k.localCid = m.scid, NEW K2, K2 = K \ {k}
  PROVE  Protocol(R2, O, K2, P, L)
<1>0. m \in R /\ R2 \subseteq R /\ R \subseteq R2 \cup {m} /\ \A n \in R2 : RxBefore(m, n)
  BY DEF TakesRx
<1>00. Fresh(k) /\ Unbound(P, m.scid)
  BY <1>0 DEF Protocol, RxConnRsp
<1>1. RxNames(R2, K2)
  BY <1>0, <1>00 DEF Protocol, RxNames, Known, RxBefore, Naming, Name, Final
<1>2. RxLink(R2, K2, L)
  BY <1>0, <1>00 DEF Protocol, RxLink
<1>3. RxConnReq(R2, O, K2, P)
  BY <1>0, <1>00 DEF Protocol, RxConnReq, Unaddressed
<1>4. RxConnRsp(R2, O, K2, P)
  BY <1>0, <1>00 DEF Protocol, RxConnRsp, Fresh, Live, Unaddressed, Unbound
<1>5. RxConfReq(R2, K2, P)
  BY <1>0, <1>00 DEF Protocol, RxConfReq, Live, Accepted, Success, Refused
<1>6. RxConfRsp(R2, K2, P)
  BY <1>0, <1>00 DEF Protocol, RxConfRsp, Live
<1>7. RxDiscReq(R2, K2, P)
  BY <1>0, <1>00 DEF Protocol, RxDiscReq, Accepted, Success, Refused
<1>8. RxData(R2, K2)
  BY <1>0, <1>00 DEF Protocol, RxData, Answered
<1>9. OutEnds(O, P)
  BY DEF Protocol
<1>10. OutConnReq(R2, O, K2, P)
  BY <1>0, <1>00 DEF Protocol, OutConnReq, Known, Fresh, Nameless, Unbound, Naming, Name
<1>11. OutConnRsp(O, K2, P)
  BY <1>0, <1>00, ZeroEnd DEF Protocol, OutConnRsp, Known, Fresh, OutEnds, ToEnd, EndOf
<1>12. OutConfReq(R2, O, K2)
  BY <1>0, <1>00 DEF Protocol, OutConfReq, Answered
<1>13. OutConfRsp(O, K2)
  BY <1>0, <1>00 DEF Protocol, OutConfRsp
<1>14. OutDiscRsp(O, K2, P)
  BY <1>0, <1>00 DEF Protocol, OutDiscRsp, Known
<1>15. EndsNew(P)
  BY DEF Protocol
<1>16. EndsPending(R2, K2, P)
  BY <1>0, <1>00 DEF Protocol, EndsPending, Known, Fresh, Unbound, Bound
<1>17. EndsSent(R2, K2, P)
  BY <1>0, <1>00 DEF Protocol, EndsSent, Known, Final, Unbound, Bound
<1>18. EndsConfig(R2, K2, P)
  BY <1>0, <1>00 DEF Protocol, EndsConfig, Accepted, Answered, Success, Refused
<1>19. EndsDistinct(P)
  BY DEF Protocol
<1>20. ChannelsNew(K2, L)
  BY <1>0, <1>00 DEF Protocol, ChannelsNew, Fresh
<1>21. ChannelsBound(R2, K2, P)
  BY <1>0, <1>00 DEF Protocol, ChannelsBound, Nameless, Unbound, Live
<1>22. ChannelsDistinct(K2)
  BY <1>0, <1>00 DEF Protocol, ChannelsDistinct
<1>. QED  BY <1>1, <1>2, <1>3, <1>4, <1>5, <1>6, <1>7, <1>8, <1>9, <1>10, <1>11, <1>12, <1>13,
           <1>14, <1>15, <1>16, <1>17, <1>18, <1>19, <1>20, <1>21, <1>22 DEF Protocol

\* A board asks for the configuration of the channel k, with options that the
\* host answers; the host may go on with data.
LEMMA ConfReqStep ==
  ASSUME NEW R, NEW O, NEW K, NEW P, NEW L, Protocol(R, O, K, P, L),
         NEW m, m.type = "ConfReq", NEW R2, TakesRx(R, m, R2),
         NEW k \in K, k.localCid = m.dcid,
         NEW l, l.localCid = k.localCid, l.psm = k.psm, l.remoteCid = k.remoteCid,
         l.localConfigured = k.localConfigured, l.remoteConfigured,
         NEW K2, K2 = (K \ {k}) \cup {l},
         NEW a, a.type = "ConfRsp", a.scid = k.remoteCid,
         NEW O2, \A n \in O2 : n \in O \/ n = a \/ n.type = "Data"
  PROVE  /\ Protocol(R2, O2, K2, P, L)
         /\ \A n \in O : OutBefore(n, a)
<1>0. m \in R /\ R2 \subseteq R /\ R \subseteq R2 \cup {m} /\ \A n \in R2 : RxBefore(m, n)
  BY DEF TakesRx
<1>000. /\ k.remoteCid \in PeerCid /\ Live(P[k.remoteCid]) /\ P[k.remoteCid].hostCid = k.localCid
        /\ P[k.remoteCid].reqSent
  <2>1. PICK c \in PeerCid : Live(P[c]) /\ P[c].reqSent /\ P[c].hostCid = k.localCid
    BY <1>0 DEF Protocol, RxConfReq
  <2>2. k.remoteCid # 0
    BY <1>0 DEF Protocol, RxConfReq, Accepted, RxBefore, Naming, Name
  <2>3. /\ k.remoteCid \in PeerCid /\ Live(P[k.remoteCid]) /\ P[k.remoteCid].hostCid = k.localCid
    BY <1>0, <2>2 DEF Protocol, ChannelsBound, Nameless, Naming, Name
  <2>4. c = k.remoteCid
    BY <2>1, <2>3 DEF Protocol, EndsDistinct, Bound, Live
  <2>. QED  BY <2>1, <2>2, <2>3, <2>4
<1>1. RxNames(R2, K2)
  BY <1>0, <1>000 DEF Protocol, RxNames, Known
<1>2. RxLink(R2, K2, L)
  BY <1>0, <1>000 DEF Protocol, RxLink
<1>3. RxConnReq(R2, O2, K2, P)
  BY <1>0, <1>000 DEF Protocol, RxConnReq, Unaddressed, ToEnd, EndOf
<1>4. RxConnRsp(R2, O2, K2, P)
  BY <1>0, <1>000 DEF Protocol, RxConnRsp, Fresh, Live, Unaddressed, Unbound, ToEnd, EndOf,
         RxBefore, Naming, Name
<1>5. RxConfReq(R2, K2, P)
  BY <1>0, <1>000 DEF Protocol, RxConfReq, Live, Accepted, RxBefore, Naming, Name
<1>6. RxConfRsp(R2, K2, P)
  BY <1>0, <1>000 DEF Protocol, RxConfRsp, Live
<1>7. RxDiscReq(R2, K2, P)
  BY <1>0, <1>000 DEF Protocol, RxDiscReq, Accepted
<1>8. RxData(R2, K2)
  BY <1>0, <1>000 DEF Protocol, RxData, Answered
<1>9. OutEnds(O2, P)
  BY <1>0, <1>000 DEF Protocol, OutEnds, ToEnd, EndOf, Live
<1>10. OutConnReq(R2, O2, K2, P)
  BY <1>0, <1>000 DEF Protocol, OutConnReq, Known, Fresh, Nameless, Unbound, Naming, Name
<1>11. OutConnRsp(O2, K2, P)
  BY <1>0, <1>000 DEF Protocol, OutConnRsp, Known
<1>12. OutConfReq(R2, O2, K2)
  BY <1>0, <1>000 DEF Protocol, OutConfReq, Answered
<1>13. OutConfRsp(O2, K2)
  BY <1>0, <1>000, ZeroEnd DEF Protocol, OutConfRsp, ChannelsDistinct
<1>14. OutDiscRsp(O2, K2, P)
  BY <1>0, <1>000 DEF Protocol, OutDiscRsp, Known
<1>15. EndsNew(P)
  BY DEF Protocol
<1>16. EndsPending(R2, K2, P)
  BY <1>0, <1>000 DEF Protocol, EndsPending, Known, Fresh, Naming, Name
<1>17. EndsSent(R2, K2, P)
  BY <1>0, <1>000 DEF Protocol, EndsSent, Known, Final
<1>18. EndsConfig(R2, K2, P)
  BY <1>0, <1>000 DEF Protocol, EndsConfig, Accepted, Answered, EndsDistinct, Bound, Live
<1>19. EndsDistinct(P)
  BY DEF Protocol
<1>20. ChannelsNew(K2, L)
  BY <1>0, <1>000, ZeroEnd DEF Protocol, ChannelsNew, Fresh
<1>21. ChannelsBound(R2, K2, P)
  BY <1>0, <1>000 DEF Protocol, ChannelsBound, Nameless, Unbound, Live
<1>22. ChannelsDistinct(K2)
  BY <1>0, <1>000 DEF Protocol, ChannelsDistinct
<1>23. \A n \in O : OutBefore(n, a)
  BY <1>000 DEF Protocol, OutConnRsp, OutConfRsp, OutDiscRsp, OutBefore, ToEnd, EndOf, Live
<1>. QED  BY <1>23, <1>1, <1>2, <1>3, <1>4, <1>5, <1>6, <1>7, <1>8, <1>9, <1>10, <1>11, <1>12, <1>13,
           <1>14, <1>15, <1>16, <1>17, <1>18, <1>19, <1>20, <1>21, <1>22 DEF Protocol

\* A board answers the configuration request for the channel k; the host may go
\* on with data.
LEMMA ConfRspStep ==
  ASSUME NEW R, NEW O, NEW K, NEW P, NEW L, Protocol(R, O, K, P, L),
         NEW m, m.type = "ConfRsp", NEW R2, TakesRx(R, m, R2),
         NEW k \in K, k.localCid = m.scid,
         NEW l, l.localCid = k.localCid, l.psm = k.psm, l.remoteCid = k.remoteCid,
         l.localConfigured, l.remoteConfigured = k.remoteConfigured,
         NEW K2, K2 = (K \ {k}) \cup {l},
         NEW O2, \A n \in O2 : n \in O \/ n.type = "Data"
  PROVE  Protocol(R2, O2, K2, P, L)
<1>0. m \in R /\ R2 \subseteq R /\ R \subseteq R2 \cup {m} /\ \A n \in R2 : RxBefore(m, n)
  BY DEF TakesRx
<1>000. /\ k.remoteCid \in PeerCid /\ Live(P[k.remoteCid]) /\ P[k.remoteCid].hostCid = k.localCid
        /\ P[k.remoteCid].rspSent
  <2>1. PICK c \in PeerCid : Live(P[c]) /\ P[c].rspSent /\ P[c].hostCid = k.localCid
    BY <1>0 DEF Protocol, RxConfRsp
  <2>2. k.remoteCid # 0
    BY <1>0 DEF Protocol, RxConfRsp
  <2>3. /\ k.remoteCid \in PeerCid /\ Live(P[k.remoteCid]) /\ P[k.remoteCid].hostCid = k.localCid
    BY <1>0, <2>2 DEF Protocol, ChannelsBound, Nameless, Naming, Name
  <2>4. c = k.remoteCid
    BY <2>1, <2>3 DEF Protocol, EndsDistinct, Bound, Live
  <2>. QED  BY <2>1, <2>2, <2>3, <2>4
<1>1. RxNames(R2, K2)
  BY <1>0, <1>000 DEF Protocol, RxNames, Known
<1>2. RxLink(R2, K2, L)
  BY <1>0, <1>000 DEF Protocol, RxLink
<1>3. RxConnReq(R2, O2, K2, P)
  BY <1>0, <1>000 DEF Protocol, RxConnReq, Unaddressed, ToEnd, EndOf
<1>4. RxConnRsp(R2, O2, K2, P)
  BY <1>0, <1>000 DEF Protocol, RxConnRsp, Fresh, Live, Unaddressed, Unbound, ToEnd, EndOf,
         RxBefore, Naming, Name
<1>5. RxConfReq(R2, K2, P)
  BY <1>0, <1>000 DEF Protocol, RxConfReq, Live, Accepted, ChannelsDistinct
<1>6. RxConfRsp(R2, K2, P)
  BY <1>0, <1>000 DEF Protocol, RxConfRsp, Live, RxBefore, Naming, Name, ChannelsDistinct
<1>7. RxDiscReq(R2, K2, P)
  BY <1>0, <1>000 DEF Protocol, RxDiscReq, Accepted
<1>8. RxData(R2, K2)
  BY <1>0, <1>000 DEF Protocol, RxData, Answered, ChannelsDistinct
<1>9. OutEnds(O2, P)
  BY <1>0, <1>000 DEF Protocol, OutEnds, ToEnd, EndOf
<1>10. OutConnReq(R2, O2, K2, P)
  BY <1>0, <1>000 DEF Protocol, OutConnReq, Known, Fresh, Nameless, Unbound, Naming, Name
<1>11. OutConnRsp(O2, K2, P)
  BY <1>0, <1>000 DEF Protocol, OutConnRsp, Known
<1>12. OutConfReq(R2, O2, K2)
  BY <1>0, <1>000 DEF Protocol, OutConfReq, Answered
<1>13. OutConfRsp(O2, K2)
  BY <1>0, <1>000 DEF Protocol, OutConfRsp
<1>14. OutDiscRsp(O2, K2, P)
  BY <1>0, <1>000 DEF Protocol, OutDiscRsp, Known
<1>15. EndsNew(P)
  BY DEF Protocol
<1>16. EndsPending(R2, K2, P)
  BY <1>0, <1>000 DEF Protocol, EndsPending, Known, Fresh, Naming, Name
<1>17. EndsSent(R2, K2, P)
  BY <1>0, <1>000 DEF Protocol, EndsSent, Known, Final
<1>18. EndsConfig(R2, K2, P)
  BY <1>0, <1>000 DEF Protocol, EndsConfig, Accepted, Answered, EndsDistinct, Bound, Live,
         ChannelsDistinct
<1>19. EndsDistinct(P)
  BY DEF Protocol
<1>20. ChannelsNew(K2, L)
  BY <1>0, <1>000, ZeroEnd DEF Protocol, ChannelsNew, Fresh
<1>21. ChannelsBound(R2, K2, P)
  BY <1>0, <1>000 DEF Protocol, ChannelsBound, Nameless, Unbound, Live
<1>22. ChannelsDistinct(K2)
  BY <1>0, <1>000 DEF Protocol, ChannelsDistinct
<1>. QED  BY <1>1, <1>2, <1>3, <1>4, <1>5, <1>6, <1>7, <1>8, <1>9, <1>10, <1>11, <1>12, <1>13,
           <1>14, <1>15, <1>16, <1>17, <1>18, <1>19, <1>20, <1>21, <1>22 DEF Protocol

\* A board closes the channel k.
LEMMA DiscReqStep ==
  ASSUME NEW R, NEW O, NEW K, NEW P, NEW L, Protocol(R, O, K, P, L),
         NEW m, m.type = "DiscReq", NEW R2, TakesRx(R, m, R2),
         NEW k \in K, k.localCid = m.dcid, k.remoteCid = m.scid, NEW K2, K2 = K \ {k},
         NEW a, a.type = "DiscRsp", a.scid = m.scid,
         NEW O2, \A n \in O2 : n \in O \/ n = a
  PROVE  /\ Protocol(R2, O2, K2, P, L)
         /\ \A n \in O : OutBefore(n, a)
<1>0. m \in R /\ R2 \subseteq R /\ R \subseteq R2 \cup {m} /\ \A n \in R2 : RxBefore(m, n)
  BY DEF TakesRx
<1>00. m.scid \in PeerCid /\ P[m.scid].state = "closing" /\ P[m.scid].hostCid = m.dcid
  BY <1>0 DEF Protocol, RxDiscReq
<1>1. RxNames(R2, K2)
  BY <1>0, <1>00 DEF Protocol, RxNames, Known, RxBefore, Naming, Name, Final
<1>2. RxLink(R2, K2, L)
  BY <1>0, <1>00 DEF Protocol, RxLink
<1>3. RxConnReq(R2, O2, K2, P)
  BY <1>0, <1>00 DEF Protocol, RxConnReq, Unaddressed, ToEnd, EndOf
<1>4. RxConnRsp(R2, O2, K2, P)
  BY <1>0, <1>00 DEF Protocol, RxConnRsp, Fresh, Live, Unaddressed, Unbound, ToEnd, EndOf,
         RxBefore, Naming, Name, Final
<1>5. RxConfReq(R2, K2, P)
  BY <1>0, <1>00 DEF Protocol, RxConfReq, Live, Accepted
<1>6. RxConfRsp(R2, K2, P)
  BY <1>0, <1>00 DEF Protocol, RxConfRsp, Live
<1>7. RxDiscReq(R2, K2, P)
  BY <1>0, <1>00 DEF Protocol, RxDiscReq, Accepted
<1>8. RxData(R2, K2)
  BY <1>0, <1>00 DEF Protocol, RxData, Answered
<1>9. OutEnds(O2, P)
  BY <1>0, <1>00 DEF Protocol, OutEnds, ToEnd, EndOf
<1>10. OutConnReq(R2, O2, K2, P)
  BY <1>0, <1>00 DEF Protocol, OutConnReq, Known, Fresh, Nameless, Unbound, Naming, Name
<1>11. OutConnRsp(O2, K2, P)
  BY <1>0, <1>00 DEF Protocol, OutConnRsp, Known
<1>12. OutConfReq(R2, O2, K2)
  BY <1>0, <1>00 DEF Protocol, OutConfReq, Answered
<1>13. OutConfRsp(O2, K2)
  BY <1>0, <1>00 DEF Protocol, OutConfRsp
<1>14. OutDiscRsp(O2, K2, P)
  BY <1>0, <1>00, ZeroEnd DEF Protocol, OutDiscRsp, Known, ChannelsDistinct
<1>15. EndsNew(P)
  BY DEF Protocol
<1>16. EndsPending(R2, K2, P)
  BY <1>0, <1>00 DEF Protocol, EndsPending, Known, Fresh, Naming, Name
<1>17. EndsSent(R2, K2, P)
  BY <1>0, <1>00 DEF Protocol, EndsSent, Known, Final, Naming, Name
<1>18. EndsConfig(R2, K2, P)
  BY <1>0, <1>00 DEF Protocol, EndsConfig, Accepted, Answered
<1>19. EndsDistinct(P)
  BY DEF Protocol
<1>20. ChannelsNew(K2, L)
  BY <1>0, <1>00 DEF Protocol, ChannelsNew, Fresh
<1>21. ChannelsBound(R2, K2, P)
  BY <1>0, <1>00 DEF Protocol, ChannelsBound, Nameless, Unbound, Live
<1>22. ChannelsDistinct(K2)
  BY <1>0, <1>00 DEF Protocol, ChannelsDistinct
<1>23. \A n \in O : OutBefore(n, a)
  BY <1>00 DEF Protocol, OutConnRsp, OutDiscRsp, OutBefore, ToEnd, EndOf
<1>. QED  BY <1>23, <1>1, <1>2, <1>3, <1>4, <1>5, <1>6, <1>7, <1>8, <1>9, <1>10, <1>11, <1>12, <1>13,
           <1>14, <1>15, <1>16, <1>17, <1>18, <1>19, <1>20, <1>21, <1>22 DEF Protocol
--------------------------------------------------------------------------------
(* The board's steps.                                                        *)

\* A link comes up with nothing on its way and no channel open.
LEMMA LinkUpStep ==
  ASSUME NEW R, NEW L, \A m \in R : m.type = "ConnectionComplete" /\ (m.arg = Ours => L = "ours")
  PROVE  Protocol(R, {}, {}, NoEnds, L)
<1>1. \A c \in PeerCid : /\ NoEnds[c].state = "closed"
                         /\ ~Live(NoEnds[c]) /\ ~Bound(NoEnds[c])
  BY DEF NoEnds, NewEnd, Live, Bound
<1>2. /\ RxNames(R, {}) /\ RxLink(R, {}, L)
      /\ RxConnReq(R, {}, {}, NoEnds) /\ RxConnRsp(R, {}, {}, NoEnds)
      /\ RxConfReq(R, {}, NoEnds) /\ RxConfRsp(R, {}, NoEnds)
      /\ RxDiscReq(R, {}, NoEnds) /\ RxData(R, {})
  BY DEF RxNames, RxLink, RxConnReq, RxConnRsp, RxConfReq, RxConfRsp, RxDiscReq, RxData, Naming
<1>3. /\ OutEnds({}, NoEnds) /\ OutConnReq(R, {}, {}, NoEnds) /\ OutConnRsp({}, {}, NoEnds)
      /\ OutConfReq(R, {}, {}) /\ OutConfRsp({}, {}) /\ OutDiscRsp({}, {}, NoEnds)
      /\ ChannelsNew({}, L) /\ ChannelsBound(R, {}, NoEnds) /\ ChannelsDistinct({})
  BY DEF OutEnds, OutConnReq, OutConnRsp, OutConfReq, OutConfRsp, OutDiscRsp,
         ChannelsNew, ChannelsBound, ChannelsDistinct
<1>4. /\ EndsNew(NoEnds) /\ EndsPending(R, {}, NoEnds) /\ EndsSent(R, {}, NoEnds)
      /\ EndsConfig(R, {}, NoEnds) /\ EndsDistinct(NoEnds)
  BY <1>1 DEF EndsNew, EndsPending, EndsSent, EndsConfig, EndsDistinct
<1>. QED  BY <1>2, <1>3, <1>4 DEF Protocol

\* A board asks for a channel.
LEMMA ConnectStep ==
  ASSUME NEW R, NEW O, NEW K, NEW P, NEW L, Protocol(R, O, K, P, L),
         L = "theirs", NEW c \in PeerCid, P[c].state = "closed",
         NEW q, \A d \in PeerCid : P[d].psm = q => P[d].state = "closed",
         NEW n, n.type = "ConnReq", n.scid = c, n.psm = q, NEW R2, R2 = R \cup {n},
         NEW e, e.state = "waiting", e.psm = q, e.hostCid = 0,
         ~e.reqSent, ~e.rspSent, ~e.rspGot,
         NEW P2, EndBecomes(P, c, e, P2)
  PROVE  /\ Protocol(R2, O, K, P2, L)
         /\ \A a \in R : RxBefore(a, n)
<1>0. P2[c] = e /\ \A d \in PeerCid : d # c => P2[d] = P[d]
  BY DEF EndBecomes
<1>000. /\ \A k \in K : k.remoteCid # c /\ k.psm # q
        /\ Unaddressed(O, c)
  <2>1. \A k \in K : k.remoteCid # c /\ k.psm # q
    BY DEF Protocol, ChannelsNew, ChannelsBound, Live
  <2>2. Unaddressed(O, c)
    BY DEF Protocol, OutEnds, Unaddressed
  <2>. QED  BY <2>1, <2>2
<1>1. RxNames(R2, K)
  BY <1>0, <1>000 DEF Protocol, RxNames, Known, Naming
<1>2. RxLink(R2, K, L)
  BY <1>0, <1>000 DEF Protocol, RxLink
<1>3. RxConnReq(R2, O, K, P2)
  BY <1>0, <1>000 DEF Protocol, RxConnReq, Unaddressed
<1>4. RxConnRsp(R2, O, K, P2)
  BY <1>0, <1>000 DEF Protocol, RxConnRsp, Fresh, Live, Unaddressed, Unbound, Bound
<1>5. RxConfReq(R2, K, P2)
  BY <1>0, <1>000 DEF Protocol, RxConfReq, Live, Accepted
<1>6. RxConfRsp(R2, K, P2)
  BY <1>0, <1>000 DEF Protocol, RxConfRsp, Live
<1>7. RxDiscReq(R2, K, P2)
  BY <1>0, <1>000 DEF Protocol, RxDiscReq, Accepted
<1>8. RxData(R2, K)
  BY <1>0, <1>000 DEF Protocol, RxData, Answered
<1>9. OutEnds(O, P2)
  BY <1>0, <1>000 DEF Protocol, OutEnds
<1>10. OutConnReq(R2, O, K, P2)
  BY <1>0, <1>000 DEF Protocol, OutConnReq, Known, Fresh, Nameless, Unbound, Bound, Naming
<1>11. OutConnRsp(O, K, P2)
  BY <1>0, <1>000 DEF Protocol, OutConnRsp, Known, OutEnds, ToEnd, EndOf
<1>12. OutConfReq(R2, O, K)
  BY <1>0, <1>000 DEF Protocol, OutConfReq, Answered
<1>13. OutConfRsp(O, K)
  BY DEF Protocol
<1>14. OutDiscRsp(O, K, P2)
  BY <1>0, <1>000 DEF Protocol, OutDiscRsp, Known, OutEnds, ToEnd, EndOf
<1>15. EndsNew(P2)
  BY <1>0, <1>000 DEF Protocol, EndsNew
<1>16. EndsPending(R2, K, P2)
  BY <1>0, <1>000 DEF Protocol, EndsPending, Known, Fresh, Bound, Naming
<1>17. EndsSent(R2, K, P2)
  BY <1>0, <1>000 DEF Protocol, EndsSent, Known, Final, Bound, Naming
<1>18. EndsConfig(R2, K, P2)
  BY <1>0, <1>000 DEF Protocol, EndsConfig, Accepted, Answered, Bound
<1>19. EndsDistinct(P2)
  BY <1>0, <1>000 DEF Protocol, EndsDistinct, Bound
<1>20. ChannelsNew(K, L)
  BY DEF Protocol
<1>21. ChannelsBound(R2, K, P2)
  BY <1>0, <1>000 DEF Protocol, ChannelsBound, Nameless, Unbound, Live, Bound, Naming
<1>22. ChannelsDistinct(K)
  BY DEF Protocol
<1>23. \A a \in R : RxBefore(a, n)
  BY DEF Protocol, RxConnReq, RxBefore, Naming
<1>. QED  BY <1>23, <1>1, <1>2, <1>3, <1>4, <1>5, <1>6, <1>7, <1>8, <1>9, <1>10, <1>11, <1>12, <1>13,
           <1>14, <1>15, <1>16, <1>17, <1>18, <1>19, <1>20, <1>21, <1>22 DEF Protocol

\* A board accepts a channel at once.
LEMMA GrantStep ==
  ASSUME NEW R, NEW O, NEW K, NEW P, NEW L, Protocol(R, O, K, P, L),
         NEW m, m.type = "ConnReq", NEW O2, TakesOut(O, m, O2),
         NEW c \in PeerCid, P[c].state = "closed",
         NEW n, n.type = "ConnRsp", n.scid = m.scid, n.dcid = c, n.arg = Success,
         NEW R2, R2 = R \cup {n},
         NEW e, e.state = "config", e.psm = m.psm, e.hostCid = m.scid,
         ~e.reqSent, ~e.rspSent, ~e.rspGot,
         NEW P2, EndBecomes(P, c, e, P2)
  PROVE  /\ Protocol(R2, O2, K, P2, L)
         /\ \A a \in R : RxBefore(a, n)
<1>0. P2[c] = e /\ \A d \in PeerCid : d # c => P2[d] = P[d]
  BY DEF EndBecomes
<1>00. m \in O /\ O2 \subseteq O /\ O \subseteq O2 \cup {m} /\ \A o \in O2 : OutBefore(m, o)
  BY DEF TakesOut
<1>000. /\ Known(K, m.scid) /\ (\A k \in K : k.localCid = m.scid => Fresh(k) /\ k.psm = m.psm)
        /\ Nameless(R, m.scid) /\ Unbound(P, m.scid) /\ Unaddressed(O, c)
        /\ \A k \in K : k.remoteCid # c
  <2>1. /\ Known(K, m.scid) /\ (\A k \in K : k.localCid = m.scid => Fresh(k) /\ k.psm = m.psm)
        /\ Nameless(R, m.scid) /\ Unbound(P, m.scid)
    BY <1>00 DEF Protocol, OutConnReq
  <2>2. Unaddressed(O, c)
    BY DEF Protocol, OutEnds, Unaddressed
  <2>3. \A k \in K : k.remoteCid # c
    BY ZeroEnd DEF Protocol, ChannelsBound, Live
  <2>. QED  BY <2>1, <2>2, <2>3
<1>1. RxNames(R2, K)
  BY <1>0, <1>00, <1>000 DEF Protocol, RxNames, Known, Naming, Name, Unbound, Nameless, Fresh
<1>2. RxLink(R2, K, L)
  BY <1>0, <1>00, <1>000 DEF Protocol, RxLink
<1>3. RxConnReq(R2, O2, K, P2)
  BY <1>0, <1>00, <1>000 DEF Protocol, RxConnReq, Unaddressed
<1>4. RxConnRsp(R2, O2, K, P2)
  BY <1>0, <1>00, <1>000 DEF Protocol, RxConnRsp, Fresh, Live, Unaddressed, Unbound, Bound,
         Naming, Name, Nameless, Known, Success, Pending, Refused
<1>5. RxConfReq(R2, K, P2)
  BY <1>0, <1>00, <1>000 DEF Protocol, RxConfReq, Live, Accepted, Naming, Name
<1>6. RxConfRsp(R2, K, P2)
  BY <1>0, <1>00, <1>000 DEF Protocol, RxConfRsp, Live, Naming, Name
<1>7. RxDiscReq(R2, K, P2)
  BY <1>0, <1>00, <1>000 DEF Protocol, RxDiscReq, Accepted
<1>8. RxData(R2, K)
  BY <1>0, <1>00, <1>000 DEF Protocol, RxData, Answered
<1>9. OutEnds(O2, P2)
  BY <1>0, <1>00, <1>000 DEF Protocol, OutEnds
<1>10. OutConnReq(R2, O2, K, P2)
  BY <1>0, <1>00, <1>000 DEF Protocol, OutConnReq, Known, Fresh, Nameless, Unbound, Bound,
         Naming, Name, OutBefore
<1>11. OutConnRsp(O2, K, P2)
  BY <1>0, <1>00, <1>000 DEF Protocol, OutConnRsp, Known, OutEnds, ToEnd, EndOf
<1>12. OutConfReq(R2, O2, K)
  BY <1>0, <1>00, <1>000 DEF Protocol, OutConfReq, Answered
<1>13. OutConfRsp(O2, K)
  BY <1>0, <1>00, <1>000 DEF Protocol, OutConfRsp
<1>14. OutDiscRsp(O2, K, P2)
  BY <1>0, <1>00, <1>000 DEF Protocol, OutDiscRsp, Known, OutEnds, ToEnd, EndOf
<1>15. EndsNew(P2)
  BY <1>0, <1>00, <1>000 DEF Protocol, EndsNew
<1>16. EndsPending(R2, K, P2)
  BY <1>0, <1>00, <1>000 DEF Protocol, EndsPending, Known, Fresh, Bound, Naming, Name, Unbound,
         Nameless, Success, Pending, Refused
<1>17. EndsSent(R2, K, P2)
  BY <1>0, <1>00, <1>000 DEF Protocol, EndsSent, Known, Final, Bound, Naming, Name, Unbound,
         Nameless, Fresh, Success, Refused, Pending
<1>18. EndsConfig(R2, K, P2)
  BY <1>0, <1>00, <1>000 DEF Protocol, EndsConfig, Accepted, Answered, Bound, Naming, Name,
         Unbound, Nameless, Fresh
<1>19. EndsDistinct(P2)
  BY <1>0, <1>00, <1>000 DEF Protocol, EndsDistinct, Bound, Unbound
<1>20. ChannelsNew(K, L)
  BY DEF Protocol
<1>21. ChannelsBound(R2, K, P2)
  BY <1>0, <1>00, <1>000, ZeroEnd DEF Protocol, ChannelsBound, Nameless, Unbound, Live, Bound,
         Naming, Name, Fresh
<1>22. ChannelsDistinct(K)
  BY DEF Protocol
<1>23. \A a \in R : RxBefore(a, n)
  BY <1>000 DEF Nameless, RxBefore, Naming, Name
<1>. QED  BY <1>23, <1>1, <1>2, <1>3, <1>4, <1>5, <1>6, <1>7, <1>8, <1>9, <1>10, <1>11, <1>12, <1>13,
           <1>14, <1>15, <1>16, <1>17, <1>18, <1>19, <1>20, <1>21, <1>22 DEF Protocol

\* A board has yet to decide about a channel.
LEMMA DelayStep ==
  ASSUME NEW R, NEW O, NEW K, NEW P, NEW L, Protocol(R, O, K, P, L),
         NEW m, m.type = "ConnReq", NEW O2, TakesOut(O, m, O2),
         NEW c \in PeerCid, P[c].state = "closed",
         NEW n, n.type = "ConnRsp", n.scid = m.scid, n.dcid = c, n.arg = Pending,
         NEW R2, R2 = R \cup {n},
         NEW e, e.state = "pending", e.psm = m.psm, e.hostCid = m.scid,
         ~e.reqSent, ~e.rspSent, ~e.rspGot,
         NEW P2, EndBecomes(P, c, e, P2)
  PROVE  /\ Protocol(R2, O2, K, P2, L)
         /\ \A a \in R : RxBefore(a, n)
<1>0. P2[c] = e /\ \A d \in PeerCid : d # c => P2[d] = P[d]
  BY DEF EndBecomes
<1>00. m \in O /\ O2 \subseteq O /\ O \subseteq O2 \cup {m} /\ \A o \in O2 : OutBefore(m, o)
  BY DEF TakesOut
<1>000. /\ Known(K, m.scid) /\ (\A k \in K : k.localCid = m.scid => Fresh(k) /\ k.psm = m.psm)
        /\ Nameless(R, m.scid) /\ Unbound(P, m.scid) /\ Unaddressed(O, c)
        /\ \A k \in K : k.remoteCid # c
  <2>1. /\ Known(K, m.scid) /\ (\A k \in K : k.localCid = m.scid => Fresh(k) /\ k.psm = m.psm)
        /\ Nameless(R, m.scid) /\ Unbound(P, m.scid)
    BY <1>00 DEF Protocol, OutConnReq
  <2>2. Unaddressed(O, c)
    BY DEF Protocol, OutEnds, Unaddressed
  <2>3. \A k \in K : k.remoteCid # c
    BY ZeroEnd DEF Protocol, ChannelsBound, Live
  <2>. QED  BY <2>1, <2>2, <2>3
<1>1. RxNames(R2, K)
  BY <1>0, <1>00, <1>000 DEF Protocol, RxNames, Known, Naming, Name, Unbound, Nameless, Fresh
<1>2. RxLink(R2, K, L)
  BY <1>0, <1>00, <1>000 DEF Protocol, RxLink
<1>3. RxConnReq(R2, O2, K, P2)
  BY <1>0, <1>00, <1>000 DEF Protocol, RxConnReq, Unaddressed
<1>4. RxConnRsp(R2, O2, K, P2)
  BY <1>0, <1>00, <1>000 DEF Protocol, RxConnRsp, Fresh, Live, Unaddressed, Unbound, Bound,
         Naming, Name, Nameless, Known, Success, Pending, Refused
<1>5. RxConfReq(R2, K, P2)
  BY <1>0, <1>00, <1>000 DEF Protocol, RxConfReq, Live, Accepted, Naming, Name
<1>6. RxConfRsp(R2, K, P2)
  BY <1>0, <1>00, <1>000 DEF Protocol, RxConfRsp, Live, Naming, Name
<1>7. RxDiscReq(R2, K, P2)
  BY <1>0, <1>00, <1>000 DEF Protocol, RxDiscReq, Accepted
<1>8. RxData(R2, K)
  BY <1>0, <1>00, <1>000 DEF Protocol, RxData, Answered
<1>9. OutEnds(O2, P2)
  BY <1>0, <1>00, <1>000 DEF Protocol, OutEnds
<1>10. OutConnReq(R2, O2, K, P2)
  BY <1>0, <1>00, <1>000 DEF Protocol, OutConnReq, Known, Fresh, Nameless, Unbound, Bound,
         Naming, Name, OutBefore
<1>11. OutConnRsp(O2, K, P2)
  BY <1>0, <1>00, <1>000 DEF Protocol, OutConnRsp, Known, OutEnds, ToEnd, EndOf
<1>12. OutConfReq(R2, O2, K)
  BY <1>0, <1>00, <1>000 DEF Protocol, OutConfReq, Answered
<1>13. OutConfRsp(O2, K)
  BY <1>0, <1>00, <1>000 DEF Protocol, OutConfRsp
<1>14. OutDiscRsp(O2, K, P2)
  BY <1>0, <1>00, <1>000 DEF Protocol, OutDiscRsp, Known, OutEnds, ToEnd, EndOf
<1>15. EndsNew(P2)
  BY <1>0, <1>00, <1>000 DEF Protocol, EndsNew
<1>16. EndsPending(R2, K, P2)
  BY <1>0, <1>00, <1>000 DEF Protocol, EndsPending, Known, Fresh, Bound, Naming, Name, Unbound,
         Nameless, Success, Pending, Refused
<1>17. EndsSent(R2, K, P2)
  BY <1>0, <1>00, <1>000 DEF Protocol, EndsSent, Known, Final, Bound, Naming, Name, Unbound,
         Nameless, Fresh, Success, Refused, Pending
<1>18. EndsConfig(R2, K, P2)
  BY <1>0, <1>00, <1>000 DEF Protocol, EndsConfig, Accepted, Answered, Bound, Naming, Name,
         Unbound, Nameless, Fresh
<1>19. EndsDistinct(P2)
  BY <1>0, <1>00, <1>000 DEF Protocol, EndsDistinct, Bound, Unbound
<1>20. ChannelsNew(K, L)
  BY DEF Protocol
<1>21. ChannelsBound(R2, K, P2)
  BY <1>0, <1>00, <1>000, ZeroEnd DEF Protocol, ChannelsBound, Nameless, Unbound, Live, Bound,
         Naming, Name, Fresh
<1>22. ChannelsDistinct(K)
  BY DEF Protocol
<1>23. \A a \in R : RxBefore(a, n)
  BY <1>000 DEF Nameless, RxBefore, Naming, Name
<1>. QED  BY <1>23, <1>1, <1>2, <1>3, <1>4, <1>5, <1>6, <1>7, <1>8, <1>9, <1>10, <1>11, <1>12, <1>13,
           <1>14, <1>15, <1>16, <1>17, <1>18, <1>19, <1>20, <1>21, <1>22 DEF Protocol

\* A board refuses a channel at once.
LEMMA DeclineStep ==
  ASSUME NEW R, NEW O, NEW K, NEW P, NEW L, Protocol(R, O, K, P, L),
         NEW m, m.type = "ConnReq", NEW O2, TakesOut(O, m, O2),
         NEW n, n.type = "ConnRsp", n.scid = m.scid, n.arg = Refused,
         NEW R2, R2 = R \cup {n}
  PROVE  /\ Protocol(R2, O2, K, P, L)
         /\ \A a \in R : RxBefore(a, n)
<1>00. m \in O /\ O2 \subseteq O /\ O \subseteq O2 \cup {m} /\ \A o \in O2 : OutBefore(m, o)
  BY DEF TakesOut
<1>000. /\ Known(K, m.scid) /\ (\A k \in K : k.localCid = m.scid => Fresh(k))
        /\ Nameless(R, m.scid) /\ Unbound(P, m.scid)
  BY <1>00 DEF Protocol, OutConnReq
<1>1. RxNames(R2, K)
  BY <1>00, <1>000 DEF Protocol, RxNames, Known, Naming, Name, Unbound, Nameless, Fresh
<1>2. RxLink(R2, K, L)
  BY <1>00, <1>000 DEF Protocol, RxLink
<1>3. RxConnReq(R2, O2, K, P)
  BY <1>00, <1>000 DEF Protocol, RxConnReq, Unaddressed
<1>4. RxConnRsp(R2, O2, K, P)
  BY <1>00, <1>000 DEF Protocol, RxConnRsp, Fresh, Live, Unaddressed, Unbound, Bound, Naming,
         Name, Nameless, Success, Refused
<1>5. RxConfReq(R2, K, P)
  BY <1>00, <1>000 DEF Protocol, RxConfReq, Live, Accepted
<1>6. RxConfRsp(R2, K, P)
  BY <1>00, <1>000 DEF Protocol, RxConfRsp, Live
<1>7. RxDiscReq(R2, K, P)
  BY <1>00, <1>000 DEF Protocol, RxDiscReq, Accepted
<1>8. RxData(R2, K)
  BY <1>00, <1>000 DEF Protocol, RxData, Answered
<1>9. OutEnds(O2, P)
  BY <1>00, <1>000 DEF Protocol, OutEnds
<1>10. OutConnReq(R2, O2, K, P)
  BY <1>00, <1>000 DEF Protocol, OutConnReq, Known, Fresh, Nameless, Unbound, Bound, Naming,
         Name, OutBefore
<1>11. OutConnRsp(O2, K, P)
  BY <1>00, <1>000 DEF Protocol, OutConnRsp, Known, OutEnds, ToEnd, EndOf
<1>12. OutConfReq(R2, O2, K)
  BY <1>00, <1>000 DEF Protocol, OutConfReq, Answered
<1>13. OutConfRsp(O2, K)
  BY <1>00, <1>000 DEF Protocol, OutConfRsp
<1>14. OutDiscRsp(O2, K, P)
  BY <1>00, <1>000 DEF Protocol, OutDiscRsp, Known, OutEnds, ToEnd, EndOf
<1>15. EndsNew(P)
  BY DEF Protocol
<1>16. EndsPending(R2, K, P)
  BY <1>00, <1>000 DEF Protocol, EndsPending, Known, Fresh, Bound, Naming, Name, Unbound,
         Nameless
<1>17. EndsSent(R2, K, P)
  BY <1>00, <1>000 DEF Protocol, EndsSent, Known, Final, Bound, Naming, Name, Unbound,
         Nameless, Fresh
<1>18. EndsConfig(R2, K, P)
  BY <1>00, <1>000 DEF Protocol, EndsConfig, Accepted, Answered, Bound, Success, Refused
<1>19. EndsDistinct(P)
  BY DEF Protocol
<1>20. ChannelsNew(K, L)
  BY DEF Protocol
<1>21. ChannelsBound(R2, K, P)
  BY <1>00, <1>000, ZeroEnd DEF Protocol, ChannelsBound, Nameless, Unbound, Live, Bound,
         Naming, Name, Fresh
<1>22. ChannelsDistinct(K)
  BY DEF Protocol
<1>23. \A a \in R : RxBefore(a, n)
  BY <1>000 DEF Nameless, RxBefore, Naming, Name
<1>. QED  BY <1>23, <1>1, <1>2, <1>3, <1>4, <1>5, <1>6, <1>7, <1>8, <1>9, <1>10, <1>11, <1>12, <1>13,
           <1>14, <1>15, <1>16, <1>17, <1>18, <1>19, <1>20, <1>21, <1>22 DEF Protocol

\* A board accepts a channel after all.
LEMMA ConsentStep ==
  ASSUME NEW R, NEW O, NEW K, NEW P, NEW L, Protocol(R, O, K, P, L),
         NEW c \in PeerCid, P[c].state = "pending",
         NEW n, n.type = "ConnRsp", n.scid = P[c].hostCid, n.dcid = c, n.arg = Success,
         NEW R2, R2 = R \cup {n},
         NEW e, e.state = "config", e.psm = P[c].psm, e.hostCid = P[c].hostCid,
         e.reqSent = P[c].reqSent, e.rspSent = P[c].rspSent, e.rspGot = P[c].rspGot,
         NEW P2, EndBecomes(P, c, e, P2)
  PROVE  /\ Protocol(R2, O, K, P2, L)
         /\ \A a \in R : RxBefore(a, n)
<1>0. P2[c] = e /\ \A d \in PeerCid : d # c => P2[d] = P[d]
  BY DEF EndBecomes
<1>000. /\ Known(K, P[c].hostCid)
        /\ \A k \in K : k.localCid = P[c].hostCid => Fresh(k) /\ k.psm = P[c].psm
        /\ \A a \in R : a.type \in Naming /\ Name(a) = P[c].hostCid => a.type = "ConnRsp" /\ a.arg = Pending
        /\ ~P[c].reqSent /\ ~P[c].rspSent /\ ~P[c].rspGot
        /\ Unaddressed(O, c) /\ \A k \in K : k.remoteCid # c
        /\ \A d \in PeerCid : Bound(P[d]) /\ d # c => P[d].hostCid # P[c].hostCid
  <2>1. /\ Known(K, P[c].hostCid)
        /\ \A k \in K : k.localCid = P[c].hostCid => Fresh(k) /\ k.psm = P[c].psm
        /\ \A a \in R : a.type \in Naming /\ Name(a) = P[c].hostCid => a.type = "ConnRsp" /\ a.arg = Pending
    BY DEF Protocol, EndsPending
  <2>2. ~P[c].reqSent /\ ~P[c].rspSent /\ ~P[c].rspGot
    BY DEF Protocol, EndsNew
  <2>3. Unaddressed(O, c)
    BY DEF Protocol, OutEnds, Unaddressed
  <2>4. \A k \in K : k.remoteCid # c
    BY ZeroEnd DEF Protocol, ChannelsBound, Live
  <2>5. \A d \in PeerCid : Bound(P[d]) /\ d # c => P[d].hostCid # P[c].hostCid
    BY DEF Protocol, EndsDistinct, Bound
  <2>. QED  BY <2>1, <2>2, <2>3, <2>4, <2>5
<1>1. RxNames(R2, K)
  BY <1>0, <1>000 DEF Protocol, RxNames, Known, Naming, Name, Unbound, Nameless, Fresh
<1>2. RxLink(R2, K, L)
  BY <1>0, <1>000 DEF Protocol, RxLink
<1>3. RxConnReq(R2, O, K, P2)
  BY <1>0, <1>000 DEF Protocol, RxConnReq, Unaddressed
<1>4. RxConnRsp(R2, O, K, P2)
  BY <1>0, <1>000 DEF Protocol, RxConnRsp, Fresh, Live, Unaddressed, Unbound, Bound, Naming,
         Name, Nameless, Known, Success, Pending, Refused
<1>5. RxConfReq(R2, K, P2)
  BY <1>0, <1>000 DEF Protocol, RxConfReq, Live, Accepted, Naming, Name
<1>6. RxConfRsp(R2, K, P2)
  BY <1>0, <1>000 DEF Protocol, RxConfRsp, Live, Naming, Name
<1>7. RxDiscReq(R2, K, P2)
  BY <1>0, <1>000 DEF Protocol, RxDiscReq, Accepted
<1>8. RxData(R2, K)
  BY <1>0, <1>000 DEF Protocol, RxData, Answered
<1>9. OutEnds(O, P2)
  BY <1>0, <1>000 DEF Protocol, OutEnds
<1>10. OutConnReq(R2, O, K, P2)
  BY <1>0, <1>000 DEF Protocol, OutConnReq, Known, Fresh, Nameless, Unbound, Bound, Naming,
         Name
<1>11. OutConnRsp(O, K, P2)
  BY <1>0, <1>000 DEF Protocol, OutConnRsp, Known, OutEnds, ToEnd, EndOf
<1>12. OutConfReq(R2, O, K)
  BY <1>0, <1>000 DEF Protocol, OutConfReq, Answered
<1>13. OutConfRsp(O, K)
  BY DEF Protocol
<1>14. OutDiscRsp(O, K, P2)
  BY <1>0, <1>000 DEF Protocol, OutDiscRsp, Known, OutEnds, ToEnd, EndOf
<1>15. EndsNew(P2)
  BY <1>0, <1>000 DEF Protocol, EndsNew
<1>16. EndsPending(R2, K, P2)
  BY <1>0, <1>000 DEF Protocol, EndsPending, Known, Fresh, Bound, Naming, Name, Unbound,
         Nameless, Success, Pending, Refused
<1>17. EndsSent(R2, K, P2)
  BY <1>0, <1>000 DEF Protocol, EndsSent, Known, Final, Bound, Naming, Name, Unbound, Nameless,
         Fresh, Success, Pending, Refused
<1>18. EndsConfig(R2, K, P2)
  BY <1>0, <1>000 DEF Protocol, EndsConfig, Accepted, Answered, Bound, Naming, Name, Unbound,
         Nameless, Fresh, Success, Pending, Refused
<1>19. EndsDistinct(P2)
  BY <1>0, <1>000 DEF Protocol, EndsDistinct, Bound
<1>20. ChannelsNew(K, L)
  BY DEF Protocol
<1>21. ChannelsBound(R2, K, P2)
  BY <1>0, <1>000, ZeroEnd DEF Protocol, ChannelsBound, Nameless, Unbound, Live, Bound, Naming,
         Name, Fresh
<1>22. ChannelsDistinct(K)
  BY DEF Protocol
<1>23. \A a \in R : RxBefore(a, n)
  BY <1>000 DEF RxBefore, Naming, Name, Final, Pending, Refused
<1>. QED  BY <1>23, <1>1, <1>2, <1>3, <1>4, <1>5, <1>6, <1>7, <1>8, <1>9, <1>10, <1>11, <1>12, <1>13,
           <1>14, <1>15, <1>16, <1>17, <1>18, <1>19, <1>20, <1>21, <1>22 DEF Protocol

\* A board refuses a channel after all.
LEMMA DenyStep ==
  ASSUME NEW R, NEW O, NEW K, NEW P, NEW L, Protocol(R, O, K, P, L),
         NEW c \in PeerCid, P[c].state = "pending",
         NEW n, n.type = "ConnRsp", n.scid = P[c].hostCid, n.dcid = 0, n.arg = Refused,
         NEW R2, R2 = R \cup {n},
         NEW e, e.state = "closed", e.psm = P[c].psm, e.hostCid = P[c].hostCid,
         e.reqSent = P[c].reqSent, e.rspSent = P[c].rspSent, e.rspGot = P[c].rspGot,
         NEW P2, EndBecomes(P, c, e, P2)
  PROVE  /\ Protocol(R2, O, K, P2, L)
         /\ \A a \in R : RxBefore(a, n)
<1>0. P2[c] = e /\ \A d \in PeerCid : d # c => P2[d] = P[d]
  BY DEF EndBecomes
<1>000. /\ Known(K, P[c].hostCid)
        /\ \A k \in K : k.localCid = P[c].hostCid => Fresh(k) /\ k.psm = P[c].psm
        /\ \A a \in R : a.type \in Naming /\ Name(a) = P[c].hostCid => a.type = "ConnRsp" /\ a.arg = Pending
        /\ ~P[c].reqSent /\ ~P[c].rspSent /\ ~P[c].rspGot
        /\ Unaddressed(O, c) /\ \A k \in K : k.remoteCid # c
        /\ \A d \in PeerCid : Bound(P[d]) /\ d # c => P[d].hostCid # P[c].hostCid
  <2>1. /\ Known(K, P[c].hostCid)
        /\ \A k \in K : k.localCid = P[c].hostCid => Fresh(k) /\ k.psm = P[c].psm
        /\ \A a \in R : a.type \in Naming /\ Name(a) = P[c].hostCid => a.type = "ConnRsp" /\ a.arg = Pending
    BY DEF Protocol, EndsPending
  <2>2. ~P[c].reqSent /\ ~P[c].rspSent /\ ~P[c].rspGot
    BY DEF Protocol, EndsNew
  <2>3. Unaddressed(O, c)
    BY DEF Protocol, OutEnds, Unaddressed
  <2>4. \A k \in K : k.remoteCid # c
    BY ZeroEnd DEF Protocol, ChannelsBound, Live
  <2>5. \A d \in PeerCid : Bound(P[d]) /\ d # c => P[d].hostCid # P[c].hostCid
    BY DEF Protocol, EndsDistinct, Bound
  <2>. QED  BY <2>1, <2>2, <2>3, <2>4, <2>5
<1>1. RxNames(R2, K)
  BY <1>0, <1>000 DEF Protocol, RxNames, Known, Naming, Name, Unbound, Nameless, Fresh
<1>2. RxLink(R2, K, L)
  BY <1>0, <1>000 DEF Protocol, RxLink
<1>3. RxConnReq(R2, O, K, P2)
  BY <1>0, <1>000 DEF Protocol, RxConnReq, Unaddressed
<1>4. RxConnRsp(R2, O, K, P2)
  BY <1>0, <1>000 DEF Protocol, RxConnRsp, Fresh, Live, Unaddressed, Unbound, Bound, Naming,
         Name, Nameless, Known, Success, Pending, Refused
<1>5. RxConfReq(R2, K, P2)
  BY <1>0, <1>000 DEF Protocol, RxConfReq, Live, Accepted, Naming, Name
<1>6. RxConfRsp(R2, K, P2)
  BY <1>0, <1>000 DEF Protocol, RxConfRsp, Live, Naming, Name
<1>7. RxDiscReq(R2, K, P2)
  BY <1>0, <1>000 DEF Protocol, RxDiscReq, Accepted
<1>8. RxData(R2, K)
  BY <1>0, <1>000 DEF Protocol, RxData, Answered
<1>9. OutEnds(O, P2)
  BY <1>0, <1>000 DEF Protocol, OutEnds
<1>10. OutConnReq(R2, O, K, P2)
  BY <1>0, <1>000 DEF Protocol, OutConnReq, Known, Fresh, Nameless, Unbound, Bound, Naming,
         Name
<1>11. OutConnRsp(O, K, P2)
  BY <1>0, <1>000 DEF Protocol, OutConnRsp, Known, OutEnds, ToEnd, EndOf
<1>12. OutConfReq(R2, O, K)
  BY <1>0, <1>000 DEF Protocol, OutConfReq, Answered
<1>13. OutConfRsp(O, K)
  BY DEF Protocol
<1>14. OutDiscRsp(O, K, P2)
  BY <1>0, <1>000 DEF Protocol, OutDiscRsp, Known, OutEnds, ToEnd, EndOf
<1>15. EndsNew(P2)
  BY <1>0, <1>000 DEF Protocol, EndsNew
<1>16. EndsPending(R2, K, P2)
  BY <1>0, <1>000 DEF Protocol, EndsPending, Known, Fresh, Bound, Naming, Name, Unbound,
         Nameless, Success, Pending, Refused
<1>17. EndsSent(R2, K, P2)
  BY <1>0, <1>000 DEF Protocol, EndsSent, Known, Final, Bound, Naming, Name, Unbound, Nameless,
         Fresh, Success, Pending, Refused
<1>18. EndsConfig(R2, K, P2)
  BY <1>0, <1>000 DEF Protocol, EndsConfig, Accepted, Answered, Bound, Naming, Name, Unbound,
         Nameless, Fresh, Success, Pending, Refused
<1>19. EndsDistinct(P2)
  BY <1>0, <1>000 DEF Protocol, EndsDistinct, Bound
<1>20. ChannelsNew(K, L)
  BY DEF Protocol
<1>21. ChannelsBound(R2, K, P2)
  BY <1>0, <1>000, ZeroEnd DEF Protocol, ChannelsBound, Nameless, Unbound, Live, Bound, Naming,
         Name, Fresh
<1>22. ChannelsDistinct(K)
  BY DEF Protocol
<1>23. \A a \in R : RxBefore(a, n)
  BY <1>000 DEF RxBefore, Naming, Name, Final, Pending, Refused
<1>. QED  BY <1>23, <1>1, <1>2, <1>3, <1>4, <1>5, <1>6, <1>7, <1>8, <1>9, <1>10, <1>11, <1>12, <1>13,
           <1>14, <1>15, <1>16, <1>17, <1>18, <1>19, <1>20, <1>21, <1>22 DEF Protocol

\* A board receives the acceptance of the channel that it asked for.
LEMMA AgreedStep ==
  ASSUME NEW R, NEW O, NEW K, NEW P, NEW L, Protocol(R, O, K, P, L),
         NEW m, m.type = "ConnRsp", m.arg = Success, NEW O2, TakesOut(O, m, O2),
         NEW c, c = m.scid,
         NEW e, e.state = "config", e.psm = P[c].psm, e.hostCid = m.dcid,
         e.reqSent = P[c].reqSent, e.rspSent = P[c].rspSent, e.rspGot = P[c].rspGot,
         NEW P2, EndBecomes(P, c, e, P2)
  PROVE  Protocol(R, O2, K, P2, L)
<1>0. P2[c] = e /\ \A d \in PeerCid : d # c => P2[d] = P[d]
  BY DEF EndBecomes
<1>00. m \in O /\ O2 \subseteq O /\ O \subseteq O2 \cup {m} /\ \A o \in O2 : OutBefore(m, o)
  BY DEF TakesOut
<1>000. /\ c \in PeerCid /\ P[c].state = "waiting" /\ ~P[c].reqSent /\ ~P[c].rspSent /\ ~P[c].rspGot
        /\ Known(K, m.dcid) /\ Nameless(R, m.dcid) /\ Unbound(P, m.dcid)
        /\ \A k \in K : k.localCid = m.dcid =>
             k.remoteCid = c /\ k.psm = P[c].psm /\ ~k.localConfigured /\ ~k.remoteConfigured
  <2>1. /\ P[c].state = "waiting" /\ Known(K, m.dcid)
        /\ \A k \in K : k.localCid = m.dcid => k.remoteCid = c
    BY <1>00 DEF Protocol, OutConnRsp
  <2>2. c \in PeerCid
    BY <1>00 DEF Protocol, OutEnds, ToEnd, EndOf
  <2>3. ~P[c].reqSent /\ ~P[c].rspSent /\ ~P[c].rspGot
    BY <2>1, <2>2 DEF Protocol, EndsNew
  <2>4. \A k \in K : k.localCid = m.dcid =>
           /\ k.psm = P[c].psm /\ ~k.localConfigured /\ ~k.remoteConfigured
           /\ Nameless(R, m.dcid) /\ Unbound(P, m.dcid)
    BY <2>1, <2>2, ZeroEnd DEF Protocol, ChannelsBound, Live
  <2>. QED  BY <2>1, <2>2, <2>3, <2>4 DEF Known
<1>1. RxNames(R, K)
  BY DEF Protocol
<1>2. RxLink(R, K, L)
  BY DEF Protocol
<1>3. RxConnReq(R, O2, K, P2)
  BY <1>0, <1>00, <1>000 DEF Protocol, RxConnReq, Unaddressed, ToEnd, EndOf
<1>4. RxConnRsp(R, O2, K, P2)
  BY <1>0, <1>00, <1>000 DEF Protocol, RxConnRsp, Fresh, Live, Unaddressed, Unbound, Bound,
         Naming, Name, Nameless
<1>5. RxConfReq(R, K, P2)
  BY <1>0, <1>00, <1>000 DEF Protocol, RxConfReq, Live, Accepted
<1>6. RxConfRsp(R, K, P2)
  BY <1>0, <1>00, <1>000 DEF Protocol, RxConfRsp, Live
<1>7. RxDiscReq(R, K, P2)
  BY <1>0, <1>00, <1>000 DEF Protocol, RxDiscReq, Accepted
<1>8. RxData(R, K)
  BY DEF Protocol
<1>9. OutEnds(O2, P2)
  BY <1>0, <1>00, <1>000 DEF Protocol, OutEnds
<1>10. OutConnReq(R, O2, K, P2)
  BY <1>0, <1>00, <1>000, ZeroEnd DEF Protocol, OutConnReq, Known, Fresh, Nameless, Unbound,
         Bound, Naming, Name
<1>11. OutConnRsp(O2, K, P2)
  BY <1>0, <1>00, <1>000 DEF Protocol, OutConnRsp, Known, OutEnds, ToEnd, EndOf, OutBefore
<1>12. OutConfReq(R, O2, K)
  BY <1>0, <1>00, <1>000 DEF Protocol, OutConfReq, Answered
<1>13. OutConfRsp(O2, K)
  BY <1>0, <1>00, <1>000 DEF Protocol, OutConfRsp
<1>14. OutDiscRsp(O2, K, P2)
  BY <1>0, <1>00, <1>000 DEF Protocol, OutDiscRsp, Known, OutEnds, ToEnd, EndOf
<1>15. EndsNew(P2)
  BY <1>0, <1>00, <1>000 DEF Protocol, EndsNew
<1>16. EndsPending(R, K, P2)
  BY <1>0, <1>00, <1>000 DEF Protocol, EndsPending, Known, Fresh, Bound, Unbound
<1>17. EndsSent(R, K, P2)
  BY <1>0, <1>00, <1>000 DEF Protocol, EndsSent, Known, Final, Bound, Naming, Name, Unbound,
         Nameless, Fresh
<1>18. EndsConfig(R, K, P2)
  BY <1>0, <1>00, <1>000 DEF Protocol, EndsConfig, Accepted, Answered, Bound, Naming, Name,
         Unbound, Nameless, Fresh
<1>19. EndsDistinct(P2)
  BY <1>0, <1>00, <1>000 DEF Protocol, EndsDistinct, Bound, Unbound
<1>20. ChannelsNew(K, L)
  BY DEF Protocol
<1>21. ChannelsBound(R, K, P2)
  <2>1. \A k \in K : k.remoteCid = c => k.localCid = m.dcid
    BY <1>000, ZeroEnd DEF Protocol, ChannelsDistinct, Known
  <2>2. ASSUME NEW k \in K, k.remoteCid = c
        PROVE  /\ P2[c].psm = k.psm /\ Live(P2[c]) /\ P2[c].hostCid = k.localCid
               /\ ~k.localConfigured /\ ~k.remoteConfigured
    BY <1>0, <1>000, <2>1, <2>2 DEF Live
  <2>3. ASSUME NEW k \in K, k.remoteCid # c, Unbound(P, k.localCid)
        PROVE  Unbound(P2, k.localCid)
    BY <1>0, <1>000, <2>3 DEF Unbound
  <2>. QED  BY <1>0, <1>000, <2>2, <2>3 DEF Protocol, ChannelsBound
<1>22. ChannelsDistinct(K)
  BY DEF Protocol
<1>. QED  BY <1>1, <1>2, <1>3, <1>4, <1>5, <1>6, <1>7, <1>8, <1>9, <1>10, <1>11, <1>12, <1>13,
           <1>14, <1>15, <1>16, <1>17, <1>18, <1>19, <1>20, <1>21, <1>22 DEF Protocol

\* A board receives the refusal of the channel that it asked for.
LEMMA RejectedStep ==
  ASSUME NEW R, NEW O, NEW K, NEW P, NEW L, Protocol(R, O, K, P, L),
         NEW m, m.type = "ConnRsp", m.arg = Refused, NEW O2, TakesOut(O, m, O2),
         NEW c, c = m.scid, NEW e, e.state = "closed",
         NEW P2, EndBecomes(P, c, e, P2)
  PROVE  Protocol(R, O2, K, P2, L)
<1>0. P2[c] = e /\ \A d \in PeerCid : d # c => P2[d] = P[d]
  BY DEF EndBecomes
<1>00. m \in O /\ O2 \subseteq O /\ O \subseteq O2 \cup {m} /\ \A o \in O2 : OutBefore(m, o)
  BY DEF TakesOut
<1>000. c \in PeerCid /\ P[c].state = "waiting" /\ \A k \in K : k.remoteCid # c
  <2>1. P[c].state = "waiting" /\ \A k \in K : k.remoteCid # c
    BY <1>00 DEF Protocol, OutConnRsp
  <2>2. c \in PeerCid
    BY <1>00 DEF Protocol, OutEnds, ToEnd, EndOf
  <2>. QED  BY <2>1, <2>2
<1>1. RxNames(R, K)
  BY DEF Protocol
<1>2. RxLink(R, K, L)
  BY DEF Protocol
<1>3. RxConnReq(R, O2, K, P2)
  BY <1>0, <1>00, <1>000 DEF Protocol, RxConnReq, Unaddressed, ToEnd, EndOf
<1>4. RxConnRsp(R, O2, K, P2)
  BY <1>0, <1>00, <1>000 DEF Protocol, RxConnRsp, Fresh, Live, Unaddressed, Unbound, Bound
<1>5. RxConfReq(R, K, P2)
  BY <1>0, <1>00, <1>000 DEF Protocol, RxConfReq, Live, Accepted
<1>6. RxConfRsp(R, K, P2)
  BY <1>0, <1>00, <1>000 DEF Protocol, RxConfRsp, Live
<1>7. RxDiscReq(R, K, P2)
  BY <1>0, <1>00, <1>000 DEF Protocol, RxDiscReq, Accepted
<1>8. RxData(R, K)
  BY DEF Protocol
<1>9. OutEnds(O2, P2)
  BY <1>0, <1>00, <1>000 DEF Protocol, OutEnds, OutBefore, ToEnd, EndOf
<1>10. OutConnReq(R, O2, K, P2)
  BY <1>0, <1>00, <1>000 DEF Protocol, OutConnReq, Known, Fresh, Nameless, Unbound, Bound
<1>11. OutConnRsp(O2, K, P2)
  BY <1>0, <1>00, <1>000 DEF Protocol, OutConnRsp, Known, OutEnds, ToEnd, EndOf, OutBefore
<1>12. OutConfReq(R, O2, K)
  BY <1>0, <1>00, <1>000 DEF Protocol, OutConfReq, Answered
<1>13. OutConfRsp(O2, K)
  BY <1>0, <1>00, <1>000 DEF Protocol, OutConfRsp
<1>14. OutDiscRsp(O2, K, P2)
  BY <1>0, <1>00, <1>000 DEF Protocol, OutDiscRsp, Known, OutEnds, ToEnd, EndOf
<1>15. EndsNew(P2)
  BY <1>0, <1>00, <1>000 DEF Protocol, EndsNew
<1>16. EndsPending(R, K, P2)
  BY <1>0, <1>00, <1>000 DEF Protocol, EndsPending, Known, Fresh, Bound
<1>17. EndsSent(R, K, P2)
  BY <1>0, <1>00, <1>000 DEF Protocol, EndsSent, Known, Final, Bound
<1>18. EndsConfig(R, K, P2)
  BY <1>0, <1>00, <1>000 DEF Protocol, EndsConfig, Accepted, Answered, Bound
<1>19. EndsDistinct(P2)
  BY <1>0, <1>00, <1>000 DEF Protocol, EndsDistinct, Bound
<1>20. ChannelsNew(K, L)
  BY DEF Protocol
<1>21. ChannelsBound(R, K, P2)
  BY <1>0, <1>00, <1>000 DEF Protocol, ChannelsBound, Nameless, Unbound, Live, Bound
<1>22. ChannelsDistinct(K)
  BY DEF Protocol
<1>. QED  BY <1>1, <1>2, <1>3, <1>4, <1>5, <1>6, <1>7, <1>8, <1>9, <1>10, <1>11, <1>12, <1>13,
           <1>14, <1>15, <1>16, <1>17, <1>18, <1>19, <1>20, <1>21, <1>22 DEF Protocol

\* A board asks for the configuration of a channel.
LEMMA ConfigureStep ==
  ASSUME NEW R, NEW O, NEW K, NEW P, NEW L, Protocol(R, O, K, P, L),
         NEW c \in PeerCid, P[c].state = "config",
         NEW n, n.type = "ConfReq", n.dcid = P[c].hostCid, NEW R2, R2 = R \cup {n},
         NEW e, e.state = "config", e.psm = P[c].psm, e.hostCid = P[c].hostCid,
         e.reqSent, e.rspSent = P[c].rspSent, e.rspGot = P[c].rspGot,
         e.verdict = P[c].verdict,
         NEW P2, EndBecomes(P, c, e, P2)
  PROVE  /\ Protocol(R2, O, K, P2, L)
         /\ \A a \in R : RxBefore(a, n)
<1>0. P2[c] = e /\ \A d \in PeerCid : d # c => P2[d] = P[d]
  BY DEF EndBecomes
<1>000. /\ Known(K, P[c].hostCid)
        /\ \A d \in PeerCid : Bound(P[d]) /\ d # c => P[d].hostCid # P[c].hostCid
        /\ \A a \in R : a.type \in Naming /\ Name(a) = P[c].hostCid =>
             ~Final(a) /\ (a.type = "ConfRsp" => P[c].rspSent)
             /\ (a.type = "Data" => P[c].verdict = Success)
  <2>1. \A d \in PeerCid : Bound(P[d]) /\ d # c => P[d].hostCid # P[c].hostCid
    BY DEF Protocol, EndsDistinct, Bound
  <2>. QED  BY <2>1 DEF Protocol, EndsSent
<1>1. RxNames(R2, K)
  BY <1>0, <1>000 DEF Protocol, RxNames, Known, Naming, Name, Unbound, Nameless
<1>2. RxLink(R2, K, L)
  BY <1>0, <1>000 DEF Protocol, RxLink
<1>3. RxConnReq(R2, O, K, P2)
  BY <1>0, <1>000 DEF Protocol, RxConnReq, Unaddressed
<1>4. RxConnRsp(R2, O, K, P2)
  BY <1>0, <1>000 DEF Protocol, RxConnRsp, Fresh, Live, Unaddressed, Unbound, Bound
<1>5. RxConfReq(R2, K, P2)
  BY <1>0, <1>000, ZeroEnd DEF Protocol, RxConfReq, Live, Accepted, EndsConfig, Answered
<1>6. RxConfRsp(R2, K, P2)
  BY <1>0, <1>000 DEF Protocol, RxConfRsp, Live
<1>7. RxDiscReq(R2, K, P2)
  BY <1>0, <1>000 DEF Protocol, RxDiscReq, Accepted
<1>8. RxData(R2, K)
  BY <1>0, <1>000 DEF Protocol, RxData, Answered
<1>9. OutEnds(O, P2)
  BY <1>0, <1>000 DEF Protocol, OutEnds
<1>10. OutConnReq(R2, O, K, P2)
  BY <1>0, <1>000 DEF Protocol, OutConnReq, Known, Fresh, Nameless, Unbound, Bound, Naming,
         Name
<1>11. OutConnRsp(O, K, P2)
  BY <1>0, <1>000 DEF Protocol, OutConnRsp, Known, OutEnds, ToEnd, EndOf
<1>12. OutConfReq(R2, O, K)
  BY <1>0, <1>000 DEF Protocol, OutConfReq, Answered
<1>13. OutConfRsp(O, K)
  BY DEF Protocol
<1>14. OutDiscRsp(O, K, P2)
  BY <1>0, <1>000 DEF Protocol, OutDiscRsp, Known, OutEnds, ToEnd, EndOf
<1>15. EndsNew(P2)
  BY <1>0, <1>000 DEF Protocol, EndsNew
<1>16. EndsPending(R2, K, P2)
  BY <1>0, <1>000 DEF Protocol, EndsPending, Known, Fresh, Bound, Naming, Name, Unbound,
         Nameless
<1>17. EndsSent(R2, K, P2)
  BY <1>0, <1>000 DEF Protocol, EndsSent, Known, Final, Bound, Naming, Name, Unbound, Nameless
<1>18. EndsConfig(R2, K, P2)
  BY <1>0, <1>000 DEF Protocol, EndsConfig, Accepted, Answered, Bound
<1>19. EndsDistinct(P2)
  BY <1>0, <1>000 DEF Protocol, EndsDistinct, Bound
<1>20. ChannelsNew(K, L)
  BY DEF Protocol
<1>21. ChannelsBound(R2, K, P2)
  BY <1>0, <1>000 DEF Protocol, ChannelsBound, Nameless, Unbound, Live, Bound, Naming, Name
<1>22. ChannelsDistinct(K)
  BY DEF Protocol
<1>23. \A a \in R : RxBefore(a, n)
  BY <1>000 DEF RxBefore, Naming, Name, Final
<1>. QED  BY <1>23, <1>1, <1>2, <1>3, <1>4, <1>5, <1>6, <1>7, <1>8, <1>9, <1>10, <1>11, <1>12, <1>13,
           <1>14, <1>15, <1>16, <1>17, <1>18, <1>19, <1>20, <1>21, <1>22 DEF Protocol

\* A board receives the host's configuration request and answers it.
LEMMA AnswerStep ==
  ASSUME NEW R, NEW O, NEW K, NEW P, NEW L, Protocol(R, O, K, P, L),
         NEW m, m.type = "ConfReq", NEW O2, TakesOut(O, m, O2), NEW c, c = m.dcid,
         c \in PeerCid, P[c].state = "config",
         NEW n, n.type = "ConfRsp", n.scid = P[c].hostCid, NEW R2, R2 = R \cup {n},
         NEW e, e.state = "config", e.psm = P[c].psm, e.hostCid = P[c].hostCid,
         e.reqSent = P[c].reqSent, e.rspSent, e.rspGot = P[c].rspGot,
         NEW P2, EndBecomes(P, c, e, P2)
  PROVE  /\ Protocol(R2, O2, K, P2, L)
         /\ \A a \in R : RxBefore(a, n)
<1>0. P2[c] = e /\ \A d \in PeerCid : d # c => P2[d] = P[d]
  BY DEF EndBecomes
<1>00. m \in O /\ O2 \subseteq O /\ O \subseteq O2 \cup {m} /\ \A o \in O2 : OutBefore(m, o)
  BY DEF TakesOut
<1>000. /\ Known(K, P[c].hostCid)
        /\ \A d \in PeerCid : Bound(P[d]) /\ d # c => P[d].hostCid # P[c].hostCid
        /\ \A a \in R : a.type \in Naming /\ Name(a) = P[c].hostCid =>
             ~Final(a) /\ (a.type = "ConfReq" => P[c].reqSent) /\ (a.type = "ConfRsp" => P[c].rspSent)
  <2>1. \A d \in PeerCid : Bound(P[d]) /\ d # c => P[d].hostCid # P[c].hostCid
    BY DEF Protocol, EndsDistinct, Bound
  <2>. QED  BY <2>1 DEF Protocol, EndsSent
<1>0000. /\ \A k \in K : k.localCid = P[c].hostCid => k.remoteCid = c /\ ~k.localConfigured
         /\ ~Answered(R, P[c].hostCid)
         /\ \A a \in R : a.type = "Data" => a.dcid # P[c].hostCid
  <2>1. \A k \in K : k.localCid = P[c].hostCid => k.remoteCid = c
    <3>1. \A x : ~Accepted(R, x, c)
      BY <1>00 DEF Protocol, RxConnRsp, Unaddressed, ToEnd, EndOf, Accepted
    <3>. QED  BY <3>1 DEF Protocol, EndsConfig
  <2>2. \A k \in K : k.localCid = P[c].hostCid => ~k.localConfigured /\ ~Answered(R, P[c].hostCid)
    BY <1>00, <2>1 DEF Protocol, OutConfReq
  <2>3. \A a \in R : a.type = "Data" => a.dcid # P[c].hostCid
    BY <1>000, <2>2 DEF Protocol, RxData, Known
  <2>. QED  BY <1>000, <2>1, <2>2, <2>3 DEF Known
<1>1. RxNames(R2, K)
  BY <1>0, <1>00, <1>000, <1>0000 DEF Protocol, RxNames, Known, Naming, Name, Unbound, Nameless
<1>2. RxLink(R2, K, L)
  BY <1>0, <1>00, <1>000, <1>0000 DEF Protocol, RxLink
<1>3. RxConnReq(R2, O2, K, P2)
  BY <1>0, <1>00, <1>000, <1>0000 DEF Protocol, RxConnReq, Unaddressed
<1>4. RxConnRsp(R2, O2, K, P2)
  BY <1>0, <1>00, <1>000, <1>0000 DEF Protocol, RxConnRsp, Fresh, Live, Unaddressed, Unbound,
         Bound
<1>5. RxConfReq(R2, K, P2)
  BY <1>0, <1>00, <1>000, <1>0000 DEF Protocol, RxConfReq, Live, Accepted
<1>6. RxConfRsp(R2, K, P2)
  BY <1>0, <1>00, <1>000, <1>0000, ZeroEnd DEF Protocol, RxConfRsp, Live
<1>7. RxDiscReq(R2, K, P2)
  BY <1>0, <1>00, <1>000, <1>0000 DEF Protocol, RxDiscReq, Accepted
<1>8. RxData(R2, K)
  BY <1>0, <1>00, <1>000, <1>0000 DEF Protocol, RxData, Answered
<1>9. OutEnds(O2, P2)
  BY <1>0, <1>00, <1>000, <1>0000 DEF Protocol, OutEnds
<1>10. OutConnReq(R2, O2, K, P2)
  BY <1>0, <1>00, <1>000, <1>0000 DEF Protocol, OutConnReq, Known, Fresh, Nameless, Unbound,
         Bound, Naming, Name
<1>11. OutConnRsp(O2, K, P2)
  BY <1>0, <1>00, <1>000, <1>0000 DEF Protocol, OutConnRsp, Known, OutEnds, ToEnd, EndOf
<1>12. OutConfReq(R2, O2, K)
  BY <1>0, <1>00, <1>000, <1>0000 DEF Protocol, OutConfReq, Answered, OutBefore, ToEnd, EndOf
<1>13. OutConfRsp(O2, K)
  BY <1>0, <1>00, <1>000, <1>0000 DEF Protocol, OutConfRsp
<1>14. OutDiscRsp(O2, K, P2)
  BY <1>0, <1>00, <1>000, <1>0000 DEF Protocol, OutDiscRsp, Known, OutEnds, ToEnd, EndOf
<1>15. EndsNew(P2)
  BY <1>0, <1>00, <1>000, <1>0000 DEF Protocol, EndsNew
<1>16. EndsPending(R2, K, P2)
  BY <1>0, <1>00, <1>000, <1>0000 DEF Protocol, EndsPending, Known, Fresh, Bound, Naming, Name,
         Unbound, Nameless
<1>17. EndsSent(R2, K, P2)
  BY <1>0, <1>00, <1>000, <1>0000 DEF Protocol, EndsSent, Known, Final, Bound, Naming, Name,
         Unbound, Nameless
<1>18. EndsConfig(R2, K, P2)
  BY <1>0, <1>00, <1>000, <1>0000 DEF Protocol, EndsConfig, Accepted, Answered, Bound
<1>19. EndsDistinct(P2)
  BY <1>0, <1>00, <1>000, <1>0000 DEF Protocol, EndsDistinct, Bound
<1>20. ChannelsNew(K, L)
  BY DEF Protocol
<1>21. ChannelsBound(R2, K, P2)
  BY <1>0, <1>00, <1>000, <1>0000 DEF Protocol, ChannelsBound, Nameless, Unbound, Live, Bound,
         Naming, Name
<1>22. ChannelsDistinct(K)
  BY DEF Protocol
<1>23. \A a \in R : RxBefore(a, n)
  BY <1>000, <1>0000 DEF RxBefore, Naming, Name, Final, Answered
<1>. QED  BY <1>23, <1>1, <1>2, <1>3, <1>4, <1>5, <1>6, <1>7, <1>8, <1>9, <1>10, <1>11, <1>12, <1>13,
           <1>14, <1>15, <1>16, <1>17, <1>18, <1>19, <1>20, <1>21, <1>22 DEF Protocol

\* A board that has put its answer off gives it.
LEMMA ConcludeStep ==
  ASSUME NEW R, NEW O, NEW K, NEW P, NEW L, Protocol(R, O, K, P, L),
         NEW c \in PeerCid, P[c].state = "config", P[c].rspSent, P[c].verdict = Pending,
         NEW n, n.type = "ConfRsp", n.scid = P[c].hostCid, NEW R2, R2 = R \cup {n},
         NEW e, e.state = "config", e.psm = P[c].psm, e.hostCid = P[c].hostCid,
         e.reqSent = P[c].reqSent, e.rspSent, e.rspGot = P[c].rspGot,
         NEW P2, EndBecomes(P, c, e, P2)
  PROVE  /\ Protocol(R2, O, K, P2, L)
         /\ \A a \in R : RxBefore(a, n)
<1>0. P2[c] = e /\ \A d \in PeerCid : d # c => P2[d] = P[d]
  BY DEF EndBecomes
<1>000. /\ Known(K, P[c].hostCid)
        /\ \A d \in PeerCid : Bound(P[d]) /\ d # c => P[d].hostCid # P[c].hostCid
        /\ \A a \in R : a.type \in Naming /\ Name(a) = P[c].hostCid =>
             ~Final(a) /\ (a.type = "ConfReq" => P[c].reqSent)
             /\ (a.type = "Data" => P[c].verdict = Success)
  <2>1. \A d \in PeerCid : Bound(P[d]) /\ d # c => P[d].hostCid # P[c].hostCid
    BY DEF Protocol, EndsDistinct, Bound
  <2>. QED  BY <2>1 DEF Protocol, EndsSent
<1>0000. /\ \A k \in K : k.localCid = P[c].hostCid => k.remoteCid = c /\ ~Fresh(k)
         /\ \A k \in K : k.remoteCid = c => k.localCid = P[c].hostCid
         /\ \A k \in K : k.localCid = P[c].hostCid => k.localConfigured \/ Answered(R, P[c].hostCid)
         /\ \A a \in R : a.type = "Data" => a.dcid # P[c].hostCid
  <2>1. \A k \in K : k.localCid = P[c].hostCid => k.localConfigured \/ Answered(R, P[c].hostCid)
    BY DEF Protocol, EndsConfig
  <2>2. \A k \in K : k.localCid = P[c].hostCid => k.remoteCid # 0
    BY <2>1 DEF Protocol, ChannelsNew, Fresh, Answered, RxConfRsp
  <2>3. \A k \in K : k.localCid = P[c].hostCid => k.remoteCid = c
    BY <2>2 DEF Protocol, EndsConfig
  <2>4. \A k \in K : k.remoteCid = c => k.localCid = P[c].hostCid
    BY ZeroEnd DEF Protocol, ChannelsBound, Live
  <2>5. \A a \in R : a.type = "Data" => a.dcid # P[c].hostCid
    BY <1>000 DEF Naming, Name, Success, Pending
  <2>. QED  BY <2>1, <2>2, <2>3, <2>4, <2>5, ZeroEnd DEF Fresh
<1>1. RxNames(R2, K)
  BY <1>0, <1>000, <1>0000 DEF Protocol, RxNames, Known, Naming, Name, Unbound, Nameless
<1>2. RxLink(R2, K, L)
  BY <1>0, <1>000, <1>0000 DEF Protocol, RxLink
<1>3. RxConnReq(R2, O, K, P2)
  BY <1>0, <1>000, <1>0000 DEF Protocol, RxConnReq, Unaddressed
<1>4. RxConnRsp(R2, O, K, P2)
  BY <1>0, <1>000, <1>0000 DEF Protocol, RxConnRsp, Fresh, Live, Unaddressed, Unbound,
         Bound
<1>5. RxConfReq(R2, K, P2)
  BY <1>0, <1>000, <1>0000 DEF Protocol, RxConfReq, Live, Accepted
<1>6. RxConfRsp(R2, K, P2)
  BY <1>0, <1>000, <1>0000, ZeroEnd DEF Protocol, RxConfRsp, Live
<1>7. RxDiscReq(R2, K, P2)
  BY <1>0, <1>000, <1>0000 DEF Protocol, RxDiscReq, Accepted
<1>8. RxData(R2, K)
  BY <1>0, <1>000, <1>0000 DEF Protocol, RxData, Answered
<1>9. OutEnds(O, P2)
  BY <1>0, <1>000, <1>0000 DEF Protocol, OutEnds
<1>10. OutConnReq(R2, O, K, P2)
  BY <1>0, <1>000, <1>0000 DEF Protocol, OutConnReq, Known, Fresh, Nameless, Unbound,
         Bound, Naming, Name
<1>11. OutConnRsp(O, K, P2)
  BY <1>0, <1>000, <1>0000 DEF Protocol, OutConnRsp, Known, OutEnds, ToEnd, EndOf
<1>12. OutConfReq(R2, O, K)
  BY <1>0, <1>000, <1>0000 DEF Protocol, OutConfReq, Answered, OutBefore, ToEnd, EndOf
<1>13. OutConfRsp(O, K)
  BY <1>0, <1>000, <1>0000 DEF Protocol, OutConfRsp
<1>14. OutDiscRsp(O, K, P2)
  BY <1>0, <1>000, <1>0000 DEF Protocol, OutDiscRsp, Known, OutEnds, ToEnd, EndOf
<1>15. EndsNew(P2)
  BY <1>0, <1>000, <1>0000 DEF Protocol, EndsNew
<1>16. EndsPending(R2, K, P2)
  BY <1>0, <1>000, <1>0000 DEF Protocol, EndsPending, Known, Fresh, Bound, Naming, Name,
         Unbound, Nameless
<1>17. EndsSent(R2, K, P2)
  BY <1>0, <1>000, <1>0000 DEF Protocol, EndsSent, Known, Final, Bound, Naming, Name,
         Unbound, Nameless
<1>18. EndsConfig(R2, K, P2)
  BY <1>0, <1>000, <1>0000 DEF Protocol, EndsConfig, Accepted, Answered, Bound
<1>19. EndsDistinct(P2)
  BY <1>0, <1>000, <1>0000 DEF Protocol, EndsDistinct, Bound
<1>20. ChannelsNew(K, L)
  BY DEF Protocol
<1>21. ChannelsBound(R2, K, P2)
  BY <1>0, <1>000, <1>0000 DEF Protocol, ChannelsBound, Nameless, Unbound, Live, Bound,
         Naming, Name
<1>22. ChannelsDistinct(K)
  BY DEF Protocol
<1>23. \A a \in R : RxBefore(a, n)
  BY <1>000, <1>0000 DEF RxBefore, Naming, Name, Final, Answered
<1>. QED  BY <1>23, <1>1, <1>2, <1>3, <1>4, <1>5, <1>6, <1>7, <1>8, <1>9, <1>10, <1>11, <1>12, <1>13,
           <1>14, <1>15, <1>16, <1>17, <1>18, <1>19, <1>20, <1>21, <1>22 DEF Protocol

\* A board receives the host's answer to its configuration request.
LEMMA AnsweredStep ==
  ASSUME NEW R, NEW O, NEW K, NEW P, NEW L, Protocol(R, O, K, P, L),
         NEW m, m.type = "ConfRsp", NEW O2, TakesOut(O, m, O2), NEW c, c = m.scid,
         c \in PeerCid, P[c].state = "config",
         NEW e, e.state = "config", e.psm = P[c].psm, e.hostCid = P[c].hostCid,
         e.reqSent = P[c].reqSent, e.rspSent = P[c].rspSent, e.rspGot,
         e.verdict = P[c].verdict,
         NEW P2, EndBecomes(P, c, e, P2)
  PROVE  Protocol(R, O2, K, P2, L)
<1>0. P2[c] = e /\ \A d \in PeerCid : d # c => P2[d] = P[d]
  BY DEF EndBecomes
<1>00. m \in O /\ O2 \subseteq O /\ O \subseteq O2 \cup {m} /\ \A o \in O2 : OutBefore(m, o)
  BY DEF TakesOut
<1>000. \A k \in K : k.localCid = P[c].hostCid => k.remoteConfigured
  <2>1. \A k \in K : k.localCid = P[c].hostCid => k.remoteCid = c
    <3>1. \A x : ~Accepted(R, x, c)
      BY <1>00 DEF Protocol, RxConnRsp, Unaddressed, ToEnd, EndOf, Accepted
    <3>. QED  BY <3>1 DEF Protocol, EndsConfig
  <2>. QED  BY <1>00, <2>1 DEF Protocol, OutConfRsp
<1>1. RxNames(R, K)
  BY DEF Protocol
<1>2. RxLink(R, K, L)
  BY DEF Protocol
<1>3. RxConnReq(R, O2, K, P2)
  BY <1>0, <1>00, <1>000 DEF Protocol, RxConnReq, Unaddressed
<1>4. RxConnRsp(R, O2, K, P2)
  BY <1>0, <1>00, <1>000 DEF Protocol, RxConnRsp, Fresh, Live, Unaddressed, Unbound, Bound
<1>5. RxConfReq(R, K, P2)
  BY <1>0, <1>00, <1>000 DEF Protocol, RxConfReq, Live, Accepted
<1>6. RxConfRsp(R, K, P2)
  BY <1>0, <1>00, <1>000 DEF Protocol, RxConfRsp, Live
<1>7. RxDiscReq(R, K, P2)
  BY <1>0, <1>00, <1>000 DEF Protocol, RxDiscReq, Accepted
<1>8. RxData(R, K)
  BY DEF Protocol
<1>9. OutEnds(O2, P2)
  BY <1>0, <1>00, <1>000 DEF Protocol, OutEnds
<1>10. OutConnReq(R, O2, K, P2)
  BY <1>0, <1>00, <1>000 DEF Protocol, OutConnReq, Known, Fresh, Nameless, Unbound, Bound
<1>11. OutConnRsp(O2, K, P2)
  BY <1>0, <1>00, <1>000 DEF Protocol, OutConnRsp, Known, OutEnds, ToEnd, EndOf
<1>12. OutConfReq(R, O2, K)
  BY <1>0, <1>00, <1>000 DEF Protocol, OutConfReq, Answered
<1>13. OutConfRsp(O2, K)
  BY <1>0, <1>00, <1>000 DEF Protocol, OutConfRsp
<1>14. OutDiscRsp(O2, K, P2)
  BY <1>0, <1>00, <1>000 DEF Protocol, OutDiscRsp, Known, OutEnds, ToEnd, EndOf
<1>15. EndsNew(P2)
  BY <1>0, <1>00, <1>000 DEF Protocol, EndsNew
<1>16. EndsPending(R, K, P2)
  BY <1>0, <1>00, <1>000 DEF Protocol, EndsPending, Known, Fresh, Bound
<1>17. EndsSent(R, K, P2)
  BY <1>0, <1>00, <1>000 DEF Protocol, EndsSent, Known, Final, Bound
<1>18. EndsConfig(R, K, P2)
  BY <1>0, <1>00, <1>000 DEF Protocol, EndsConfig, Accepted, Answered, Bound
<1>19. EndsDistinct(P2)
  BY <1>0, <1>00, <1>000 DEF Protocol, EndsDistinct, Bound
<1>20. ChannelsNew(K, L)
  BY DEF Protocol
<1>21. ChannelsBound(R, K, P2)
  BY <1>0, <1>00, <1>000 DEF Protocol, ChannelsBound, Nameless, Unbound, Live, Bound
<1>22. ChannelsDistinct(K)
  BY DEF Protocol
<1>. QED  BY <1>1, <1>2, <1>3, <1>4, <1>5, <1>6, <1>7, <1>8, <1>9, <1>10, <1>11, <1>12, <1>13,
           <1>14, <1>15, <1>16, <1>17, <1>18, <1>19, <1>20, <1>21, <1>22 DEF Protocol

\* A board closes a channel.
LEMMA CloseStep ==
  ASSUME NEW R, NEW O, NEW K, NEW P, NEW L, Protocol(R, O, K, P, L),
         NEW c \in PeerCid, P[c].state = "config",
         NEW n, n.type = "DiscReq", n.scid = c, n.dcid = P[c].hostCid, NEW R2, R2 = R \cup {n},
         NEW e, e.state = "closing", e.psm = P[c].psm, e.hostCid = P[c].hostCid,
         e.reqSent = P[c].reqSent, e.rspSent = P[c].rspSent, e.rspGot = P[c].rspGot,
         NEW P2, EndBecomes(P, c, e, P2)
  PROVE  /\ Protocol(R2, O, K, P2, L)
         /\ \A a \in R : RxBefore(a, n)
<1>0. P2[c] = e /\ \A d \in PeerCid : d # c => P2[d] = P[d]
  BY DEF EndBecomes
<1>000. /\ Known(K, P[c].hostCid)
        /\ \A d \in PeerCid : Bound(P[d]) /\ d # c => P[d].hostCid # P[c].hostCid
        /\ \A a \in R : a.type \in Naming /\ Name(a) = P[c].hostCid =>
             ~Final(a) /\ (a.type = "ConfReq" => P[c].reqSent) /\ (a.type = "ConfRsp" => P[c].rspSent)
  <2>1. \A d \in PeerCid : Bound(P[d]) /\ d # c => P[d].hostCid # P[c].hostCid
    BY DEF Protocol, EndsDistinct, Bound
  <2>. QED  BY <2>1 DEF Protocol, EndsSent
<1>1. RxNames(R2, K)
  BY <1>0, <1>000 DEF Protocol, RxNames, Known, Naming, Name, Unbound, Nameless
<1>2. RxLink(R2, K, L)
  BY <1>0, <1>000 DEF Protocol, RxLink
<1>3. RxConnReq(R2, O, K, P2)
  BY <1>0, <1>000 DEF Protocol, RxConnReq, Unaddressed
<1>4. RxConnRsp(R2, O, K, P2)
  BY <1>0, <1>000 DEF Protocol, RxConnRsp, Fresh, Live, Unaddressed, Unbound, Bound
<1>5. RxConfReq(R2, K, P2)
  BY <1>0, <1>000 DEF Protocol, RxConfReq, Live, Accepted
<1>6. RxConfRsp(R2, K, P2)
  BY <1>0, <1>000 DEF Protocol, RxConfRsp, Live
<1>7. RxDiscReq(R2, K, P2)
  BY <1>0, <1>000 DEF Protocol, RxDiscReq, Accepted, EndsConfig, Answered
<1>8. RxData(R2, K)
  BY <1>0, <1>000 DEF Protocol, RxData, Answered
<1>9. OutEnds(O, P2)
  BY <1>0, <1>000 DEF Protocol, OutEnds
<1>10. OutConnReq(R2, O, K, P2)
  BY <1>0, <1>000 DEF Protocol, OutConnReq, Known, Fresh, Nameless, Unbound, Bound, Naming,
         Name
<1>11. OutConnRsp(O, K, P2)
  BY <1>0, <1>000 DEF Protocol, OutConnRsp, Known, OutEnds, ToEnd, EndOf
<1>12. OutConfReq(R2, O, K)
  BY <1>0, <1>000 DEF Protocol, OutConfReq, Answered
<1>13. OutConfRsp(O, K)
  BY DEF Protocol
<1>14. OutDiscRsp(O, K, P2)
  BY <1>0, <1>000 DEF Protocol, OutDiscRsp, Known, OutEnds, ToEnd, EndOf
<1>15. EndsNew(P2)
  BY <1>0, <1>000 DEF Protocol, EndsNew
<1>16. EndsPending(R2, K, P2)
  BY <1>0, <1>000 DEF Protocol, EndsPending, Known, Fresh, Bound, Naming, Name, Unbound,
         Nameless
<1>17. EndsSent(R2, K, P2)
  BY <1>0, <1>000 DEF Protocol, EndsSent, Known, Final, Bound, Naming, Name, Unbound, Nameless
<1>18. EndsConfig(R2, K, P2)
  BY <1>0, <1>000 DEF Protocol, EndsConfig, Accepted, Answered, Bound
<1>19. EndsDistinct(P2)
  BY <1>0, <1>000 DEF Protocol, EndsDistinct, Bound
<1>20. ChannelsNew(K, L)
  BY DEF Protocol
<1>21. ChannelsBound(R2, K, P2)
  BY <1>0, <1>000 DEF Protocol, ChannelsBound, Nameless, Unbound, Live, Bound, Naming, Name
<1>22. ChannelsDistinct(K)
  BY DEF Protocol
<1>23. \A a \in R : RxBefore(a, n)
  BY <1>000 DEF RxBefore, Naming, Name, Final
<1>. QED  BY <1>23, <1>1, <1>2, <1>3, <1>4, <1>5, <1>6, <1>7, <1>8, <1>9, <1>10, <1>11, <1>12, <1>13,
           <1>14, <1>15, <1>16, <1>17, <1>18, <1>19, <1>20, <1>21, <1>22 DEF Protocol

\* A board receives the answer to its closing a channel.
LEMMA ClosedStep ==
  ASSUME NEW R, NEW O, NEW K, NEW P, NEW L, Protocol(R, O, K, P, L),
         NEW m, m.type = "DiscRsp", NEW O2, TakesOut(O, m, O2), NEW c, c = m.scid,
         NEW e, e.state = "closed",
         NEW P2, EndBecomes(P, c, e, P2)
  PROVE  Protocol(R, O2, K, P2, L)
<1>0. P2[c] = e /\ \A d \in PeerCid : d # c => P2[d] = P[d]
  BY DEF EndBecomes
<1>00. m \in O /\ O2 \subseteq O /\ O \subseteq O2 \cup {m} /\ \A o \in O2 : OutBefore(m, o)
  BY DEF TakesOut
<1>000. /\ c \in PeerCid /\ P[c].state = "closing"
        /\ \A k \in K : k.remoteCid # c /\ k.localCid # P[c].hostCid
  <2>1. P[c].state = "closing" /\ \A k \in K : k.remoteCid # c /\ k.localCid # P[c].hostCid
    BY <1>00 DEF Protocol, OutDiscRsp, Known
  <2>2. c \in PeerCid
    BY <1>00 DEF Protocol, OutEnds, ToEnd, EndOf
  <2>. QED  BY <2>1, <2>2
<1>1. RxNames(R, K)
  BY DEF Protocol
<1>2. RxLink(R, K, L)
  BY DEF Protocol
<1>3. RxConnReq(R, O2, K, P2)
  BY <1>0, <1>00, <1>000 DEF Protocol, RxConnReq, Unaddressed
<1>4. RxConnRsp(R, O2, K, P2)
  BY <1>0, <1>00, <1>000 DEF Protocol, RxConnRsp, Fresh, Live, Unaddressed, Unbound, Bound,
         RxNames, Known, Naming, Name
<1>5. RxConfReq(R, K, P2)
  BY <1>0, <1>00, <1>000 DEF Protocol, RxConfReq, Live, Accepted, RxNames, Known, Naming, Name
<1>6. RxConfRsp(R, K, P2)
  BY <1>0, <1>00, <1>000 DEF Protocol, RxConfRsp, Live, RxNames, Known, Naming, Name
<1>7. RxDiscReq(R, K, P2)
  BY <1>0, <1>00, <1>000 DEF Protocol, RxDiscReq, Accepted, RxNames, Known, Naming, Name
<1>8. RxData(R, K)
  BY DEF Protocol
<1>9. OutEnds(O2, P2)
  BY <1>0, <1>00, <1>000 DEF Protocol, OutEnds, OutBefore, ToEnd, EndOf
<1>10. OutConnReq(R, O2, K, P2)
  BY <1>0, <1>00, <1>000 DEF Protocol, OutConnReq, Known, Fresh, Nameless, Unbound, Bound
<1>11. OutConnRsp(O2, K, P2)
  BY <1>0, <1>00, <1>000 DEF Protocol, OutConnRsp, Known, OutEnds, ToEnd, EndOf
<1>12. OutConfReq(R, O2, K)
  BY <1>0, <1>00, <1>000 DEF Protocol, OutConfReq, Answered
<1>13. OutConfRsp(O2, K)
  BY <1>0, <1>00, <1>000 DEF Protocol, OutConfRsp
<1>14. OutDiscRsp(O2, K, P2)
  BY <1>0, <1>00, <1>000 DEF Protocol, OutDiscRsp, Known, OutEnds, ToEnd, EndOf, OutBefore
<1>15. EndsNew(P2)
  BY <1>0, <1>00, <1>000 DEF Protocol, EndsNew
<1>16. EndsPending(R, K, P2)
  BY <1>0, <1>00, <1>000 DEF Protocol, EndsPending, Known, Fresh, Bound
<1>17. EndsSent(R, K, P2)
  BY <1>0, <1>00, <1>000 DEF Protocol, EndsSent, Known, Final, Bound
<1>18. EndsConfig(R, K, P2)
  BY <1>0, <1>00, <1>000 DEF Protocol, EndsConfig, Accepted, Answered, Bound
<1>19. EndsDistinct(P2)
  BY <1>0, <1>00, <1>000 DEF Protocol, EndsDistinct, Bound
<1>20. ChannelsNew(K, L)
  BY DEF Protocol
<1>21. ChannelsBound(R, K, P2)
  BY <1>0, <1>00, <1>000 DEF Protocol, ChannelsBound, Nameless, Unbound, Live, Bound
<1>22. ChannelsDistinct(K)
  BY DEF Protocol
<1>. QED  BY <1>1, <1>2, <1>3, <1>4, <1>5, <1>6, <1>7, <1>8, <1>9, <1>10, <1>11, <1>12, <1>13,
           <1>14, <1>15, <1>16, <1>17, <1>18, <1>19, <1>20, <1>21, <1>22 DEF Protocol

\* A board sends a report.
LEMMA DataStep ==
  ASSUME NEW R, NEW O, NEW K, NEW P, NEW L, Protocol(R, O, K, P, L),
         NEW c \in PeerCid, P[c].state = "config", P[c].rspSent, P[c].rspGot, P[c].psm = HidInterrupt,
         P[c].verdict = Success,
         NEW n, n.type = "Data", n.dcid = P[c].hostCid, NEW R2, R2 = R \cup {n}
  PROVE  /\ Protocol(R2, O, K, P, L)
         /\ \A a \in R : RxBefore(a, n)
<1>000. /\ Known(K, P[c].hostCid)
        /\ \A d \in PeerCid : Bound(P[d]) /\ d # c => P[d].hostCid # P[c].hostCid
        /\ \A a \in R : a.type \in Naming /\ Name(a) = P[c].hostCid =>
             ~Final(a) /\ (a.type = "ConfReq" => P[c].reqSent) /\ (a.type = "ConfRsp" => P[c].rspSent)
  <2>1. \A d \in PeerCid : Bound(P[d]) /\ d # c => P[d].hostCid # P[c].hostCid
    BY DEF Protocol, EndsDistinct, Bound
  <2>. QED  BY <2>1 DEF Protocol, EndsSent
<1>1. RxNames(R2, K)
  BY <1>000 DEF Protocol, RxNames, Known, Naming, Name, Unbound, Nameless
<1>2. RxLink(R2, K, L)
  BY <1>000 DEF Protocol, RxLink
<1>3. RxConnReq(R2, O, K, P)
  BY <1>000 DEF Protocol, RxConnReq, Unaddressed
<1>4. RxConnRsp(R2, O, K, P)
  BY <1>000 DEF Protocol, RxConnRsp, Fresh, Live, Unaddressed, Unbound, Bound
<1>5. RxConfReq(R2, K, P)
  BY <1>000 DEF Protocol, RxConfReq, Live, Accepted
<1>6. RxConfRsp(R2, K, P)
  BY <1>000 DEF Protocol, RxConfRsp, Live
<1>7. RxDiscReq(R2, K, P)
  BY <1>000 DEF Protocol, RxDiscReq, Accepted
<1>8. RxData(R2, K)
  BY <1>000 DEF Protocol, RxData, Answered, EndsConfig, Accepted
<1>9. OutEnds(O, P)
  BY DEF Protocol
<1>10. OutConnReq(R2, O, K, P)
  BY <1>000 DEF Protocol, OutConnReq, Known, Fresh, Nameless, Unbound, Bound, Naming, Name
<1>11. OutConnRsp(O, K, P)
  BY DEF Protocol
<1>12. OutConfReq(R2, O, K)
  BY <1>000 DEF Protocol, OutConfReq, Answered
<1>13. OutConfRsp(O, K)
  BY DEF Protocol
<1>14. OutDiscRsp(O, K, P)
  BY DEF Protocol
<1>15. EndsNew(P)
  BY DEF Protocol
<1>16. EndsPending(R2, K, P)
  BY <1>000 DEF Protocol, EndsPending, Known, Fresh, Bound, Naming, Name, Unbound, Nameless
<1>17. EndsSent(R2, K, P)
  BY <1>000 DEF Protocol, EndsSent, Known, Final, Bound, Naming, Name, Unbound, Nameless
<1>18. EndsConfig(R2, K, P)
  BY <1>000 DEF Protocol, EndsConfig, Accepted, Answered, Bound
<1>19. EndsDistinct(P)
  BY DEF Protocol
<1>20. ChannelsNew(K, L)
  BY DEF Protocol
<1>21. ChannelsBound(R2, K, P)
  BY <1>000 DEF Protocol, ChannelsBound, Nameless, Unbound, Live, Bound, Naming, Name
<1>22. ChannelsDistinct(K)
  BY DEF Protocol
<1>23. \A a \in R : RxBefore(a, n)
  BY <1>000 DEF RxBefore, Naming, Name, Final
<1>. QED  BY <1>23, <1>1, <1>2, <1>3, <1>4, <1>5, <1>6, <1>7, <1>8, <1>9, <1>10, <1>11, <1>12, <1>13,
           <1>14, <1>15, <1>16, <1>17, <1>18, <1>19, <1>20, <1>21, <1>22 DEF Protocol
--------------------------------------------------------------------------------
(* The variables of one link.                                                *)

LEMMA AllowedFacts ==
  ASSUME NEW a \in Packet, NEW b \in Packet
  PROVE  /\ <<a, b>> \in AllowedRx <=> (a.handle = b.handle => RxBefore(a, b))
         /\ <<a, b>> \in AllowedOut <=> (a.handle = b.handle => OutBefore(a, b))
<1>1. <<a, b>>[1] = a /\ <<a, b>>[2] = b /\ <<a, b>> \in Packet \X Packet
  OBVIOUS
<1>. QED  BY <1>1 DEF AllowedRx, AllowedOut

LEMMA KeptLink ==
  ASSUME NEW h \in Handle, LinkAt(h),
         FromBoard(h)' = FromBoard(h), ToBoard(h)' = ToBoard(h), ChannelsOf(h)' = ChannelsOf(h),
         peer'[h] = peer[h], link'[h] = link[h]
  PROVE  LinkAt(h)'
BY DEF LinkAt

\* Handling a packet takes it from its link, after what came before it.
LEMMA HostTakes ==
  ASSUME TypeOK, Orders, NEW type, Receives(type), NEW m, m = Head(rx)
  PROVE  /\ m \in Packet /\ m \in Packets(rx) /\ m.type = type /\ m.handle \in Handle
         /\ UNCHANGED env /\ ~crashed
         /\ TakesRx(FromBoard(m.handle), m, FromBoard(m.handle)')
         /\ \A g \in Handle : g # m.handle => FromBoard(g)' = FromBoard(g)
         /\ Along(AllowedRx, rx)'
<1>1. /\ m \in Packet /\ m \in Packets(rx) /\ m.type = type /\ m.handle \in Handle
      /\ UNCHANGED env /\ ~crashed
      /\ Packets(rx') \subseteq Packets(rx) /\ Packets(rx) \subseteq Packets(rx') \cup {m}
  BY ReceivesPackets, PacketFacts
<1>2. rx \in Seq(Packet) /\ rx # <<>> /\ rx' = Tail(rx)
  BY StateFacts DEF Receives
<1>3. Along(AllowedRx, Tail(rx)) /\ \A b \in Packets(rx') : <<m, b>> \in AllowedRx
  BY <1>2, AlongTail DEF Orders
<1>4. Along(AllowedRx, rx)'
  BY <1>2, <1>3
<1>5. \A n \in FromBoard(m.handle)' : RxBefore(m, n)
  <2>1. ASSUME NEW n \in Packets(rx'), n.handle = m.handle
        PROVE  RxBefore(m, n)
    <3>1. n \in Packet
      BY <1>1, <1>2, <2>1, PacketsFacts
    <3>. QED  BY <1>1, <1>3, <2>1, <3>1, AllowedFacts
  <2>. QED  BY <2>1 DEF FromBoard
<1>6. TakesRx(FromBoard(m.handle), m, FromBoard(m.handle)')
  <2>1. m \in FromBoard(m.handle)
    BY <1>1 DEF FromBoard
  <2>2. /\ FromBoard(m.handle)' \subseteq FromBoard(m.handle)
        /\ FromBoard(m.handle) \subseteq FromBoard(m.handle)' \cup {m}
    BY <1>1 DEF FromBoard
  <2>. QED  BY <1>5, <2>1, <2>2 DEF TakesRx
<1>7. \A g \in Handle : g # m.handle => FromBoard(g)' = FromBoard(g)
  BY <1>1 DEF FromBoard
<1>. QED  BY <1>1, <1>4, <1>6, <1>7

\* ... and leaves the other links alone.
LEMMA HostOthers ==
  ASSUME TypeOK, Orders, LinksProtocol, NEW type, Receives(type), NEW m, m = Head(rx),
         \A n \in Packets(tx') : n \in Packets(tx) \/ n.handle = m.handle,
         Packets(tx) \subseteq Packets(tx'),
         \A k : k.handle # m.handle => (k \in Channels' <=> k \in Channels)
  PROVE  \A g \in Handle : g # m.handle => LinkAt(g)'
<1>1. UNCHANGED env /\ \A g \in Handle : g # m.handle => FromBoard(g)' = FromBoard(g)
  BY HostTakes
<1>2. ASSUME NEW g \in Handle, g # m.handle
      PROVE  ToBoard(g)' = ToBoard(g)
  <2>1. air' = air
    BY <1>1 DEF env
  <2>. QED  BY <1>2, <2>1 DEF ToBoard
<1>3. ASSUME NEW g \in Handle, g # m.handle
      PROVE  ChannelsOf(g)' = ChannelsOf(g)
  <2>1. since' = since
    BY <1>1 DEF env, links
  <2>. QED  BY <1>3, <2>1 DEF ChannelsOf
<1>4. ASSUME NEW g \in Handle, g # m.handle
      PROVE  LinkAt(g)'
  <2>1. peer'[g] = peer[g] /\ link'[g] = link[g] /\ LinkAt(g)
    BY <1>1 DEF env, links, LinksProtocol
  <2>. QED  BY <1>1, <1>2, <1>3, <1>4, <2>1, KeptLink
<1>. QED  BY <1>4

\* What a handler has for the board of its packet goes behind what that has
\* to get.
LEMMA OutOkEnqueue ==
  ASSUME TypeOK, NamesOk, NEW q \in Seq(Packet), OutOk(q), NEW b \in Packet,
         \A a \in Packets(q) : a.handle = b.handle => OutBefore(a, b),
         \A a \in Packets(air[b.handle]) : OutBefore(a, b)
  PROVE  /\ Enqueue(q, b) \in Seq(Packet) /\ OutOk(Enqueue(q, b))
         /\ Packets(q) \subseteq Packets(Enqueue(q, b))
         /\ \A n \in Packets(Enqueue(q, b)) : n \in Packets(q) \/ n = b
<1>1. /\ Enqueue(q, b) \in Seq(Packet)
      /\ Packets(q) \subseteq Packets(Enqueue(q, b))
      /\ \A n \in Packets(Enqueue(q, b)) : n \in Packets(q) \/ n = b
  BY PacketsEnqueue
<1>2. \A a \in Packets(q) : <<a, b>> \in AllowedOut
  <2>1. Packets(q) \subseteq Packet
    BY PacketsFacts
  <2>. QED  BY <2>1, AllowedFacts
<1>3. Along(AllowedOut, Enqueue(q, b))
  BY <1>2, AlongEnqueue DEF OutOk
<1>4. ASSUME NEW h \in Handle, NEW a \in Packets(air[h])
      PROVE  <<a, b>> \in AllowedOut
  <2>1. a.handle = h /\ a \in Packet
    BY StateFacts, PacketsFacts DEF NamesOk, AirIssued
  <2>. QED  BY <2>1, AllowedFacts
<1>. QED  BY <1>1, <1>3, <1>4 DEF OutOk

LEMMA OutOkSame ==
  ASSUME OutOk(tx), UNCHANGED tx, UNCHANGED env
  PROVE  OutOk(tx)'
BY DEF OutOk, env

\* The two orders after a handler.
LEMMA HostOrders ==
  ASSUME TypeOK, Orders, NEW type, Receives(type), OutOk(tx')
  PROVE  Orders'
<1>1. Along(AllowedRx, rx)' /\ UNCHANGED env
  BY HostTakes
<1>2. air' = air
  BY <1>1 DEF env
<1>3. OutOk(tx)'
  BY <1>2 DEF OutOk
<1>. QED  BY <1>1, <1>2, <1>3 DEF Orders

\* findLocal finds the channel of the link that a packet of the link names.
LEMMA NamedChannel ==
  ASSUME CidInv, ~wrapped, NEW h \in Handle, NEW x, Known(ChannelsOf(h), x)
  PROVE  /\ Local(h, x) # {}
         /\ \A p \in Local(h, x) :
              /\ p.at \in 1 .. Len(connections) /\ p.at # PastEnd /\ p.to = connections[p.at]
              /\ p.to \in ChannelsOf(h) /\ p.to \in Connection /\ p.to.localCid = x
              /\ \A k \in Channels : k.localCid = x => k = p.to
<1>1. PICK k \in Channels : k \in ChannelsOf(h) /\ k.localCid = x
  BY DEF Known, ChannelsOf
<1>2. /\ Local(h, x) # {}
      /\ \A p \in Local(h, x) :
           /\ p.at \in 1 .. Len(connections) /\ p.at # PastEnd /\ p.to = connections[p.at]
           /\ p.to \in Channels /\ p.to.localCid = x
  BY <1>1, LocalFinds DEF CidInv
<1>3. \A l \in Channels : l.localCid = x => l = k
  BY <1>1, ChannelsUnique
<1>4. Channels \subseteq Connection
  BY ChannelsFacts DEF CidInv, TypeOK
<1>. QED  BY <1>1, <1>2, <1>3, <1>4

\* The channels of the link after that channel was changed ...
LEMMA ChangedChannel ==
  ASSUME CidInv, ~wrapped, UNCHANGED env, NEW h \in Handle, NEW x, Known(ChannelsOf(h), x),
         NEW p \in Local(h, x), NEW c \in Connection, c.localCid = p.to.localCid, c.handle = p.to.handle,
         connections' = Assign(connections, p, c)
  PROVE  /\ ChannelsOf(h)' = (ChannelsOf(h) \ {p.to}) \cup {c}
         /\ Channels' = (Channels \ {p.to}) \cup {c}
         /\ \A k : k.handle # h => (k \in Channels' <=> k \in Channels)
<1>1. /\ p.at \in 1 .. Len(connections) /\ p.at # PastEnd /\ p.to = connections[p.at]
      /\ p.to \in ChannelsOf(h)
  BY NamedChannel
<1>2. Channels' = (Channels \ {p.to}) \cup {c}
  BY <1>1, AssignChannels
<1>3. since' = since
  BY DEF env, links
<1>. QED  BY <1>1, <1>2, <1>3 DEF ChannelsOf

\* ... or removed.
LEMMA RemovedChannel ==
  ASSUME CidInv, ~wrapped, UNCHANGED env, NEW h \in Handle, NEW x, Known(ChannelsOf(h), x),
         NEW p \in Local(h, x), connections' = Remove(connections, p)
  PROVE  /\ ChannelsOf(h)' = ChannelsOf(h) \ {p.to}
         /\ Channels' = Channels \ {p.to}
         /\ \A k : k.handle # h => (k \in Channels' <=> k \in Channels)
<1>1. /\ p.at \in 1 .. Len(connections) /\ p.at # PastEnd /\ p.to = connections[p.at]
      /\ p.to \in ChannelsOf(h)
  BY NamedChannel
<1>2. Channels' = Channels \ {p.to}
  BY <1>1, RemoveChannels
<1>3. since' = since
  BY DEF env, links
<1>. QED  BY <1>1, <1>2, <1>3 DEF ChannelsOf
--------------------------------------------------------------------------------
(* The host.                                                                 *)

\* A board whose interrupt channel is configured is in connectedBoards.
Boarded == \A k \in Channels :
  k.psm = HidInterrupt /\ k.localConfigured /\ k.remoteConfigured => k.handle \in boards

Sound == ~crashed /\ ~pastEnd

ProtocolOk == LinksProtocol /\ Orders /\ Boarded /\ Sound

\* Until g_localCid wraps around.
ProtocolInv == ~wrapped => ProtocolOk

Before == CidInv /\ NamesOk /\ ~wrapped /\ ProtocolOk

\* What a handler leaves to show.
LEMMA HostDone ==
  ASSUME Before, NEW type, Receives(type), NEW m, m = Head(rx), LinkAt(m.handle)',
         OutOk(tx'), Packets(tx) \subseteq Packets(tx'),
         \A n \in Packets(tx') : n \in Packets(tx) \/ n.handle = m.handle,
         \A k : k.handle # m.handle => (k \in Channels' <=> k \in Channels),
         Boarded', Sound'
  PROVE  ProtocolOk'
<1>1. TypeOK /\ Orders /\ LinksProtocol
  BY DEF Before, CidInv, ProtocolOk
<1>2. Orders'
  BY <1>1, HostOrders
<1>3. \A g \in Handle : g # m.handle => LinkAt(g)'
  BY <1>1, HostOthers
<1>4. LinksProtocol'
  BY <1>3 DEF LinksProtocol
<1>. QED  BY <1>2, <1>4 DEF ProtocolOk

\* The link of the packet that is handled.
LEMMA HostLink ==
  ASSUME Before, NEW type, Receives(type), NEW m, m = Head(rx)
  PROVE  /\ m \in Packet /\ m \in Packets(rx) /\ m.type = type /\ m.handle \in Handle
         /\ m \in FromBoard(m.handle) /\ TakesRx(FromBoard(m.handle), m, FromBoard(m.handle)')
         /\ LinkAt(m.handle) /\ UNCHANGED env /\ ~crashed /\ OutOk(tx)
         /\ peer'[m.handle] = peer[m.handle] /\ link'[m.handle] = link[m.handle]
         /\ m.psm \in Psm /\ m.scid \in Cid /\ m.dcid \in Cid
         /\ \A a \in Packets(tx) \cup Packets(air[m.handle]) :
              a.handle = m.handle => a \in ToBoard(m.handle)
         /\ \A a \in Packets(air[m.handle]) : a.handle = m.handle
         /\ \A n \in ToBoard(m.handle)' :
              n \in ToBoard(m.handle) \/ (n \in Packets(tx') /\ n.handle = m.handle)
<1>1. TypeOK /\ Orders /\ LinksProtocol /\ NamesOk
  BY DEF Before, CidInv, ProtocolOk
<1>2. /\ m \in Packet /\ m \in Packets(rx) /\ m.type = type /\ m.handle \in Handle
      /\ TakesRx(FromBoard(m.handle), m, FromBoard(m.handle)')
      /\ UNCHANGED env /\ ~crashed
  BY <1>1, HostTakes
<1>3. m \in FromBoard(m.handle)
  BY <1>2 DEF FromBoard
<1>4. UNCHANGED <<peer, link, air>>
  BY <1>2 DEF env, links
<1>5. \A a \in Packets(air[m.handle]) : a.handle = m.handle
  BY <1>1, <1>2 DEF NamesOk, AirIssued
<1>6. \A n \in ToBoard(m.handle)' :
        n \in ToBoard(m.handle) \/ (n \in Packets(tx') /\ n.handle = m.handle)
  BY <1>4 DEF ToBoard
<1>7. m.psm \in Psm /\ m.scid \in Cid /\ m.dcid \in Cid
  BY <1>2, PacketFacts
<1>8. \A a \in Packets(tx) \cup Packets(air[m.handle]) : a.handle = m.handle => a \in ToBoard(m.handle)
  BY DEF ToBoard
<1>. QED  BY <1>1, <1>2, <1>3, <1>4, <1>5, <1>6, <1>7, <1>8 DEF LinksProtocol, Orders

\* One packet is put behind the others.
LEMMA HostSends ==
  ASSUME Before, NEW type, Receives(type), NEW m, m = Head(rx),
         NEW q \in Seq(Packet), OutOk(q), NEW b \in Packet, b.handle = m.handle,
         \A a \in Packets(q) : a.handle = m.handle => OutBefore(a, b),
         \A a \in ToBoard(m.handle) : OutBefore(a, b)
  PROVE  /\ Enqueue(q, b) \in Seq(Packet) /\ OutOk(Enqueue(q, b))
         /\ Packets(q) \subseteq Packets(Enqueue(q, b))
         /\ \A n \in Packets(Enqueue(q, b)) : n \in Packets(q) \/ n = b
<1>1. TypeOK /\ NamesOk
  BY DEF Before, CidInv
<1>2. \A a \in Packets(air[b.handle]) : OutBefore(a, b)
  BY HostLink
<1>. QED  BY <1>1, <1>2, OutOkEnqueue

\* Data may follow anything.
LEMMA DataLast == \A a, b : b.type \in {"Auth", "Data"} => OutBefore(a, b)
  BY DEF OutBefore, ToEnd

\* Packets without consequence for the channels.
LEMMA HostQuiet ==
  ASSUME Before, NEW type, Receives(type), NEW m, m = Head(rx),
         ~(type = "ConfRsp" \/ (type = "ConnRsp" /\ m.arg = Success)),
         UNCHANGED connections,
         \/ UNCHANGED tx
         \/ \E d \in Packet : d.type = "Data" /\ d.handle = m.handle /\ tx' = Enqueue(tx, d),
         UNCHANGED boards, Sound'
  PROVE  ProtocolOk'
<1>. DEFINE h == m.handle
<1>1. /\ m \in Packet /\ m.type = type /\ h \in Handle
      /\ TakesRx(FromBoard(h), m, FromBoard(h)')
      /\ LinkAt(h) /\ UNCHANGED env /\ OutOk(tx)
      /\ peer'[h] = peer[h] /\ link'[h] = link[h]
      /\ \A n \in ToBoard(h)' : n \in ToBoard(h) \/ (n \in Packets(tx') /\ n.handle = h)
      /\ \A a \in Packets(tx) : a.handle = h => a \in ToBoard(h)
  BY HostLink
<1>2. tx \in Seq(Packet)
  BY StateFacts DEF Before, CidInv
<1>3. /\ OutOk(tx') /\ Packets(tx) \subseteq Packets(tx')
      /\ \A n \in Packets(tx') : n \in Packets(tx) \/ (n.type = "Data" /\ n.handle = h)
  <2>1. CASE UNCHANGED tx
    BY <1>1, <2>1
  <2>2. ASSUME NEW d \in Packet, d.type = "Data", d.handle = h, tx' = Enqueue(tx, d)
        PROVE  /\ OutOk(tx') /\ Packets(tx) \subseteq Packets(tx')
               /\ \A n \in Packets(tx') : n \in Packets(tx) \/ (n.type = "Data" /\ n.handle = h)
    BY <1>1, <1>2, <2>2, HostSends, DataLast
  <2>. QED  BY <2>1, <2>2
<1>4. Channels' = Channels /\ ChannelsOf(h)' = ChannelsOf(h)
  BY <1>1 DEF Channels, ChannelsOf, env, links
<1>5. \A n \in FromBoard(h) :
        n \in FromBoard(h)' \/ ~(n.type = "ConfRsp" \/ (n.type = "ConnRsp" /\ n.arg = Success))
  BY <1>1 DEF TakesRx
<1>6. \A n \in ToBoard(h)' : n \in ToBoard(h) \/ n.type \in {"Auth", "Data"}
  <2>1. ASSUME NEW n \in ToBoard(h)', n \notin ToBoard(h)
        PROVE  n.type = "Data"
    <3>1. n \in Packets(tx') /\ n.handle = h
      BY <1>1, <2>1
    <3>. QED  BY <1>1, <1>3, <2>1, <3>1
  <2>. QED  BY <2>1
<1>7. Protocol(FromBoard(h)', ToBoard(h)', ChannelsOf(h), peer[h], link[h])
  <2>1. Protocol(FromBoard(h), ToBoard(h), ChannelsOf(h), peer[h], link[h])
    BY <1>1 DEF LinkAt
  <2>2. \A n \in FromBoard(h)' : n \in FromBoard(h)
    BY <1>1 DEF TakesRx
  <2>. HIDE DEF h
  <2>. QED  BY <1>5, <1>6, <2>1, <2>2, QuietStep
<1>8. LinkAt(h)'
  BY <1>1, <1>4, <1>7 DEF LinkAt
<1>9. Boarded'
  BY <1>4 DEF Before, ProtocolOk, Boarded
<1>. QED  BY <1>3, <1>4, <1>8, <1>9, HostDone

\* The listener on ACLConnectionEstablished.
LEMMA HostEstablished ==
  ASSUME Before, NEW type, Receives(type), NEW h, h = Head(rx).handle, NEW p, p.at # PastEnd,
         p.to \in Channels, NEW q \in Seq(Packet), OutOk(q), NEW n, Established(h, p.to.psm, p, q, n)
  PROVE  /\ ~pastEnd' /\ boards \subseteq boards'
         /\ p.to.psm = HidInterrupt => h \in boards'
         /\ OutOk(tx') /\ Packets(q) \subseteq Packets(tx')
         /\ \A o \in Packets(tx') : o \in Packets(q) \/ (o.type = "Data" /\ o.handle = h)
<1>1. TypeOK /\ ~pastEnd /\ h \in Handle
  BY HostLink DEF Before, CidInv, ProtocolOk, Sound
<1>2. CASE Uses(p) /\ Sends(q, n) /\ boards \subseteq boards' /\ (p.to.psm = HidInterrupt => h \in boards')
  BY <1>1, <1>2 DEF Uses, Sends
<1>3. ASSUME p.to.psm = HidInterrupt, NEW d \in L2Data(h, HidInterrupt)
      PROVE  /\ d.uses.at # PastEnd
             /\ d.packet \in Packet /\ d.packet.type = "Data" /\ d.packet.handle = h
  <2>1. d.uses \in ByPsm(h, HidInterrupt) /\ d.packet \in Packet
    BY <1>1, StateFacts, L2DataType, Numbers
  <2>2. d.uses.at # PastEnd
    BY <1>1, <1>3, <2>1, ByPsmFinds
  <2>3. d.packet.type = "Data" /\ d.packet.handle = h
    BY DEF L2Data, Data, Make
  <2>. QED  BY <2>1, <2>2, <2>3
<1>4. ASSUME p.to.psm = HidInterrupt, boards' = boards \cup {h}, NEW d \in L2Data(h, HidInterrupt),
             pastEnd' = (pastEnd \/ p.at = PastEnd \/ d.uses.at = PastEnd),
             Sends(Enqueue(q, d.packet), n + 1)
      PROVE  /\ ~pastEnd' /\ boards \subseteq boards' /\ h \in boards'
             /\ OutOk(tx') /\ Packets(q) \subseteq Packets(tx')
             /\ \A o \in Packets(tx') : o \in Packets(q) \/ (o.type = "Data" /\ o.handle = h)
  <2>1. /\ d.uses.at # PastEnd
        /\ d.packet \in Packet /\ d.packet.type = "Data" /\ d.packet.handle = h
    BY <1>3, <1>4
  <2>2. tx' = Enqueue(q, d.packet)
    BY <1>4 DEF Sends
  <2>3. /\ OutOk(Enqueue(q, d.packet)) /\ Packets(q) \subseteq Packets(Enqueue(q, d.packet))
        /\ \A o \in Packets(Enqueue(q, d.packet)) : o \in Packets(q) \/ o = d.packet
    BY <2>1, HostSends, DataLast
  <2>. QED  BY <1>1, <1>4, <2>1, <2>2, <2>3
<1>. QED  BY <1>2, <1>4 DEF Established, app

\* What is to be handed out has not been.
LEMMA NewCid ==
  ASSUME Before, NEW h \in Handle, NEW x \in Nat, g_localCid <= x
  PROVE  /\ Unused(x, FromBoard(h), ToBoard(h), ChannelsOf(h), peer[h])
         /\ since[h] <= x
<1>1. TypeOK /\ NamesOk /\ g_localCid \in Nat
  BY StateFacts DEF Before, CidInv
<1>2. \A y : Issued(h, y) => y < g_localCid
  BY DEF Issued
<1>3. \A y \in Nat : y < g_localCid => y # x
  BY <1>1
<1>4. \A k \in Channels : k.localCid # x
  BY <1>1, <1>3, ChannelsUnique, ChannelsFacts DEF Before, TypeOK
<1>5. Nameless(FromBoard(h), x)
  <2>1. ASSUME NEW m \in Packets(rx), m.handle = h, m.type \in Naming
        PROVE  Name(m) # x
    <3>1. m \in Packet
      BY <1>1, StateFacts, PacketsFacts, <2>1
    <3>2. Name(m) \in Nat /\ Name(m) < g_localCid
      BY <1>1, <1>2, <2>1, <3>1, NameType DEF NamesOk, RxIssued
    <3>. QED  BY <1>3, <3>2
  <2>. QED  BY <2>1 DEF Nameless, FromBoard
<1>6. Unbound(peer[h], x)
  <2>1. ASSUME NEW c \in PeerCid, Bound(peer[h][c])
        PROVE  peer[h][c].hostCid # x
    <3>1. peer[h][c].hostCid \in Nat /\ peer[h][c].hostCid < g_localCid
      BY <1>1, <1>2, <2>1, HostCidType DEF NamesOk, EndsIssued
    <3>. QED  BY <1>3, <3>1
  <2>. QED  BY <2>1 DEF Unbound
<1>7. ASSUME NEW m \in ToBoard(h)
      PROVE  (m.type = "ConnReq" => m.scid # x) /\ (m.type = "ConnRsp" => m.dcid # x)
  <2>1. m \in Packet /\ SentOk(h, m)
    <3>1. CASE m \in Packets(tx) /\ m.handle = h
      BY <1>1, <3>1, StateFacts, PacketsFacts DEF NamesOk, TxIssued
    <3>2. CASE m \in Packets(air[h])
      BY <1>1, <3>2, StateFacts, PacketsFacts DEF NamesOk, AirIssued
    <3>. QED  BY <3>1, <3>2 DEF ToBoard
  <2>. QED  BY <1>2, <1>3, <2>1, PacketFacts DEF SentOk
<1>8. since[h] <= x
  <2>1. since[h] \in Nat /\ since[h] <= g_localCid
    BY <1>1, StateFacts DEF NamesOk, LinksOk
  <2>. QED  BY <1>1, <2>1
<1>. QED  BY <1>4, <1>5, <1>6, <1>7, <1>8 DEF Unused, Known, ChannelsOf

LEMMA ConnectionCompleteProtocol ==
  ASSUME Before, ~wrapped', HandleHCIConnectionComplete
  PROVE  ProtocolOk'
<1>0. PICK m : m = Head(rx)
  OBVIOUS
<1>1. PICK h : h = m.handle
  OBVIOUS
<1>2. Receives("ConnectionComplete") /\ UNCHANGED boards /\ Sound'
  BY DEF HandleHCIConnectionComplete, Before, ProtocolOk, Sound, app, fault
<1>3. /\ m \in Packet /\ m \in FromBoard(h) /\ m.type = "ConnectionComplete" /\ h \in Handle
      /\ TakesRx(FromBoard(h), m, FromBoard(h)')
      /\ LinkAt(h) /\ UNCHANGED env /\ OutOk(tx)
      /\ peer'[h] = peer[h] /\ link'[h] = link[h]
      /\ \A n \in ToBoard(h)' : n \in ToBoard(h) \/ (n \in Packets(tx') /\ n.handle = h)
      /\ \A n \in Packets(tx) : n.handle = h => n \in ToBoard(h)
  BY <1>0, <1>1, <1>2, HostLink
<1>4. CASE UNCHANGED <<store, out>>
  BY <1>0, <1>2, <1>4, HostQuiet DEF store, out
<1>5. CASE /\ m.arg = Ours
           /\ Sends(Enqueue3(tx, Auth(h), ConnReq(h, HidControl, g_localCid),
                             ConnReq(h, HidInterrupt, AfterCid(1))), 3)
           /\ connections' = Emplace(Emplace(connections, NewConnection(h, g_localCid, HidControl, 0)),
                                     NewConnection(h, AfterCid(1), HidInterrupt, 0))
           /\ TakeCids(2)
  <2>0. PICK x, y, k, l : /\ x = g_localCid /\ y = g_localCid + 1
                          /\ k = NewConnection(h, x, HidControl, 0)
                          /\ l = NewConnection(h, y, HidInterrupt, 0)
    OBVIOUS
  <2>1. PICK a, b, c : /\ a = Auth(h) /\ b = ConnReq(h, HidControl, x)
                       /\ c = ConnReq(h, HidInterrupt, y)
    OBVIOUS
  <2>2. TypeOK /\ g_localCid \in Nat /\ AfterCid(1) \in Cid /\ g_localCid \in Cid
    BY StateFacts, AfterCidType DEF Before, CidInv, TypeOK
  <2>3. /\ AfterCid(1) = y
        /\ Channels' = Channels \cup {k, l}
    BY <1>3, <1>5, <2>0, <2>2, LinkChannels
  <2>4. x \in Nat /\ y \in Nat /\ x # y /\ g_localCid <= x /\ g_localCid <= y
    BY <2>0, <2>2
  <2>5. /\ Unused(x, FromBoard(h), ToBoard(h), ChannelsOf(h), peer[h]) /\ since[h] <= x
        /\ Unused(y, FromBoard(h), ToBoard(h), ChannelsOf(h), peer[h]) /\ since[h] <= y
    BY <1>3, <2>4, NewCid
  <2>6. /\ k.handle = h /\ k.localCid = x /\ k.psm = HidControl /\ Fresh(k)
        /\ l.handle = h /\ l.localCid = y /\ l.psm = HidInterrupt /\ Fresh(l)
    BY <2>0 DEF NewConnection, Fresh
  <2>7. ChannelsOf(h)' = ChannelsOf(h) \cup {k, l}
    <3>1. since' = since
      BY <1>3 DEF env, links
    <3>. QED  BY <2>3, <2>5, <2>6, <3>1 DEF ChannelsOf
  <2>8. /\ a.handle = h /\ a.type = "Auth"
        /\ b.handle = h /\ b.type = "ConnReq" /\ b.psm = HidControl /\ b.scid = x
        /\ c.handle = h /\ c.type = "ConnReq" /\ c.psm = HidInterrupt /\ c.scid = y
    BY <2>1 DEF Auth, ConnReq, Make
  <2>9. a \in Packet /\ b \in Packet /\ c \in Packet
    BY <1>3, <2>0, <2>1, <2>2, <2>3, PacketType, Numbers
  <2>. DEFINE q1 == Enqueue(tx, a)
              q2 == Enqueue(q1, b)
  <2>10. tx' = Enqueue(q2, c)
    BY <1>5, <2>0, <2>1, <2>3 DEF Sends, Enqueue3, Enqueue2
  <2>11. \A O2 : (\A n \in O2 : n \in ToBoard(h) \/ n \in {a, b, c}) =>
           /\ Protocol(FromBoard(h)', O2, ChannelsOf(h)', peer[h], link[h])
           /\ \A n \in ToBoard(h) : OutBefore(n, a) /\ OutBefore(n, b) /\ OutBefore(n, c)
           /\ OutBefore(a, b) /\ OutBefore(a, c) /\ OutBefore(b, c)
    <3>1. Protocol(FromBoard(h), ToBoard(h), ChannelsOf(h), peer[h], link[h])
      BY <1>3 DEF LinkAt
    <3>2. PICK R, R2, O, K, K2, P, L :
            /\ R = FromBoard(h) /\ R2 = FromBoard(h)' /\ O = ToBoard(h)
            /\ K = ChannelsOf(h) /\ K2 = ChannelsOf(h)' /\ P = peer[h] /\ L = link[h]
      OBVIOUS
    <3>3. /\ Protocol(R, O, K, P, L) /\ TakesRx(R, m, R2) /\ K2 = K \cup {k, l}
          /\ Unused(x, R, O, K, P) /\ Unused(y, R, O, K, P) /\ m.type = "ConnectionComplete"
      BY <1>3, <2>5, <2>7, <3>1, <3>2
    <3>4. \A O2 : (\A n \in O2 : n \in O \/ n \in {a, b, c}) =>
            /\ Protocol(R2, O2, K2, P, L)
            /\ \A n \in O : OutBefore(n, a) /\ OutBefore(n, b) /\ OutBefore(n, c)
            /\ OutBefore(a, b) /\ OutBefore(a, c) /\ OutBefore(b, c)
      <4>. SUFFICES ASSUME NEW O2, \A n \in O2 : n \in O \/ n \in {a, b, c}
                    PROVE  /\ Protocol(R2, O2, K2, P, L)
                           /\ \A n \in O : /\ OutBefore(n, a) /\ OutBefore(n, b)
                                           /\ OutBefore(n, c)
                           /\ OutBefore(a, b) /\ OutBefore(a, c) /\ OutBefore(b, c)
        OBVIOUS
      <4>1. m.arg = Ours
        BY <1>5
      <4>. QED  BY <2>4, <2>6, <2>8, <3>3, <4>1, LinkStep, SMTT(40)
    <3>. QED  BY <3>2, <3>4
  <2>12. /\ \A n \in ToBoard(h) : OutBefore(n, a) /\ OutBefore(n, b) /\ OutBefore(n, c)
         /\ OutBefore(a, b) /\ OutBefore(a, c) /\ OutBefore(b, c)
    <3>1. \A n \in {} : n \in ToBoard(h) \/ n \in {a, b, c}
      OBVIOUS
    <3>. QED  BY <2>11, <3>1
  <2>13. /\ q1 \in Seq(Packet) /\ OutOk(q1) /\ Packets(tx) \subseteq Packets(q1)
         /\ \A n \in Packets(q1) : n \in Packets(tx) \/ n = a
    <3>1. tx \in Seq(Packet)
      BY <2>2, StateFacts
    <3>. QED  BY <1>0, <1>1, <1>2, <1>3, <2>8, <2>9, <2>12, <3>1, HostSends
  <2>. HIDE DEF q1
  <2>14. /\ q2 \in Seq(Packet) /\ OutOk(q2) /\ Packets(tx) \subseteq Packets(q2)
         /\ \A n \in Packets(q2) : n \in Packets(tx) \/ n = a \/ n = b
    <3>1. \A n \in Packets(q1) : n.handle = h => OutBefore(n, b)
      BY <1>3, <2>12, <2>13
    <3>. QED  BY <1>0, <1>1, <1>2, <2>8, <2>9, <2>12, <2>13, <3>1, HostSends
  <2>. HIDE DEF q2
  <2>15. /\ OutOk(tx') /\ Packets(tx) \subseteq Packets(tx')
         /\ \A n \in Packets(tx') : n \in Packets(tx) \/ n = a \/ n = b \/ n = c
    <3>1. \A n \in Packets(q2) : n.handle = h => OutBefore(n, c)
      BY <1>3, <2>12, <2>14
    <3>. QED  BY <1>0, <1>1, <1>2, <2>8, <2>9, <2>10, <2>12, <2>14, <3>1, HostSends
  <2>16. \A n \in ToBoard(h)' : n \in ToBoard(h) \/ n \in {a, b, c}
    <3>1. ASSUME NEW n \in ToBoard(h)', n \notin ToBoard(h)
          PROVE  n \in {a, b, c}
      <4>1. n \in Packets(tx') /\ n.handle = h
        BY <1>3, <3>1
      <4>. QED  BY <1>3, <2>15, <3>1, <4>1
    <3>. QED  BY <3>1
  <2>17. LinkAt(h)'
    BY <1>3, <2>11, <2>16 DEF LinkAt
  <2>18. Boarded'
    BY <1>2, <2>3, <2>6 DEF Before, ProtocolOk, Boarded, Fresh
  <2>19. \A j : j.handle # h => (j \in Channels' <=> j \in Channels)
    BY <2>3, <2>6
  <2>20. \A n \in Packets(tx') : n \in Packets(tx) \/ n.handle = h
    BY <2>8, <2>15
  <2>. QED  BY <1>0, <1>1, <1>2, <2>15, <2>17, <2>18, <2>19, <2>20, HostDone
<1>. QED  BY <1>0, <1>1, <1>4, <1>5 DEF HandleHCIConnectionComplete, NewConnection

LEMMA ConnectionRequestProtocol ==
  ASSUME Before, ~wrapped', HandleL2ConnectionRequest
  PROVE  ProtocolOk'
<1>0. PICK m : m = Head(rx)
  OBVIOUS
<1>1. PICK h, x : h = m.handle /\ x = g_localCid
  OBVIOUS
<1>2. Receives("ConnReq") /\ UNCHANGED boards /\ Sound' /\ TakeCids(1)
  BY DEF HandleL2ConnectionRequest, Before, ProtocolOk, Sound, app, fault
<1>3. /\ m \in Packet /\ m \in FromBoard(h) /\ m.type = "ConnReq" /\ h \in Handle
      /\ TakesRx(FromBoard(h), m, FromBoard(h)')
      /\ LinkAt(h) /\ UNCHANGED env /\ OutOk(tx)
      /\ peer'[h] = peer[h] /\ link'[h] = link[h]
      /\ \A n \in ToBoard(h)' : n \in ToBoard(h) \/ (n \in Packets(tx') /\ n.handle = h)
      /\ \A n \in Packets(tx) : n.handle = h => n \in ToBoard(h)
      /\ m.psm \in Psm /\ m.scid \in Cid /\ m.dcid \in Cid
  BY <1>0, <1>1, <1>2, HostLink
<1>4. /\ TypeOK /\ tx \in Seq(Packet) /\ x \in Nat /\ x \in Cid
      /\ Unused(x, FromBoard(h), ToBoard(h), ChannelsOf(h), peer[h]) /\ since[h] <= x
  <2>1. TypeOK /\ tx \in Seq(Packet) /\ x \in Nat /\ x \in Cid /\ x >= g_localCid
    BY <1>1, StateFacts DEF Before, CidInv, TypeOK
  <2>. QED  BY <1>3, <2>1, NewCid
<1>5. /\ since' = since
      /\ Protocol(FromBoard(h), ToBoard(h), ChannelsOf(h), peer[h], link[h])
  BY <1>3 DEF LinkAt, env, links
<1>6. PICK R, R2, O, K, P, L :
        /\ R = FromBoard(h) /\ R2 = FromBoard(h)' /\ O = ToBoard(h)
        /\ K = ChannelsOf(h) /\ P = peer[h] /\ L = link[h]
  OBVIOUS
<1>7. Protocol(R, O, K, P, L) /\ TakesRx(R, m, R2) /\ Unused(x, R, O, K, P)
  BY <1>3, <1>4, <1>5, <1>6
<1>8. CASE /\ connections' = Emplace(connections, NewConnection(h, x, m.psm, m.scid))
           /\ Sends(Enqueue2(tx, ConnRsp(h, x, m.scid, Success), ConfReq(h, m.scid, MtuOnly)), 2)
  <2>1. PICK k, a, b : /\ k = NewConnection(h, x, m.psm, m.scid)
                       /\ a = ConnRsp(h, x, m.scid, Success) /\ b = ConfReq(h, m.scid, MtuOnly)
    OBVIOUS
  <2>2. /\ k.handle = h /\ k.localCid = x /\ k.psm = m.psm /\ k.remoteCid = m.scid
        /\ ~k.localConfigured /\ ~k.remoteConfigured
    BY <2>1 DEF NewConnection
  <2>3. Channels' = Channels \cup {k}
    <3>1. k \in Connection
      BY <1>3, <1>4, <2>1, NewConnectionType
    <3>. QED  BY <1>4, <1>8, <2>1, <3>1, RequestChannels
  <2>4. ChannelsOf(h)' = K \cup {k}
    BY <1>4, <1>5, <1>6, <2>2, <2>3 DEF ChannelsOf
  <2>5. /\ a.handle = h /\ a.type = "ConnRsp" /\ a.dcid = x /\ a.scid = m.scid /\ a.arg = Success
        /\ b.handle = h /\ b.type = "ConfReq" /\ b.dcid = m.scid
        /\ a \in Packet /\ b \in Packet
    <3>1. a \in Packet /\ b \in Packet
      BY <1>3, <1>4, <2>1, PacketType, Numbers
    <3>. QED  BY <2>1, <3>1 DEF ConnRsp, ConfReq, Make
  <2>6. ASSUME NEW O2, \A n \in O2 : n \in O \/ n \in {a, b}
        PROVE  /\ Protocol(R2, O2, K \cup {k}, P, L)
               /\ (\A n \in O : OutBefore(n, a) /\ OutBefore(n, b)) /\ OutBefore(a, b)
    <3>1. PICK K2 : K2 = K \cup {k}
      OBVIOUS
    <3>2. m.type = "ConnReq"
      BY <1>3
    <3>. QED  BY <1>7, <2>2, <2>5, <2>6, <3>1, <3>2, RequestStep
  <2>7. (\A n \in ToBoard(h) : OutBefore(n, a) /\ OutBefore(n, b)) /\ OutBefore(a, b)
    <3>1. \A n \in {} : n \in O \/ n \in {a, b}
      OBVIOUS
    <3>. QED  BY <1>6, <2>6, <3>1
  <2>. DEFINE q == Enqueue(tx, a)
  <2>8. tx' = Enqueue(q, b)
    BY <1>8, <2>1 DEF Sends, Enqueue2
  <2>9. /\ q \in Seq(Packet) /\ OutOk(q) /\ Packets(tx) \subseteq Packets(q)
        /\ \A n \in Packets(q) : n \in Packets(tx) \/ n = a
    BY <1>0, <1>1, <1>2, <1>3, <1>4, <2>5, <2>7, HostSends
  <2>. HIDE DEF q
  <2>10. /\ OutOk(tx') /\ Packets(tx) \subseteq Packets(tx')
         /\ \A n \in Packets(tx') : n \in Packets(tx) \/ n = a \/ n = b
    <3>1. \A n \in Packets(q) : n.handle = h => OutBefore(n, b)
      BY <1>3, <2>7, <2>9
    <3>. QED  BY <1>0, <1>1, <1>2, <2>5, <2>7, <2>8, <2>9, <3>1, HostSends
  <2>11. \A n \in ToBoard(h)' : n \in O \/ n \in {a, b}
    <3>1. ASSUME NEW n \in ToBoard(h)', n \notin ToBoard(h)
          PROVE  n \in {a, b}
      <4>1. n \in Packets(tx') /\ n.handle = h
        BY <1>3, <3>1
      <4>. QED  BY <1>3, <2>10, <3>1, <4>1
    <3>. QED  BY <1>6, <3>1
  <2>12. LinkAt(h)'
    <3>1. Protocol(R2, ToBoard(h)', K \cup {k}, P, L)
      BY <2>6, <2>11
    <3>. QED  BY <1>3, <1>6, <2>4, <3>1 DEF LinkAt
  <2>13. Boarded'
    BY <1>2, <2>2, <2>3 DEF Before, ProtocolOk, Boarded
  <2>14. \A j : j.handle # h => (j \in Channels' <=> j \in Channels)
    BY <2>2, <2>3
  <2>15. \A n \in Packets(tx') : n \in Packets(tx) \/ n.handle = h
    BY <2>5, <2>10
  <2>. QED  BY <1>0, <1>1, <1>2, <2>10, <2>12, <2>13, <2>14, <2>15, HostDone
<1>9. CASE /\ Sends(Enqueue(tx, ConnRsp(h, x, m.scid, Refused)), 1)
           /\ UNCHANGED connections
  <2>1. PICK a : a = ConnRsp(h, x, m.scid, Refused)
    OBVIOUS
  <2>2. Channels' = Channels /\ ChannelsOf(h)' = K
    BY <1>5, <1>6, <1>9 DEF Channels, ChannelsOf
  <2>3. /\ a.handle = h /\ a.type = "ConnRsp" /\ a.scid = m.scid /\ a.arg = Refused /\ a \in Packet
    <3>1. a \in Packet
      BY <1>3, <1>4, <2>1, PacketType, Numbers
    <3>. QED  BY <2>1, <3>1 DEF ConnRsp, Make
  <2>4. ASSUME NEW O2, \A n \in O2 : n \in O \/ n = a
        PROVE  Protocol(R2, O2, K, P, L) /\ \A n \in O : OutBefore(n, a)
    BY <1>3, <1>7, <2>3, <2>4, RefuseStep
  <2>5. \A n \in ToBoard(h) : OutBefore(n, a)
    <3>1. \A n \in {} : n \in O \/ n = a
      OBVIOUS
    <3>. QED  BY <1>6, <2>4, <3>1
  <2>6. tx' = Enqueue(tx, a)
    BY <1>9, <2>1 DEF Sends
  <2>7. /\ OutOk(tx') /\ Packets(tx) \subseteq Packets(tx')
        /\ \A n \in Packets(tx') : n \in Packets(tx) \/ n = a
    BY <1>0, <1>1, <1>2, <1>3, <1>4, <2>3, <2>5, <2>6, HostSends
  <2>8. \A n \in ToBoard(h)' : n \in O \/ n = a
    <3>1. ASSUME NEW n \in ToBoard(h)', n \notin ToBoard(h)
          PROVE  n = a
      <4>1. n \in Packets(tx') /\ n.handle = h
        BY <1>3, <3>1
      <4>. QED  BY <1>3, <2>7, <3>1, <4>1
    <3>. QED  BY <1>6, <3>1
  <2>9. LinkAt(h)'
    <3>1. Protocol(R2, ToBoard(h)', K, P, L)
      BY <2>4, <2>8
    <3>. QED  BY <1>3, <1>6, <2>2, <3>1 DEF LinkAt
  <2>10. Boarded'
    BY <1>2, <2>2 DEF Before, ProtocolOk, Boarded
  <2>11. \A n \in Packets(tx') : n \in Packets(tx) \/ n.handle = h
    BY <2>3, <2>7
  <2>. QED  BY <1>0, <1>1, <1>2, <2>2, <2>7, <2>9, <2>10, <2>11, HostDone
<1>. QED  BY <1>0, <1>1, <1>8, <1>9 DEF HandleL2ConnectionRequest

\* A channel with one field changed, as the handlers change it.
LEMMA ChannelUpdates ==
  ASSUME NEW k \in Connection, NEW r \in Cid
  PROVE  /\ LET l == [k EXCEPT !.remoteCid = r] IN
              /\ l \in Connection /\ l.handle = k.handle /\ l.localCid = k.localCid /\ l.psm = k.psm
              /\ l.remoteCid = r /\ l.localConfigured = k.localConfigured
              /\ l.remoteConfigured = k.remoteConfigured
         /\ LET l == [k EXCEPT !.localConfigured = TRUE] IN
              /\ l \in Connection /\ l.handle = k.handle /\ l.localCid = k.localCid /\ l.psm = k.psm
              /\ l.remoteCid = k.remoteCid /\ l.localConfigured
              /\ l.remoteConfigured = k.remoteConfigured
         /\ LET l == [k EXCEPT !.remoteConfigured = TRUE] IN
              /\ l \in Connection /\ l.handle = k.handle /\ l.localCid = k.localCid /\ l.psm = k.psm
              /\ l.remoteCid = k.remoteCid /\ l.localConfigured = k.localConfigured
              /\ l.remoteConfigured
BY DEF Connection

\* A packet that names a channel of the host's names one of its link.
LEMMA HostNames ==
  ASSUME Before, NEW type \in Naming, Receives(type), NEW m, m = Head(rx)
  PROVE  Known(ChannelsOf(m.handle), Name(m))
<1>1. m \in FromBoard(m.handle) /\ m.type = type /\ LinkAt(m.handle)
  BY HostLink
<1>. QED  BY <1>1 DEF LinkAt, Protocol, RxNames

LEMMA ConnectionResponseProtocol ==
  ASSUME Before, ~wrapped', HandleL2ConnectionResponse
  PROVE  ProtocolOk'
<1>0. PICK m : m = Head(rx)
  OBVIOUS
<1>1. PICK h, x : h = m.handle /\ x = m.scid
  OBVIOUS
<1>2. /\ Receives("ConnRsp") /\ UNCHANGED boards /\ UNCHANGED crashed
      /\ CidInv /\ ~wrapped /\ TypeOK
  BY DEF HandleL2ConnectionResponse, app, Before, CidInv
<1>3. /\ m \in Packet /\ m \in FromBoard(h) /\ m.type = "ConnRsp" /\ h \in Handle
      /\ TakesRx(FromBoard(h), m, FromBoard(h)')
      /\ LinkAt(h) /\ UNCHANGED env /\ OutOk(tx)
      /\ peer'[h] = peer[h] /\ link'[h] = link[h]
      /\ \A n \in ToBoard(h)' : n \in ToBoard(h) \/ (n \in Packets(tx') /\ n.handle = h)
      /\ \A n \in Packets(tx) : n.handle = h => n \in ToBoard(h)
      /\ m.scid \in Cid /\ m.dcid \in Cid
  BY <1>0, <1>1, <1>2, HostLink
<1>4. Known(ChannelsOf(h), x)
  BY <1>0, <1>1, <1>2, <1>3, HostNames DEF Naming, Name
<1>5. PICK p \in Local(h, x) :
        /\ Uses(p)
        /\ \/ /\ m.arg = Success
              /\ connections' = Assign(connections, p, [p.to EXCEPT !.remoteCid = m.dcid])
              /\ Sends(Enqueue(tx, ConfReq(h, m.dcid, MtuOnly)), 1)
           \/ /\ m.arg >= 2
              /\ connections' = Remove(connections, p)
              /\ UNCHANGED out
           \/ m.arg = Pending /\ UNCHANGED <<connections, out>>
  <2>1. Local(h, x) # {}
    BY <1>2, <1>3, <1>4, NamedChannel
  <2>. QED  BY <1>0, <1>1, <2>1 DEF HandleL2ConnectionResponse, IsNull
<1>6. PICK k \in Connection :
        /\ k = p.to /\ k \in ChannelsOf(h) /\ k \in Channels /\ k.localCid = x /\ k.handle = h
        /\ p.at # PastEnd
  <2>1. p.to \in ChannelsOf(h) /\ p.to \in Connection /\ p.to.localCid = x /\ p.at # PastEnd
    BY <1>2, <1>3, <1>4, NamedChannel
  <2>. QED  BY <2>1 DEF ChannelsOf
<1>7. Sound'
  BY <1>2, <1>5, <1>6 DEF Before, ProtocolOk, Sound, Uses
<1>8. PICK R, R2, O, K, P, L :
        /\ R = FromBoard(h) /\ R2 = FromBoard(h)' /\ O = ToBoard(h)
        /\ K = ChannelsOf(h) /\ P = peer[h] /\ L = link[h]
  OBVIOUS
<1>9. Protocol(R, O, K, P, L) /\ TakesRx(R, m, R2) /\ k \in K
  BY <1>3, <1>6, <1>8 DEF LinkAt
<1>10. CASE /\ m.arg = Success
            /\ connections' = Assign(connections, p, [k EXCEPT !.remoteCid = m.dcid])
            /\ Sends(Enqueue(tx, ConfReq(h, m.dcid, MtuOnly)), 1)
  <2>1. PICK l, b : l = [k EXCEPT !.remoteCid = m.dcid] /\ b = ConfReq(h, m.dcid, MtuOnly)
    OBVIOUS
  <2>2. /\ l \in Connection /\ l.handle = h /\ l.localCid = k.localCid /\ l.psm = k.psm
        /\ l.remoteCid = m.dcid /\ l.localConfigured = k.localConfigured
        /\ l.remoteConfigured = k.remoteConfigured
    BY <1>3, <1>6, <2>1, ChannelUpdates
  <2>3. b.handle = h /\ b.type = "ConfReq" /\ b.dcid = m.dcid /\ b \in Packet
    <3>1. b \in Packet
      BY <1>3, <2>1, PacketType, Numbers
    <3>. QED  BY <2>1, <3>1 DEF ConfReq, Make
  <2>4. /\ ChannelsOf(h)' = (ChannelsOf(h) \ {k}) \cup {l}
        /\ Channels' = (Channels \ {k}) \cup {l}
        /\ \A j : j.handle # h => (j \in Channels' <=> j \in Channels)
    BY <1>2, <1>3, <1>4, <1>6, <1>10, <2>1, <2>2, ChangedChannel
  <2>5. PICK K2 : K2 = (K \ {k}) \cup {l}
    OBVIOUS
  <2>6. ASSUME NEW O2, \A n \in O2 : n \in O \/ n = b
        PROVE  Protocol(R2, O2, K2, P, L) /\ \A n \in O : OutBefore(n, b)
    <3>1. m.type = "ConnRsp" /\ m.arg = Success /\ k.localCid = m.scid
      BY <1>1, <1>3, <1>6, <1>10
    <3>. QED  BY <1>9, <2>2, <2>3, <2>5, <2>6, <3>1, AcceptedStep
  <2>7. \A n \in ToBoard(h) : OutBefore(n, b)
    <3>1. \A n \in {} : n \in O \/ n = b
      OBVIOUS
    <3>. QED  BY <1>8, <2>6, <3>1
  <2>8. /\ OutOk(tx') /\ Packets(tx) \subseteq Packets(tx')
        /\ \A n \in Packets(tx') : n \in Packets(tx) \/ n = b
    <3>1. tx \in Seq(Packet)
      BY <1>2, StateFacts
    <3>2. tx' = Enqueue(tx, b)
      BY <1>10, <2>1 DEF Sends
    <3>. QED  BY <1>0, <1>1, <1>2, <1>3, <2>3, <2>7, <3>1, <3>2, HostSends
  <2>9. \A n \in ToBoard(h)' : n \in O \/ n = b
    <3>1. ASSUME NEW n \in ToBoard(h)', n \notin ToBoard(h)
          PROVE  n = b
      <4>1. n \in Packets(tx') /\ n.handle = h
        BY <1>3, <3>1
      <4>. QED  BY <1>3, <2>8, <3>1, <4>1
    <3>. QED  BY <1>8, <3>1
  <2>10. LinkAt(h)'
    <3>1. Protocol(R2, ToBoard(h)', K2, P, L)
      BY <2>6, <2>9
    <3>. QED  BY <1>3, <1>8, <2>4, <2>5, <3>1 DEF LinkAt
  <2>11. Boarded'
    <3>1. ~l.localConfigured
      BY <1>6, <1>9, <1>3, <1>1, <2>2 DEF TakesRx, Protocol, RxConnRsp, Fresh
    <3>. QED  BY <1>2, <2>4, <3>1 DEF Before, ProtocolOk, Boarded
  <2>12. \A n \in Packets(tx') : n \in Packets(tx) \/ n.handle = h
    BY <2>3, <2>8
  <2>. QED  BY <1>0, <1>1, <1>2, <1>7, <2>4, <2>8, <2>10, <2>11, <2>12, HostDone
<1>11. CASE m.arg >= 2 /\ connections' = Remove(connections, p) /\ UNCHANGED out
  <2>1. /\ ChannelsOf(h)' = ChannelsOf(h) \ {k}
        /\ Channels' = Channels \ {k}
        /\ \A j : j.handle # h => (j \in Channels' <=> j \in Channels)
    BY <1>2, <1>3, <1>4, <1>6, <1>11, RemovedChannel
  <2>2. m.arg = Refused
    <3>1. m.arg \in {Success, Pending, Refused}
      BY <1>3, <1>8, <1>9 DEF Protocol, RxConnRsp
    <3>. QED  BY <1>11, <3>1 DEF Success, Pending
  <2>3. PICK K2 : K2 = K \ {k}
    OBVIOUS
  <2>4. Protocol(R2, O, K2, P, L)
    <3>1. m.type = "ConnRsp" /\ k.localCid = m.scid
      BY <1>1, <1>3, <1>6
    <3>. QED  BY <1>9, <2>2, <2>3, <3>1, RefusedStep
  <2>5. UNCHANGED tx /\ ToBoard(h)' = ToBoard(h)
    BY <1>3, <1>11 DEF out, env, ToBoard
  <2>6. LinkAt(h)'
    BY <1>3, <1>8, <2>1, <2>3, <2>4, <2>5 DEF LinkAt
  <2>7. Boarded'
    BY <1>2, <2>1 DEF Before, ProtocolOk, Boarded
  <2>. QED  BY <1>0, <1>1, <1>2, <1>3, <1>7, <2>1, <2>5, <2>6, <2>7, HostDone
<1>12. CASE m.arg = Pending /\ UNCHANGED <<connections, out>>
  BY <1>0, <1>2, <1>7, <1>12, HostQuiet DEF out, Success, Pending
<1>. QED  BY <1>5, <1>6, <1>10, <1>11, <1>12

LEMMA ConfigurationRequestProtocol ==
  ASSUME Before, ~wrapped', HandleL2ConfigurationRequest
  PROVE  ProtocolOk'
<1>0. PICK m : m = Head(rx)
  OBVIOUS
<1>1. PICK h, x : h = m.handle /\ x = m.dcid
  OBVIOUS
<1>2. /\ Receives("ConfReq") /\ UNCHANGED crashed
      /\ CidInv /\ ~wrapped /\ TypeOK
  BY DEF HandleL2ConfigurationRequest, Before, CidInv
<1>3. /\ m \in Packet /\ m \in FromBoard(h) /\ m.type = "ConfReq" /\ h \in Handle
      /\ TakesRx(FromBoard(h), m, FromBoard(h)')
      /\ LinkAt(h) /\ UNCHANGED env /\ OutOk(tx)
      /\ peer'[h] = peer[h] /\ link'[h] = link[h]
      /\ \A n \in ToBoard(h)' : n \in ToBoard(h) \/ (n \in Packets(tx') /\ n.handle = h)
      /\ \A n \in Packets(tx) : n.handle = h => n \in ToBoard(h)
      /\ m.scid \in Cid /\ m.dcid \in Cid
  BY <1>0, <1>1, <1>2, HostLink
<1>4. CASE UNCHANGED <<connections, out, app, pastEnd>>
  <2>1. Sound'
    BY <1>2, <1>4 DEF Before, ProtocolOk, Sound
  <2>. QED  BY <1>0, <1>2, <1>4, <2>1, HostQuiet DEF out, app
<1>5. ASSUME NEW p \in Local(h, x),
             connections' = Assign(connections, p, [p.to EXCEPT !.remoteConfigured = TRUE]),
             LET q == Enqueue(tx, ConfRsp(h, p.to.remoteCid, Success)) IN
             IF p.to.localConfigured
               THEN Established(h, p.to.psm, p, q, 1)
               ELSE Uses(p) /\ Sends(q, 1) /\ UNCHANGED app
      PROVE  ProtocolOk'
  <2>1. Known(ChannelsOf(h), x)
    BY <1>0, <1>1, <1>2, <1>3, HostNames DEF Naming, Name
  <2>2. PICK k \in Connection :
          /\ k = p.to /\ k \in ChannelsOf(h) /\ k \in Channels /\ k.localCid = x /\ k.handle = h
          /\ p.at # PastEnd
    <3>1. p.to \in ChannelsOf(h) /\ p.to \in Connection /\ p.to.localCid = x /\ p.at # PastEnd
      BY <1>2, <1>3, <1>5, <2>1, NamedChannel
    <3>. QED  BY <3>1 DEF ChannelsOf
  <2>3. PICK l, a, q : /\ l = [k EXCEPT !.remoteConfigured = TRUE]
                       /\ a = ConfRsp(h, k.remoteCid, Success)
                       /\ q = Enqueue(tx, a)
    OBVIOUS
  <2>4. k.remoteCid \in Cid /\ 0 \in Cid
    BY Numbers DEF Connection
  <2>5. /\ l \in Connection /\ l.handle = h /\ l.localCid = k.localCid /\ l.psm = k.psm
        /\ l.remoteCid = k.remoteCid /\ l.localConfigured = k.localConfigured
        /\ l.remoteConfigured
    BY <2>2, <2>3, <2>4, ChannelUpdates
  <2>6. /\ a.handle = h /\ a.type = "ConfRsp" /\ a.scid = k.remoteCid /\ a \in Packet
    <3>1. a \in Packet
      BY <1>3, <2>3, <2>4, PacketType, Numbers
    <3>. QED  BY <2>3, <3>1 DEF ConfRsp, Make
  <2>7. /\ ChannelsOf(h)' = (ChannelsOf(h) \ {k}) \cup {l}
        /\ Channels' = (Channels \ {k}) \cup {l}
        /\ \A j : j.handle # h => (j \in Channels' <=> j \in Channels)
    <3>1. UNCHANGED env /\ connections' = Assign(connections, p, l)
      BY <1>3, <1>5, <2>2, <2>3
    <3>. QED  BY <1>2, <1>3, <2>1, <2>2, <2>5, <3>1, ChangedChannel
  <2>8. PICK R, R2, O, K, K2, P, L :
          /\ R = FromBoard(h) /\ R2 = FromBoard(h)' /\ O = ToBoard(h)
          /\ K = ChannelsOf(h) /\ K2 = (K \ {k}) \cup {l} /\ P = peer[h] /\ L = link[h]
    OBVIOUS
  <2>9. Protocol(R, O, K, P, L) /\ TakesRx(R, m, R2) /\ k \in K
    BY <1>3, <2>2, <2>8 DEF LinkAt
  <2>10. ASSUME NEW O2, \A n \in O2 : n \in O \/ n = a \/ n.type = "Data"
         PROVE  Protocol(R2, O2, K2, P, L) /\ \A n \in O : OutBefore(n, a)
    <3>1. m.type = "ConfReq" /\ k.localCid = m.dcid
      BY <1>1, <1>3, <2>2
    <3>. QED  BY <2>5, <2>6, <2>8, <2>9, <2>10, <3>1, ConfReqStep
  <2>11. \A n \in ToBoard(h) : OutBefore(n, a)
    <3>1. \A n \in {} : n \in O \/ n = a \/ n.type = "Data"
      OBVIOUS
    <3>. QED  BY <2>8, <2>10, <3>1
  <2>12. /\ q \in Seq(Packet) /\ OutOk(q) /\ Packets(tx) \subseteq Packets(q)
         /\ \A n \in Packets(q) : n \in Packets(tx) \/ n = a
    <3>1. tx \in Seq(Packet)
      BY <1>2, StateFacts
    <3>. QED  BY <1>0, <1>1, <1>2, <1>3, <2>3, <2>6, <2>11, <3>1, HostSends
  <2>13. /\ ~pastEnd' /\ boards \subseteq boards'
         /\ k.localConfigured /\ k.psm = HidInterrupt => h \in boards'
         /\ OutOk(tx') /\ Packets(q) \subseteq Packets(tx')
         /\ \A n \in Packets(tx') : n \in Packets(q) \/ (n.type = "Data" /\ n.handle = h)
    <3>1. CASE p.to.localConfigured
      <4>1. Established(h, p.to.psm, p, q, 1) /\ p.to \in Channels
        BY <1>5, <2>2, <2>3, <3>1
      <4>. QED  BY <1>0, <1>1, <1>2, <2>2, <2>12, <4>1, HostEstablished
    <3>2. CASE ~p.to.localConfigured
      <4>1. Uses(p) /\ Sends(q, 1) /\ UNCHANGED app
        BY <1>5, <2>2, <2>3, <3>2
      <4>. QED  BY <2>2, <2>12, <3>2, <4>1 DEF Uses, Sends, app, Before, ProtocolOk, Sound
    <3>. QED  BY <3>1, <3>2
  <2>14. \A n \in Packets(tx') : n \in Packets(tx) \/ n = a \/ (n.type = "Data" /\ n.handle = h)
    BY <2>12, <2>13
  <2>15. \A n \in ToBoard(h)' : n \in O \/ n = a \/ n.type = "Data"
    <3>1. ASSUME NEW n \in ToBoard(h)', n \notin ToBoard(h)
          PROVE  n = a \/ n.type = "Data"
      <4>1. n \in Packets(tx') /\ n.handle = h
        BY <1>3, <3>1
      <4>. QED  BY <1>3, <2>14, <3>1, <4>1
    <3>. QED  BY <2>8, <3>1
  <2>16. LinkAt(h)'
    <3>1. Protocol(R2, ToBoard(h)', K2, P, L)
      BY <2>10, <2>15
    <3>. QED  BY <1>3, <2>7, <2>8, <3>1 DEF LinkAt
  <2>17. Boarded'
    BY <2>5, <2>7, <2>13 DEF Before, ProtocolOk, Boarded
  <2>18. \A n \in Packets(tx') : n \in Packets(tx) \/ n.handle = h
    BY <2>6, <2>14
  <2>19. Sound' /\ Packets(tx) \subseteq Packets(tx')
    BY <1>2, <2>12, <2>13 DEF Before, ProtocolOk, Sound
  <2>. QED  BY <1>0, <1>1, <1>2, <2>7, <2>13, <2>16, <2>17, <2>18, <2>19, HostDone
<1>. QED  BY <1>0, <1>1, <1>4, <1>5 DEF HandleL2ConfigurationRequest

LEMMA ConfigurationResponseProtocol ==
  ASSUME Before, ~wrapped', HandleL2ConfigurationResponse
  PROVE  ProtocolOk'
<1>0. PICK m : m = Head(rx)
  OBVIOUS
<1>1. PICK h, x : h = m.handle /\ x = m.scid
  OBVIOUS
<1>2. /\ Receives("ConfRsp")
      /\ CidInv /\ ~wrapped /\ TypeOK
  BY DEF HandleL2ConfigurationResponse, Before, CidInv
<1>3. /\ m \in Packet /\ m \in FromBoard(h) /\ m.type = "ConfRsp" /\ h \in Handle
      /\ TakesRx(FromBoard(h), m, FromBoard(h)')
      /\ LinkAt(h) /\ UNCHANGED env /\ OutOk(tx)
      /\ peer'[h] = peer[h] /\ link'[h] = link[h]
      /\ \A n \in ToBoard(h)' : n \in ToBoard(h) \/ (n \in Packets(tx') /\ n.handle = h)
      /\ \A n \in Packets(tx) : n.handle = h => n \in ToBoard(h)
      /\ m.scid \in Cid /\ m.dcid \in Cid
  BY <1>0, <1>1, <1>2, HostLink
<1>4. Known(ChannelsOf(h), x)
  BY <1>0, <1>1, <1>2, <1>3, HostNames DEF Naming, Name
<1>5. PICK p \in Local(h, x) :
        /\ connections' = Assign(connections, p, [p.to EXCEPT !.localConfigured = TRUE])
        /\ IF p.to.remoteConfigured
             THEN Established(h, p.to.psm, p, tx, 0)
             ELSE Uses(p) /\ UNCHANGED <<out, app>>
        /\ UNCHANGED crashed
  <2>1. Local(h, x) # {}
    BY <1>2, <1>3, <1>4, NamedChannel
  <2>. QED  BY <1>0, <1>1, <1>2, <2>1 DEF HandleL2ConfigurationResponse, IsNull
<1>6. PICK k \in Connection :
        /\ k = p.to /\ k \in ChannelsOf(h) /\ k \in Channels /\ k.localCid = x /\ k.handle = h
        /\ p.at # PastEnd
  <2>1. p.to \in ChannelsOf(h) /\ p.to \in Connection /\ p.to.localCid = x /\ p.at # PastEnd
    BY <1>2, <1>3, <1>4, NamedChannel
  <2>. QED  BY <2>1 DEF ChannelsOf
<1>7. PICK l : l = [k EXCEPT !.localConfigured = TRUE]
  OBVIOUS
<1>8. /\ l \in Connection /\ l.handle = h /\ l.localCid = k.localCid /\ l.psm = k.psm
      /\ l.remoteCid = k.remoteCid /\ l.localConfigured
      /\ l.remoteConfigured = k.remoteConfigured
  BY <1>3, <1>6, <1>7, ChannelUpdates
<1>9. /\ ChannelsOf(h)' = (ChannelsOf(h) \ {k}) \cup {l}
      /\ Channels' = (Channels \ {k}) \cup {l}
      /\ \A j : j.handle # h => (j \in Channels' <=> j \in Channels)
  <2>1. UNCHANGED env /\ connections' = Assign(connections, p, l)
    BY <1>3, <1>5, <1>6, <1>7
  <2>. QED  BY <1>2, <1>3, <1>4, <1>6, <1>8, <2>1, ChangedChannel
<1>10. PICK R, R2, O, K, K2, P, L :
         /\ R = FromBoard(h) /\ R2 = FromBoard(h)' /\ O = ToBoard(h)
         /\ K = ChannelsOf(h) /\ K2 = (K \ {k}) \cup {l} /\ P = peer[h] /\ L = link[h]
  OBVIOUS
<1>11. Protocol(R, O, K, P, L) /\ TakesRx(R, m, R2) /\ k \in K
  BY <1>3, <1>6, <1>10 DEF LinkAt
<1>12. ASSUME NEW O2, \A n \in O2 : n \in O \/ n.type = "Data"
       PROVE  Protocol(R2, O2, K2, P, L)
  <2>1. m.type = "ConfRsp" /\ k.localCid = m.scid
    BY <1>1, <1>3, <1>6
  <2>. QED  BY <1>8, <1>10, <1>11, <1>12, <2>1, ConfRspStep
<1>13. /\ ~pastEnd' /\ boards \subseteq boards'
       /\ k.remoteConfigured /\ k.psm = HidInterrupt => h \in boards'
       /\ OutOk(tx') /\ Packets(tx) \subseteq Packets(tx')
       /\ \A n \in Packets(tx') : n \in Packets(tx) \/ (n.type = "Data" /\ n.handle = h)
  <2>1. CASE p.to.remoteConfigured
    <3>1. Established(h, p.to.psm, p, tx, 0) /\ p.to \in Channels
      BY <1>5, <1>6, <2>1
    <3>2. tx \in Seq(Packet)
      BY <1>2, StateFacts
    <3>. QED  BY <1>0, <1>1, <1>2, <1>3, <1>6, <3>1, <3>2, HostEstablished
  <2>2. CASE ~p.to.remoteConfigured
    <3>1. Uses(p) /\ UNCHANGED <<out, app>>
      BY <1>5, <2>2
    <3>. QED  BY <1>3, <1>6, <2>2, <3>1 DEF Uses, out, app, Before, ProtocolOk, Sound
  <2>. QED  BY <2>1, <2>2
<1>14. \A n \in ToBoard(h)' : n \in O \/ n.type = "Data"
  <2>1. ASSUME NEW n \in ToBoard(h)', n \notin ToBoard(h)
        PROVE  n.type = "Data"
    <3>1. n \in Packets(tx') /\ n.handle = h
      BY <1>3, <2>1
    <3>. QED  BY <1>3, <1>13, <2>1, <3>1
  <2>. QED  BY <1>10, <2>1
<1>15. LinkAt(h)'
  <2>1. Protocol(R2, ToBoard(h)', K2, P, L)
    BY <1>12, <1>14
  <2>. QED  BY <1>3, <1>9, <1>10, <2>1 DEF LinkAt
<1>16. Boarded'
  BY <1>8, <1>9, <1>13 DEF Before, ProtocolOk, Boarded
<1>17. \A n \in Packets(tx') : n \in Packets(tx) \/ n.handle = h
  BY <1>13
<1>18. Sound'
  BY <1>5, <1>13 DEF Before, ProtocolOk, Sound
<1>. QED  BY <1>0, <1>1, <1>2, <1>9, <1>13, <1>15, <1>16, <1>17, <1>18, HostDone

LEMMA DisconnectRequestProtocol ==
  ASSUME Before, ~wrapped', HandleL2DisconnectRequest
  PROVE  ProtocolOk'
<1>0. PICK m : m = Head(rx)
  OBVIOUS
<1>1. PICK h, x : h = m.handle /\ x = m.dcid
  OBVIOUS
<1>2. /\ Receives("DiscReq") /\ UNCHANGED boards /\ UNCHANGED crashed
      /\ CidInv /\ ~wrapped /\ TypeOK
  BY DEF HandleL2DisconnectRequest, app, Before, CidInv
<1>3. /\ m \in Packet /\ m \in FromBoard(h) /\ m.type = "DiscReq" /\ h \in Handle
      /\ TakesRx(FromBoard(h), m, FromBoard(h)')
      /\ LinkAt(h) /\ UNCHANGED env /\ OutOk(tx)
      /\ peer'[h] = peer[h] /\ link'[h] = link[h]
      /\ \A n \in ToBoard(h)' : n \in ToBoard(h) \/ (n \in Packets(tx') /\ n.handle = h)
      /\ \A n \in Packets(tx) : n.handle = h => n \in ToBoard(h)
      /\ m.scid \in Cid /\ m.dcid \in Cid
  BY <1>0, <1>1, <1>2, HostLink
<1>4. Known(ChannelsOf(h), x)
  BY <1>0, <1>1, <1>2, <1>3, HostNames DEF Naming, Name
<1>5. PICK p \in Local(h, x) :
        /\ Uses(p)
        /\ \/ /\ p.to.remoteCid = m.scid
              /\ Sends(Enqueue(tx, DiscRsp(h, p.to.localCid, p.to.remoteCid)), 1)
              /\ connections' = Remove(connections, p)
           \/ p.to.remoteCid # m.scid /\ UNCHANGED <<connections, out>>
  <2>1. Local(h, x) # {}
    BY <1>2, <1>3, <1>4, NamedChannel
  <2>. QED  BY <1>0, <1>1, <2>1 DEF HandleL2DisconnectRequest, IsNull
<1>6. PICK k \in Connection :
        /\ k = p.to /\ k \in ChannelsOf(h) /\ k \in Channels /\ k.localCid = x /\ k.handle = h
        /\ p.at # PastEnd
  <2>1. p.to \in ChannelsOf(h) /\ p.to \in Connection /\ p.to.localCid = x /\ p.at # PastEnd
    BY <1>2, <1>3, <1>4, NamedChannel
  <2>. QED  BY <2>1 DEF ChannelsOf
<1>7. Sound'
  BY <1>2, <1>5, <1>6 DEF Before, ProtocolOk, Sound, Uses
<1>8. CASE UNCHANGED <<connections, out>>
  BY <1>0, <1>2, <1>7, <1>8, HostQuiet DEF out
<1>9. CASE /\ k.remoteCid = m.scid
           /\ Sends(Enqueue(tx, DiscRsp(h, k.localCid, k.remoteCid)), 1)
           /\ connections' = Remove(connections, p)
  <2>1. PICK a : a = DiscRsp(h, k.localCid, k.remoteCid)
    OBVIOUS
  <2>2. a.handle = h /\ a.type = "DiscRsp" /\ a.scid = m.scid /\ a \in Packet
    <3>1. k.localCid \in Cid /\ k.remoteCid \in Cid
      BY DEF Connection
    <3>2. a \in Packet
      BY <1>3, <2>1, <3>1, PacketType, Numbers
    <3>. QED  BY <1>9, <2>1, <3>2 DEF DiscRsp, Make
  <2>3. /\ ChannelsOf(h)' = ChannelsOf(h) \ {k}
        /\ Channels' = Channels \ {k}
        /\ \A j : j.handle # h => (j \in Channels' <=> j \in Channels)
    BY <1>2, <1>3, <1>4, <1>6, <1>9, RemovedChannel
  <2>4. PICK R, R2, O, K, K2, P, L :
          /\ R = FromBoard(h) /\ R2 = FromBoard(h)' /\ O = ToBoard(h)
          /\ K = ChannelsOf(h) /\ K2 = K \ {k} /\ P = peer[h] /\ L = link[h]
    OBVIOUS
  <2>5. Protocol(R, O, K, P, L) /\ TakesRx(R, m, R2) /\ k \in K
    BY <1>3, <1>6, <2>4 DEF LinkAt
  <2>6. ASSUME NEW O2, \A n \in O2 : n \in O \/ n = a
        PROVE  Protocol(R2, O2, K2, P, L) /\ \A n \in O : OutBefore(n, a)
    <3>1. m.type = "DiscReq" /\ k.localCid = m.dcid /\ k.remoteCid = m.scid
      BY <1>1, <1>3, <1>6, <1>9
    <3>. QED  BY <2>2, <2>4, <2>5, <2>6, <3>1, DiscReqStep
  <2>7. \A n \in ToBoard(h) : OutBefore(n, a)
    <3>1. \A n \in {} : n \in O \/ n = a
      OBVIOUS
    <3>. QED  BY <2>4, <2>6, <3>1
  <2>8. /\ OutOk(tx') /\ Packets(tx) \subseteq Packets(tx')
        /\ \A n \in Packets(tx') : n \in Packets(tx) \/ n = a
    <3>1. tx \in Seq(Packet)
      BY <1>2, StateFacts
    <3>2. tx' = Enqueue(tx, a)
      BY <1>9, <2>1 DEF Sends
    <3>. QED  BY <1>0, <1>1, <1>2, <1>3, <2>2, <2>7, <3>1, <3>2, HostSends
  <2>9. \A n \in ToBoard(h)' : n \in O \/ n = a
    <3>1. ASSUME NEW n \in ToBoard(h)', n \notin ToBoard(h)
          PROVE  n = a
      <4>1. n \in Packets(tx') /\ n.handle = h
        BY <1>3, <3>1
      <4>. QED  BY <1>3, <2>8, <3>1, <4>1
    <3>. QED  BY <2>4, <3>1
  <2>10. LinkAt(h)'
    <3>1. Protocol(R2, ToBoard(h)', K2, P, L)
      BY <2>6, <2>9
    <3>. QED  BY <1>3, <2>3, <2>4, <3>1 DEF LinkAt
  <2>11. Boarded'
    BY <1>2, <2>3 DEF Before, ProtocolOk, Boarded
  <2>12. \A n \in Packets(tx') : n \in Packets(tx) \/ n.handle = h
    BY <2>2, <2>8
  <2>. QED  BY <1>0, <1>1, <1>2, <1>7, <2>3, <2>8, <2>10, <2>11, <2>12, HostDone
<1>. QED  BY <1>5, <1>6, <1>8, <1>9

\* Data comes for boards that are there.
LEMMA DataProtocol ==
  ASSUME Before, ~wrapped', HandleACLData
  PROVE  ProtocolOk'
<1>0. PICK m : m = Head(rx)
  OBVIOUS
<1>1. PICK h, x, type : /\ h = m.handle /\ x = m.dcid
                         /\ type \in {"Data", "Reject"} /\ Receives(type)
  BY DEF HandleACLData
<1>2. UNCHANGED connections /\ UNCHANGED boards /\ TypeOK
  BY DEF HandleACLData, store, app, Before, CidInv
<1>3. /\ m \in FromBoard(h) /\ m.type = type /\ h \in Handle
      /\ TakesRx(FromBoard(h), m, FromBoard(h)') /\ LinkAt(h)
  BY <1>0, <1>1, HostLink
<1>4. type = "Data" /\ Known(ChannelsOf(h), x)
  BY <1>1, <1>3 DEF LinkAt, Protocol, RxNames, Naming, Name
<1>5. PICK k \in ChannelsOf(h) : k.localCid = x
  BY <1>4 DEF Known
<1>6. k \in Channels /\ k.handle = h
  BY <1>5 DEF ChannelsOf
<1>7. k.psm = HidInterrupt /\ k.remoteConfigured /\ k.localConfigured
  <2>1. PICK R, R2, K : R = FromBoard(h) /\ R2 = FromBoard(h)' /\ K = ChannelsOf(h)
    OBVIOUS
  <2>2. RxData(R, K) /\ RxConfRsp(R, K, peer[h]) /\ TakesRx(R, m, R2)
    BY <1>3, <2>1 DEF LinkAt, Protocol
  <2>3. k.psm = HidInterrupt /\ k.remoteConfigured /\ (k.localConfigured \/ Answered(R, x))
    BY <1>1, <1>3, <1>4, <1>5, <2>1, <2>2 DEF RxData
  <2>4. ~Answered(R, x)
    <3>1. ASSUME NEW n \in R, n.type = "ConfRsp", n.scid = x
          PROVE  FALSE
      <4>1. n \in R2
        BY <1>3, <1>4, <2>2, <3>1 DEF TakesRx
      <4>2. RxBefore(m, n) /\ m.type = "Data"
        BY <1>3, <1>4, <2>2, <4>1 DEF TakesRx
      <4>. QED  BY <1>1, <3>1, <4>2 DEF RxBefore, Naming, Name
    <3>. QED  BY <3>1 DEF Answered
  <2>. QED  BY <2>3, <2>4
<1>8. h \in boards
  BY <1>6, <1>7 DEF Before, ProtocolOk, Boarded
<1>9. CASE UNCHANGED <<out, fault>>
  <2>1. Sound'
    BY <1>9 DEF Before, ProtocolOk, Sound, fault
  <2>. QED  BY <1>0, <1>1, <1>2, <1>4, <1>9, <2>1, HostQuiet DEF out
<1>10. ASSUME NEW d \in L2Data(h, HidInterrupt), Uses(d.uses), Sends(Enqueue(tx, d.packet), 1),
              UNCHANGED crashed
       PROVE  ProtocolOk'
  <2>1. d.uses \in ByPsm(h, HidInterrupt) /\ d.packet \in Packet
    BY <1>2, <1>3, <1>10, StateFacts, L2DataType, Numbers
  <2>2. d.uses.at # PastEnd
    BY <1>2, <1>6, <1>7, <2>1, ByPsmFinds
  <2>3. d.packet.type = "Data" /\ d.packet.handle = h
    BY <1>10 DEF L2Data, Data, Make
  <2>4. Sound' /\ tx' = Enqueue(tx, d.packet)
    BY <1>10, <2>2 DEF Before, ProtocolOk, Sound, Uses, Sends
  <2>. QED  BY <1>0, <1>1, <1>2, <1>4, <2>1, <2>3, <2>4, HostQuiet
<1>. QED  BY <1>0, <1>1, <1>8, <1>9, <1>10 DEF HandleACLData

LEMMA HandlersProtocol ==
  ASSUME Before, ~wrapped', Handlers
  PROVE  ProtocolOk'
<1>1. CASE HandleHCIDisconnect
  <2>1. Sound'
    BY <1>1 DEF HandleHCIDisconnect, fault, Before, ProtocolOk, Sound
  <2>2. /\ Receives("DisconnectionComplete") /\ UNCHANGED connections /\ UNCHANGED tx
        /\ UNCHANGED boards
    BY <1>1 DEF HandleHCIDisconnect, store, app, out
  <2>. QED  BY <2>1, <2>2, HostQuiet
<1>2. ~HandleL2DisconnectResponse
  <2>. SUFFICES ASSUME HandleL2DisconnectResponse PROVE FALSE
    OBVIOUS
  <2>1. Head(rx) \in Packets(rx) /\ Head(rx).type = "DiscRsp"
    BY ReceivesPackets DEF HandleL2DisconnectResponse, Before, CidInv
  <2>. QED  BY <2>1 DEF Before, NamesOk, RxIssued
<1>. QED  BY <1>1, <1>2, ConnectionCompleteProtocol, ConnectionRequestProtocol,
             ConnectionResponseProtocol, ConfigurationRequestProtocol,
             ConfigurationResponseProtocol, DisconnectRequestProtocol, DataProtocol DEF Handlers
--------------------------------------------------------------------------------
(* The boards.                                                               *)

\* What a board's step leaves to show.
LEMMA BoardDone ==
  ASSUME Before, NEW h \in Handle, UNCHANGED <<host, links>>,
         Protocol(FromBoard(h)', ToBoard(h)', ChannelsOf(h), peer'[h], link[h]), Orders',
         \A g \in Handle : g # h => /\ FromBoard(g)' = FromBoard(g) /\ ToBoard(g)' = ToBoard(g)
                                    /\ peer'[g] = peer[g]
  PROVE  ProtocolOk'
<1>1. Channels' = Channels /\ since' = since /\ link' = link
  BY DEF host, store, links, Channels
<1>2. \A g \in Handle : ChannelsOf(g)' = ChannelsOf(g)
  BY <1>1 DEF ChannelsOf
<1>3. ASSUME NEW g \in Handle
      PROVE  LinkAt(g)'
  <2>1. CASE g = h
    BY <1>1, <1>2, <2>1 DEF LinkAt
  <2>2. CASE g # h
    <3>1. LinkAt(g)
      BY DEF Before, ProtocolOk, LinksProtocol
    <3>. QED  BY <1>1, <1>2, <2>2, <3>1, KeptLink
  <2>. QED  BY <2>1, <2>2
<1>4. LinksProtocol'
  BY <1>3 DEF LinksProtocol
<1>5. Boarded' /\ Sound'
  BY <1>1 DEF Before, ProtocolOk, Boarded, Sound, host, app, fault
<1>. QED  BY <1>4, <1>5 DEF ProtocolOk

\* A packet from a board comes behind what that has sent.
LEMMA BoardDelivers ==
  ASSUME Before, NEW h \in Handle, NEW n \in Packet, n.handle = h, Delivers(n),
         \A a \in FromBoard(h) : RxBefore(a, n)
  PROVE  /\ FromBoard(h)' = FromBoard(h) \cup {n}
         /\ \A g \in Handle : g # h => FromBoard(g)' = FromBoard(g)
         /\ Along(AllowedRx, rx)'
<1>1. TypeOK /\ rx \in Seq(Packet) /\ Along(AllowedRx, rx)
  BY StateFacts DEF Before, CidInv, ProtocolOk, Orders
<1>2. Packets(rx') = Packets(rx) \cup {n} /\ rx' = Append(rx, n)
  BY <1>1, DeliversPackets
<1>3. \A a \in Packets(rx) : <<a, n>> \in AllowedRx
  <2>1. ASSUME NEW a \in Packets(rx)
        PROVE  a \in Packet /\ (a.handle = n.handle => RxBefore(a, n))
    BY <1>1, PacketsFacts DEF FromBoard
  <2>. QED  BY <2>1, AllowedFacts
<1>4. Along(AllowedRx, Append(rx, n))
  BY <1>1, <1>3, AlongAppend
<1>5. Along(AllowedRx, rx)'
  BY <1>2, <1>4
<1>. QED  BY <1>2, <1>5 DEF FromBoard

\* A board takes the packets to it in their order.
LEMMA BoardTakes ==
  ASSUME Before, NEW h \in Handle, NEW type, PeerReceives(h, type), NEW m, m = Head(air[h])
  PROVE  /\ m \in Packet /\ m.type = type /\ m.handle = h /\ m \in ToBoard(h) /\ SentOk(h, m)
         /\ m.psm \in Psm /\ m.scid \in Cid /\ m.dcid \in Cid
         /\ TakesOut(ToBoard(h), m, ToBoard(h)')
         /\ \A g \in Handle : g # h => ToBoard(g)' = ToBoard(g)
         /\ OutOk(tx)' /\ \A g \in Handle : Along(AllowedOut, air[g])'
         /\ UNCHANGED <<host, links>> /\ Up(h)
<1>1. /\ TypeOK /\ air[h] \in Seq(Packet) /\ tx \in Seq(Packet)
      /\ \A g \in Handle : Along(AllowedOut, air[g])
  BY StateFacts DEF Before, CidInv, ProtocolOk, Orders
<1>2. /\ Up(h) /\ UNCHANGED <<host, links>> /\ tx' = tx
      /\ air[h] # <<>> /\ air'[h] = Tail(air[h])
      /\ m \in Packets(air[h]) /\ m \in Packet /\ m.type = type
      /\ Packets(air'[h]) \subseteq Packets(air[h])
      /\ Packets(air[h]) \subseteq Packets(air'[h]) \cup {m}
      /\ \A g \in Handle : g # h => air'[g] = air[g]
  BY <1>1, PeerReceivesPackets DEF host, out
<1>3. m.handle = h /\ SentOk(h, m)
  BY <1>2 DEF Before, NamesOk, AirIssued
<1>4. Along(AllowedOut, Tail(air[h])) /\ \A b \in Packets(air'[h]) : <<m, b>> \in AllowedOut
  BY <1>1, <1>2, AlongTail
<1>5. \A g \in Handle : Along(AllowedOut, air'[g])
  BY <1>1, <1>2, <1>4
<1>6. OutOk(tx)'
  <2>1. \A g \in Handle : \A a \in Packets(air'[g]), b \in Packets(tx) : <<a, b>> \in AllowedOut
    <3>1. OutOk(tx) /\ \A g \in Handle : Packets(air'[g]) \subseteq Packets(air[g])
      BY <1>2 DEF Before, ProtocolOk, Orders
    <3>. QED  BY <3>1, Zenon DEF OutOk
  <2>. QED  BY <1>2, <2>1 DEF Before, ProtocolOk, Orders, OutOk
<1>7. \A n \in ToBoard(h)' : OutBefore(m, n)
  <2>1. ASSUME NEW n \in Packets(tx), n.handle = h
        PROVE  OutBefore(m, n)
    <3>1. <<m, n>> \in AllowedOut
      BY <1>2 DEF Before, ProtocolOk, Orders, OutOk
    <3>2. n \in Packet
      BY <1>1, PacketsFacts
    <3>. QED  BY <1>2, <1>3, <2>1, <3>1, <3>2, AllowedFacts
  <2>2. ASSUME NEW n \in Packets(air'[h])
        PROVE  OutBefore(m, n)
    <3>1. n \in Packets(air[h])
      BY <1>2
    <3>2. n \in Packet /\ n.handle = h
      BY <1>1, <3>1, PacketsFacts DEF Before, NamesOk, AirIssued
    <3>. QED  BY <1>2, <1>3, <1>4, <3>2, AllowedFacts
  <2>. QED  BY <1>2, <2>1, <2>2 DEF ToBoard
<1>8. m \in ToBoard(h) /\ TakesOut(ToBoard(h), m, ToBoard(h)')
  <2>1. m \in ToBoard(h) /\ ToBoard(h)' \subseteq ToBoard(h) /\ ToBoard(h) \subseteq ToBoard(h)' \cup {m}
    BY <1>2 DEF ToBoard
  <2>. QED  BY <1>7, <2>1 DEF TakesOut
<1>9. \A g \in Handle : g # h => ToBoard(g)' = ToBoard(g)
  BY <1>2 DEF ToBoard
<1>. QED  BY <1>2, <1>3, <1>5, <1>6, <1>8, <1>9, PacketFacts

\* A board that only sends ...
LEMMA BoardSends ==
  ASSUME Before, NEW h \in Handle, UNCHANGED <<host, links, air>>,
         NEW n \in Packet, n.handle = h, Delivers(n),
         Protocol(FromBoard(h) \cup {n}, ToBoard(h), ChannelsOf(h), peer'[h], link[h]),
         \A a \in FromBoard(h) : RxBefore(a, n),
         \A g \in Handle : g # h => peer'[g] = peer[g]
  PROVE  ProtocolOk'
<1>1. /\ FromBoard(h)' = FromBoard(h) \cup {n}
      /\ \A g \in Handle : g # h => FromBoard(g)' = FromBoard(g)
      /\ Along(AllowedRx, rx)'
  BY BoardDelivers
<1>2. tx' = tx /\ air' = air
  BY DEF host, out
<1>3. \A g \in Handle : ToBoard(g)' = ToBoard(g)
  BY <1>2 DEF ToBoard
<1>4. Orders'
  BY <1>1, <1>2 DEF Before, ProtocolOk, Orders, OutOk
<1>. QED  BY <1>1, <1>3, <1>4, BoardDone

\* ... that only takes a packet ...
LEMMA BoardReceives ==
  ASSUME Before, NEW h \in Handle, NEW type, PeerReceives(h, type), UNCHANGED rx,
         Protocol(FromBoard(h), ToBoard(h)', ChannelsOf(h), peer'[h], link[h]),
         \A g \in Handle : g # h => peer'[g] = peer[g]
  PROVE  ProtocolOk'
<1>1. /\ \A g \in Handle : g # h => ToBoard(g)' = ToBoard(g)
      /\ OutOk(tx)' /\ \A g \in Handle : Along(AllowedOut, air[g])'
      /\ UNCHANGED <<host, links>>
  BY BoardTakes
<1>2. \A g \in Handle : FromBoard(g)' = FromBoard(g)
  BY DEF FromBoard
<1>3. Orders'
  BY <1>1 DEF Before, ProtocolOk, Orders
<1>. QED  BY <1>1, <1>2, <1>3, BoardDone

\* ... and that answers it.
LEMMA BoardAnswers ==
  ASSUME Before, NEW h \in Handle, NEW type, PeerReceives(h, type),
         NEW n \in Packet, n.handle = h, Delivers(n),
         Protocol(FromBoard(h) \cup {n}, ToBoard(h)', ChannelsOf(h), peer'[h], link[h]),
         \A a \in FromBoard(h) : RxBefore(a, n),
         \A g \in Handle : g # h => peer'[g] = peer[g]
  PROVE  ProtocolOk'
<1>1. /\ \A g \in Handle : g # h => ToBoard(g)' = ToBoard(g)
      /\ OutOk(tx)' /\ \A g \in Handle : Along(AllowedOut, air[g])'
      /\ UNCHANGED <<host, links>>
  BY BoardTakes
<1>2. /\ FromBoard(h)' = FromBoard(h) \cup {n}
      /\ \A g \in Handle : g # h => FromBoard(g)' = FromBoard(g)
      /\ Along(AllowedRx, rx)'
  BY BoardDelivers
<1>3. Orders'
  BY <1>1, <1>2 DEF Orders
<1>. QED  BY <1>1, <1>2, <1>3, BoardDone

\* What a board starts.
LEMMA BoardsProtocol ==
  ASSUME Before, NEW h \in Handle, NEW c \in PeerCid,
         \/ \E psm \in PeerPsm : PeerConnect(h, c, psm)
         \/ PeerDisconnect(h, c)
         \/ PeerData(h, c)
         \/ \E result \in Results : PeerDecides(h, c, result)
         \/ \E form \in Forms : PeerConfigure(h, c, form) \/ PeerReconfigure(h, c, form)
         \/ \E result \in ConfResults : PeerConcludes(h, c, result)
  PROVE  ProtocolOk'
<1>1. TypeOK /\ UNCHANGED <<host, links, air>>
  BY DEF Before, CidInv, PeerConnect, PeerDisconnect, PeerData, PeerDecides, PeerConfigure,
         PeerReconfigure, PeerConcludes
<1>2. PICK R, O, K, P, L : /\ R = FromBoard(h) /\ O = ToBoard(h) /\ K = ChannelsOf(h)
                           /\ P = peer[h] /\ L = link[h]
  OBVIOUS
<1>3. Protocol(R, O, K, P, L)
  BY <1>2 DEF Before, ProtocolOk, LinksProtocol, LinkAt
<1>4. PICK g \in End : g = peer[h][c]
  BY <1>1, StateFacts
<1>5. P[c] = g /\ g.hostCid \in Cid /\ c \in Cid
  <2>1. g.hostCid \in Cid
    BY DEF End
  <2>2. c \in Cid
    BY ConstantsAssumption
  <2>. QED  BY <1>2, <1>4, <2>1, <2>2
<1>6. ASSUME NEW e, SetEnd(h, c, e)
      PROVE  EndBecomes(P, c, e, peer'[h]) /\ \A j \in Handle : j # h => peer'[j] = peer[j]
  BY <1>1, <1>2, <1>6, SetEndFacts DEF EndBecomes
<1>7. ASSUME NEW n \in Packet, n.handle = h, Delivers(n),
             Protocol(R \cup {n}, O, K, peer'[h], L), \A a \in R : RxBefore(a, n),
             \A j \in Handle : j # h => peer'[j] = peer[j]
      PROVE  ProtocolOk'
  BY <1>1, <1>2, <1>7, BoardSends
<1>8. ASSUME NEW psm \in PeerPsm, PeerConnect(h, c, psm)
      PROVE  ProtocolOk'
  <2>1. PICK n, e, R2, P2 : /\ n = ConnReq(h, psm, c) /\ e = NewEnd("waiting", psm, 0)
                            /\ R2 = R \cup {n} /\ P2 = peer'[h]
    OBVIOUS
  <2>2. n \in Packet /\ n.handle = h /\ n.type = "ConnReq" /\ n.scid = c /\ n.psm = psm
    <3>1. psm \in Psm
      BY ConstantsAssumption
    <3>2. n \in Packet
      BY <1>5, <2>1, <3>1, PacketType, Numbers
    <3>. QED  BY <2>1, <3>2 DEF ConnReq, Make
  <2>3. /\ e.state = "waiting" /\ e.psm = psm /\ e.hostCid = 0
        /\ ~e.reqSent /\ ~e.rspSent /\ ~e.rspGot
    BY <2>1 DEF NewEnd
  <2>4. Delivers(n) /\ SetEnd(h, c, e)
    BY <1>8, <2>1 DEF PeerConnect
  <2>5. /\ L = "theirs" /\ P[c].state = "closed"
        /\ \A d \in PeerCid : P[d].psm = psm => P[d].state = "closed"
    BY <1>2, <1>8 DEF PeerConnect
  <2>6. EndBecomes(P, c, e, P2) /\ \A j \in Handle : j # h => peer'[j] = peer[j]
    BY <1>6, <2>1, <2>4
  <2>7. Protocol(R2, O, K, P2, L) /\ \A a \in R : RxBefore(a, n)
    <3>1. R2 = R \cup {n} /\ n.type = "ConnReq" /\ n.scid = c /\ n.psm = psm
      BY <2>1, <2>2
    <3>. QED  BY <1>3, <2>3, <2>5, <2>6, <3>1, ConnectStep
  <2>. QED  BY <1>7, <2>1, <2>2, <2>4, <2>6, <2>7
<1>9. CASE PeerDisconnect(h, c)
  <2>1. PICK n, e, R2, P2 : /\ n = DiscReq(h, g.hostCid, c) /\ e = [g EXCEPT !.state = "closing"]
                            /\ R2 = R \cup {n} /\ P2 = peer'[h]
    OBVIOUS
  <2>2. n \in Packet /\ n.handle = h /\ n.type = "DiscReq" /\ n.scid = c /\ n.dcid = P[c].hostCid
    <3>1. n \in Packet
      BY <1>5, <2>1, PacketType, Numbers
    <3>. QED  BY <1>5, <2>1, <3>1 DEF DiscReq, Make
  <2>3. /\ e.state = "closing" /\ e.psm = P[c].psm /\ e.hostCid = P[c].hostCid
        /\ e.reqSent = P[c].reqSent /\ e.rspSent = P[c].rspSent /\ e.rspGot = P[c].rspGot
    BY <1>5, <2>1 DEF End, EndStates
  <2>4. Delivers(n) /\ SetEnd(h, c, e) /\ P[c].state = "config"
    BY <1>4, <1>5, <1>9, <2>1 DEF PeerDisconnect
  <2>5. EndBecomes(P, c, e, P2) /\ \A j \in Handle : j # h => peer'[j] = peer[j]
    BY <1>6, <2>1, <2>4
  <2>6. Protocol(R2, O, K, P2, L) /\ \A a \in R : RxBefore(a, n)
    <3>1. /\ R2 = R \cup {n} /\ n.type = "DiscReq" /\ n.scid = c /\ n.dcid = P[c].hostCid
          /\ P[c].state = "config"
      BY <2>1, <2>2, <2>4
    <3>. QED  BY <1>3, <2>3, <2>5, <3>1, CloseStep
  <2>. QED  BY <1>7, <2>1, <2>2, <2>4, <2>5, <2>6
<1>10. CASE PeerData(h, c)
  <2>1. PICK n, R2 : n = Data(h, HidInterrupt, g.hostCid) /\ R2 = R \cup {n}
    OBVIOUS
  <2>2. n \in Packet /\ n.handle = h /\ n.type = "Data" /\ n.dcid = P[c].hostCid
    <3>1. n \in Packet
      BY <1>5, <2>1, PacketType, Numbers
    <3>. QED  BY <1>5, <2>1, <3>1 DEF Data, Make
  <2>3. /\ Delivers(n) /\ UNCHANGED peer /\ P[c].state = "config" /\ P[c].rspSent /\ P[c].rspGot
        /\ P[c].psm = HidInterrupt /\ P[c].verdict = Success
    BY <1>2, <1>4, <1>5, <1>10, <2>1 DEF PeerData, IsOpen
  <2>4. Protocol(R2, O, K, P, L) /\ \A a \in R : RxBefore(a, n)
    BY <1>3, <2>1, <2>2, <2>3, DataStep
  <2>. QED  BY <1>2, <1>7, <2>1, <2>2, <2>3, <2>4
<1>11. ASSUME NEW result \in Results, PeerDecides(h, c, result)
       PROVE  ProtocolOk'
  <2>1. PICK n, R2, P2 : /\ n = ConnRsp(h, IF result = Refused THEN 0 ELSE c, g.hostCid, result)
                         /\ R2 = R \cup {n} /\ P2 = peer'[h]
    OBVIOUS
  <2>2. /\ n \in Packet /\ n.handle = h /\ n.type = "ConnRsp" /\ n.scid = P[c].hostCid
        /\ n.dcid = (IF result = Refused THEN 0 ELSE c) /\ n.arg = result
    <3>1. result \in U16 /\ (IF result = Refused THEN 0 ELSE c) \in Cid
      BY <1>5, ConstantsAssumption, Numbers
    <3>2. n \in Packet
      BY <1>5, <2>1, <3>1, PacketType, Numbers
    <3>. QED  BY <1>5, <2>1, <3>2 DEF ConnRsp, Make
  <2>3. Delivers(n) /\ P[c].state = "pending"
    BY <1>4, <1>5, <1>11, <2>1 DEF PeerDecides
  <2>4. CASE result = Success /\ SetEnd(h, c, [g EXCEPT !.state = "config"])
    <3>1. PICK e : e = [g EXCEPT !.state = "config"]
      OBVIOUS
    <3>2. /\ e.state = "config" /\ e.psm = P[c].psm /\ e.hostCid = P[c].hostCid
          /\ e.reqSent = P[c].reqSent /\ e.rspSent = P[c].rspSent /\ e.rspGot = P[c].rspGot
      BY <1>5, <3>1 DEF End, EndStates
    <3>3. EndBecomes(P, c, e, P2) /\ \A j \in Handle : j # h => peer'[j] = peer[j]
      BY <1>6, <2>1, <2>4, <3>1
    <3>4. n.type = "ConnRsp" /\ n.scid = P[c].hostCid /\ n.dcid = c /\ n.arg = Success
      BY <2>2, <2>4 DEF Success, Refused
    <3>5. Protocol(R2, O, K, P2, L) /\ \A a \in R : RxBefore(a, n)
      BY <1>3, <2>1, <2>3, <3>2, <3>3, <3>4, ConsentStep
    <3>. QED  BY <1>7, <2>1, <2>2, <2>3, <3>3, <3>5
  <2>5. CASE result = Refused /\ SetEnd(h, c, [g EXCEPT !.state = "closed"])
    <3>1. PICK e : e = [g EXCEPT !.state = "closed"]
      OBVIOUS
    <3>2. /\ e.state = "closed" /\ e.psm = P[c].psm /\ e.hostCid = P[c].hostCid
          /\ e.reqSent = P[c].reqSent /\ e.rspSent = P[c].rspSent /\ e.rspGot = P[c].rspGot
      BY <1>5, <3>1 DEF End, EndStates
    <3>3. EndBecomes(P, c, e, P2) /\ \A j \in Handle : j # h => peer'[j] = peer[j]
      BY <1>6, <2>1, <2>5, <3>1
    <3>4. n.type = "ConnRsp" /\ n.scid = P[c].hostCid /\ n.dcid = 0 /\ n.arg = Refused
      BY <2>2, <2>5
    <3>5. Protocol(R2, O, K, P2, L) /\ \A a \in R : RxBefore(a, n)
      BY <1>3, <2>1, <2>3, <3>2, <3>3, <3>4, DenyStep
    <3>. QED  BY <1>7, <2>1, <2>2, <2>3, <3>3, <3>5
  <2>. QED  BY <1>4, <1>11, <2>4, <2>5 DEF PeerDecides
<1>12. ASSUME NEW form \in Forms, PeerConfigure(h, c, form)
       PROVE  ProtocolOk'
  <2>1. PICK n, e, R2, P2 : /\ n = ConfReq(h, g.hostCid, form) /\ e = [g EXCEPT !.reqSent = TRUE]
                            /\ R2 = R \cup {n} /\ P2 = peer'[h]
    OBVIOUS
  <2>2. n \in Packet /\ n.handle = h /\ n.type = "ConfReq" /\ n.dcid = P[c].hostCid
    <3>1. form \in U16
      BY ConstantsAssumption, Numbers
    <3>2. n \in Packet
      BY <1>5, <2>1, <3>1, PacketType, Numbers
    <3>. QED  BY <1>5, <2>1, <3>2 DEF ConfReq, Make
  <2>3. Delivers(n) /\ SetEnd(h, c, e) /\ P[c].state = "config"
    BY <1>4, <1>5, <1>12, <2>1 DEF PeerConfigure
  <2>4. /\ e.state = "config" /\ e.psm = P[c].psm /\ e.hostCid = P[c].hostCid
        /\ e.reqSent /\ e.rspSent = P[c].rspSent /\ e.rspGot = P[c].rspGot
        /\ e.verdict = P[c].verdict
    <3>1. P[c] = g /\ e = [g EXCEPT !.reqSent = TRUE] /\ g.state = "config"
      BY <1>5, <2>1, <2>3
    <3>2. /\ e.state = g.state /\ e.psm = g.psm /\ e.hostCid = g.hostCid
          /\ e.reqSent = TRUE /\ e.rspSent = g.rspSent /\ e.rspGot = g.rspGot
          /\ e.verdict = g.verdict
      BY <3>1 DEF End, EndStates
    <3>. QED  BY <3>1, <3>2
  <2>5. EndBecomes(P, c, e, P2) /\ \A j \in Handle : j # h => peer'[j] = peer[j]
    BY <1>6, <2>1, <2>3
  <2>6. Protocol(R2, O, K, P2, L) /\ \A a \in R : RxBefore(a, n)
    <3>1. /\ R2 = R \cup {n} /\ n.type = "ConfReq" /\ n.dcid = P[c].hostCid
          /\ P[c].state = "config"
      BY <2>1, <2>2, <2>3
    <3>. QED  BY <1>3, <2>4, <2>5, <3>1, ConfigureStep
  <2>. QED  BY <1>7, <2>1, <2>2, <2>3, <2>5, <2>6
<1>13. ASSUME NEW form \in Forms, PeerReconfigure(h, c, form)
       PROVE  ProtocolOk'
  <2>1. PICK n, R2 : n = ConfReq(h, g.hostCid, form) /\ R2 = R \cup {n}
    OBVIOUS
  <2>2. n \in Packet /\ n.handle = h /\ n.type = "ConfReq" /\ n.dcid = P[c].hostCid
    <3>1. form \in U16
      BY ConstantsAssumption, Numbers
    <3>2. n \in Packet
      BY <1>5, <2>1, <3>1, PacketType, Numbers
    <3>. QED  BY <1>5, <2>1, <3>2 DEF ConfReq, Make
  <2>3. Delivers(n) /\ UNCHANGED peer /\ P[c].state = "config" /\ P[c].reqSent
    BY <1>2, <1>4, <1>5, <1>13, <2>1 DEF PeerReconfigure
  <2>4. EndBecomes(P, c, g, P)
    BY <1>5 DEF EndBecomes
  <2>5. Protocol(R2, O, K, P, L) /\ \A a \in R : RxBefore(a, n)
    <3>1. /\ R2 = R \cup {n} /\ n.type = "ConfReq" /\ n.dcid = P[c].hostCid
      BY <2>1, <2>2
    <3>2. /\ g.state = "config" /\ g.psm = P[c].psm /\ g.hostCid = P[c].hostCid
          /\ g.reqSent /\ g.rspSent = P[c].rspSent /\ g.rspGot = P[c].rspGot
          /\ g.verdict = P[c].verdict
      BY <1>5, <2>3
    <3>. QED  BY <1>3, <2>3, <2>4, <3>1, <3>2, ConfigureStep
  <2>. QED  BY <1>2, <1>7, <2>1, <2>2, <2>3, <2>5
<1>14. ASSUME NEW result \in ConfResults, PeerConcludes(h, c, result)
       PROVE  ProtocolOk'
  <2>1. PICK n, e, R2, P2 : /\ n = ConfRsp(h, g.hostCid, result) /\ e = [g EXCEPT !.verdict = result]
                            /\ R2 = R \cup {n} /\ P2 = peer'[h]
    OBVIOUS
  <2>2. n \in Packet /\ n.handle = h /\ n.type = "ConfRsp" /\ n.scid = P[c].hostCid
    <3>1. result \in U16
      BY ConstantsAssumption, Numbers
    <3>2. n \in Packet
      BY <1>5, <2>1, <3>1, PacketType, Numbers
    <3>. QED  BY <1>5, <2>1, <3>2 DEF ConfRsp, Make
  <2>3. /\ Delivers(n) /\ SetEnd(h, c, e)
        /\ P[c].state = "config" /\ P[c].rspSent /\ P[c].verdict = Pending
    BY <1>4, <1>5, <1>14, <2>1 DEF PeerConcludes
  <2>4. /\ e.state = "config" /\ e.psm = P[c].psm /\ e.hostCid = P[c].hostCid
        /\ e.reqSent = P[c].reqSent /\ e.rspSent /\ e.rspGot = P[c].rspGot
    <3>1. P[c] = g /\ e = [g EXCEPT !.verdict = result] /\ g.state = "config" /\ g.rspSent
      BY <1>5, <2>1, <2>3
    <3>2. /\ e.state = g.state /\ e.psm = g.psm /\ e.hostCid = g.hostCid
          /\ e.reqSent = g.reqSent /\ e.rspSent = g.rspSent /\ e.rspGot = g.rspGot
      BY <3>1 DEF End, EndStates
    <3>. QED  BY <3>1, <3>2
  <2>5. EndBecomes(P, c, e, P2) /\ \A j \in Handle : j # h => peer'[j] = peer[j]
    BY <1>6, <2>1, <2>3
  <2>6. Protocol(R2, O, K, P2, L) /\ \A a \in R : RxBefore(a, n)
    <3>1. R2 = R \cup {n} /\ n.type = "ConfRsp" /\ n.scid = P[c].hostCid
      BY <2>1, <2>2
    <3>. QED  BY <1>3, <2>3, <2>4, <2>5, <3>1, ConcludeStep
  <2>. QED  BY <1>7, <2>1, <2>2, <2>3, <2>5, <2>6
<1>. QED  BY <1>8, <1>9, <1>10, <1>11, <1>12, <1>13, <1>14

\* What a board answers.
LEMMA RepliesProtocol ==
  ASSUME Before, NEW h \in Handle, PeerReply(h)
  PROVE  ProtocolOk'
<1>0. PICK m : m = Head(air[h])
  OBVIOUS
<1>1. TypeOK
  BY DEF Before, CidInv
<1>2. PICK R, O, O2, K, P, P2, L :
        /\ R = FromBoard(h) /\ O = ToBoard(h) /\ O2 = ToBoard(h)' /\ K = ChannelsOf(h)
        /\ P = peer[h] /\ P2 = peer'[h] /\ L = link[h]
  OBVIOUS
<1>3. Protocol(R, O, K, P, L)
  BY <1>2 DEF Before, ProtocolOk, LinksProtocol, LinkAt
<1>4. ASSUME NEW type, PeerReceives(h, type)
      PROVE  /\ m \in Packet /\ m.type = type /\ SentOk(h, m) /\ TakesOut(O, m, O2)
             /\ m.psm \in Psm /\ m.scid \in Cid /\ m.dcid \in Cid
  BY <1>0, <1>2, <1>4, BoardTakes
<1>5. ASSUME NEW c, EndAt(h, c).state # "closed"
      PROVE  /\ c \in PeerCid
             /\ \E g \in End : g = EndAt(h, c) /\ g = P[c] /\ g.hostCid \in Cid
  <2>1. c \in PeerCid /\ EndAt(h, c) = peer[h][c]
    BY <1>5 DEF EndAt, NewEnd
  <2>2. PICK g \in End : g = EndAt(h, c)
    BY <1>1, EndAtType
  <2>3. g.hostCid \in Cid
    BY DEF End
  <2>. QED  BY <1>2, <2>1, <2>2, <2>3
<1>6. ASSUME NEW c \in PeerCid, NEW e, SetEnd(h, c, e)
      PROVE  EndBecomes(P, c, e, P2) /\ \A j \in Handle : j # h => peer'[j] = peer[j]
  BY <1>1, <1>2, <1>6, SetEndFacts DEF EndBecomes
<1>7. ASSUME NEW type, PeerReceives(h, type), UNCHANGED rx, Protocol(R, O2, K, P2, L),
             \A j \in Handle : j # h => peer'[j] = peer[j]
      PROVE  ProtocolOk'
  BY <1>2, <1>7, BoardReceives
<1>8. ASSUME NEW type, PeerReceives(h, type), UNCHANGED <<rx, peer>>
      PROVE  ProtocolOk'
  <2>1. TakesOut(O, m, O2) /\ P2 = P
    BY <1>2, <1>4, <1>8
  <2>2. \A n \in O2 : n \in O
    BY <2>1 DEF TakesOut
  <2>3. Protocol(R, O2, K, P2, L)
    BY <1>3, <2>1, <2>2, QuietStep
  <2>. QED  BY <1>7, <1>8, <2>3
<1>9. ASSUME NEW type, PeerReceives(h, type), NEW n \in Packet, n.handle = h, Delivers(n),
             Protocol(R \cup {n}, O2, K, P2, L), \A a \in R : RxBefore(a, n),
             \A j \in Handle : j # h => peer'[j] = peer[j]
      PROVE  ProtocolOk'
  BY <1>2, <1>9, BoardAnswers
<1>10. ASSUME NEW c \in PeerCid, NEW result \in Results, PeerOnConnReq(h, c, result)
       PROVE  ProtocolOk'
  <2>1. PICK n, R2 : /\ n = ConnRsp(h, IF result = Refused THEN 0 ELSE c, m.scid, result)
                     /\ R2 = R \cup {n}
    OBVIOUS
  <2>2. PeerReceives(h, "ConnReq") /\ Delivers(n) /\ P[c].state = "closed"
    BY <1>0, <1>2, <1>10, <2>1 DEF PeerOnConnReq
  <2>3. m.type = "ConnReq" /\ TakesOut(O, m, O2) /\ m.scid \in Cid
    BY <1>4, <2>2
  <2>4. /\ n \in Packet /\ n.handle = h /\ n.type = "ConnRsp" /\ n.scid = m.scid
        /\ n.dcid = (IF result = Refused THEN 0 ELSE c) /\ n.arg = result
    <3>1. result \in U16 /\ (IF result = Refused THEN 0 ELSE c) \in Cid
      BY ConstantsAssumption, Numbers
    <3>2. n \in Packet
      BY <2>1, <2>3, <3>1, PacketType, Numbers
    <3>. QED  BY <2>1, <3>2 DEF ConnRsp, Make
  <2>5. CASE result = Success /\ SetEnd(h, c, NewEnd("config", m.psm, m.scid))
    <3>1. PICK e : e = NewEnd("config", m.psm, m.scid)
      OBVIOUS
    <3>2. /\ e.state = "config" /\ e.psm = m.psm /\ e.hostCid = m.scid
          /\ ~e.reqSent /\ ~e.rspSent /\ ~e.rspGot
      BY <3>1 DEF NewEnd
    <3>3. EndBecomes(P, c, e, P2) /\ \A j \in Handle : j # h => peer'[j] = peer[j]
      BY <1>6, <2>5, <3>1
    <3>4. /\ n.type = "ConnRsp" /\ n.scid = m.scid /\ n.dcid = c /\ n.arg = Success
          /\ R2 = R \cup {n} /\ P[c].state = "closed"
      BY <2>1, <2>2, <2>4, <2>5 DEF Success, Refused
    <3>5. Protocol(R2, O2, K, P2, L) /\ \A a \in R : RxBefore(a, n)
      BY <1>3, <2>3, <3>2, <3>3, <3>4, GrantStep
    <3>. QED  BY <1>9, <2>2, <2>4, <3>3, <3>4, <3>5
  <2>6. CASE result = Pending /\ SetEnd(h, c, NewEnd("pending", m.psm, m.scid))
    <3>1. PICK e : e = NewEnd("pending", m.psm, m.scid)
      OBVIOUS
    <3>2. /\ e.state = "pending" /\ e.psm = m.psm /\ e.hostCid = m.scid
          /\ ~e.reqSent /\ ~e.rspSent /\ ~e.rspGot
      BY <3>1 DEF NewEnd
    <3>3. EndBecomes(P, c, e, P2) /\ \A j \in Handle : j # h => peer'[j] = peer[j]
      BY <1>6, <2>6, <3>1
    <3>4. /\ n.type = "ConnRsp" /\ n.scid = m.scid /\ n.dcid = c /\ n.arg = Pending
          /\ R2 = R \cup {n} /\ P[c].state = "closed"
      BY <2>1, <2>2, <2>4, <2>6 DEF Pending, Refused
    <3>5. Protocol(R2, O2, K, P2, L) /\ \A a \in R : RxBefore(a, n)
      BY <1>3, <2>3, <3>2, <3>3, <3>4, DelayStep
    <3>. QED  BY <1>9, <2>2, <2>4, <3>3, <3>4, <3>5
  <2>7. CASE result = Refused /\ UNCHANGED peer
    <3>1. /\ n.type = "ConnRsp" /\ n.scid = m.scid /\ n.arg = Refused
          /\ R2 = R \cup {n} /\ P2 = P
      BY <1>2, <2>1, <2>4, <2>7
    <3>2. Protocol(R2, O2, K, P2, L) /\ \A a \in R : RxBefore(a, n)
      BY <1>3, <2>3, <3>1, DeclineStep
    <3>. QED  BY <1>9, <2>2, <2>4, <2>7, <3>1, <3>2
  <2>. QED  BY <1>0, <1>10, <2>5, <2>6, <2>7 DEF PeerOnConnReq
<1>11. CASE PeerOnConnRsp(h)
  <2>1. PeerReceives(h, "ConnRsp") /\ UNCHANGED rx
    BY <1>11 DEF PeerOnConnRsp
  <2>2. m.type = "ConnRsp" /\ TakesOut(O, m, O2) /\ m.dcid \in Cid
    BY <1>4, <2>1
  <2>3. PICK c : c = m.scid
    OBVIOUS
  <2>4. CASE /\ EndAt(h, c).state = "waiting" /\ m.arg = Success
             /\ SetEnd(h, c, [EndAt(h, c) EXCEPT !.state = "config", !.hostCid = m.dcid])
    <3>1. PICK g \in End : g = EndAt(h, c) /\ g = P[c]
      BY <1>5, <2>4
    <3>2. PICK e : e = [g EXCEPT !.state = "config", !.hostCid = m.dcid]
      OBVIOUS
    <3>3. /\ e.state = "config" /\ e.psm = P[c].psm /\ e.hostCid = m.dcid
          /\ e.reqSent = P[c].reqSent /\ e.rspSent = P[c].rspSent /\ e.rspGot = P[c].rspGot
      BY <3>1, <3>2 DEF End, EndStates
    <3>4. EndBecomes(P, c, e, P2) /\ \A j \in Handle : j # h => peer'[j] = peer[j]
      BY <1>5, <1>6, <2>4, <3>1, <3>2
    <3>5. Protocol(R, O2, K, P2, L)
      BY <1>3, <2>2, <2>3, <2>4, <3>3, <3>4, AgreedStep
    <3>. QED  BY <1>7, <2>1, <3>4, <3>5
  <2>5. CASE /\ EndAt(h, c).state = "waiting" /\ m.arg = Refused
             /\ SetEnd(h, c, [EndAt(h, c) EXCEPT !.state = "closed"])
    <3>1. PICK g \in End : g = EndAt(h, c) /\ g = P[c]
      BY <1>5, <2>5
    <3>2. PICK e : e = [g EXCEPT !.state = "closed"]
      OBVIOUS
    <3>3. e.state = "closed"
      BY <3>1, <3>2 DEF End
    <3>4. EndBecomes(P, c, e, P2) /\ \A j \in Handle : j # h => peer'[j] = peer[j]
      BY <1>5, <1>6, <2>5, <3>1, <3>2
    <3>5. Protocol(R, O2, K, P2, L)
      BY <1>3, <2>2, <2>3, <2>5, <3>3, <3>4, RejectedStep
    <3>. QED  BY <1>7, <2>1, <3>4, <3>5
  <2>6. CASE UNCHANGED peer
    BY <1>8, <2>1, <2>6
  <2>. QED  BY <1>0, <1>11, <2>3, <2>4, <2>5, <2>6 DEF PeerOnConnRsp
<1>12. ASSUME NEW result \in ConfResults, PeerOnConfReq(h, result)
       PROVE  ProtocolOk'
  <2>1. PeerReceives(h, "ConfReq")
    BY <1>12 DEF PeerOnConfReq
  <2>2. m.type = "ConfReq" /\ TakesOut(O, m, O2)
    BY <1>4, <2>1
  <2>3. PICK c : c = m.dcid
    OBVIOUS
  <2>4. CASE /\ EndAt(h, c).state = "config"
             /\ Delivers(ConfRsp(h, EndAt(h, c).hostCid, result))
             /\ SetEnd(h, c, [EndAt(h, c) EXCEPT !.rspSent = TRUE, !.verdict = result])
    <3>1. PICK g \in End : g = EndAt(h, c) /\ g = P[c] /\ g.hostCid \in Cid
      BY <1>5, <2>4
    <3>2. PICK e, n, R2 : /\ e = [g EXCEPT !.rspSent = TRUE, !.verdict = result] 
                          /\ n = ConfRsp(h, g.hostCid, result)
                          /\ R2 = R \cup {n}
      OBVIOUS
    <3>3. /\ e.state = "config" /\ e.psm = P[c].psm /\ e.hostCid = P[c].hostCid
          /\ e.reqSent = P[c].reqSent /\ e.rspSent /\ e.rspGot = P[c].rspGot
      <4>1. g.state = "config"
        BY <2>4, <3>1
      <4>2. /\ e.state = g.state /\ e.psm = g.psm /\ e.hostCid = g.hostCid
            /\ e.reqSent = g.reqSent /\ e.rspSent = TRUE /\ e.rspGot = g.rspGot
        BY <3>2 DEF End, EndStates
      <4>. QED  BY <3>1, <4>1, <4>2
    <3>4. c \in PeerCid /\ EndBecomes(P, c, e, P2) /\ \A j \in Handle : j # h => peer'[j] = peer[j]
      BY <1>5, <1>6, <2>4, <3>1, <3>2
    <3>5. n \in Packet /\ n.handle = h /\ n.type = "ConfRsp" /\ n.scid = P[c].hostCid
      <4>0. result \in U16
        BY ConstantsAssumption, Numbers
      <4>1. n \in Packet
        BY <3>1, <3>2, <4>0, PacketType, Numbers
      <4>. QED  BY <3>1, <3>2, <4>1 DEF ConfRsp, Make
    <3>6. Delivers(n) /\ P[c].state = "config" /\ R2 = R \cup {n}
      BY <2>4, <3>1, <3>2
    <3>7. Protocol(R2, O2, K, P2, L) /\ \A a \in R : RxBefore(a, n)
      <4>1. n.type = "ConfRsp" /\ n.scid = P[c].hostCid
        BY <3>5
      <4>. QED  BY <1>3, <2>2, <2>3, <3>3, <3>4, <3>6, <4>1, AnswerStep
    <3>. QED  BY <1>9, <2>1, <3>4, <3>5, <3>6, <3>7
  <2>5. CASE UNCHANGED <<rx, peer>>
    BY <1>8, <2>1, <2>5
  <2>. QED  BY <1>0, <1>12, <2>3, <2>4, <2>5 DEF PeerOnConfReq
<1>13. CASE PeerOnConfRsp(h)
  <2>1. PeerReceives(h, "ConfRsp") /\ UNCHANGED rx
    BY <1>13 DEF PeerOnConfRsp
  <2>2. m.type = "ConfRsp" /\ TakesOut(O, m, O2)
    BY <1>4, <2>1
  <2>3. PICK c : c = m.scid
    OBVIOUS
  <2>4. CASE /\ EndAt(h, c).state = "config"
             /\ SetEnd(h, c, [EndAt(h, c) EXCEPT !.rspGot = TRUE])
    <3>1. PICK g \in End : g = EndAt(h, c) /\ g = P[c]
      BY <1>5, <2>4
    <3>2. PICK e : e = [g EXCEPT !.rspGot = TRUE]
      OBVIOUS
    <3>3. /\ e.state = "config" /\ e.psm = P[c].psm /\ e.hostCid = P[c].hostCid
          /\ e.reqSent = P[c].reqSent /\ e.rspSent = P[c].rspSent /\ e.rspGot
          /\ e.verdict = P[c].verdict
      <4>1. g.state = "config"
        BY <2>4, <3>1
      <4>2. /\ e.state = g.state /\ e.psm = g.psm /\ e.hostCid = g.hostCid
            /\ e.reqSent = g.reqSent /\ e.rspSent = g.rspSent /\ e.rspGot = TRUE
            /\ e.verdict = g.verdict
        BY <3>2 DEF End, EndStates
      <4>. QED  BY <3>1, <4>1, <4>2
    <3>4. c \in PeerCid /\ EndBecomes(P, c, e, P2) /\ \A j \in Handle : j # h => peer'[j] = peer[j]
      BY <1>5, <1>6, <2>4, <3>1, <3>2
    <3>5. Protocol(R, O2, K, P2, L)
      <4>1. P[c].state = "config"
        BY <2>4, <3>1
      <4>. QED  BY <1>3, <2>2, <2>3, <3>3, <3>4, <4>1, AnsweredStep
    <3>. QED  BY <1>7, <2>1, <3>4, <3>5
  <2>5. CASE UNCHANGED peer
    BY <1>8, <2>1, <2>5
  <2>. QED  BY <1>0, <1>13, <2>3, <2>4, <2>5 DEF PeerOnConfRsp
<1>14. ~PeerOnDiscReq(h)
  BY <1>4 DEF PeerOnDiscReq, SentOk
<1>15. CASE PeerOnDiscRsp(h)
  <2>1. PeerReceives(h, "DiscRsp") /\ UNCHANGED rx
    BY <1>15 DEF PeerOnDiscRsp
  <2>2. m.type = "DiscRsp" /\ TakesOut(O, m, O2)
    BY <1>4, <2>1
  <2>3. PICK c : c = m.scid
    OBVIOUS
  <2>4. CASE /\ EndAt(h, c).state = "closing"
             /\ SetEnd(h, c, [EndAt(h, c) EXCEPT !.state = "closed"])
    <3>1. PICK g \in End : g = EndAt(h, c) /\ g = P[c]
      BY <1>5, <2>4
    <3>2. PICK e : e = [g EXCEPT !.state = "closed"]
      OBVIOUS
    <3>3. e.state = "closed"
      BY <3>1, <3>2 DEF End
    <3>4. EndBecomes(P, c, e, P2) /\ \A j \in Handle : j # h => peer'[j] = peer[j]
      BY <1>5, <1>6, <2>4, <3>1, <3>2
    <3>5. Protocol(R, O2, K, P2, L)
      BY <1>3, <2>2, <2>3, <3>3, <3>4, ClosedStep
    <3>. QED  BY <1>7, <2>1, <3>4, <3>5
  <2>5. CASE UNCHANGED peer
    BY <1>8, <2>1, <2>5
  <2>. QED  BY <1>0, <1>15, <2>3, <2>4, <2>5 DEF PeerOnDiscRsp
<1>16. CASE PeerOnData(h)
  BY <1>8, <1>16 DEF PeerOnData
<1>. QED  BY <1>10, <1>11, <1>12, <1>13, <1>14, <1>15, <1>16 DEF PeerReply
--------------------------------------------------------------------------------
(* The controller.                                                           *)

\* A packet goes from the ring to the link of its board.
LEMMA TransmitProtocol ==
  ASSUME Before, Transmit
  PROVE  ProtocolOk'
<1>0. PICK m : m = Head(tx)
  OBVIOUS
<1>1. TypeOK /\ tx \in Seq(Packet) /\ \A g \in Handle : air[g] \in Seq(Packet)
  BY StateFacts DEF Before, CidInv
<1>2. UNCHANGED <<store, app, fault, rx, links, peer>>
  BY DEF Transmit
<1>3. /\ m \in Packets(tx) /\ m \in Packet /\ tx # <<>> /\ tx' = Tail(tx)
      /\ Packets(tx') \subseteq Packets(tx)
      /\ \A g \in Handle : g # m.handle => air'[g] = air[g]
      /\ \/ /\ air'[m.handle] = Append(air[m.handle], m)
            /\ Packets(air'[m.handle]) = Packets(air[m.handle]) \cup {m}
         \/ air' = air
  BY <1>0, <1>1, TransmitPackets
<1>4. m.handle \in Handle
  BY <1>3, PacketFacts
<1>5. ASSUME NEW g \in Handle
      PROVE  LinkAt(g)'
  <2>1. /\ FromBoard(g)' = FromBoard(g) /\ ChannelsOf(g)' = ChannelsOf(g)
        /\ peer'[g] = peer[g] /\ link'[g] = link[g]
    BY <1>2 DEF FromBoard, ChannelsOf, Channels, store, links
  <2>2. \A n \in ToBoard(g)' : n \in ToBoard(g)
    BY <1>3 DEF ToBoard
  <2>3. PICK R, O, O2, K, P, L :
          /\ R = FromBoard(g) /\ O = ToBoard(g) /\ O2 = ToBoard(g)' /\ K = ChannelsOf(g)
          /\ P = peer[g] /\ L = link[g]
    OBVIOUS
  <2>4. Protocol(R, O, K, P, L) /\ \A n \in O2 : n \in O
    BY <2>2, <2>3 DEF Before, ProtocolOk, LinksProtocol, LinkAt
  <2>5. Protocol(R, O2, K, P, L)
    BY <2>4, QuietStep
  <2>. QED  BY <2>1, <2>3, <2>5 DEF LinkAt
<1>6. /\ Along(AllowedRx, rx) /\ OutOk(tx) /\ Along(AllowedOut, tx)
      /\ \A g \in Handle : Along(AllowedOut, air[g])
  BY DEF Before, ProtocolOk, Orders, OutOk
<1>7. Along(AllowedOut, tx') /\ \A b \in Packets(tx') : <<m, b>> \in AllowedOut
  BY <1>0, <1>1, <1>3, <1>6, AlongTail
<1>8. ASSUME NEW g \in Handle
      PROVE  /\ Along(AllowedOut, air'[g])
             /\ \A a \in Packets(air'[g]) : a \in Packets(air[g]) \/ a = m
  <2>1. CASE air'[g] = air[g]
    BY <1>6, <2>1
  <2>2. CASE /\ g = m.handle /\ air'[g] = Append(air[g], m)
             /\ Packets(air'[g]) = Packets(air[g]) \cup {m}
    <3>1. \A a \in Packets(air[g]) : <<a, m>> \in AllowedOut
      BY <1>3, <1>6, Zenon DEF OutOk
    <3>2. Along(AllowedOut, Append(air[g], m))
      BY <1>1, <1>3, <1>6, <3>1, AlongAppend
    <3>. QED  BY <2>2, <3>2
  <2>. QED  BY <1>3, <2>1, <2>2
<1>9. \A g \in Handle : \A a \in Packets(air'[g]), b \in Packets(tx') : <<a, b>> \in AllowedOut
  <2>1. OutOk(tx) /\ Packets(tx') \subseteq Packets(tx)
    BY <1>3, <1>6
  <2>2. ASSUME NEW g \in Handle, NEW a \in Packets(air'[g]), NEW b \in Packets(tx')
        PROVE  <<a, b>> \in AllowedOut
    <3>1. a \in Packets(air[g]) \/ a = m
      BY <1>8, Zenon
    <3>2. CASE a \in Packets(air[g])
      BY <2>1, <3>2, Zenon DEF OutOk
    <3>3. CASE a = m
      BY <1>7, <3>3, Zenon
    <3>. QED  BY <3>1, <3>2, <3>3, Zenon
  <2>. QED  BY <2>2, Zenon
<1>10. Orders'
  <2>1. OutOk(tx)'
    BY <1>7, <1>9 DEF OutOk
  <2>. QED  BY <1>2, <1>6, <1>8, <2>1 DEF Orders
<1>11. Boarded' /\ Sound'
  BY <1>2 DEF Before, ProtocolOk, Boarded, Sound, store, app, fault, Channels
<1>. QED  BY <1>5, <1>10, <1>11 DEF ProtocolOk, LinksProtocol

\* What a step of the controller's on one link leaves to show.
LEMMA ControllerDone ==
  ASSUME Before, NEW h \in Handle, UNCHANGED host, LinkAt(h)',
         NEW n \in Packet, n.handle = h, Delivers(n), \A a \in FromBoard(h) : RxBefore(a, n),
         air'[h] \in {air[h], <<>>},
         \A g \in Handle : g # h => /\ link'[g] = link[g] /\ since'[g] = since[g]
                                    /\ peer'[g] = peer[g] /\ air'[g] = air[g]
  PROVE  ProtocolOk'
<1>1. UNCHANGED <<store, app, fault, tx>> /\ Channels' = Channels
  BY DEF host, out, store, Channels
<1>2. Along(AllowedRx, rx)' /\ \A g \in Handle : g # h => FromBoard(g)' = FromBoard(g)
  BY BoardDelivers
<1>3. ASSUME NEW g \in Handle, g # h
      PROVE  LinkAt(g)'
  <2>1. /\ FromBoard(g)' = FromBoard(g) /\ ToBoard(g)' = ToBoard(g) /\ ChannelsOf(g)' = ChannelsOf(g)
        /\ peer'[g] = peer[g] /\ link'[g] = link[g]
    BY <1>1, <1>2, <1>3 DEF ToBoard, ChannelsOf
  <2>2. LinkAt(g)
    BY DEF Before, ProtocolOk, LinksProtocol
  <2>. QED  BY <2>1, <2>2, KeptLink
<1>4. OutOk(tx) /\ \A g \in Handle : Along(AllowedOut, air[g])
  BY DEF Before, ProtocolOk, Orders
<1>5. ASSUME NEW g \in Handle
      PROVE  Along(AllowedOut, air'[g]) /\ Packets(air'[g]) \subseteq Packets(air[g])
  <2>1. CASE air'[g] = air[g]
    BY <1>4, <2>1
  <2>2. CASE air'[g] = <<>>
    BY <2>2, AlongEmpty DEF Packets
  <2>. QED  BY <2>1, <2>2
<1>6. OutOk(tx)'
  BY <1>1, <1>4, <1>5 DEF OutOk
<1>7. Orders'
  BY <1>2, <1>5, <1>6 DEF Orders
<1>8. Boarded' /\ Sound'
  BY <1>1 DEF Before, ProtocolOk, Boarded, Sound, app, fault
<1>. QED  BY <1>3, <1>7, <1>8 DEF ProtocolOk, LinksProtocol

\* A link goes down.
LEMMA DownProtocol ==
  ASSUME Before, NEW h \in Handle, LinkLoss(h)
  PROVE  ProtocolOk'
<1>1. TypeOK
  BY DEF Before, CidInv
<1>2. PICK n : n = DisconnectionComplete(h)
  OBVIOUS
<1>3. n \in Packet /\ n.handle = h /\ n.type = "DisconnectionComplete"
  <2>1. n \in Packet
    BY <1>2, PacketType, Numbers
  <2>. QED  BY <1>2, <2>1 DEF DisconnectionComplete, Make
<1>4. /\ Delivers(n) /\ UNCHANGED <<host, since, peer>>
      /\ link' = [link EXCEPT ![h] = "lost"] /\ air' = [air EXCEPT ![h] = <<>>]
  BY <1>2 DEF LinkLoss, LinkDown
<1>5. /\ link'[h] = "lost" /\ air'[h] = <<>>
      /\ \A g \in Handle : g # h => link'[g] = link[g] /\ air'[g] = air[g]
  BY <1>1, <1>4 DEF TypeOK
<1>6. \A a : RxBefore(a, n)
  BY <1>3 DEF RxBefore, Naming
<1>7. FromBoard(h)' = FromBoard(h) \cup {n}
  BY <1>3, <1>4, <1>6, BoardDelivers
<1>8. ChannelsOf(h)' = ChannelsOf(h) /\ \A m \in ToBoard(h)' : m \in ToBoard(h)
  BY <1>4, <1>5 DEF ChannelsOf, Channels, ToBoard, host, store, out, Packets
<1>9. PICK R, R2, O, O2, K, P, L :
        /\ R = FromBoard(h) /\ R2 = FromBoard(h)' /\ O = ToBoard(h) /\ O2 = ToBoard(h)'
        /\ K = ChannelsOf(h) /\ P = peer[h] /\ L = link[h]
  OBVIOUS
<1>10. Protocol(R, O, K, P, L) /\ R2 = R \cup {n} /\ \A m \in O2 : m \in O
  BY <1>7, <1>8, <1>9 DEF Before, ProtocolOk, LinksProtocol, LinkAt
<1>11. Protocol(R2, O2, K, P, "lost")
  BY <1>3, <1>10, QuietStep
<1>12. LinkAt(h)'
  BY <1>4, <1>5, <1>8, <1>9, <1>11 DEF LinkAt
<1>. QED  BY <1>3, <1>4, <1>5, <1>6, <1>12, ControllerDone

\* Before a link comes up nothing is on it.
LEMMA NothingUnderway ==
  ASSUME Before, NEW h \in Handle, link[h] = "none" \/ MayRelink(h)
  PROVE  FromBoard(h) = {} /\ ToBoard(h) = {}
<1>1. \A m \in Packets(rx) \cup Packets(tx) : m.handle # h
  <2>1. CASE link[h] = "none"
    BY <2>1 DEF Before, NamesOk, RxIssued, TxIssued
  <2>2. CASE MayRelink(h)
    BY <2>2 DEF MayRelink
  <2>. QED  BY <2>1, <2>2
<1>2. Packets(air[h]) = {}
  <2>1. ~Up(h)
    BY DEF MayRelink, Up
  <2>. QED  BY <2>1 DEF Before, NamesOk, LinksOk, Packets
<1>. QED  BY <1>1, <1>2 DEF FromBoard, ToBoard

\* A link comes up: nothing is on it, and no channel in the store is of it.
LEMMA UpProtocol ==
  ASSUME Before, NEW h \in Handle, NEW by \in {Ours, Theirs}, LinkUp(h, by)
  PROVE  ProtocolOk'
<1>1. TypeOK
  BY DEF Before, CidInv
<1>2. PICK n : n = ConnectionComplete(h, by)
  OBVIOUS
<1>3. n \in Packet /\ n.handle = h /\ n.type = "ConnectionComplete" /\ n.arg = by
  <2>1. n \in Packet
    BY <1>2, PacketType, Numbers
  <2>. QED  BY <1>2, <2>1 DEF ConnectionComplete, Make
<1>4. /\ UNCHANGED <<host, air>> /\ Delivers(n)
      /\ link' = [link EXCEPT ![h] = IF by = Ours THEN "ours" ELSE "theirs"]
      /\ since' = [since EXCEPT ![h] = g_localCid]
      /\ peer' = [peer EXCEPT ![h] = NoEnds]
      /\ link[h] = "none" \/ MayRelink(h)
  BY <1>2 DEF LinkUp
<1>5. /\ link'[h] = (IF by = Ours THEN "ours" ELSE "theirs")
      /\ since'[h] = g_localCid /\ peer'[h] = NoEnds
      /\ \A g \in Handle : g # h => link'[g] = link[g] /\ since'[g] = since[g] /\ peer'[g] = peer[g]
  BY <1>1, <1>4 DEF TypeOK
<1>6. FromBoard(h) = {} /\ ToBoard(h) = {}
  BY <1>4, NothingUnderway
<1>7. FromBoard(h)' = {n}
  BY <1>3, <1>4, <1>6, BoardDelivers
<1>8. ToBoard(h)' = {}
  BY <1>4, <1>6 DEF ToBoard, host, out
<1>9. ChannelsOf(h)' = {}
  <2>1. g_localCid \in Nat /\ \A k \in Channels : k.localCid < g_localCid /\ k.localCid \in Nat
    BY <1>1, StateFacts, ChannelsUnique, ChannelsFacts DEF Before
  <2>2. Channels' = Channels
    BY <1>4 DEF host, store, Channels
  <2>3. \A k \in Channels : ~(since'[h] <= k.localCid)
    BY <1>5, <2>1
  <2>. QED  BY <2>2, <2>3 DEF ChannelsOf
<1>10. Protocol({n}, {}, {}, NoEnds, link'[h])
  <2>1. \A m \in {n} : m.type = "ConnectionComplete" /\ (m.arg = Ours => link'[h] = "ours")
    BY <1>3, <1>5
  <2>. QED  BY <2>1, LinkUpStep
<1>11. LinkAt(h)'
  BY <1>5, <1>7, <1>8, <1>9, <1>10 DEF LinkAt
<1>. QED  BY <1>3, <1>4, <1>5, <1>6, <1>11, ControllerDone
--------------------------------------------------------------------------------
(* Every step.                                                               *)

LEMMA NextProtocol ==
  ASSUME "appDisconnect" \notin Moves, CidInv, NamesInv, ProtocolInv, [Next]_vars
  PROVE  ProtocolInv'
<1>. SUFFICES ASSUME ~wrapped' PROVE ProtocolOk'
  BY DEF ProtocolInv
<1>1. CASE Handlers
  <2>1. ~wrapped
    BY <1>1, HandlersStore
  <2>2. Before
    BY <2>1 DEF Before, NamesInv, ProtocolInv
  <2>. QED  BY <1>1, <2>2, HandlersProtocol
<1>2. CASE ~Handlers
  <2>1. UNCHANGED <<connections, g_localCid, wrapped>>
    BY <1>2, OthersKeepStore
  <2>2. Before
    BY <2>1 DEF Before, NamesInv, ProtocolInv
  <2>3. CASE Transmit
    BY <2>2, <2>3, TransmitProtocol
  <2>4. CASE ControllerDisconnects
    <3>1. tx # <<>> /\ Head(tx).type = "Disconnect"
      BY <2>4 DEF ControllerDisconnects
    <3>2. Head(tx) \in Packets(tx)
      BY <2>2, <3>1, StateFacts, PacketsTail DEF Before, CidInv
    <3>. QED  BY <2>2, <3>1, <3>2 DEF Before, NamesOk, TxIssued, SentOk
  <2>5. ASSUME NEW h \in Handle, NEW psm \in AppPsm, AppDisconnect(h, psm)
        PROVE  ProtocolOk'
    BY <2>5 DEF AppDisconnect, Moving
  <2>6. ASSUME NEW h \in Handle, NEW by \in {Ours, Theirs}, LinkUp(h, by)
        PROVE  ProtocolOk'
    BY <2>2, <2>6, UpProtocol
  <2>7. ASSUME NEW h \in Handle, LinkLoss(h)
        PROVE  ProtocolOk'
    BY <2>2, <2>7, DownProtocol
  <2>8. ASSUME NEW h \in Handle, NEW c \in PeerCid,
               \/ \E psm \in PeerPsm : PeerConnect(h, c, psm)
               \/ PeerDisconnect(h, c)
               \/ PeerData(h, c)
               \/ \E result \in Results : PeerDecides(h, c, result)
               \/ \E form \in Forms : PeerConfigure(h, c, form) \/ PeerReconfigure(h, c, form)
               \/ \E result \in ConfResults : PeerConcludes(h, c, result)
        PROVE  ProtocolOk'
    BY <2>2, <2>8, BoardsProtocol
  <2>9. ASSUME NEW h \in Handle, PeerReply(h)
        PROVE  ProtocolOk'
    BY <2>2, <2>9, RepliesProtocol
  <2>10. CASE UNCHANGED vars
    <3>1. UNCHANGED <<connections, boards, crashed, pastEnd, rx, tx, link, since, peer, air>>
      BY <2>10 DEF vars, store, app, fault, env, links, out
    <3>2. \A h \in Handle : LinkAt(h)'
      <4>1. ASSUME NEW h \in Handle
            PROVE  LinkAt(h)'
        <5>1. /\ FromBoard(h)' = FromBoard(h) /\ ToBoard(h)' = ToBoard(h)
              /\ ChannelsOf(h)' = ChannelsOf(h) /\ peer'[h] = peer[h] /\ link'[h] = link[h]
          BY <3>1 DEF FromBoard, ToBoard, ChannelsOf, Channels
        <5>2. LinkAt(h)
          BY <2>2 DEF Before, ProtocolOk, LinksProtocol
        <5>. QED  BY <5>1, <5>2, KeptLink
      <4>. QED  BY <4>1
    <3>3. Orders' /\ Boarded' /\ Sound'
      BY <2>2, <3>1 DEF Before, ProtocolOk, Orders, OutOk, Boarded, Sound, Channels
    <3>. QED  BY <3>2, <3>3 DEF ProtocolOk, LinksProtocol
  <2>. QED  BY <1>2, <2>3, <2>4, <2>5, <2>6, <2>7, <2>8, <2>9, <2>10 DEF Next
<1>. QED  BY <1>1, <1>2

LEMMA InitProtocol == Init => ProtocolInv
<1>. SUFFICES ASSUME Init PROVE ProtocolOk
  BY DEF ProtocolInv
<1>1. /\ Packets(rx) = {} /\ Packets(tx) = {} /\ \A h \in Handle : Packets(air[h]) = {}
      /\ Channels = {}
  BY DEF Init, Packets, Channels
<1>2. ASSUME NEW h \in Handle
      PROVE  LinkAt(h)
  <2>1. FromBoard(h) = {} /\ ToBoard(h) = {} /\ ChannelsOf(h) = {} /\ peer[h] = NoEnds
    BY <1>1 DEF FromBoard, ToBoard, ChannelsOf, Init
  <2>2. Protocol({}, {}, {}, NoEnds, link[h])
    BY LinkUpStep
  <2>. QED  BY <2>1, <2>2 DEF LinkAt
<1>3. Orders
  <2>1. rx = <<>> /\ tx = <<>> /\ \A h \in Handle : air[h] = <<>>
    BY DEF Init
  <2>. QED  BY <1>1, <2>1, AlongEmpty DEF Orders, OutOk
<1>4. Boarded /\ Sound
  BY <1>1 DEF Init, Boarded, Sound
<1>. QED  BY <1>2, <1>3, <1>4 DEF ProtocolOk, LinksProtocol

\* No exception leaves loop() and no null pointer is written, for every number
\* of boards, whatever they ask for and answer and in whatever order it all
\* comes, with links that get lost and packets that do not fit in txBuffer:
\* connectedBoards.at and the unchecked use of findLocal's result in
\* handleL2ConfigurationResponse are right, for applications that do not close
\* channels and until g_localCid wraps around.  The boards are those of the model:
\* they send a report only once the interrupt channel is open for them, and of
\* signalling packets only rejects and those that the host has a handler for.
\* Between these it is the order in which a report and the packets that configure
\* its channel are handled that makes the host right, whatever the boards answer,
\* repeat, close or lose.
THEOREM NoUncaughtHolds ==
  ASSUME "appDisconnect" \notin Moves
  PROVE  Spec => [](~wrapped => NoUncaught)
<1>1. ProtocolInv => (~wrapped => NoUncaught)
  BY DEF ProtocolInv, ProtocolOk, Sound, NoUncaught
<1>2. CidInv /\ NamesInv /\ ProtocolInv /\ [Next]_vars => CidInv' /\ NamesInv' /\ ProtocolInv'
  BY NextCids, NextNames, NextProtocol
<1>. QED  BY <1>1, <1>2, InitCids, InitNames, InitProtocol, PTL DEF Spec

\* No handler uses the pointer of a lookup that missed, on the same terms: the
\* lookups of findLocal and findPsm whose result is dereferenced all succeed.
THEOREM NoPastEndHolds ==
  ASSUME "appDisconnect" \notin Moves
  PROVE  Spec => [](~wrapped => NoPastEnd)
<1>1. ProtocolInv => (~wrapped => NoPastEnd)
  BY DEF ProtocolInv, ProtocolOk, Sound, NoPastEnd
<1>2. CidInv /\ NamesInv /\ ProtocolInv /\ [Next]_vars => CidInv' /\ NamesInv' /\ ProtocolInv'
  BY NextCids, NextNames, NextProtocol
<1>. QED  BY <1>1, <1>2, InitCids, InitNames, InitProtocol, PTL DEF Spec

\* The two sides of a live link agree on every channel whose remote identifier
\* the host knows, on the same terms.
THEOREM CidAgreementHolds ==
  ASSUME "appDisconnect" \notin Moves
  PROVE  Spec => [](~wrapped => CidAgreement)
<1>1. CidInv /\ ProtocolInv => (~wrapped => CidAgreement)
  <2>. SUFFICES ASSUME CidInv, ProtocolOk, NEW c \in Channels, Present(c), c.remoteCid # 0
                PROVE  LET e == EndAt(c.handle, c.remoteCid) IN
                       e.psm = c.psm /\ (e.hostCid = c.localCid \/ e.state = "waiting")
    BY DEF ProtocolInv, CidAgreement
  <2>1. PICK h \in Handle : h = c.handle
    BY ChannelsFacts DEF CidInv, TypeOK
  <2>2. c \in ChannelsOf(h)
    BY <2>1, StateFacts, ChannelsFacts DEF ChannelsOf, Present, CidInv
  <2>3. ChannelsBound(FromBoard(h), ChannelsOf(h), peer[h])
    BY DEF ProtocolOk, LinksProtocol, LinkAt, Protocol
  <2>4. /\ c.remoteCid \in PeerCid /\ peer[h][c.remoteCid].psm = c.psm
        /\ peer[h][c.remoteCid].hostCid = c.localCid \/ peer[h][c.remoteCid].state = "waiting"
    BY <2>2, <2>3 DEF ChannelsBound
  <2>. QED  BY <2>1, <2>4 DEF EndAt
<1>2. CidInv /\ NamesInv /\ ProtocolInv /\ [Next]_vars => CidInv' /\ NamesInv' /\ ProtocolInv'
  BY NextCids, NextNames, NextProtocol
<1>. QED  BY <1>1, <1>2, InitCids, InitNames, InitProtocol, PTL DEF Spec
--------------------------------------------------------------------------------
(* What ChannelLifecycle promises.                                           *)

\* The step m of one channel: k becomes l, which is not a channel yet.
LEMMA ChannelBecomes ==
  ASSUME CidInv, ~wrapped, NEW k \in Channels, NEW l, l # k, l.localCid = k.localCid,
         Channels' = (Channels \ {k}) \cup {l}
  PROVE  l \in Lifecycle!New /\ Lifecycle!Becomes(k, l)
<1>1. l \notin Channels
  BY ChannelsUnique
<1>. QED  BY <1>1 DEF Lifecycle!New, Lifecycle!Becomes

\* Handling a packet that names a channel of the store, found at p.
LEMMA NamedStep ==
  ASSUME Before, NEW type \in Naming, Receives(type), NEW m, m = Head(rx)
  PROVE  /\ m \in Packet /\ m.type = type /\ m.handle \in Handle /\ LinkAt(m.handle)
         /\ UNCHANGED env
         /\ TakesRx(FromBoard(m.handle), m, FromBoard(m.handle)')
         /\ Known(ChannelsOf(m.handle), Name(m))
         /\ Local(m.handle, Name(m)) # {}
         /\ \A p \in Local(m.handle, Name(m)) :
              /\ p.to \in ChannelsOf(m.handle) /\ p.to \in Channels /\ p.to \in Connection
              /\ p.to.handle = m.handle /\ p.to.localCid = Name(m)
<1>1. Known(ChannelsOf(m.handle), Name(m))
  BY HostNames
<1>2. CidInv /\ ~wrapped
  BY DEF Before
<1>3. /\ m \in Packet /\ m.type = type /\ m.handle \in Handle /\ LinkAt(m.handle)
      /\ UNCHANGED env
      /\ TakesRx(FromBoard(m.handle), m, FromBoard(m.handle)')
  BY HostLink
<1>4. /\ Local(m.handle, Name(m)) # {}
      /\ \A p \in Local(m.handle, Name(m)) :
           p.to \in ChannelsOf(m.handle) /\ p.to \in Connection /\ p.to.localCid = Name(m)
  BY <1>1, <1>2, <1>3, NamedChannel
<1>. QED  BY <1>1, <1>3, <1>4 DEF ChannelsOf

\* A channel under way gets its other identifier once, and its flags after it.
LEMMA InTurn ==
  ASSUME NEW R, NEW O, NEW K, NEW P, NEW L, NEW m, NEW R2, Protocol(R, O, K, P, L),
         TakesRx(R, m, R2), NEW k \in K
  PROVE  /\ m.type = "ConnRsp" /\ m.scid = k.localCid => Fresh(k)
         /\ m.type = "ConnRsp" /\ m.arg = Success => m.dcid \in PeerCid
         /\ m.type = "ConfReq" /\ m.dcid = k.localCid => k.remoteCid # 0
         /\ m.type = "ConfRsp" /\ m.scid = k.localCid => k.remoteCid # 0
<1>1. m \in R /\ RxConnRsp(R, O, K, P) /\ RxConfReq(R, K, P) /\ RxConfRsp(R, K, P)
  BY DEF Protocol, TakesRx
<1>2. ASSUME m.type = "ConfReq", m.dcid = k.localCid
      PROVE  k.remoteCid # 0
  <2>1. PICK c \in PeerCid : k.remoteCid # 0 \/ Accepted(R, m.dcid, c)
    BY <1>1, <1>2 DEF RxConfReq
  <2>2. ~Accepted(R, m.dcid, c)
    <3>1. ASSUME NEW n \in R, n.type = "ConnRsp", n.scid = m.dcid
          PROVE  FALSE
      <4>1. n \in R2
        BY <1>2, <3>1 DEF TakesRx
      <4>2. RxBefore(m, n)
        BY <4>1 DEF TakesRx
      <4>. QED  BY <1>2, <3>1, <4>2 DEF RxBefore, Naming, Name
    <3>. QED  BY <3>1 DEF Accepted
  <2>. QED  BY <2>1, <2>2
<1>. QED  BY <1>1, <1>2 DEF RxConnRsp, RxConfRsp

\* The counter starts at FirstCid.
Counted == ~wrapped => FirstCid <= g_localCid

\* Channels begin with identifiers that were not used.
LEMMA LinkLifecycle ==
  ASSUME Before, Counted, ~wrapped', HandleHCIConnectionComplete
  PROVE  Lifecycle!Begin \/ UNCHANGED <<connections, g_localCid, boards>>
<1>0. PICK m, h : m = Head(rx) /\ h = m.handle
  OBVIOUS
<1>1. /\ TypeOK /\ UNCHANGED boards /\ g_localCid \in Nat /\ FirstCid \in Nat
      /\ FirstCid <= g_localCid
  BY StateFacts, ConstantsAssumption, MaxType
     DEF Before, CidInv, HandleHCIConnectionComplete, app, Cid, U16, Counted
<1>2. h \in Handle
  BY <1>0, HostLink DEF HandleHCIConnectionComplete
<1>3. CASE UNCHANGED store
  BY <1>1, <1>3 DEF store
<1>4. CASE /\ connections' = Emplace(Emplace(connections, NewConnection(h, g_localCid, HidControl, 0)),
                                     NewConnection(h, AfterCid(1), HidInterrupt, 0))
           /\ TakeCids(2)
  <2>1. PICK k, l : /\ k = NewConnection(h, g_localCid, HidControl, 0)
                    /\ l = NewConnection(h, g_localCid + 1, HidInterrupt, 0)
    OBVIOUS
  <2>2. g_localCid' = g_localCid + 2 /\ Channels' = Channels \cup {k, l}
    BY <1>1, <1>2, <1>4, <2>1, LinkChannels
  <2>3. /\ k.localCid = g_localCid /\ ~k.localConfigured /\ ~k.remoteConfigured
        /\ l.localCid = g_localCid + 1 /\ ~l.localConfigured /\ ~l.remoteConfigured
    BY <2>1 DEF NewConnection
  <2>4. /\ FirstCid .. g_localCid - 1 \subseteq FirstCid .. g_localCid' - 1
        /\ g_localCid \in (FirstCid .. g_localCid' - 1) \ (FirstCid .. g_localCid - 1)
        /\ g_localCid + 1 \in (FirstCid .. g_localCid' - 1) \ (FirstCid .. g_localCid - 1)
        /\ g_localCid # g_localCid + 1
    BY <1>1, <2>2
  <2>5. \A c \in Channels' \ Channels : c = k \/ c = l
    BY <2>2
  <2>. QED  BY <1>1, <2>2, <2>3, <2>4, <2>5 DEF Lifecycle!Begin, Lifecycle!New
<1>. QED  BY <1>0, <1>3, <1>4 DEF HandleHCIConnectionComplete, NewConnection

LEMMA RequestLifecycle ==
  ASSUME Before, Counted, ~wrapped', HandleL2ConnectionRequest
  PROVE  Lifecycle!Begin
<1>0. PICK m, h : m = Head(rx) /\ h = m.handle
  OBVIOUS
<1>1. /\ TypeOK /\ UNCHANGED boards /\ g_localCid \in Nat /\ FirstCid \in Nat
      /\ FirstCid <= g_localCid /\ g_localCid \in Cid
  BY StateFacts, ConstantsAssumption, MaxType
     DEF Before, CidInv, HandleL2ConnectionRequest, app, Cid, U16, Counted, TypeOK
<1>2. h \in Handle /\ m \in Packet /\ m.psm \in Psm /\ m.scid \in Cid
  BY <1>0, HostLink DEF HandleL2ConnectionRequest
<1>3. g_localCid' = g_localCid + 1
  <2>1. 1 \in 1 .. 2 /\ TakeCids(1)
    BY DEF HandleL2ConnectionRequest
  <2>. QED  BY <1>1, <2>1, TakenCids
<1>4. /\ FirstCid .. g_localCid - 1 \subseteq FirstCid .. g_localCid' - 1
      /\ g_localCid \in (FirstCid .. g_localCid' - 1) \ (FirstCid .. g_localCid - 1)
  BY <1>1, <1>3
<1>5. CASE connections' = Emplace(connections, NewConnection(h, g_localCid, m.psm, m.scid))
  <2>1. PICK k : k = NewConnection(h, g_localCid, m.psm, m.scid)
    OBVIOUS
  <2>2. k.localCid = g_localCid /\ ~k.localConfigured /\ ~k.remoteConfigured
    BY <2>1 DEF NewConnection
  <2>3. Channels' = Channels \cup {k}
    <3>1. k \in Connection
      BY <1>1, <1>2, <2>1, NewConnectionType
    <3>. QED  BY <1>1, <1>5, <2>1, <3>1, RequestChannels
  <2>4. \A c \in Channels' \ Channels : c = k
    BY <2>3
  <2>. QED  BY <1>1, <1>4, <2>2, <2>3, <2>4 DEF Lifecycle!Begin, Lifecycle!New
<1>6. CASE UNCHANGED connections
  <2>1. Channels' = Channels
    BY <1>6 DEF Channels
  <2>. QED  BY <1>1, <1>4, <2>1 DEF Lifecycle!Begin, Lifecycle!New
<1>. QED  BY <1>0, <1>5, <1>6 DEF HandleL2ConnectionRequest

\* The board's answer.
LEMMA ResponseLifecycle ==
  ASSUME Before, ~wrapped', HandleL2ConnectionResponse
  PROVE  /\ UNCHANGED app
         /\ \/ UNCHANGED <<connections, g_localCid>>
            \/ \E k \in Channels :
                 /\ k \in Connection /\ Fresh(k)
                 /\ Lifecycle!End(k) \/ \E l \in Lifecycle!New : Lifecycle!Answer(k, l.remoteCid)
<1>0. PICK m, h : m = Head(rx) /\ h = m.handle
  OBVIOUS
<1>1. /\ Receives("ConnRsp") /\ UNCHANGED <<g_localCid, boards>> /\ CidInv /\ ~wrapped
      /\ UNCHANGED app
  BY DEF HandleL2ConnectionResponse, app, Before
<1>2. /\ m \in Packet /\ m.type = "ConnRsp" /\ h \in Handle /\ LinkAt(h)
      /\ TakesRx(FromBoard(h), m, FromBoard(h)')
      /\ Known(ChannelsOf(h), m.scid) /\ UNCHANGED env
      /\ Local(h, m.scid) # {}
      /\ \A p \in Local(h, m.scid) :
           /\ p.to \in ChannelsOf(h) /\ p.to \in Channels /\ p.to \in Connection
           /\ p.to.handle = h /\ p.to.localCid = m.scid
  <2>1. /\ m \in Packet /\ m.type = "ConnRsp" /\ h \in Handle /\ LinkAt(h) /\ UNCHANGED env
        /\ TakesRx(FromBoard(h), m, FromBoard(h)')
        /\ Known(ChannelsOf(h), Name(m))
        /\ Local(h, Name(m)) # {}
        /\ \A p \in Local(h, Name(m)) :
             /\ p.to \in ChannelsOf(h) /\ p.to \in Channels /\ p.to \in Connection
             /\ p.to.handle = h /\ p.to.localCid = Name(m)
    <3>1. "ConnRsp" \in Naming
      BY DEF Naming
    <3>. QED  BY <1>0, <1>1, <3>1, NamedStep
  <2>2. Name(m) = m.scid
    BY <2>1 DEF Name
  <2>. QED  BY <2>1, <2>2
<1>3. PICK p \in Local(h, m.scid) :
        \/ /\ m.arg = Success
           /\ connections' = Assign(connections, p, [p.to EXCEPT !.remoteCid = m.dcid])
        \/ connections' = Remove(connections, p)
        \/ UNCHANGED connections
  BY <1>0, <1>2 DEF HandleL2ConnectionResponse, IsNull
<1>4. PICK k \in Connection : k = p.to /\ k \in ChannelsOf(h) /\ k \in Channels
                              /\ k.handle = h /\ k.localCid = m.scid
  BY <1>2, <1>3
<1>5. Fresh(k) /\ (m.arg = Success => m.dcid \in PeerCid)
  <2>1. PICK R, R2, O, K, P, L :
          /\ R = FromBoard(h) /\ R2 = FromBoard(h)' /\ O = ToBoard(h)
          /\ K = ChannelsOf(h) /\ P = peer[h] /\ L = link[h]
    OBVIOUS
  <2>2. Protocol(R, O, K, P, L) /\ TakesRx(R, m, R2) /\ k \in K
    BY <1>2, <1>4, <2>1 DEF LinkAt
  <2>. QED  BY <1>2, <1>4, <2>2, InTurn
<1>6. CASE m.arg = Success /\ connections' = Assign(connections, p, [p.to EXCEPT !.remoteCid = m.dcid])
  <2>1. k.remoteCid = 0 /\ m.dcid # 0 /\ m.dcid \in Cid
    BY <1>5, <1>6, ZeroEnd, ConstantsAssumption DEF Fresh
  <2>2. PICK l : l = [k EXCEPT !.remoteCid = m.dcid]
    OBVIOUS
  <2>3. l \in Connection /\ l.handle = h /\ l.localCid = k.localCid /\ l.remoteCid = m.dcid
    BY <1>4, <2>1, <2>2, ChannelUpdates
  <2>4. Channels' = (Channels \ {k}) \cup {l}
    <3>1. connections' = Assign(connections, p, l)
      BY <1>4, <1>6, <2>2
    <3>. QED  BY <1>1, <1>2, <1>4, <2>3, <3>1, ChangedChannel
  <2>5. l \in Lifecycle!New /\ Lifecycle!Becomes(k, l)
    BY <1>1, <1>4, <2>1, <2>3, <2>4, ChannelBecomes
  <2>6. Lifecycle!Answer(k, l.remoteCid)
    BY <1>1, <2>1, <2>2, <2>3, <2>5 DEF Lifecycle!Answer
  <2>. QED  BY <1>1, <1>4, <1>5, <2>5, <2>6
<1>7. CASE connections' = Remove(connections, p)
  <2>1. Channels' = Channels \ {k}
    BY <1>1, <1>2, <1>3, <1>4, <1>7, RemovedChannel
  <2>2. Lifecycle!End(k)
    BY <1>1, <2>1 DEF Lifecycle!End
  <2>. QED  BY <1>1, <1>4, <1>5, <2>2
<1>. QED  BY <1>1, <1>3, <1>6, <1>7

\* A direction of the channel k of h is configured, which is l then: k itself
\* when the board repeats what configured it.
Configures(h, k, l) ==
  /\ Head(rx).type \in {"ConfReq", "ConfRsp"} /\ Name(Head(rx)) = k.localCid
  /\ k \in ChannelsOf(h) /\ k \in Channels /\ k \in Connection /\ k.handle = h
  /\ l \in {[k EXCEPT !.localConfigured = TRUE], [k EXCEPT !.remoteConfigured = TRUE]}
  /\ l.handle = h /\ l.localCid = k.localCid /\ l.psm = k.psm /\ l.remoteCid = k.remoteCid
  /\ k.remoteCid # 0
  /\ Channels' = (Channels \ {k}) \cup {l} /\ UNCHANGED g_localCid
  /\ l.remoteConfigured /\ ~k.remoteConfigured /\ ~dropped' =>
       ConfRsp(h, k.remoteCid, Success) \in Packets(tx')
  /\ IF l.localConfigured /\ l.remoteConfigured /\ l.psm = HidInterrupt
       THEN /\ boards' = boards \cup {h}
            /\ greeted' = [greeted EXCEPT ![h] = @ + 1]
       ELSE UNCHANGED app

LEMMA ConfiguresLifecycle ==
  ASSUME CidInv, ~wrapped, Boarded, NEW h, NEW k, NEW l, Configures(h, k, l)
  PROVE  Lifecycle!Next \/ UNCHANGED <<Channels, g_localCid, boards>>
<1>0. CASE l = k
  <2>1. Channels' = Channels /\ UNCHANGED g_localCid /\ k \in Channels /\ k.handle = h
    BY <1>0 DEF Configures
  <2>2. CASE k.localConfigured /\ k.remoteConfigured /\ k.psm = HidInterrupt
    <3>1. boards' = boards \cup {h}
      BY <1>0, <2>2 DEF Configures
    <3>2. h \in boards
      BY <2>1, <2>2 DEF Boarded
    <3>. QED  BY <2>1, <3>1, <3>2
  <2>3. CASE ~(k.localConfigured /\ k.remoteConfigured /\ k.psm = HidInterrupt)
    BY <1>0, <2>1, <2>3 DEF Configures, app
  <2>. QED  BY <2>2, <2>3
<1>1. CASE l # k
  <2>1. l \in Lifecycle!New /\ Lifecycle!Becomes(k, l)
    BY <1>1, ChannelBecomes DEF Configures
  <2>2. boards' = IF (l.localConfigured /\ l.remoteConfigured) /\ l.psm = HidInterrupt
                    THEN boards \cup {l.handle} ELSE boards
    BY DEF Configures, app
  <2>3. Lifecycle!Configure(k, l)
    BY <2>1, <2>2 DEF Configures, Lifecycle!Configure, Lifecycle!Configured
  <2>4. k \in Channels
    BY DEF Configures
  <2>. QED  BY <2>1, <2>3, <2>4 DEF Lifecycle!Next
<1>. QED  BY <1>0, <1>1

\* The listener on ACLConnectionEstablished puts its packet behind the others.
LEMMA EstablishedKeeps ==
  ASSUME TypeOK, NEW h \in Handle, NEW psm \in Psm, NEW p, NEW q \in Seq(Packet), NEW n \in Nat,
         Established(h, psm, p, q, n)
  PROVE  /\ Packets(q) \subseteq Packets(tx') /\ (dropped => dropped')
         /\ ~dropped' => Len(q) >= Len(tx) + n
         /\ IF psm = HidInterrupt
              THEN /\ boards' = boards \cup {h}
                   /\ greeted' = [greeted EXCEPT ![h] = @ + 1]
              ELSE UNCHANGED app
<1>1. Len(q) \in Nat /\ Len(tx) \in Nat
  BY StateFacts
<1>2. ASSUME Sends(q, n)
      PROVE  Packets(q) \subseteq Packets(tx') /\ (dropped => dropped') /\ (~dropped' => Len(q) >= Len(tx) + n)
  <2>1. tx' = q /\ (dropped' <=> dropped \/ Len(q) < Len(tx) + n)
    BY <1>2, Zenon DEF Sends
  <2>. QED  BY <1>1, <2>1
<1>3. ASSUME NEW d \in L2Data(h, HidInterrupt), Sends(Enqueue(q, d.packet), n + 1)
      PROVE  /\ Packets(q) \subseteq Packets(tx') /\ (dropped => dropped')
             /\ ~dropped' => Len(q) >= Len(tx) + n
  <2>1. d.packet \in Packet
    BY L2DataType, Numbers DEF Psm, TypeOK
  <2>2. PICK e : e = Enqueue(q, d.packet)
    OBVIOUS
  <2>3. Packets(q) \subseteq Packets(e) /\ (Len(e) = Len(q) + 1 \/ e = q)
    BY <2>1, <2>2, PacketsEnqueue
  <2>4. tx' = e /\ (dropped' <=> dropped \/ Len(e) < Len(tx) + (n + 1))
    BY <1>3, <2>2, Zenon DEF Sends
  <2>. QED  BY <1>1, <2>3, <2>4
<1>. QED  BY <1>2, <1>3 DEF Established

LEMMA ConfReqLifecycle ==
  ASSUME Before, ~wrapped', HandleL2ConfigurationRequest
  PROVE  /\ Packets(tx) \subseteq Packets(tx') /\ (dropped => dropped')
         /\ \/ UNCHANGED <<connections, g_localCid, app>>
            \/ \E h, k, l : h = Head(rx).handle /\ Configures(h, k, l)
<1>0. PICK m, h : m = Head(rx) /\ h = m.handle
  OBVIOUS
<1>1. /\ Receives("ConfReq") /\ UNCHANGED g_localCid /\ CidInv /\ TypeOK /\ ~wrapped
  BY DEF HandleL2ConfigurationRequest, Before, CidInv
<1>2. /\ m \in Packet /\ m.type = "ConfReq" /\ h \in Handle /\ LinkAt(h)
      /\ TakesRx(FromBoard(h), m, FromBoard(h)')
      /\ Known(ChannelsOf(h), m.dcid) /\ UNCHANGED env
      /\ \A p \in Local(h, m.dcid) :
           /\ p.to \in ChannelsOf(h) /\ p.to \in Channels /\ p.to \in Connection
           /\ p.to.handle = h /\ p.to.localCid = m.dcid
  <2>1. /\ m \in Packet /\ m.type = "ConfReq" /\ h \in Handle /\ LinkAt(h) /\ UNCHANGED env
        /\ TakesRx(FromBoard(h), m, FromBoard(h)')
        /\ Known(ChannelsOf(h), Name(m))
        /\ \A p \in Local(h, Name(m)) :
             /\ p.to \in ChannelsOf(h) /\ p.to \in Channels /\ p.to \in Connection
             /\ p.to.handle = h /\ p.to.localCid = Name(m)
    <3>1. "ConfReq" \in Naming
      BY DEF Naming
    <3>. QED  BY <1>0, <1>1, <3>1, NamedStep
  <2>2. Name(m) = m.dcid
    BY <2>1 DEF Name
  <2>. QED  BY <2>1, <2>2
<1>3. CASE UNCHANGED <<connections, out, app>>
  BY <1>1, <1>3 DEF out
<1>4. ASSUME NEW p \in Local(h, m.dcid),
             connections' = Assign(connections, p, [p.to EXCEPT !.remoteConfigured = TRUE]),
             LET q == Enqueue(tx, ConfRsp(h, p.to.remoteCid, Success)) IN
             IF p.to.localConfigured
               THEN Established(h, p.to.psm, p, q, 1)
               ELSE Sends(q, 1) /\ UNCHANGED app
      PROVE  /\ Packets(tx) \subseteq Packets(tx') /\ (dropped => dropped')
             /\ \E k, l : Configures(h, k, l)
  <2>1. PICK k \in Connection : k = p.to /\ k \in ChannelsOf(h) /\ k \in Channels
                                /\ k.handle = h /\ k.localCid = m.dcid
    BY <1>2, <1>4
  <2>2. k.remoteCid # 0 /\ k.remoteCid \in Cid /\ k.psm \in Psm
    <3>1. PICK R, R2, O, K, P, L :
            /\ R = FromBoard(h) /\ R2 = FromBoard(h)' /\ O = ToBoard(h)
            /\ K = ChannelsOf(h) /\ P = peer[h] /\ L = link[h]
      OBVIOUS
    <3>2. Protocol(R, O, K, P, L) /\ TakesRx(R, m, R2) /\ k \in K
      BY <1>2, <2>1, <3>1 DEF LinkAt
    <3>. QED  BY <1>2, <2>1, <3>2, InTurn DEF Connection
  <2>3. PICK l : l = [k EXCEPT !.remoteConfigured = TRUE]
    OBVIOUS
  <2>4. /\ l \in Connection /\ l.handle = h /\ l.localCid = k.localCid /\ l.psm = k.psm
        /\ l.localConfigured = k.localConfigured /\ l.remoteConfigured /\ l.remoteCid = k.remoteCid
    BY <2>1, <2>2, <2>3, ChannelUpdates
  <2>5. Channels' = (Channels \ {k}) \cup {l}
    <3>1. connections' = Assign(connections, p, l)
      BY <1>4, <2>1, <2>3
    <3>. QED  BY <1>1, <1>2, <2>1, <2>4, <3>1, ChangedChannel
  <2>6. PICK a, q : a = ConfRsp(h, k.remoteCid, Success)
                       /\ q = Enqueue(tx, a)
    OBVIOUS
  <2>7. /\ q \in Seq(Packet) /\ Packets(tx) \subseteq Packets(q) /\ Len(tx) \in Nat
        /\ (Len(q) = Len(tx) + 1 /\ a \in Packets(q)) \/ q = tx
    <3>1. a \in Packet /\ tx \in Seq(Packet)
      BY <1>1, <1>2, <2>2, <2>6, StateFacts, PacketType, Numbers
    <3>2. Len(tx) \in Nat
      BY <3>1
    <3>. QED  BY <2>6, <3>1, <3>2, PacketsEnqueue
  <2>8. /\ Packets(q) \subseteq Packets(tx') /\ (dropped => dropped')
        /\ ~dropped' => Len(q) >= Len(tx) + 1
        /\ IF k.localConfigured /\ k.psm = HidInterrupt
             THEN /\ boards' = boards \cup {h}
                  /\ greeted' = [greeted EXCEPT ![h] = @ + 1]
             ELSE UNCHANGED app
    <3>1. CASE k.localConfigured
      <4>1. Established(h, k.psm, p, q, 1) /\ 1 \in Nat
        BY <1>4, <2>1, <2>6, <3>1
      <4>. QED  BY <1>1, <1>2, <2>2, <2>7, <3>1, <4>1, EstablishedKeeps
    <3>2. CASE ~k.localConfigured
      <4>1. Sends(q, 1) /\ UNCHANGED app /\ Len(q) \in Nat
        BY <1>4, <2>1, <2>6, <2>7, <3>2
      <4>2. tx' = q /\ (dropped' <=> dropped \/ Len(q) < Len(tx) + 1)
        BY <4>1, Zenon DEF Sends
      <4>. QED  BY <2>7, <3>2, <4>1, <4>2
    <3>. QED  BY <3>1, <3>2
  <2>9. ~dropped' => a \in Packets(tx')
    BY <2>7, <2>8
  <2>10. m.type \in {"ConfReq", "ConfRsp"} /\ Name(m) = k.localCid
    BY <1>2, <2>1 DEF Name
  <2>11. Configures(h, k, l)
    BY <1>0, <1>1, <2>1, <2>2, <2>3, <2>4, <2>5, <2>6, <2>8, <2>9, <2>10 DEF Configures
  <2>. QED  BY <2>7, <2>8, <2>11
<1>. QED  BY <1>0, <1>3, <1>4 DEF HandleL2ConfigurationRequest

LEMMA ConfRspLifecycle ==
  ASSUME Before, ~wrapped', HandleL2ConfigurationResponse
  PROVE  /\ Packets(tx) \subseteq Packets(tx') /\ (dropped => dropped')
         /\ \E h, k, l : h = Head(rx).handle /\ Configures(h, k, l)
<1>0. PICK m, h : m = Head(rx) /\ h = m.handle
  OBVIOUS
<1>1. /\ Receives("ConfRsp") /\ UNCHANGED g_localCid /\ CidInv /\ TypeOK /\ ~wrapped
  BY DEF HandleL2ConfigurationResponse, Before, CidInv
<1>2. /\ m \in Packet /\ m.type = "ConfRsp" /\ h \in Handle /\ LinkAt(h)
      /\ TakesRx(FromBoard(h), m, FromBoard(h)')
      /\ Known(ChannelsOf(h), m.scid) /\ UNCHANGED env
      /\ Local(h, m.scid) # {}
      /\ \A p \in Local(h, m.scid) :
           /\ p.to \in ChannelsOf(h) /\ p.to \in Channels /\ p.to \in Connection
           /\ p.to.handle = h /\ p.to.localCid = m.scid
  <2>1. /\ m \in Packet /\ m.type = "ConfRsp" /\ h \in Handle /\ LinkAt(h) /\ UNCHANGED env
        /\ TakesRx(FromBoard(h), m, FromBoard(h)')
        /\ Known(ChannelsOf(h), Name(m))
        /\ Local(h, Name(m)) # {}
        /\ \A p \in Local(h, Name(m)) :
             /\ p.to \in ChannelsOf(h) /\ p.to \in Channels /\ p.to \in Connection
             /\ p.to.handle = h /\ p.to.localCid = Name(m)
    <3>1. "ConfRsp" \in Naming
      BY DEF Naming
    <3>. QED  BY <1>0, <1>1, <3>1, NamedStep
  <2>2. Name(m) = m.scid
    BY <2>1 DEF Name
  <2>. QED  BY <2>1, <2>2
<1>3. PICK p \in Local(h, m.scid) :
        /\ connections' = Assign(connections, p, [p.to EXCEPT !.localConfigured = TRUE])
        /\ IF p.to.remoteConfigured THEN Established(h, p.to.psm, p, tx, 0) ELSE UNCHANGED <<out, app>>
  BY <1>0, <1>2 DEF HandleL2ConfigurationResponse, IsNull
<1>4. PICK k \in Connection : k = p.to /\ k \in ChannelsOf(h) /\ k \in Channels
                              /\ k.handle = h /\ k.localCid = m.scid
  BY <1>2, <1>3
<1>5. k.remoteCid # 0 /\ k.remoteCid \in Cid /\ k.psm \in Psm
  <2>1. PICK R, R2, O, K, P, L :
          /\ R = FromBoard(h) /\ R2 = FromBoard(h)' /\ O = ToBoard(h)
          /\ K = ChannelsOf(h) /\ P = peer[h] /\ L = link[h]
    OBVIOUS
  <2>2. Protocol(R, O, K, P, L) /\ TakesRx(R, m, R2) /\ k \in K
    BY <1>2, <1>4, <2>1 DEF LinkAt
  <2>. QED  BY <1>2, <1>4, <2>2, InTurn DEF Connection
<1>6. PICK l : l = [k EXCEPT !.localConfigured = TRUE]
  OBVIOUS
<1>7. /\ l \in Connection /\ l.handle = h /\ l.localCid = k.localCid /\ l.psm = k.psm
      /\ l.localConfigured /\ l.remoteConfigured = k.remoteConfigured
      /\ l.remoteCid = k.remoteCid
  BY <1>4, <1>5, <1>6, ChannelUpdates
<1>8. Channels' = (Channels \ {k}) \cup {l}
  <2>1. connections' = Assign(connections, p, l)
    BY <1>3, <1>4, <1>6
  <2>. QED  BY <1>1, <1>2, <1>4, <1>7, <2>1, ChangedChannel
<1>9. /\ Packets(tx) \subseteq Packets(tx') /\ (dropped => dropped')
      /\ IF k.remoteConfigured /\ k.psm = HidInterrupt
           THEN /\ boards' = boards \cup {h}
                /\ greeted' = [greeted EXCEPT ![h] = @ + 1]
           ELSE UNCHANGED app
  <2>1. CASE k.remoteConfigured
    <3>1. Established(h, k.psm, p, tx, 0) /\ 0 \in Nat /\ tx \in Seq(Packet)
      BY <1>1, <1>3, <1>4, <2>1, StateFacts
    <3>. QED  BY <1>1, <1>2, <1>5, <2>1, <3>1, EstablishedKeeps
  <2>2. CASE ~k.remoteConfigured
    BY <1>3, <1>4, <2>2 DEF out
  <2>. QED  BY <2>1, <2>2
<1>10. m.type \in {"ConfReq", "ConfRsp"} /\ Name(m) = k.localCid
  BY <1>2, <1>4 DEF Name
<1>11. Configures(h, k, l)
  BY <1>0, <1>1, <1>4, <1>5, <1>6, <1>7, <1>8, <1>9, <1>10 DEF Configures
<1>. QED  BY <1>0, <1>9, <1>11

\* The board closes a channel.
LEMMA DiscReqLifecycle ==
  ASSUME Before, ~wrapped', HandleL2DisconnectRequest
  PROVE  /\ Lifecycle!Next \/ UNCHANGED <<connections, g_localCid, boards>>
         /\ Channels' \subseteq Channels
<1>0. PICK m, h : m = Head(rx) /\ h = m.handle
  OBVIOUS
<1>1. /\ Receives("DiscReq") /\ UNCHANGED <<g_localCid, boards>> /\ CidInv /\ ~wrapped
  BY DEF HandleL2DisconnectRequest, app, Before
<1>2. /\ h \in Handle /\ Known(ChannelsOf(h), m.dcid) /\ UNCHANGED env
      /\ \A p \in Local(h, m.dcid) : p.to \in Channels
  <2>1. /\ h \in Handle /\ m.type = "DiscReq" /\ Known(ChannelsOf(h), Name(m)) /\ UNCHANGED env
        /\ \A p \in Local(h, Name(m)) : p.to \in Channels
    <3>1. "DiscReq" \in Naming
      BY DEF Naming
    <3>. QED  BY <1>0, <1>1, <3>1, NamedStep
  <2>2. Name(m) = m.dcid
    BY <2>1 DEF Name
  <2>. QED  BY <2>1, <2>2
<1>3. CASE UNCHANGED connections
  BY <1>1, <1>3 DEF Channels
<1>4. ASSUME NEW p \in Local(h, m.dcid), connections' = Remove(connections, p)
      PROVE  Lifecycle!Next /\ Channels' \subseteq Channels
  <2>1. Channels' = Channels \ {p.to} /\ p.to \in Channels
    BY <1>1, <1>2, <1>4, RemovedChannel
  <2>2. Lifecycle!End(p.to)
    BY <1>1, <2>1 DEF Lifecycle!End
  <2>. QED  BY <2>1, <2>2 DEF Lifecycle!Next
<1>. QED  BY <1>0, <1>3, <1>4 DEF HandleL2DisconnectRequest

\* Every step is one of ChannelLifecycle, or changes nothing of it.
LEMMA NextLifecycle ==
  ASSUME "appDisconnect" \notin Moves, CidInv, NamesInv, ProtocolInv, Counted, [Next]_vars,
         ~wrapped'
  PROVE  Lifecycle!Next \/ UNCHANGED Lifecycle!vars
<1>1. CASE Handlers
  <2>1. Before
    <3>1. ~wrapped
      BY <1>1, HandlersStore
    <3>. QED  BY <3>1 DEF Before, NamesInv, ProtocolInv
  <2>2. ~HandleL2DisconnectResponse
    <3>. SUFFICES ASSUME HandleL2DisconnectResponse PROVE FALSE
      OBVIOUS
    <3>1. Head(rx) \in Packets(rx) /\ Head(rx).type = "DiscRsp"
      BY <2>1, ReceivesPackets DEF HandleL2DisconnectResponse, Before, CidInv
    <3>. QED  BY <2>1, <3>1 DEF Before, NamesOk, RxIssued
  <2>3. HandleHCIDisconnect \/ HandleACLData => UNCHANGED <<connections, g_localCid, boards>>
    BY DEF HandleHCIDisconnect, HandleACLData, store, app
  <2>4. HandleL2ConnectionResponse => Lifecycle!Next \/ UNCHANGED <<connections, g_localCid, boards>>
    BY <2>1, ResponseLifecycle DEF app, Lifecycle!Next
  <2>5. HandleL2ConfigurationRequest \/ HandleL2ConfigurationResponse =>
          Lifecycle!Next \/ UNCHANGED <<Channels, g_localCid, boards>>
    <3>1. CidInv /\ ~wrapped /\ Boarded
      BY <2>1 DEF Before, ProtocolOk
    <3>2. \A h, k, l : Configures(h, k, l) =>
            Lifecycle!Next \/ UNCHANGED <<Channels, g_localCid, boards>>
      BY <3>1, ConfiguresLifecycle
    <3>. QED  BY <2>1, <3>2, ConfReqLifecycle, ConfRspLifecycle DEF app, Channels
  <2>6. Lifecycle!Next \/ UNCHANGED <<Channels, g_localCid, boards>>
    <3>1. HandleHCIConnectionComplete \/ HandleL2ConnectionRequest \/ HandleL2DisconnectRequest =>
            Lifecycle!Next \/ UNCHANGED <<connections, g_localCid, boards>>
      BY <2>1, LinkLifecycle, RequestLifecycle, DiscReqLifecycle DEF Lifecycle!Next
    <3>. QED  BY <1>1, <2>2, <2>3, <2>4, <2>5, <3>1 DEF Handlers, Channels
  <2>. QED  BY <2>6 DEF Lifecycle!vars
<1>2. CASE ~Handlers
  <2>1. UNCHANGED <<connections, g_localCid, wrapped>>
    BY <1>2, OthersKeepStore
  <2>2. UNCHANGED boards
    <3>1. ASSUME NEW h \in Handle, PeerReply(h)
          PROVE  UNCHANGED boards
      BY <3>1 DEF PeerReply, PeerOnConnReq, PeerOnConnRsp, PeerOnConfReq, PeerOnConfRsp,
                  PeerOnDiscReq, PeerOnDiscRsp, PeerOnData, PeerReceives, host, app
    <3>. QED  BY <1>2, <3>1, Zenon
              DEF Next, vars, Transmit, ControllerDisconnects, AppDisconnect, LinkUp,
                     LinkLoss, PeerConnect, PeerDisconnect, PeerData, PeerDecides, PeerConfigure,
                     PeerReconfigure, PeerConcludes, host, app
  <2>. QED  BY <2>1, <2>2 DEF Lifecycle!vars, Channels
<1>. QED  BY <1>1, <1>2

LEMMA NextCounted ==
  ASSUME CidInv, Counted, [Next]_vars
  PROVE  Counted'
<1>. SUFFICES ASSUME ~wrapped' PROVE FirstCid <= g_localCid'
  BY DEF Counted
<1>1. g_localCid \in Nat /\ FirstCid \in Nat
  BY StateFacts, ConstantsAssumption, MaxType DEF CidInv, Cid, U16
<1>2. CASE Handlers
  <2>1. ~wrapped /\ g_localCid <= g_localCid' /\ g_localCid' \in Nat
    <3>1. TypeOK'
      BY NextType DEF CidInv
    <3>2. ~wrapped /\ g_localCid <= g_localCid'
      BY <1>2, HandlersStore DEF FromStore
    <3>3. g_localCid' \in Nat
      BY <3>1, MaxType DEF TypeOK, Cid, U16
    <3>. QED  BY <3>2, <3>3
  <2>. QED  BY <1>1, <2>1 DEF Counted
<1>3. CASE ~Handlers
  BY <1>3, OthersKeepStore DEF Counted
<1>. QED  BY <1>2, <1>3

\* The L2CAP layer keeps what ChannelLifecycle promises, on the same terms: a
\* channel begins with an identifier no channel had before, learns that of the
\* board once, is configured in each direction only after that, ends alone, and
\* its board is known to the application from the step on that completes its
\* interrupt channel (handleACLEvent and all it calls).
THEOREM LifecycleRefined ==
  ASSUME "appDisconnect" \notin Moves
  PROVE  Spec /\ [](~wrapped) => ImplementsLifecycle
<1>1. Init => Counted /\ Lifecycle!Init
  <2>. SUFFICES ASSUME Init PROVE Counted /\ Lifecycle!Init
    OBVIOUS
  <2>1. FirstCid \in Nat
    BY ConstantsAssumption, MaxType DEF Cid, U16
  <2>2. g_localCid = FirstCid /\ Channels = {} /\ boards = {}
    BY DEF Init, Channels
  <2>3. FirstCid .. g_localCid - 1 = {}
    BY <2>1, <2>2
  <2>. QED  BY <2>1, <2>2, <2>3 DEF Counted, Lifecycle!Init
<1>2. CidInv /\ NamesInv /\ ProtocolInv /\ Counted /\ [Next]_vars =>
        CidInv' /\ NamesInv' /\ ProtocolInv' /\ Counted'
  BY NextCids, NextNames, NextProtocol, NextCounted
<1>3. CidInv /\ NamesInv /\ ProtocolInv /\ Counted /\ [Next]_vars /\ ~wrapped' =>
        [Lifecycle!Next]_(Lifecycle!vars)
  BY NextLifecycle
<1>. QED  BY <1>1, <1>2, <1>3, InitCids, InitNames, InitProtocol, PTL
          DEF Spec, ImplementsLifecycle, Lifecycle!Spec
--------------------------------------------------------------------------------
(* What no handler takes back.                                               *)

\* Handlers only add to txBuffer, and a packet that was lost stays lost.
LEMMA SendsKeep ==
  ASSUME NEW q \in Seq(Packet), NEW a \in Packet, NEW n, Sends(Enqueue(q, a), n),
         Packets(tx) \subseteq Packets(q)
  PROVE  Packets(tx) \subseteq Packets(tx') /\ (dropped => dropped')
<1>1. Packets(q) \subseteq Packets(Enqueue(q, a))
  BY PacketsEnqueue
<1>. QED  BY <1>1 DEF Sends

LEMMA HandlersKeep ==
  ASSUME Before, ~wrapped', Handlers
  PROVE  UNCHANGED env /\ Packets(tx) \subseteq Packets(tx') /\ (dropped => dropped')
<1>0. PICK m, h : m = Head(rx) /\ h = m.handle
  OBVIOUS
<1>1. TypeOK /\ tx \in Seq(Packet) /\ g_localCid \in Cid /\ 0 \in Cid
  BY StateFacts, Numbers DEF Before, CidInv, TypeOK
<1>2. PICK type : Receives(type)
  BY DEF Handlers, HandleHCIConnectionComplete, HandleHCIDisconnect, HandleL2ConnectionRequest,
         HandleL2ConnectionResponse, HandleL2ConfigurationRequest, HandleL2ConfigurationResponse,
         HandleL2DisconnectRequest, HandleL2DisconnectResponse, HandleACLData
<1>3. m \in Packet /\ m \in Packets(rx) /\ m.type = type /\ UNCHANGED env
  BY <1>0, <1>1, <1>2, ReceivesPackets
<1>4. h \in Handle /\ m.scid \in Cid /\ m.dcid \in Cid
  BY <1>0, <1>3, PacketFacts
<1>5. CASE UNCHANGED out
  BY <1>3, <1>5 DEF out
<1>6. CASE HandleHCIConnectionComplete
  <2>1. CASE Sends(Enqueue3(tx, Auth(h), ConnReq(h, HidControl, g_localCid),
                            ConnReq(h, HidInterrupt, AfterCid(1))), 3)
    <3>1. AfterCid(1) \in Cid /\ 1 \in 1 .. 2
      BY <1>1, AfterCidType
    <3>2. PICK a, b, c : /\ a = Auth(h) /\ b = ConnReq(h, HidControl, g_localCid)
                         /\ c = ConnReq(h, HidInterrupt, AfterCid(1))
      OBVIOUS
    <3>3. a \in Packet /\ b \in Packet /\ c \in Packet
      BY <1>1, <1>4, <3>1, <3>2, PacketType, Numbers
    <3>4. PICK q, r : q = Enqueue(tx, a) /\ r = Enqueue(q, b)
      OBVIOUS
    <3>5. q \in Seq(Packet) /\ Packets(tx) \subseteq Packets(q)
      BY <1>1, <3>3, <3>4, PacketsEnqueue
    <3>6. r \in Seq(Packet) /\ Packets(tx) \subseteq Packets(r)
      BY <3>3, <3>4, <3>5, PacketsEnqueue
    <3>7. Sends(Enqueue(r, c), 3)
      BY <2>1, <3>2, <3>4 DEF Enqueue3, Enqueue2
    <3>. QED  BY <1>3, <3>3, <3>6, <3>7, SendsKeep
  <2>. QED  BY <1>0, <1>5, <1>6, <2>1 DEF HandleHCIConnectionComplete, NewConnection
<1>7. CASE HandleL2ConnectionRequest
  <2>1. CASE Sends(Enqueue2(tx, ConnRsp(h, g_localCid, m.scid, Success), ConfReq(h, m.scid, MtuOnly)), 2)
    <3>1. PICK a, b : a = ConnRsp(h, g_localCid, m.scid, Success) /\ b = ConfReq(h, m.scid, MtuOnly)
      OBVIOUS
    <3>2. a \in Packet /\ b \in Packet
      BY <1>1, <1>4, <3>1, PacketType, Numbers
    <3>3. PICK q : q = Enqueue(tx, a)
      OBVIOUS
    <3>4. q \in Seq(Packet) /\ Packets(tx) \subseteq Packets(q)
      BY <1>1, <3>2, <3>3, PacketsEnqueue
    <3>5. Sends(Enqueue(q, b), 2)
      BY <2>1, <3>1, <3>3 DEF Enqueue2
    <3>. QED  BY <1>3, <3>2, <3>4, <3>5, SendsKeep
  <2>2. CASE Sends(Enqueue(tx, ConnRsp(h, g_localCid, m.scid, Refused)), 1)
    <3>1. ConnRsp(h, g_localCid, m.scid, Refused) \in Packet
      BY <1>1, <1>4, PacketType, Numbers
    <3>. QED  BY <1>1, <1>3, <2>2, <3>1, SendsKeep
  <2>. QED  BY <1>0, <1>7, <2>1, <2>2 DEF HandleL2ConnectionRequest
<1>8. CASE HandleL2ConnectionResponse
  <2>1. CASE Sends(Enqueue(tx, ConfReq(h, m.dcid, MtuOnly)), 1)
    <3>1. ConfReq(h, m.dcid, MtuOnly) \in Packet
      BY <1>1, <1>4, PacketType, Numbers
    <3>. QED  BY <1>1, <1>3, <2>1, <3>1, SendsKeep
  <2>. QED  BY <1>0, <1>5, <1>8, <2>1 DEF HandleL2ConnectionResponse
<1>9. CASE HandleL2ConfigurationRequest \/ HandleL2ConfigurationResponse
  BY <1>3, <1>9, ConfReqLifecycle, ConfRspLifecycle
<1>10. CASE HandleL2DisconnectRequest
  <2>1. ASSUME NEW p \in Local(h, m.dcid),
               Sends(Enqueue(tx, DiscRsp(h, p.to.localCid, p.to.remoteCid)), 1)
        PROVE  Packets(tx) \subseteq Packets(tx') /\ (dropped => dropped')
    <3>1. p.to \in Connection
      BY <1>1, <2>1, FoundCid DEF Before
    <3>2. p.to.localCid \in Cid /\ p.to.remoteCid \in Cid
      BY <3>1 DEF Connection
    <3>3. DiscRsp(h, p.to.localCid, p.to.remoteCid) \in Packet
      BY <1>1, <1>4, <3>2, PacketType, Numbers
    <3>. QED  BY <1>1, <2>1, <3>3, SendsKeep
  <2>. QED  BY <1>0, <1>3, <1>5, <1>10, <2>1 DEF HandleL2DisconnectRequest
<1>11. CASE HandleL2DisconnectResponse
  <2>1. m.type = "DiscRsp"
    BY <1>0, <1>11 DEF HandleL2DisconnectResponse, Receives
  <2>. QED  BY <1>3, <2>1 DEF Before, NamesOk, RxIssued
<1>12. CASE HandleACLData
  <2>1. ASSUME NEW d \in L2Data(h, HidInterrupt), Sends(Enqueue(tx, d.packet), 1)
        PROVE  Packets(tx) \subseteq Packets(tx') /\ (dropped => dropped')
    <3>1. d.packet \in Packet
      BY <1>1, <1>4, <2>1, StateFacts, L2DataType, Numbers DEF Psm
    <3>. QED  BY <1>1, <2>1, <3>1, SendsKeep
  <2>. QED  BY <1>0, <1>3, <1>5, <1>12, <2>1 DEF HandleACLData
<1>13. CASE HandleHCIDisconnect
  BY <1>5, <1>13 DEF HandleHCIDisconnect
<1>. QED  BY <1>6, <1>7, <1>8, <1>9, <1>10, <1>11, <1>12, <1>13 DEF Handlers

\* A handler configures a direction of one channel, or none of any: then
\* what is configured stays so unless its board has asked for its end.
LEMMA HandlersChannels ==
  ASSUME Before, Counted, ~wrapped', Handlers
  PROVE  \/ \E h, k, l : h = Head(rx).handle /\ Configures(h, k, l)
         \/ /\ UNCHANGED app
            /\ \A l \in Channels' : l \in Channels \/ (~l.localConfigured /\ ~l.remoteConfigured)
            /\ \A k \in Channels : k.localConfigured /\ k.remoteConfigured =>
                 k \in Channels' \/ Head(rx).type = "DiscReq"
<1>1. CASE HandleHCIConnectionComplete \/ HandleL2ConnectionRequest
  <2>1. UNCHANGED app
    BY <1>1 DEF HandleHCIConnectionComplete, HandleL2ConnectionRequest
  <2>2. Lifecycle!Begin \/ Channels' = Channels
    BY <1>1, LinkLifecycle, RequestLifecycle DEF Channels
  <2>. QED  BY <2>1, <2>2 DEF Lifecycle!Begin, Lifecycle!New
<1>2. CASE HandleL2ConnectionResponse
  <2>1. UNCHANGED app
    BY <1>2, ResponseLifecycle
  <2>2. CASE UNCHANGED connections
    BY <2>1, <2>2 DEF Channels
  <2>3. ASSUME NEW k \in Channels, k \in Connection, Fresh(k),
               Lifecycle!End(k) \/ \E r : Lifecycle!Answer(k, r)
        PROVE  /\ \A l \in Channels' : l \in Channels \/ (~l.localConfigured /\ ~l.remoteConfigured)
               /\ \A j \in Channels : j.localConfigured /\ j.remoteConfigured => j \in Channels'
    <3>1. CASE Lifecycle!End(k)
      BY <2>3, <3>1 DEF Lifecycle!End, Fresh
    <3>2. ASSUME NEW r, Lifecycle!Answer(k, r)
          PROVE  /\ \A l \in Channels' : l \in Channels \/ (~l.localConfigured /\ ~l.remoteConfigured)
                 /\ \A j \in Channels : j.localConfigured /\ j.remoteConfigured => j \in Channels'
      <4>1. PICK l : l = [k EXCEPT !.remoteCid = r]
        OBVIOUS
      <4>2. ~l.localConfigured /\ ~l.remoteConfigured /\ ~k.localConfigured
        BY <2>3, <4>1 DEF Connection, Fresh
      <4>3. Channels' = (Channels \ {k}) \cup {l}
        BY <3>2, <4>1 DEF Lifecycle!Answer, Lifecycle!Becomes
      <4>. QED  BY <4>2, <4>3
    <3>. QED  BY <2>3, <3>1, <3>2
  <2>. QED  BY <1>2, <2>1, <2>2, <2>3, ResponseLifecycle
<1>3. CASE HandleL2ConfigurationRequest \/ HandleL2ConfigurationResponse
  BY <1>3, ConfReqLifecycle, ConfRspLifecycle DEF Channels
<1>4. CASE HandleL2DisconnectRequest
  <2>1. UNCHANGED app /\ Receives("DiscReq")
    BY <1>4 DEF HandleL2DisconnectRequest
  <2>2. Head(rx).type = "DiscReq"
    BY <2>1 DEF Receives
  <2>3. Channels' \subseteq Channels
    BY <1>4, DiscReqLifecycle
  <2>. QED  BY <2>1, <2>2, <2>3
<1>5. CASE HandleHCIDisconnect \/ HandleACLData
  BY <1>5 DEF HandleHCIDisconnect, HandleACLData, store, Channels
<1>6. ~HandleL2DisconnectResponse
  <2>. SUFFICES ASSUME HandleL2DisconnectResponse PROVE FALSE
    OBVIOUS
  <2>1. Head(rx) \in Packets(rx) /\ Head(rx).type = "DiscRsp"
    BY ReceivesPackets DEF HandleL2DisconnectResponse, Before, CidInv
  <2>. QED  BY <2>1 DEF Before, NamesOk, RxIssued
<1>. QED  BY <1>1, <1>2, <1>3, <1>4, <1>5, <1>6 DEF Handlers
--------------------------------------------------------------------------------
(* Both sides agree that a channel is configured.                            *)

\* The board h has the host's answer to its configuration request for the
\* channel k, it is on its way, or the board is closing the channel.
Heard(h, k) ==
  \/ peer[h][k.remoteCid].state = "closing"
  \/ peer[h][k.remoteCid].rspGot
  \/ ConfRsp(h, k.remoteCid, Success) \in ToBoard(h)

Confirmed == \A h \in Handle : Up(h) =>
  \A k \in ChannelsOf(h) : k.remoteConfigured => Heard(h, k)

\* Until g_localCid wraps around or a packet is lost.
ConfirmedInv == ~wrapped /\ ~dropped => Confirmed

LEMMA HandlersConfirmed ==
  ASSUME Before, Counted, Confirmed, ~wrapped', ~dropped', Handlers
  PROVE  Confirmed'
<1>1. UNCHANGED env /\ Packets(tx) \subseteq Packets(tx') /\ TypeOK
  BY HandlersKeep DEF Before, CidInv
<1>2. UNCHANGED <<link, since, peer, air>>
  BY <1>1 DEF env, links
<1>3. \A h \in Handle : ToBoard(h) \subseteq ToBoard(h)'
  BY <1>1, <1>2 DEF ToBoard
<1>4. ASSUME NEW h \in Handle, Up(h), NEW k \in ChannelsOf(h), NEW l,
             l.remoteCid = k.remoteCid, k.remoteConfigured
      PROVE  Heard(h, l)'
  <2>1. Heard(h, k)
    BY <1>4 DEF Confirmed
  <2>2. peer'[h] = peer[h] /\ ToBoard(h) \subseteq ToBoard(h)'
    BY <1>2, <1>3
  <2>. QED  BY <1>4, <2>1, <2>2 DEF Heard
<1>5. ASSUME NEW h \in Handle, Up(h), NEW l \in ChannelsOf(h)', l.remoteConfigured
      PROVE  Heard(h, l)'
  <2>1. l \in Channels' /\ l.handle = h /\ since[h] <= l.localCid
    BY <1>2 DEF ChannelsOf
  <2>2. CASE l \in Channels
    <3>1. l \in ChannelsOf(h)
      BY <2>1, <2>2 DEF ChannelsOf
    <3>. QED  BY <1>4, <1>5, <3>1
  <2>3. ASSUME NEW g, NEW k, NEW j, g = Head(rx).handle, Configures(g, k, j), l \notin Channels
        PROVE  Heard(h, l)'
    <3>1. l = j /\ g = h /\ k \in ChannelsOf(h) /\ l.remoteCid = k.remoteCid
      BY <2>1, <2>3 DEF Configures
    <3>2. CASE k.remoteConfigured
      BY <1>4, <1>5, <3>1, <3>2
    <3>3. CASE ~k.remoteConfigured
      <4>1. ConfRsp(h, k.remoteCid, Success) \in Packets(tx')
        BY <1>5, <2>3, <3>1, <3>3 DEF Configures
      <4>2. ConfRsp(h, k.remoteCid, Success).handle = h
        BY DEF ConfRsp, Make
      <4>3. ConfRsp(h, l.remoteCid, Success) \in ToBoard(h)'
        BY <3>1, <4>1, <4>2 DEF ToBoard
      <4>. QED  BY <4>3 DEF Heard
    <3>. QED  BY <3>2, <3>3
  <2>. QED  BY <1>5, <2>1, <2>2, <2>3, HandlersChannels
<1>. QED  BY <1>2, <1>5 DEF Confirmed, Up

\* What a step of the controller's or of a board's on the link h leaves to show.
LEMMA BoardConfirmed ==
  ASSUME Before, Confirmed, UNCHANGED host, NEW h \in Handle,
         \A g \in Handle : g # h => /\ link'[g] = link[g] /\ since'[g] = since[g]
                                    /\ peer'[g] = peer[g] /\ air'[g] = air[g],
         Up(h)' => /\ Up(h) /\ since'[h] = since[h]
                   /\ \A k \in ChannelsOf(h) : k.remoteConfigured => Heard(h, k)'
  PROVE  Confirmed'
<1>1. Channels' = Channels /\ tx' = tx
  BY DEF host, store, out, Channels
<1>2. ASSUME NEW g \in Handle, Up(g)', NEW k \in ChannelsOf(g)', k.remoteConfigured
      PROVE  Heard(g, k)'
  <2>1. CASE g # h
    <3>1. /\ link'[g] = link[g] /\ since'[g] = since[g]
          /\ peer'[g] = peer[g] /\ air'[g] = air[g]
      BY <2>1
    <3>2. Up(g) /\ k \in ChannelsOf(g)
      BY <1>1, <1>2, <3>1 DEF Up, ChannelsOf
    <3>3. Heard(g, k)
      BY <1>2, <3>2 DEF Confirmed
    <3>. QED  BY <1>1, <3>1, <3>3 DEF Heard, ToBoard
  <2>2. CASE g = h
    <3>1. k \in ChannelsOf(h)
      BY <1>1, <1>2, <2>2 DEF ChannelsOf
    <3>. QED  BY <1>2, <2>2, <3>1
  <2>. QED  BY <2>1, <2>2
<1>. QED  BY <1>2 DEF Confirmed

\* An end that changes is not that of a channel with the answer, or is still
\* in its state and has what it had.
LEMMA EndConfirmed ==
  ASSUME Before, Confirmed, UNCHANGED <<host, links>>, NEW h \in Handle, Up(h),
         NEW c, NEW e, peer' = [peer EXCEPT ![h][c] = e] \/ peer' = peer,
         peer' = peer \/ e.state = "closing" \/ ~Live(peer[h][c])
           \/ (e.state = peer[h][c].state /\ (peer[h][c].rspGot => e.rspGot))
           \/ (\A k \in ChannelsOf(h) : k.remoteCid # c),
         \A g \in Handle : g # h => air'[g] = air[g],
         \A m \in ToBoard(h) : m \in ToBoard(h)' \/ m.type # "ConfRsp"
  PROVE  Confirmed'
<1>1. TypeOK /\ UNCHANGED <<link, since>>
  BY DEF Before, CidInv, links
<1>2. /\ \A g \in Handle : g # h => peer'[g] = peer[g]
      /\ \A d \in PeerCid : d # c => peer'[h][d] = peer[h][d]
      /\ c \in PeerCid => peer'[h][c] = e \/ peer' = peer
  BY <1>1 DEF TypeOK
<1>3. ASSUME NEW k \in ChannelsOf(h), k.remoteConfigured
      PROVE  Heard(h, k)'
  <2>1. Heard(h, k)
    BY <1>3 DEF Confirmed
  <2>2. k.remoteCid \in PeerCid /\ Live(peer[h][k.remoteCid])
    <3>1. ChannelsBound(FromBoard(h), ChannelsOf(h), peer[h]) /\ ChannelsNew(ChannelsOf(h), link[h])
      BY DEF Before, ProtocolOk, LinksProtocol, LinkAt, Protocol
    <3>. QED  BY <1>3, <3>1 DEF ChannelsBound, ChannelsNew, Fresh
  <2>3. CASE ConfRsp(h, k.remoteCid, Success) \in ToBoard(h)
    <3>1. ConfRsp(h, k.remoteCid, Success).type = "ConfRsp"
      BY DEF ConfRsp, Make
    <3>. QED  BY <2>3, <3>1 DEF Heard
  <2>4. CASE peer[h][k.remoteCid].state = "closing" \/ peer[h][k.remoteCid].rspGot
    <3>1. CASE k.remoteCid # c \/ peer' = peer
      BY <1>2, <2>2, <2>4, <3>1 DEF Heard
    <3>2. CASE k.remoteCid = c /\ peer' # peer
      BY <1>2, <2>2, <2>4, <3>2 DEF Heard
    <3>. QED  BY <3>1, <3>2
  <2>. QED  BY <2>1, <2>3, <2>4 DEF Heard
<1>. QED  BY <1>1, <1>2, <1>3, BoardConfirmed

LEMMA BoardsConfirmed ==
  ASSUME Before, Confirmed, NEW h \in Handle, NEW c \in PeerCid,
         \/ \E psm \in PeerPsm : PeerConnect(h, c, psm)
         \/ PeerDisconnect(h, c)
         \/ PeerData(h, c)
         \/ \E result \in Results : PeerDecides(h, c, result)
         \/ \E form \in Forms : PeerConfigure(h, c, form) \/ PeerReconfigure(h, c, form)
         \/ \E result \in ConfResults : PeerConcludes(h, c, result)
  PROVE  Confirmed'
<1>1. /\ UNCHANGED <<host, links, air>> /\ Up(h) /\ peer[h][c] \in End
      /\ \A m \in ToBoard(h) : m \in ToBoard(h)'
  <2>1. UNCHANGED <<host, links, air>> /\ Up(h)
    BY DEF PeerConnect, PeerDisconnect, PeerData, PeerDecides, PeerConfigure, PeerReconfigure,
           PeerConcludes, Up
  <2>2. peer[h][c] \in End
    BY StateFacts DEF Before, CidInv
  <2>. QED  BY <2>1, <2>2 DEF ToBoard, host, out
<1>2. PICK b : b = peer[h][c]
  OBVIOUS
<1>3. \/ peer' = peer
      \/ \E e : /\ peer' = [peer EXCEPT ![h][c] = e]
                /\ \/ b.state \in {"closed", "pending"}
                   \/ e.state = "closing"
                   \/ e.state = b.state /\ e.rspGot = b.rspGot
  <2>1. ASSUME NEW psm \in PeerPsm, PeerConnect(h, c, psm)
        PROVE  b.state = "closed" /\ peer' = [peer EXCEPT ![h][c] = NewEnd("waiting", psm, 0)]
    BY <1>2, <2>1 DEF PeerConnect, SetEnd
  <2>2. ASSUME PeerDisconnect(h, c)
        PROVE  \E e : peer' = [peer EXCEPT ![h][c] = e] /\ e.state = "closing"
    <3>1. PICK e : e = [b EXCEPT !.state = "closing"]
      OBVIOUS
    <3>2. e.state = "closing"
      BY <1>1, <1>2, <3>1 DEF End
    <3>. QED  BY <1>2, <2>2, <3>1, <3>2 DEF PeerDisconnect, SetEnd
  <2>3. ASSUME NEW result \in Results, PeerDecides(h, c, result)
        PROVE  b.state = "pending" /\ \E e : peer' = [peer EXCEPT ![h][c] = e]
    BY <1>2, <2>3 DEF PeerDecides, SetEnd
  <2>4. ASSUME NEW form \in Forms, PeerConfigure(h, c, form)
        PROVE  \E e : peer' = [peer EXCEPT ![h][c] = e] /\ e.state = b.state /\ e.rspGot = b.rspGot
    <3>1. PICK e : e = [b EXCEPT !.reqSent = TRUE]
      OBVIOUS
    <3>2. e.state = b.state /\ e.rspGot = b.rspGot
      BY <1>1, <1>2, <3>1 DEF End
    <3>. QED  BY <1>2, <2>4, <3>1, <3>2 DEF PeerConfigure, SetEnd
  <2>5. ASSUME NEW result \in ConfResults, PeerConcludes(h, c, result)
        PROVE  \E e : peer' = [peer EXCEPT ![h][c] = e] /\ e.state = b.state /\ e.rspGot = b.rspGot
    <3>1. PICK e : e = [b EXCEPT !.verdict = result]
      OBVIOUS
    <3>2. e.state = b.state /\ e.rspGot = b.rspGot
      BY <1>1, <1>2, <3>1 DEF End
    <3>. QED  BY <1>2, <2>5, <3>1, <3>2 DEF PeerConcludes, SetEnd
  <2>6. PeerData(h, c) \/ (\E form \in Forms : PeerReconfigure(h, c, form)) => peer' = peer
    BY DEF PeerData, PeerReconfigure
  <2>. QED  BY <2>1, <2>2, <2>3, <2>4, <2>5, <2>6
<1>4. CASE peer' = peer
  BY <1>1, <1>4, EndConfirmed
<1>5. ASSUME NEW e, peer' = [peer EXCEPT ![h][c] = e],
             \/ b.state \in {"closed", "pending"}
             \/ e.state = "closing"
             \/ e.state = b.state /\ e.rspGot = b.rspGot
      PROVE  Confirmed'
  BY <1>1, <1>2, <1>5, EndConfirmed DEF Live
<1>. QED  BY <1>3, <1>4, <1>5

LEMMA RepliesConfirmed ==
  ASSUME Before, Confirmed, NEW h \in Handle, PeerReply(h)
  PROVE  Confirmed'
<1>0. PICK m : m = Head(air[h])
  OBVIOUS
<1>1. PICK type : PeerReceives(h, type)
  BY DEF PeerReply, PeerOnConnReq, PeerOnConnRsp, PeerOnConfReq, PeerOnConfRsp, PeerOnDiscReq,
         PeerOnDiscRsp, PeerOnData
<1>2. /\ TypeOK /\ m \in Packet /\ m.type = type /\ m \in ToBoard(h) /\ SentOk(h, m)
      /\ UNCHANGED <<host, links>> /\ Up(h)
  BY <1>0, <1>1, BoardTakes DEF Before, CidInv
<1>3. /\ \A g \in Handle : g # h => air'[g] = air[g]
      /\ \A n \in ToBoard(h) : n \in ToBoard(h)' \/ n = m
  <2>1. /\ \A g \in Handle : g # h => air'[g] = air[g]
        /\ Packets(air[h]) \subseteq Packets(air'[h]) \cup {m}
    BY <1>0, <1>1, <1>2, PeerReceivesPackets
  <2>2. tx' = tx
    BY <1>2 DEF host, out
  <2>. QED  BY <2>1, <2>2 DEF ToBoard
<1>4. PICK e, b : /\ b = EndAt(h, m.scid) /\ e = [b EXCEPT !.rspGot = TRUE]
  OBVIOUS
<1>5. CASE PeerOnConfRsp(h)
  <2>1. m.type = "ConfRsp" /\ rx' = rx
    BY <1>0, <1>5 DEF PeerOnConfRsp, PeerReceives
  <2>2. \/ b.state = "config" /\ peer' = [peer EXCEPT ![h][m.scid] = e]
        \/ b.state # "config" /\ peer' = peer
    BY <1>0, <1>4, <1>5 DEF PeerOnConfRsp, SetEnd
  <2>3. ASSUME NEW k \in ChannelsOf(h), k.remoteConfigured
        PROVE  Heard(h, k)'
    <3>1. k.remoteCid \in PeerCid /\ Live(peer[h][k.remoteCid])
      <4>1. ChannelsBound(FromBoard(h), ChannelsOf(h), peer[h]) /\ ChannelsNew(ChannelsOf(h), link[h])
        BY DEF Before, ProtocolOk, LinksProtocol, LinkAt, Protocol
      <4>. QED  BY <2>3, <4>1 DEF ChannelsBound, ChannelsNew, Fresh
    <3>2. CASE k.remoteCid = m.scid
      <4>1. b = peer[h][k.remoteCid] /\ b \in End
        BY <1>2, <1>4, <3>1, <3>2, StateFacts DEF EndAt
      <4>2. e.rspGot
        BY <1>4, <4>1 DEF End
      <4>3. peer'[h][k.remoteCid].state = "closing" \/ peer'[h][k.remoteCid].rspGot
        <5>1. CASE peer' = [peer EXCEPT ![h][m.scid] = e]
          <6>1. peer'[h][k.remoteCid] = e
            BY <1>2, <3>1, <3>2, <5>1 DEF TypeOK
          <6>. QED  BY <4>2, <6>1
        <5>. QED  BY <2>2, <3>1, <4>1, <5>1 DEF Live
      <4>. QED  BY <4>3 DEF Heard
    <3>3. CASE k.remoteCid # m.scid
      <4>1. Heard(h, k)
        BY <1>2, <2>3 DEF Confirmed
      <4>2. peer'[h][k.remoteCid] = peer[h][k.remoteCid]
        BY <1>2, <2>2, <3>1, <3>3 DEF TypeOK
      <4>3. ConfRsp(h, k.remoteCid, Success) # m
        BY <3>3 DEF ConfRsp, Make
      <4>. QED  BY <1>3, <4>1, <4>2, <4>3 DEF Heard
    <3>. QED  BY <3>2, <3>3
  <2>4. \A g \in Handle : g # h => /\ link'[g] = link[g] /\ since'[g] = since[g]
                                   /\ peer'[g] = peer[g] /\ air'[g] = air[g]
    BY <1>2, <1>3, <2>2 DEF TypeOK, links
  <2>5. since'[h] = since[h]
    BY <1>2 DEF links
  <2>. QED  BY <1>2, <2>3, <2>4, <2>5, BoardConfirmed
<1>6. CASE ~PeerOnConfRsp(h)
  <2>1. \/ peer' = peer
        \/ \E c, x : /\ peer' = [peer EXCEPT ![h][c] = x]
                     /\ \/ ~Live(peer[h][c])
                        \/ x.state = peer[h][c].state /\ x.rspGot = peer[h][c].rspGot
                        \/ \A k \in ChannelsOf(h) : k.remoteCid # c
    <3>1. ASSUME NEW c \in PeerCid, NEW result \in Results, PeerOnConnReq(h, c, result)
          PROVE  peer' = peer \/ \E x : /\ peer' = [peer EXCEPT ![h][c] = x]
                                        /\ ~Live(peer[h][c])
      BY <3>1 DEF PeerOnConnReq, SetEnd, Live
    <3>3. CASE PeerOnConnRsp(h)
      <4>1. peer' = peer \/ (b.state = "waiting" /\ \E x : peer' = [peer EXCEPT ![h][m.scid] = x])
        BY <1>0, <1>4, <3>3 DEF PeerOnConnRsp, SetEnd
      <4>2. b.state = "waiting" => b = peer[h][m.scid]
        BY <1>4 DEF EndAt, NewEnd
      <4>. QED  BY <4>1, <4>2 DEF Live
    <3>4. ASSUME NEW result \in ConfResults, PeerOnConfReq(h, result)
          PROVE  \/ peer' = peer
                 \/ \E c, x : /\ peer' = [peer EXCEPT ![h][c] = x]
                              /\ x.state = peer[h][c].state /\ x.rspGot = peer[h][c].rspGot
      <4>1. PICK a, x : a = EndAt(h, m.dcid) /\ x = [a EXCEPT !.rspSent = TRUE, !.verdict = result]
        OBVIOUS
      <4>2. peer' = peer \/ (a.state = "config" /\ peer' = [peer EXCEPT ![h][m.dcid] = x])
        BY <1>0, <3>4, <4>1 DEF PeerOnConfReq, SetEnd
      <4>3. a.state = "config" => a = peer[h][m.dcid] /\ a \in End
        BY <1>2, <4>1, StateFacts DEF EndAt, NewEnd
      <4>4. a \in End => x.state = a.state /\ x.rspGot = a.rspGot
        BY <4>1 DEF End
      <4>5. a.state = "config" => /\ x.state = peer[h][m.dcid].state
                                  /\ x.rspGot = peer[h][m.dcid].rspGot
        BY <4>3, <4>4
      <4>. QED  BY <4>2, <4>5, Zenon
    <3>5. CASE PeerOnDiscReq(h)
      <4>1. m.type = "DiscReq"
        BY <1>0, <3>5 DEF PeerOnDiscReq, PeerReceives
      <4>. QED  BY <1>2, <4>1 DEF SentOk
    <3>6. CASE PeerOnDiscRsp(h)
      <4>1. m.type = "DiscRsp" /\ (peer' = peer \/ \E x : peer' = [peer EXCEPT ![h][m.scid] = x])
        BY <1>0, <3>6 DEF PeerOnDiscRsp, PeerReceives, SetEnd
      <4>2. OutDiscRsp(ToBoard(h), ChannelsOf(h), peer[h])
        BY DEF Before, ProtocolOk, LinksProtocol, LinkAt, Protocol
      <4>3. \A k \in ChannelsOf(h) : k.remoteCid # m.scid
        BY <1>2, <4>1, <4>2 DEF OutDiscRsp
      <4>. QED  BY <4>1, <4>3
    <3>7. CASE PeerOnData(h)
      BY <3>7 DEF PeerOnData
    <3>. QED  BY <1>6, <3>1, <3>3, <3>4, <3>5, <3>6, <3>7 DEF PeerReply
  <2>2. m.type # "ConfRsp"
    <3>1. \E t \in {"ConnReq", "ConnRsp", "ConfReq", "DiscReq", "DiscRsp", "Data"} : PeerReceives(h, t)
      BY <1>6 DEF PeerReply, PeerOnConnReq, PeerOnConnRsp, PeerOnConfReq, PeerOnDiscReq,
                  PeerOnDiscRsp, PeerOnData
    <3>. QED  BY <1>0, <3>1 DEF PeerReceives
  <2>3. \A n \in ToBoard(h) : n \in ToBoard(h)' \/ n.type # "ConfRsp"
    BY <1>3, <2>2
  <2>. QED  BY <1>2, <1>3, <2>1, <2>3, EndConfirmed
<1>. QED  BY <1>5, <1>6

LEMMA TransmitConfirmed ==
  ASSUME Before, Confirmed, Transmit
  PROVE  Confirmed'
<1>0. PICK m : m = Head(tx)
  OBVIOUS
<1>1. TypeOK
  BY DEF Before, CidInv
<1>2. UNCHANGED <<store, link, since, peer>>
  BY DEF Transmit, links
<1>3. /\ m \in Packet /\ Packets(tx) \subseteq Packets(tx') \cup {m}
      /\ \A g \in Handle : g # m.handle => air'[g] = air[g]
      /\ \/ Up(m.handle) /\ Packets(air'[m.handle]) = Packets(air[m.handle]) \cup {m}
         \/ air' = air /\ (m.type \in HciCommand \/ ~Up(m.handle))
  BY <1>0, <1>1, TransmitPackets
<1>4. ASSUME NEW g \in Handle, Up(g), NEW n \in ToBoard(g), n.type = "ConfRsp", n.handle = g
      PROVE  n \in ToBoard(g)'
  <2>1. CASE n = m
    <3>1. Packets(air'[g]) = Packets(air[g]) \cup {m}
      BY <1>3, <1>4, <2>1 DEF HciCommand
    <3>. QED  BY <2>1, <3>1 DEF ToBoard
  <2>2. CASE n # m
    <3>1. Packets(air[g]) \subseteq Packets(air'[g])
      BY <1>3
    <3>. QED  BY <1>3, <2>2, <3>1 DEF ToBoard
  <2>. QED  BY <2>1, <2>2
<1>5. ASSUME NEW g \in Handle, Up(g), NEW k \in ChannelsOf(g), k.remoteConfigured
      PROVE  Heard(g, k)'
  <2>1. Heard(g, k)
    BY <1>5 DEF Confirmed
  <2>2. /\ ConfRsp(g, k.remoteCid, Success).type = "ConfRsp"
        /\ ConfRsp(g, k.remoteCid, Success).handle = g
    BY DEF ConfRsp, Make
  <2>. QED  BY <1>2, <1>4, <1>5, <2>1, <2>2 DEF Heard
<1>. QED  BY <1>2, <1>5 DEF Confirmed, Up, ChannelsOf, Channels, store

LEMMA NextConfirmed ==
  ASSUME "appDisconnect" \notin Moves, CidInv, NamesInv, ProtocolInv, Counted, ConfirmedInv,
         [Next]_vars
  PROVE  ConfirmedInv'
<1>. SUFFICES ASSUME ~wrapped', ~dropped' PROVE Confirmed'
  BY DEF ConfirmedInv
<1>1. CASE Handlers
  <2>1. Before
    <3>1. ~wrapped
      BY <1>1, HandlersStore
    <3>. QED  BY <3>1 DEF Before, NamesInv, ProtocolInv
  <2>2. ~dropped
    BY <1>1, <2>1, HandlersKeep
  <2>. QED  BY <1>1, <2>1, <2>2, HandlersConfirmed DEF Before, ConfirmedInv
<1>2. CASE ~Handlers
  <2>1. UNCHANGED <<connections, g_localCid, wrapped>>
    BY <1>2, OthersKeepStore
  <2>2. Before
    BY <2>1 DEF Before, NamesInv, ProtocolInv
  <2>3. CASE Transmit
    BY <2>1, <2>2, <2>3, TransmitConfirmed DEF ConfirmedInv, Transmit
  <2>4. CASE ControllerDisconnects
    <3>1. tx # <<>> /\ Head(tx).type = "Disconnect"
      BY <2>4 DEF ControllerDisconnects
    <3>2. Head(tx) \in Packets(tx)
      BY <2>2, <3>1, StateFacts, PacketsTail DEF Before, CidInv
    <3>. QED  BY <2>2, <3>1, <3>2 DEF Before, NamesOk, TxIssued, SentOk
  <2>5. ASSUME NEW h \in Handle, NEW psm \in AppPsm, AppDisconnect(h, psm)
        PROVE  Confirmed'
    BY <2>5 DEF AppDisconnect, Moving
  <2>6. ASSUME NEW h \in Handle, NEW by \in {Ours, Theirs}, LinkUp(h, by)
        PROVE  Confirmed'
    <3>1. /\ UNCHANGED host /\ since' = [since EXCEPT ![h] = g_localCid]
          /\ link' = [link EXCEPT ![h] = IF by = Ours THEN "ours" ELSE "theirs"]
          /\ peer' = [peer EXCEPT ![h] = NoEnds] /\ air' = air
      BY <2>6 DEF LinkUp
    <3>2. /\ since'[h] = g_localCid /\ Channels' = Channels
          /\ \A g \in Handle : g # h => /\ since'[g] = since[g] /\ link'[g] = link[g]
                                        /\ peer'[g] = peer[g]
      BY <2>2, <3>1 DEF Before, CidInv, TypeOK, host, store, Channels
    <3>3. ChannelsOf(h)' = {}
      <4>1. g_localCid \in Nat /\ \A k \in Channels : k.localCid \in Nat /\ k.localCid < g_localCid
        BY <2>2, StateFacts, ChannelsFacts, ChannelsUnique DEF Before, CidInv
      <4>. QED  BY <3>2, <4>1 DEF ChannelsOf
    <3>4. Confirmed
      BY <2>1, <3>1 DEF ConfirmedInv, host, out
    <3>5. ASSUME NEW g \in Handle, g # h, Up(g)', NEW k \in ChannelsOf(g)', k.remoteConfigured
          PROVE  Heard(g, k)'
      <4>1. Up(g) /\ k \in ChannelsOf(g)
        BY <3>2, <3>5 DEF Up, ChannelsOf
      <4>2. Heard(g, k)
        BY <3>4, <3>5, <4>1 DEF Confirmed
      <4>. QED  BY <3>1, <3>2, <3>5, <4>2 DEF Heard, ToBoard, host, out
    <3>. QED  BY <3>3, <3>5 DEF Confirmed
  <2>7. ASSUME NEW h \in Handle, LinkLoss(h)
        PROVE  Confirmed'
    <3>1. /\ UNCHANGED <<host, since, peer>> /\ link'[h] = "lost"
          /\ \A g \in Handle : g # h => link'[g] = link[g] /\ air'[g] = air[g]
      BY <2>2, <2>7 DEF LinkLoss, LinkDown, Before, CidInv, TypeOK
    <3>2. ~Up(h)'
      BY <3>1 DEF Up
    <3>3. Confirmed
      BY <2>1, <3>1 DEF ConfirmedInv, host, out
    <3>. QED  BY <2>2, <3>1, <3>2, <3>3, BoardConfirmed
  <2>8. ASSUME NEW h \in Handle, NEW c \in PeerCid,
               \/ \E psm \in PeerPsm : PeerConnect(h, c, psm)
               \/ PeerDisconnect(h, c)
               \/ PeerData(h, c)
               \/ \E result \in Results : PeerDecides(h, c, result)
               \/ \E form \in Forms : PeerConfigure(h, c, form) \/ PeerReconfigure(h, c, form)
               \/ \E result \in ConfResults : PeerConcludes(h, c, result)
        PROVE  Confirmed'
    <3>1. UNCHANGED dropped
      BY <2>8 DEF PeerConnect, PeerDisconnect, PeerData, PeerDecides, PeerConfigure,
                  PeerReconfigure, PeerConcludes, host, out
    <3>. QED  BY <2>1, <2>2, <2>8, <3>1, BoardsConfirmed DEF ConfirmedInv
  <2>9. ASSUME NEW h \in Handle, PeerReply(h)
        PROVE  Confirmed'
    <3>1. UNCHANGED dropped
      BY <2>9 DEF PeerReply, PeerOnConnReq, PeerOnConnRsp, PeerOnConfReq, PeerOnConfRsp,
                  PeerOnDiscReq, PeerOnDiscRsp, PeerOnData, PeerReceives, host, out
    <3>. QED  BY <2>1, <2>2, <2>9, <3>1, RepliesConfirmed DEF ConfirmedInv
  <2>10. CASE UNCHANGED vars
    <3>1. UNCHANGED <<connections, tx, dropped, link, since, peer, air>>
      BY <2>10 DEF vars, store, env, links, out
    <3>. QED  BY <2>1, <3>1 DEF ConfirmedInv, Confirmed, Up, ChannelsOf, Channels, Heard, ToBoard
  <2>. QED  BY <1>2, <2>3, <2>4, <2>5, <2>6, <2>7, <2>8, <2>9, <2>10 DEF Next
<1>. QED  BY <1>1, <1>2

\* On the same terms and as long as no packet is lost in a full txBuffer, a
\* board has sent its request for a channel that the host calls configured and
\* has answered the host's, and the host's answer has come or is on its way:
\* though the handlers do not wait for room, L2CapConnection's flags stand for
\* an exchange that took place.  What the board answered they do not say.
THEOREM ConfigExchangedHolds ==
  ASSUME "appDisconnect" \notin Moves
  PROVE  Spec => [](~wrapped => ConfigExchanged)
<1>1. CidInv /\ ProtocolInv /\ ConfirmedInv => (~wrapped => ConfigExchanged)
  <2>. SUFFICES ASSUME CidInv, ProtocolOk, Confirmed, NEW c \in Channels, Present(c),
                       c.localConfigured, c.remoteConfigured
                PROVE  LET e == EndAt(c.handle, c.remoteCid) IN
                       \/ e.state = "closing"
                       \/ /\ e.state = "config" /\ e.rspSent /\ e.reqSent
                          /\ e.rspGot \/ ConfRsp(c.handle, c.remoteCid, Success) \in ToBoard(c.handle)
    BY DEF ProtocolInv, ConfirmedInv, ConfigExchanged
  <2>1. PICK h \in Handle : h = c.handle
    BY ChannelsFacts DEF CidInv, TypeOK
  <2>2. Up(h) /\ c \in ChannelsOf(h)
    BY <2>1, StateFacts, ChannelsFacts DEF ChannelsOf, Present, CidInv
  <2>3. /\ ChannelsBound(FromBoard(h), ChannelsOf(h), peer[h])
        /\ ChannelsNew(ChannelsOf(h), link[h])
    BY DEF ProtocolOk, LinksProtocol, LinkAt, Protocol
  <2>4. PICK e : e = peer[h][c.remoteCid]
    OBVIOUS
  <2>5. /\ c.remoteCid \in PeerCid /\ Live(e) /\ e.rspSent /\ e.reqSent
    BY <2>2, <2>3, <2>4 DEF ChannelsBound, ChannelsNew, Fresh
  <2>6. Heard(h, c)
    BY <2>2 DEF Confirmed
  <2>7. EndAt(h, c.remoteCid) = e
    BY <2>4, <2>5 DEF EndAt
  <2>. QED  BY <2>1, <2>4, <2>5, <2>6, <2>7 DEF Heard, Live
<1>2. CidInv /\ NamesInv /\ ProtocolInv /\ Counted /\ ConfirmedInv /\ [Next]_vars =>
        CidInv' /\ NamesInv' /\ ProtocolInv' /\ Counted' /\ ConfirmedInv'
  BY NextCids, NextNames, NextProtocol, NextCounted, NextConfirmed
<1>3. Init => Counted /\ ConfirmedInv
  <2>1. Init => /\ FirstCid = g_localCid /\ \A h \in Handle : ~Up(h)
    BY DEF Init, Up
  <2>2. FirstCid \in Nat
    BY ConstantsAssumption, MaxType DEF Cid, U16
  <2>. QED  BY <2>1, <2>2 DEF Counted, ConfirmedInv, Confirmed
<1>. QED  BY <1>1, <1>2, <1>3, InitCids, InitNames, InitProtocol, PTL DEF Spec
--------------------------------------------------------------------------------
(* The application is told of a board at most as often as the board or the   *)
(* environment has given cause for it.                                       *)

\* How often packets of the set Y are in the queue q.
Places(q, Y) == {i \in DOMAIN q : q[i] \in Y}
Times(q, Y)  == Cardinality(Places(q, Y))

LEMMA TimesType ==
  ASSUME NEW q \in Seq(Packet), NEW Y
  PROVE  IsFiniteSet(Places(q, Y)) /\ Times(q, Y) \in Nat
<1>1. Len(q) \in Nat /\ DOMAIN q = 1 .. Len(q) /\ IsFiniteSet(1 .. Len(q))
  BY QueueFacts, FS_Interval
<1>2. IsFiniteSet(Places(q, Y))
  BY <1>1, FS_Subset DEF Places
<1>. QED  BY <1>2, FS_CardinalityType DEF Times

LEMMA TimesAppend ==
  ASSUME NEW q \in Seq(Packet), NEW Y, NEW m \in Packet
  PROVE  /\ Times(Append(q, m), Y) <= Times(q, Y) + 1
         /\ m \notin Y => Times(Append(q, m), Y) = Times(q, Y)
<1>1. /\ IsFiniteSet(Places(q, Y)) /\ Times(q, Y) \in Nat
      /\ IsFiniteSet(Places(Append(q, m), Y)) /\ Times(Append(q, m), Y) \in Nat
  BY TimesType, AppendFacts
<1>2. PICK n : n = Len(q) + 1
  OBVIOUS
<1>3. Places(Append(q, m), Y) \subseteq Places(q, Y) \cup {n}
  BY <1>2, AppendFacts DEF Places
<1>4. CASE m \notin Y
  <2>1. Places(Append(q, m), Y) = Places(q, Y)
    BY <1>4, AppendFacts DEF Places
  <2>. QED  BY <1>1, <2>1 DEF Times
<1>5. CASE m \in Y
  <2>1. /\ IsFiniteSet(Places(q, Y) \cup {n})
        /\ Cardinality(Places(q, Y) \cup {n}) \in {Times(q, Y), Times(q, Y) + 1}
    BY <1>1, FS_AddElement DEF Times
  <2>2. Times(Append(q, m), Y) <= Cardinality(Places(q, Y) \cup {n})
    BY <1>3, <2>1, FS_Subset DEF Times
  <2>. QED  BY <1>1, <1>5, <2>1, <2>2
<1>. QED  BY <1>4, <1>5, <1>1

LEMMA TimesTail ==
  ASSUME NEW q \in Seq(Packet), q # <<>>, NEW Y
  PROVE  /\ Times(Tail(q), Y) <= Times(q, Y)
         /\ Head(q) \in Y => Times(Tail(q), Y) + 1 <= Times(q, Y)
<1>1. /\ IsFiniteSet(Places(q, Y)) /\ Times(q, Y) \in Nat
      /\ IsFiniteSet(Places(Tail(q), Y)) /\ Times(Tail(q), Y) \in Nat
  BY TimesType, TailFacts
<1>2. PICK S : S = Places(q, Y) \ {1}
  OBVIOUS
<1>3. IsFiniteSet(S) /\ Cardinality(S) = IF 1 \in Places(q, Y) THEN Times(q, Y) - 1 ELSE Times(q, Y)
  BY <1>1, <1>2, FS_RemoveElement DEF Times
<1>4. PICK f : f = [i \in Places(Tail(q), Y) |-> i + 1]
  OBVIOUS
<1>5. f \in Injection(Places(Tail(q), Y), S)
  <2>1. \A i \in Places(Tail(q), Y) : i \in Int /\ i + 1 \in S
    <3>1. DOMAIN Tail(q) \subseteq Int
      BY TailFacts, QueueFacts
    <3>. QED  BY <1>2, <3>1, TailFacts DEF Places
  <2>2. f \in [Places(Tail(q), Y) -> S]
    BY <1>4, <2>1
  <2>3. \A i, j \in Places(Tail(q), Y) : f[i] = f[j] => i = j
    BY <1>4, <2>1
  <2>. QED  BY <2>2, <2>3 DEF Injection, IsInjective
<1>6. Times(Tail(q), Y) <= Cardinality(S)
  BY <1>3, <1>5, FS_Injection DEF Times
<1>7. Head(q) \in Y => 1 \in Places(q, Y)
  BY TailFacts DEF Places
<1>. QED  BY <1>1, <1>3, <1>6, <1>7

LEMMA TimesLess ==
  ASSUME NEW q \in Seq(Packet), NEW Y, NEW Z, \A m \in Packets(q) : m \in Y => m \in Z
  PROVE  Times(q, Y) <= Times(q, Z)
<1>1. IsFiniteSet(Places(q, Z))
  BY TimesType
<1>2. Places(q, Y) \subseteq Places(q, Z)
  BY DEF Places, Packets
<1>. QED  BY <1>1, <1>2, FS_Subset DEF Times

LEMMA TimesNone ==
  ASSUME NEW q \in Seq(Packet), NEW Y, \A m \in Packets(q) : m \notin Y
  PROVE  Times(q, Y) = 0
<1>1. Places(q, Y) = {}
  BY DEF Places, Packets
<1>. QED  BY <1>1, FS_EmptySet DEF Times

--------------------------------------------------------------------------------
\* The configuration packets for the interrupt channel of the link h, of which
\* there is at most one, and whether one of these is yet to come before the
\* channel is configured.
Interrupts(h) == {k \in ChannelsOf(h) : k.psm = HidInterrupt}
Settings(h) == {m \in Packet : /\ m.handle = h /\ m.type \in {"ConfReq", "ConfRsp"}
                               /\ \E k \in Interrupts(h) : k.localCid = Name(m)}
Spare(h) == IF \E k \in Interrupts(h) : ~k.localConfigured /\ ~k.remoteConfigured THEN 1 ELSE 0

\* The end c is the board's end of an interrupt channel that the board has not
\* closed; and what the board has not yet sent for it, of its own accord.
InUse(h, c) == Up(h) /\ peer[h][c].state = "config" /\ peer[h][c].psm = HidInterrupt
Unsent(e) == (IF e.reqSent THEN 0 ELSE 1) + (IF e.rspSent THEN 0 ELSE 1)

\* Of the packets that configure an interrupt channel one comes before the
\* application is told, and each of the others may have it told once.
Tally(h) ==
  LET due == greeted[h] + Times(rx, Settings(h)) IN
  /\ \A c \in PeerCid : InUse(h, c) =>
       /\ greeted[h] <= moves[h] + 1
       /\ due + Unsent(peer[h][c]) <= moves[h] + 1 + Spare(h)
  /\ (\A c \in PeerCid : ~InUse(h, c)) => greeted[h] <= moves[h] /\ due <= moves[h] + Spare(h)

GreetedInv == ~wrapped => \A h \in Handle : Tally(h)

LEMMA TallyTypes ==
  ASSUME TypeOK, NEW h \in Handle
  PROVE  /\ greeted[h] \in Nat /\ moves[h] \in Nat /\ Times(rx, Settings(h)) \in Nat
         /\ Spare(h) \in {0, 1}
         /\ \A c \in PeerCid : Unsent(peer[h][c]) \in 0 .. 2
<1>1. greeted[h] \in Nat /\ moves[h] \in Nat /\ rx \in Seq(Packet)
  BY DEF TypeOK
<1>. QED  BY <1>1, TimesType DEF Spare, Unsent

\* The host handles a packet.
LEMMA HostTally ==
  ASSUME TypeOK, TypeOK', NEW h \in Handle, Tally(h), UNCHANGED <<peer, link, moves>>,
         greeted'[h] = greeted[h],
         Times(rx', Settings(h)') <= Times(rx, Settings(h)),
         \/ Spare(h) <= Spare(h)'
         \/ Times(rx', Settings(h)') = 0 /\ \A c \in PeerCid : ~InUse(h, c)
  PROVE  Tally(h)'
<1>1. /\ greeted[h] \in Nat /\ moves[h] \in Nat /\ Times(rx, Settings(h)) \in Nat
      /\ Spare(h) \in {0, 1} /\ \A c \in PeerCid : Unsent(peer[h][c]) \in 0 .. 2
  BY TallyTypes
<1>2. Times(rx', Settings(h)') \in Nat /\ Spare(h)' \in {0, 1}
  BY TimesType DEF TypeOK, Spare
<1>3. \A c : InUse(h, c)' <=> InUse(h, c)
  BY DEF InUse, Up
<1>4. ASSUME NEW c \in PeerCid, InUse(h, c)'
      PROVE  /\ greeted'[h] <= moves'[h] + 1
             /\ greeted'[h] + Times(rx', Settings(h)') + Unsent(peer'[h][c]) <= moves'[h] + 1 + Spare(h)'
  <2>1. /\ greeted[h] <= moves[h] + 1 /\ InUse(h, c)
        /\ greeted[h] + Times(rx, Settings(h)) + Unsent(peer[h][c]) <= moves[h] + 1 + Spare(h)
    BY <1>3, <1>4 DEF Tally
  <2>2. Spare(h) <= Spare(h)'
    BY <2>1
  <2>. QED  BY <1>1, <1>2, <2>1, <2>2
<1>5. ASSUME \A c \in PeerCid : ~InUse(h, c)'
      PROVE  /\ greeted'[h] <= moves'[h]
             /\ greeted'[h] + Times(rx', Settings(h)') <= moves'[h] + Spare(h)'
  <2>1. /\ greeted[h] <= moves[h]
        /\ greeted[h] + Times(rx, Settings(h)) <= moves[h] + Spare(h)
    BY <1>3, <1>5 DEF Tally
  <2>. QED  BY <1>1, <1>2, <2>1
<1>. QED  BY <1>4, <1>5 DEF Tally

\* The controller or a board takes a step that is optional when d = 1, and that
\* puts a packet which configures an interrupt channel in rxBuffer when r = 1.
LEMMA BoardTally ==
  ASSUME TypeOK, TypeOK', NEW h \in Handle, Tally(h), UNCHANGED <<connections, greeted>>,
         since'[h] = since[h],
         NEW d \in {0, 1}, moves'[h] = moves[h] + d,
         NEW r \in {0, 1}, Times(rx', Settings(h)) <= Times(rx, Settings(h)) + r,
         \A c \in PeerCid : InUse(h, c)' =>
           InUse(h, c) /\ Unsent(peer'[h][c]) + r <= Unsent(peer[h][c]) + d,
         (\A c \in PeerCid : ~InUse(h, c)') =>
           ((\A c \in PeerCid : ~InUse(h, c)) /\ r <= d) \/ (d = 1 /\ r = 0)
  PROVE  Tally(h)'
<1>1. /\ greeted[h] \in Nat /\ moves[h] \in Nat /\ Times(rx, Settings(h)) \in Nat
      /\ Spare(h) \in {0, 1} /\ \A c \in PeerCid : Unsent(peer[h][c]) \in 0 .. 2
  BY TallyTypes
<1>2. Settings(h)' = Settings(h) /\ Spare(h)' = Spare(h)
  BY DEF Settings, Spare, Interrupts, ChannelsOf, Channels
<1>3. Times(rx', Settings(h)) \in Nat /\ \A c \in PeerCid : Unsent(peer'[h][c]) \in 0 .. 2
  <2>1. rx' \in Seq(Packet)
    BY DEF TypeOK
  <2>. QED  BY <2>1, TimesType DEF Unsent
<1>4. ASSUME NEW c \in PeerCid, InUse(h, c)'
      PROVE  /\ greeted'[h] <= moves'[h] + 1
             /\ greeted'[h] + Times(rx', Settings(h)') + Unsent(peer'[h][c]) <= moves'[h] + 1 + Spare(h)'
  <2>1. /\ greeted[h] <= moves[h] + 1
        /\ greeted[h] + Times(rx, Settings(h)) + Unsent(peer[h][c]) <= moves[h] + 1 + Spare(h)
        /\ Unsent(peer'[h][c]) + r <= Unsent(peer[h][c]) + d
    BY <1>4 DEF Tally
  <2>. QED  BY <1>1, <1>2, <1>3, <2>1
<1>5. ASSUME \A c \in PeerCid : ~InUse(h, c)'
      PROVE  /\ greeted'[h] <= moves'[h]
             /\ greeted'[h] + Times(rx', Settings(h)') <= moves'[h] + Spare(h)'
  <2>1. CASE (\A c \in PeerCid : ~InUse(h, c)) /\ r <= d
    <3>1. /\ greeted[h] <= moves[h]
          /\ greeted[h] + Times(rx, Settings(h)) <= moves[h] + Spare(h)
      BY <2>1 DEF Tally
    <3>. QED  BY <1>1, <1>2, <1>3, <2>1, <3>1
  <2>2. CASE d = 1 /\ r = 0
    <3>1. /\ greeted[h] <= moves[h] + 1
          /\ greeted[h] + Times(rx, Settings(h)) <= moves[h] + 1 + Spare(h)
      <4>1. CASE \A c \in PeerCid : ~InUse(h, c)
        BY <1>1, <4>1 DEF Tally
      <4>2. ASSUME NEW c \in PeerCid, InUse(h, c)
            PROVE  /\ greeted[h] <= moves[h] + 1
                   /\ greeted[h] + Times(rx, Settings(h)) <= moves[h] + 1 + Spare(h)
        BY <1>1, <4>2 DEF Tally
      <4>. QED  BY <4>1, <4>2
    <3>. QED  BY <1>1, <1>2, <1>3, <2>2, <3>1
  <2>. QED  BY <1>5, <2>1, <2>2
<1>. QED  BY <1>4, <1>5 DEF Tally

\* The channel of such an end is one of the host's, the only one of its PSM.
OneInterrupt == \A h \in Handle : LinkAt(h) =>
  /\ \A j, k \in Interrupts(h) : j = k
  /\ \A c \in PeerCid : InUse(h, c) => \E k \in Interrupts(h) : k.localCid = peer[h][c].hostCid
  /\ \A c, d \in PeerCid : InUse(h, c) /\ InUse(h, d) => c = d

LEMMA InterruptChannel == OneInterrupt
<1>. SUFFICES ASSUME NEW h \in Handle, LinkAt(h)
              PROVE  /\ \A j, k \in Interrupts(h) : j = k
                     /\ \A c \in PeerCid : InUse(h, c) =>
                          \E k \in Interrupts(h) : k.localCid = peer[h][c].hostCid
                     /\ \A c, d \in PeerCid : InUse(h, c) /\ InUse(h, d) => c = d
  BY DEF OneInterrupt
<1>1. PICK R, O, K, P : R = FromBoard(h) /\ O = ToBoard(h) /\ K = ChannelsOf(h) /\ P = peer[h]
  OBVIOUS
<1>2. EndsSent(R, K, P) /\ EndsConfig(R, K, P) /\ EndsDistinct(P) /\ ChannelsDistinct(K)
  BY <1>1 DEF LinkAt, Protocol
<1>3. \A j, k \in Interrupts(h) : j = k
  BY <1>1, <1>2 DEF Interrupts, ChannelsDistinct
<1>4. ASSUME NEW c \in PeerCid, InUse(h, c)
      PROVE  \E k \in Interrupts(h) : k.localCid = P[c].hostCid
  <2>1. P[c].state = "config" /\ P[c].psm = HidInterrupt
    BY <1>1, <1>4 DEF InUse
  <2>2. PICK k \in K : k.localCid = P[c].hostCid
    BY <1>2, <2>1 DEF EndsSent, Known
  <2>3. k.psm = HidInterrupt
    BY <1>2, <2>1, <2>2 DEF EndsConfig
  <2>. QED  BY <1>1, <2>2, <2>3 DEF Interrupts
<1>5. ASSUME NEW c \in PeerCid, NEW d \in PeerCid, InUse(h, c), InUse(h, d)
      PROVE  c = d
  <2>1. P[c].hostCid = P[d].hostCid
    BY <1>3, <1>4, <1>5
  <2>. QED  BY <1>1, <1>2, <1>5, <2>1 DEF EndsDistinct, Bound, InUse
<1>. QED  BY <1>1, <1>3, <1>4, <1>5

LEMMA InterruptChannelNext == OneInterrupt'
  BY InterruptChannel, PTL

\* Handlers of configuration packets count one off.
LEMMA ConfiguresTally ==
  ASSUME Before, TypeOK', NEW h \in Handle, Tally(h), UNCHANGED env,
         rx # <<>>, rx' = Tail(rx),
         NEW g, g = Head(rx).handle, NEW k, NEW l, Configures(g, k, l)
  PROVE  Tally(h)'
<1>1. /\ TypeOK /\ LinkAt(h) /\ rx \in Seq(Packet) /\ UNCHANGED <<peer, link, since, moves>>
      /\ Head(rx) \in Packet
  <2>1. TypeOK /\ rx \in Seq(Packet)
    BY StateFacts DEF Before, CidInv
  <2>. QED  BY <2>1, TailFacts DEF Before, ProtocolOk, LinksProtocol, env, links
<1>2. /\ k \in ChannelsOf(g) /\ k \in Channels /\ k \in Connection /\ k.handle = g
      /\ l.handle = g /\ l.localCid = k.localCid /\ l.psm = k.psm
      /\ Channels' = (Channels \ {k}) \cup {l}
  BY DEF Configures
<1>3. Settings(h)' = Settings(h)
  <2>1. \A j : j \in ChannelsOf(h)' <=> (j \in ChannelsOf(h) /\ j # k) \/ (j = l /\ g = h)
    BY <1>1, <1>2 DEF ChannelsOf
  <2>2. \A x : (\E j \in Interrupts(h)' : j.localCid = x) <=> (\E j \in Interrupts(h) : j.localCid = x)
    <3>1. g # h => k \notin ChannelsOf(h)
      BY <1>2 DEF ChannelsOf
    <3>. QED  BY <1>2, <2>1, <3>1 DEF Interrupts
  <2>. QED  BY <2>2 DEF Settings
<1>4. /\ Times(rx', Settings(h)) <= Times(rx, Settings(h))
      /\ Head(rx) \in Settings(h) => Times(rx', Settings(h)) + 1 <= Times(rx, Settings(h))
  BY <1>1, TimesTail
<1>5. CASE g # h \/ k.psm # HidInterrupt
  <2>1. Interrupts(h)' = Interrupts(h)
    <3>1. \A j : j.psm = HidInterrupt /\ j.handle = h => (j \in Channels' <=> j \in Channels)
      BY <1>2, <1>5
    <3>. QED  BY <1>1, <3>1 DEF Interrupts, ChannelsOf
  <2>2. greeted'[h] = greeted[h]
    BY <1>1, <1>2, <1>5 DEF Configures, app, TypeOK
  <2>3. Spare(h)' = Spare(h) /\ Spare(h) \in {0, 1}
    BY <2>1 DEF Spare
  <2>. QED  BY <1>1, <1>3, <1>4, <2>2, <2>3, HostTally
<1>6. CASE g = h /\ k.psm = HidInterrupt
  <2>1. Head(rx) \in Settings(h)
    <3>1. k \in Interrupts(h)
      BY <1>2, <1>6 DEF Interrupts
    <3>. QED  BY <1>1, <1>6, <3>1 DEF Settings, Configures
  <2>2. l.localConfigured \/ l.remoteConfigured
    BY <1>2 DEF Configures, Connection
  <2>3. Spare(h)' = 0
    <3>1. \A j \in Interrupts(h)' : j = l
      <4>1. \A j \in Interrupts(h) : j = k
        <5>1. k \in Interrupts(h)
          BY <1>2, <1>6 DEF Interrupts
        <5>. QED  BY <1>1, <5>1, InterruptChannel DEF OneInterrupt
      <4>. QED  BY <1>1, <1>2, <1>6, <4>1 DEF Interrupts, ChannelsOf
    <3>. QED  BY <2>2, <3>1 DEF Spare
  <2>4. l.localConfigured /\ l.remoteConfigured => Spare(h) = 0
    <3>. SUFFICES ASSUME l.localConfigured, l.remoteConfigured PROVE Spare(h) = 0
      OBVIOUS
    <3>1. k.localConfigured \/ k.remoteConfigured
      BY <1>2 DEF Configures, Connection
    <3>2. \A j \in Interrupts(h) : j = k
      <4>1. k \in Interrupts(h)
        BY <1>2, <1>6 DEF Interrupts
      <4>. QED  BY <1>1, <4>1, InterruptChannel DEF OneInterrupt
    <3>. QED  BY <3>1, <3>2 DEF Spare
  <2>5. \/ greeted'[h] = greeted[h]
        \/ greeted'[h] = greeted[h] + 1 /\ Spare(h) = 0
    BY <1>1, <1>6, <2>4 DEF Configures, app, TypeOK
  <2>6. /\ greeted[h] \in Nat /\ moves[h] \in Nat /\ Times(rx, Settings(h)) \in Nat
        /\ Spare(h) \in {0, 1} /\ \A c \in PeerCid : Unsent(peer[h][c]) \in 0 .. 2
    BY <1>1, TallyTypes
  <2>7. Times(rx', Settings(h)) \in Nat
    BY TimesType DEF TypeOK
  <2>8. \A c : InUse(h, c)' <=> InUse(h, c)
    BY <1>1 DEF InUse, Up
  <2>9. ASSUME NEW c \in PeerCid, InUse(h, c)'
        PROVE  /\ greeted'[h] <= moves'[h] + 1
               /\ greeted'[h] + Times(rx', Settings(h)') + Unsent(peer'[h][c]) <= moves'[h] + 1 + Spare(h)'
    <3>1. /\ greeted[h] <= moves[h] + 1
          /\ greeted[h] + Times(rx, Settings(h)) + Unsent(peer[h][c]) <= moves[h] + 1 + Spare(h)
      BY <2>8, <2>9 DEF Tally
    <3>2. PICK t, u, v, w : t = Times(rx, Settings(h)) /\ u = Times(rx', Settings(h))
                           /\ v = Spare(h) /\ w = Unsent(peer[h][c])
      OBVIOUS
    <3>3. t \in Nat /\ u \in Nat /\ v \in {0, 1} /\ w \in 0 .. 2 /\ u + 1 <= t
      BY <1>4, <2>1, <2>6, <2>7, <3>2
    <3>4. greeted[h] + t + w <= moves[h] + 1 + v
      BY <3>1, <3>2
    <3>5. greeted'[h] = greeted[h] \/ (greeted'[h] = greeted[h] + 1 /\ v = 0)
      BY <2>5, <3>2
    <3>6. greeted'[h] <= moves[h] + 1 /\ greeted'[h] + u + w <= moves[h] + 1
      <4>1. PICK a, b, n : a = greeted[h] /\ b = greeted'[h] /\ n = moves[h]
        OBVIOUS
      <4>2. /\ a \in Nat /\ n \in Nat /\ a <= n + 1 /\ a + t + w <= n + 1 + v
            /\ b = a \/ (b = a + 1 /\ v = 0)
        BY <2>6, <3>1, <3>4, <3>5, <4>1
      <4>3. b <= n + 1 /\ b + u + w <= n + 1
        BY <3>3, <4>2
      <4>. QED  BY <4>1, <4>3
    <3>. QED  BY <1>1, <1>3, <2>3, <2>6, <3>2, <3>3, <3>6
  <2>10. ASSUME \A c \in PeerCid : ~InUse(h, c)'
         PROVE  /\ greeted'[h] <= moves'[h]
                /\ greeted'[h] + Times(rx', Settings(h)') <= moves'[h] + Spare(h)'
    <3>1. /\ greeted[h] <= moves[h]
          /\ greeted[h] + Times(rx, Settings(h)) <= moves[h] + Spare(h)
      BY <2>8, <2>10 DEF Tally
    <3>. QED  BY <1>1, <1>3, <1>4, <2>1, <2>3, <2>5, <2>6, <2>7, <3>1
  <2>. QED  BY <2>9, <2>10 DEF Tally
<1>. QED  BY <1>5, <1>6

\* The others leave the application untold.
LEMMA HandlersTally ==
  ASSUME "appDisconnect" \notin Moves, Before, Counted, ProtocolOk', TypeOK', ~wrapped', Handlers,
         NEW h \in Handle, Tally(h)
  PROVE  Tally(h)'
<1>1. PICK type : Receives(type)
  BY DEF Handlers, HandleHCIConnectionComplete, HandleHCIDisconnect, HandleL2ConnectionRequest,
         HandleL2ConnectionResponse, HandleL2ConfigurationRequest, HandleL2ConfigurationResponse,
         HandleL2DisconnectRequest, HandleL2DisconnectResponse, HandleACLData
<1>2. /\ rx # <<>> /\ rx' = Tail(rx) /\ UNCHANGED env
      /\ UNCHANGED <<peer, link, since, moves>> /\ TypeOK /\ rx \in Seq(Packet) /\ rx' \in Seq(Packet)
  <2>1. TypeOK /\ rx \in Seq(Packet)
    BY StateFacts DEF Before, CidInv
  <2>. QED  BY <1>1, <2>1, TailFacts DEF Receives, env, links
<1>3. Times(rx', Settings(h)) <= Times(rx, Settings(h))
  BY <1>2, TimesTail
<1>4. Spare(h) \in {0, 1} /\ Spare(h)' \in {0, 1}
  BY DEF Spare
<1>5. ASSUME NEW g, NEW k, NEW l, g = Head(rx).handle, Configures(g, k, l)
      PROVE  Tally(h)'
  BY <1>2, <1>5, ConfiguresTally
<1>6. CASE /\ UNCHANGED app
           /\ \A l \in Channels' : l \in Channels \/ (~l.localConfigured /\ ~l.remoteConfigured)
  <2>1. greeted'[h] = greeted[h]
    BY <1>6 DEF app
  <2>2. Lifecycle!Next \/ UNCHANGED Channels
    <3>1. CidInv /\ NamesInv /\ ProtocolInv
      BY DEF Before, NamesInv, ProtocolInv
    <3>2. [Next]_vars
      BY DEF Next
    <3>. QED  BY <3>1, <3>2, NextLifecycle DEF Lifecycle!vars
  <2>3. CASE UNCHANGED Channels
    <3>1. Settings(h)' = Settings(h) /\ Spare(h)' = Spare(h)
      BY <1>2, <2>3 DEF Settings, Spare, Interrupts, ChannelsOf
    <3>. QED  BY <1>2, <1>3, <1>4, <2>1, <3>1, HostTally
  <2>4. CASE Lifecycle!Begin
    <3>1. \A k \in Channels : k \in Channels'
      BY <2>4 DEF Lifecycle!Begin
    <3>2. Spare(h) <= Spare(h)'
      <4>1. \A k \in Interrupts(h) : k \in Interrupts(h)'
        BY <1>2, <3>1 DEF Interrupts, ChannelsOf
      <4>. QED  BY <1>4, <4>1 DEF Spare
    <3>3. \A m \in Packets(rx) : m \in Settings(h)' => m \in Settings(h)
      <4>1. ASSUME NEW m \in Packets(rx), m \in Settings(h)'
            PROVE  m \in Settings(h)
        <5>1. PICK k \in Interrupts(h)' : k.localCid = Name(m)
          BY <4>1 DEF Settings
        <5>2. m \in Packet /\ m.type \in Naming /\ m.handle = h /\ m.type \in {"ConfReq", "ConfRsp"}
          BY <4>1 DEF Settings, Naming
        <5>3. Name(m) < g_localCid /\ Name(m) \in Nat /\ g_localCid \in Nat /\ FirstCid \in Nat
          <6>1. Issued(h, Name(m)) /\ g_localCid \in Nat /\ FirstCid \in Nat
            BY <1>2, <5>2, StateFacts, ConstantsAssumption, MaxType DEF Before, NamesOk, RxIssued, Cid, U16
          <6>. QED  BY <5>2, <6>1, NameType DEF Issued
        <5>4. k \in Channels
          <6>1. k \in Channels' /\ (k \in Lifecycle!New => k.localCid \in (FirstCid .. g_localCid' - 1) \ (FirstCid .. g_localCid - 1))
            BY <2>4 DEF Lifecycle!Begin, Interrupts, ChannelsOf
          <6>2. g_localCid' \in Nat
            BY NextStateFacts
          <6>3. k \notin Lifecycle!New
            BY <5>1, <5>3, <6>1, <6>2
          <6>. QED  BY <6>1, <6>3 DEF Lifecycle!New
        <5>5. k \in Interrupts(h)
          BY <1>2, <5>4 DEF Interrupts, ChannelsOf
        <5>. QED  BY <5>1, <5>2, <5>5 DEF Settings
      <4>. QED  BY <4>1
    <3>4. Times(rx', Settings(h)') <= Times(rx, Settings(h))
      <4>1. PICK Y, Z : Y = Settings(h)' /\ Z = Settings(h)
        OBVIOUS
      <4>2. Times(Tail(rx), Y) <= Times(rx, Y) /\ Times(rx, Y) <= Times(rx, Z)
        BY <1>2, <3>3, <4>1, TimesTail, TimesLess
      <4>3. Times(Tail(rx), Y) \in Nat /\ Times(rx, Y) \in Nat /\ Times(rx, Z) \in Nat
        BY <1>2, TimesType
      <4>. QED  BY <1>2, <4>1, <4>2, <4>3
    <3>. QED  BY <1>2, <2>1, <3>2, <3>4, HostTally
  <2>5. ASSUME NEW c \in Channels, NEW d \in Lifecycle!New, Lifecycle!Answer(c, d.remoteCid)
        PROVE  Tally(h)'
    <3>1. PICK e : e = [c EXCEPT !.remoteCid = d.remoteCid]
      OBVIOUS
    <3>2. /\ e.handle = c.handle /\ e.psm = c.psm /\ e.localCid = c.localCid
          /\ e.localConfigured = c.localConfigured /\ e.remoteConfigured = c.remoteConfigured
      <4>1. c \in Connection
        BY <1>2, StateFacts, ChannelsFacts
      <4>. QED  BY <3>1, <4>1 DEF Connection
    <3>3. Channels' = (Channels \ {c}) \cup {e}
      BY <2>5, <3>1 DEF Lifecycle!Answer, Lifecycle!Becomes
    <3>4. /\ \A k \in Interrupts(h) : k # c => k \in Interrupts(h)'
          /\ \A k \in Interrupts(h)' : k = e \/ k \in Interrupts(h)
          /\ c \in Interrupts(h) <=> e \in Interrupts(h)'
      BY <1>2, <3>2, <3>3 DEF Interrupts, ChannelsOf
    <3>5. Settings(h)' = Settings(h) /\ Spare(h)' = Spare(h)
      BY <3>2, <3>4 DEF Settings, Spare
    <3>. QED  BY <1>2, <1>3, <1>4, <2>1, <3>5, HostTally
  <2>6. ASSUME NEW c \in Channels, NEW d \in Lifecycle!New, Lifecycle!Configure(c, d)
        PROVE  FALSE
    <3>1. c \in Connection
      BY <1>2, StateFacts, ChannelsFacts
    <3>2. d.localConfigured \/ d.remoteConfigured
      BY <2>6, <3>1 DEF Lifecycle!Configure, Connection
    <3>. QED  BY <1>6, <3>2 DEF Lifecycle!New
  <2>7. ASSUME NEW c \in Channels, Lifecycle!End(c)
        PROVE  Tally(h)'
    <3>1. Channels' = Channels \ {c}
      BY <2>7 DEF Lifecycle!End
    <3>2. \A k : k \in Interrupts(h)' <=> k \in Interrupts(h) /\ k # c
      BY <1>2, <3>1 DEF Interrupts, ChannelsOf
    <3>3. LinkAt(h) /\ LinkAt(h)'
      BY DEF Before, ProtocolOk, LinksProtocol
    <3>4. CASE c \in Interrupts(h)
      <4>1. Interrupts(h)' = {}
        <5>1. \A k \in Interrupts(h) : k = c
          BY <3>3, <3>4, InterruptChannel DEF OneInterrupt
        <5>. QED  BY <3>2, <5>1
      <4>2. Settings(h)' = {} /\ Times(rx', Settings(h)') = 0
        <5>1. Settings(h)' = {}
          BY <4>1 DEF Settings
        <5>. QED  BY <1>2, <5>1, TimesNone
      <4>3. \A e \in PeerCid : ~InUse(h, e)
        <5>1. \A e \in PeerCid : InUse(h, e)' =>
                \E k \in Interrupts(h)' : k.localCid = peer'[h][e].hostCid
          BY <3>3, InterruptChannelNext DEF OneInterrupt
        <5>2. \A e : InUse(h, e)' <=> InUse(h, e)
          BY <1>2 DEF InUse, Up
        <5>. QED  BY <4>1, <5>1, <5>2
      <4>4. Times(rx, Settings(h)) \in Nat
        BY <1>2, TimesType
      <4>5. Times(rx', Settings(h)') <= Times(rx, Settings(h))
        BY <4>2, <4>4
      <4>. QED  BY <1>2, <2>1, <4>2, <4>3, <4>5, HostTally
    <3>5. CASE c \notin Interrupts(h)
      <4>1. Interrupts(h)' = Interrupts(h)
        BY <3>2, <3>5
      <4>2. Settings(h)' = Settings(h) /\ Spare(h)' = Spare(h)
        BY <4>1 DEF Settings, Spare
      <4>. QED  BY <1>2, <1>3, <1>4, <2>1, <4>2, HostTally
    <3>. QED  BY <3>4, <3>5
  <2>. QED  BY <2>2, <2>3, <2>4, <2>5, <2>6, <2>7 DEF Lifecycle!Next
<1>. QED  BY <1>5, <1>6, HandlersChannels

LEMMA DeliversTimes ==
  ASSUME TypeOK, TypeOK', NEW m, Delivers(m), NEW Y
  PROVE  /\ m \in Packet
         /\ Times(rx', Y) <= Times(rx, Y) + 1
         /\ m \notin Y => Times(rx', Y) <= Times(rx, Y)
<1>1. rx \in Seq(Packet) /\ rx' \in Seq(Packet) /\ rx' = Append(rx, m)
  BY StateFacts, NextStateFacts DEF Delivers
<1>2. m \in Packet
  <2>1. rx'[Len(rx) + 1] = m /\ Len(rx) + 1 \in DOMAIN rx'
    BY <1>1
  <2>. QED  BY <1>1, <2>1, QueueFacts
<1>3. Times(rx, Y) \in Nat
  BY <1>1, TimesType
<1>. QED  BY <1>1, <1>2, <1>3, TimesAppend

LEMMA MovingFacts ==
  ASSUME TypeOK, NEW h \in Handle, NEW kind, Moving(h, kind)
  PROVE  moves'[h] = moves[h] + 1 /\ \A g \in Handle : g # h => moves'[g] = moves[g]
BY DEF Moving, TypeOK

\* A step on one link is none for the others.
LEMMA OtherTally ==
  ASSUME TypeOK, TypeOK', NEW h \in Handle, Tally(h), UNCHANGED <<connections, greeted>>,
         since'[h] = since[h], link'[h] = link[h], peer'[h] = peer[h], moves'[h] = moves[h],
         rx' = rx \/ \E n : Delivers(n) /\ n \notin Settings(h)
  PROVE  Tally(h)'
<1>1. Times(rx, Settings(h)) \in Nat
  BY TallyTypes
<1>2. Times(rx', Settings(h)) <= Times(rx, Settings(h)) + 0
  BY <1>1, DeliversTimes
<1>3. \A c \in PeerCid : /\ InUse(h, c)' <=> InUse(h, c)
                         /\ Unsent(peer'[h][c]) = Unsent(peer[h][c]) /\ Unsent(peer[h][c]) \in 0 .. 2
  BY TallyTypes DEF InUse, Up
<1>4. moves'[h] = moves[h] + 0
  BY TallyTypes
<1>5. \A c \in PeerCid : InUse(h, c)' =>
        InUse(h, c) /\ Unsent(peer'[h][c]) + 0 <= Unsent(peer[h][c]) + 0
  BY <1>3
<1>6. PICK z \in {0, 1} : z = 0
  OBVIOUS
<1>. QED  BY <1>2, <1>3, <1>4, <1>5, <1>6, BoardTally

LEMMA StepTally ==
  ASSUME TypeOK, TypeOK', NEW h \in Handle, \A g \in Handle : Tally(g),
         UNCHANGED <<connections, greeted>>,
         \A g \in Handle : g # h => /\ since'[g] = since[g] /\ link'[g] = link[g]
                                    /\ peer'[g] = peer[g] /\ moves'[g] = moves[g],
         rx' = rx \/ \E n : Delivers(n) /\ n.handle = h,
         Tally(h)'
  PROVE  \A g \in Handle : Tally(g)'
<1>1. ASSUME NEW g \in Handle, g # h
      PROVE  Tally(g)'
  <2>1. \A n : n.handle = h => n \notin Settings(g)
    BY <1>1 DEF Settings
  <2>. QED  BY <1>1, <2>1, OtherTally
<1>. QED  BY <1>1

\* A board's end c changes, or stays as it is: it is not in use before and
\* after, it stays in use, or it is closed in an optional step.
LEMMA EndTally ==
  ASSUME Before, TypeOK', NEW h \in Handle, NEW c \in PeerCid, Tally(h),
         UNCHANGED <<connections, greeted>>, since'[h] = since[h], link'[h] = link[h],
         \A x \in PeerCid : x # c => peer'[h][x] = peer[h][x],
         NEW d \in {0, 1}, moves'[h] = moves[h] + d,
         NEW r \in {0, 1}, Times(rx', Settings(h)) <= Times(rx, Settings(h)) + r,
         \/ ~InUse(h, c) /\ ~InUse(h, c)' /\ r <= d
         \/ InUse(h, c) /\ InUse(h, c)' /\ Unsent(peer'[h][c]) + r <= Unsent(peer[h][c]) + d
         \/ InUse(h, c) /\ ~InUse(h, c)' /\ d = 1 /\ r = 0
  PROVE  Tally(h)'
<1>1. TypeOK /\ LinkAt(h)
  BY DEF Before, CidInv, ProtocolOk, LinksProtocol
<1>2. \A x \in PeerCid : InUse(h, c) /\ InUse(h, x) => x = c
  BY <1>1, InterruptChannel DEF OneInterrupt
<1>3. \A x \in PeerCid : x # c => /\ InUse(h, x)' <=> InUse(h, x)
                                  /\ Unsent(peer'[h][x]) = Unsent(peer[h][x])
                                  /\ Unsent(peer[h][x]) \in 0 .. 2
  BY <1>1, TallyTypes DEF InUse, Up
<1>4. ASSUME NEW x \in PeerCid, InUse(h, x)'
      PROVE  InUse(h, x) /\ Unsent(peer'[h][x]) + r <= Unsent(peer[h][x]) + d
  <2>1. CASE x = c
    BY <1>4, <2>1
  <2>2. CASE x # c
    <3>1. InUse(h, x) /\ ~InUse(h, c)
      BY <1>2, <1>3, <1>4, <2>2
    <3>2. r <= d
      BY <3>1
    <3>. QED  BY <1>3, <2>2, <3>1, <3>2
  <2>. QED  BY <2>1, <2>2
<1>5. ASSUME \A x \in PeerCid : ~InUse(h, x)'
      PROVE  ((\A x \in PeerCid : ~InUse(h, x)) /\ r <= d) \/ (d = 1 /\ r = 0)
  <2>1. CASE InUse(h, c)
    BY <1>5, <2>1
  <2>2. CASE ~InUse(h, c)
    <3>1. r <= d
      BY <2>2
    <3>2. \A x \in PeerCid : ~InUse(h, x)
      BY <1>3, <1>5, <2>2
    <3>. QED  BY <3>1, <3>2
  <2>. QED  BY <2>1, <2>2
<1>. QED  BY <1>1, <1>4, <1>5, BoardTally

\* A board and the host have a new interrupt channel.
LEMMA AcceptTally ==
  ASSUME Before, ProtocolOk', TypeOK', NEW h \in Handle, NEW c \in PeerCid, Tally(h),
         UNCHANGED <<connections, greeted>>, since'[h] = since[h], link'[h] = link[h],
         moves'[h] = moves[h],
         \A x \in PeerCid : x # c => peer'[h][x] = peer[h][x],
         ~InUse(h, c), InUse(h, c)', ~peer'[h][c].reqSent, ~peer'[h][c].rspSent
  PROVE  Tally(h)'
<1>1. TypeOK /\ LinkAt(h)'
  BY DEF Before, CidInv, ProtocolOk, LinksProtocol
<1>2. /\ \A j, k \in Interrupts(h)' : j = k
      /\ \A x, y \in PeerCid : InUse(h, x)' /\ InUse(h, y)' => x = y
      /\ \E k \in Interrupts(h)' : k.localCid = peer'[h][c].hostCid
  BY <1>1, InterruptChannelNext DEF OneInterrupt
<1>3. \A x \in PeerCid : ~InUse(h, x) /\ (x # c => ~InUse(h, x)')
  <2>1. \A x \in PeerCid : x # c => (InUse(h, x)' <=> InUse(h, x))
    BY DEF InUse, Up
  <2>. QED  BY <1>2, <2>1
<1>4. PICK k \in Interrupts(h)' : k.localCid = peer'[h][c].hostCid
  BY <1>2
<1>5. PICK R, K, P : R = FromBoard(h)' /\ K = ChannelsOf(h)' /\ P = peer'[h]
  OBVIOUS
<1>6. EndsSent(R, K, P) /\ EndsConfig(R, K, P) /\ P[c].state = "config"
      /\ ~P[c].reqSent /\ ~P[c].rspSent /\ k \in K /\ k.localCid = P[c].hostCid
  BY <1>1, <1>4, <1>5 DEF LinkAt, Protocol, InUse, Interrupts
<1>7. ~k.remoteConfigured /\ ~k.localConfigured
  BY <1>6 DEF EndsConfig
<1>8. Spare(h)' = 1
  BY <1>4, <1>7 DEF Spare
<1>9. Times(rx', Settings(h)') = 0
  <2>1. \A m \in Packets(rx') : m \notin Settings(h)'
    <3>. SUFFICES ASSUME NEW m \in Packets(rx'), m \in Settings(h)' PROVE FALSE
      OBVIOUS
    <3>1. m \in R /\ m.type \in {"ConfReq", "ConfRsp"} /\ Name(m) = k.localCid
      BY <1>2, <1>4, <1>5 DEF Settings, FromBoard
    <3>. QED  BY <1>6, <3>1 DEF EndsSent, Naming
  <2>2. rx' \in Seq(Packet)
    BY NextStateFacts
  <2>. QED  BY <2>1, <2>2, TimesNone
<1>10. Unsent(peer'[h][c]) = 2
  BY DEF Unsent
<1>11. greeted[h] <= moves[h] /\ greeted[h] \in Nat /\ moves[h] \in Nat
  BY <1>1, <1>3, TallyTypes DEF Tally
<1>12. /\ greeted'[h] <= moves'[h] + 1
       /\ greeted'[h] + Times(rx', Settings(h)') + Unsent(peer'[h][c]) <= moves'[h] + 1 + Spare(h)'
  BY <1>8, <1>9, <1>10, <1>11
<1>. QED  BY <1>3, <1>12 DEF Tally

\* What a board starts.
LEMMA BoardsTally ==
  ASSUME Before, ProtocolOk', TypeOK', \A g \in Handle : Tally(g),
         NEW h \in Handle, NEW c \in PeerCid,
         \/ \E psm \in PeerPsm : PeerConnect(h, c, psm)
         \/ PeerDisconnect(h, c)
         \/ PeerData(h, c)
         \/ \E result \in Results : PeerDecides(h, c, result)
         \/ \E form \in Forms : PeerConfigure(h, c, form) \/ PeerReconfigure(h, c, form)
         \/ \E result \in ConfResults : PeerConcludes(h, c, result)
  PROVE  \A g \in Handle : Tally(g)'
<1>1. PICK b \in End : b = peer[h][c]
  BY StateFacts DEF Before, CidInv
<1>2. /\ TypeOK /\ LinkAt(h) /\ Tally(h) /\ UNCHANGED <<connections, greeted, link, since>>
      /\ Up(h)
  <2>1. UNCHANGED <<host, links>> /\ Up(h)
    BY DEF PeerConnect, PeerDisconnect, PeerData, PeerDecides, PeerConfigure, PeerReconfigure,
           PeerConcludes, Up
  <2>. QED  BY <2>1 DEF Before, CidInv, ProtocolOk, LinksProtocol, host, store, app, links
<1>3. ASSUME NEW e, SetEnd(h, c, e)
      PROVE  /\ peer'[h][c] = e /\ \A x \in PeerCid : x # c => peer'[h][x] = peer[h][x]
             /\ \A g \in Handle : g # h => peer'[g] = peer[g]
  BY <1>2, <1>3, SetEndFacts
<1>4. ASSUME NEW n, Delivers(n), n.handle = h,
             \A g \in Handle : g # h => peer'[g] = peer[g] /\ moves'[g] = moves[g],
             Tally(h)'
      PROVE  \A g \in Handle : Tally(g)'
  BY <1>2, <1>4, StepTally
<1>5. ASSUME NEW n, Delivers(n), n.type \notin {"ConfReq", "ConfRsp"}
      PROVE  Times(rx', Settings(h)) <= Times(rx, Settings(h)) + 0
  <2>1. n \notin Settings(h) /\ Times(rx, Settings(h)) \in Nat
    BY <1>2, <1>5, TallyTypes DEF Settings
  <2>. QED  BY <1>2, <1>5, <2>1, DeliversTimes
<1>6. \A x \in PeerCid : Unsent(peer[h][x]) \in 0 .. 2 /\ moves[h] \in Nat
  BY <1>2, TallyTypes
<1>7. 0 \in {0, 1} /\ 1 \in {0, 1}
  OBVIOUS
<1>8. InUse(h, c) <=> b.state = "config" /\ b.psm = HidInterrupt
  BY <1>1, <1>2 DEF InUse
<1>9. InUse(h, c)' <=> peer'[h][c].state = "config" /\ peer'[h][c].psm = HidInterrupt
  BY <1>2 DEF InUse, Up
<1>0. ASSUME NEW e, SetEnd(h, c, e), NEW d \in {0, 1}, moves'[h] = moves[h] + d,
             Times(rx', Settings(h)) <= Times(rx, Settings(h)) + 0,
             ~InUse(h, c)', d = 1 \/ ~InUse(h, c)
      PROVE  Tally(h)'
  <2>1. \/ ~InUse(h, c) /\ ~InUse(h, c)' /\ 0 <= d
        \/ InUse(h, c) /\ ~InUse(h, c)' /\ d = 1 /\ 0 = 0
    BY <1>0
  <2>. QED  BY <1>0, <1>2, <1>3, <1>7, <2>1, EndTally
<1>10. ASSUME NEW psm \in PeerPsm, PeerConnect(h, c, psm)
       PROVE  \A g \in Handle : Tally(g)'
  <2>1. PICK n, e : n = ConnReq(h, psm, c) /\ e = NewEnd("waiting", psm, 0)
    OBVIOUS
  <2>2. Delivers(n) /\ SetEnd(h, c, e) /\ UNCHANGED moves /\ b.state = "closed"
    BY <1>1, <1>10, <2>1 DEF PeerConnect
  <2>3. n.handle = h /\ n.type = "ConnReq" /\ e.state = "waiting"
    BY <2>1 DEF ConnReq, Make, NewEnd
  <2>4. ~InUse(h, c) /\ ~InUse(h, c)' /\ moves'[h] = moves[h] + 0
    BY <1>3, <1>6, <1>8, <1>9, <2>2, <2>3
  <2>5. Tally(h)'
    BY <1>0, <1>5, <1>7, <2>2, <2>3, <2>4
  <2>. QED  BY <1>3, <1>4, <2>2, <2>3, <2>5
<1>11. CASE PeerDisconnect(h, c)
  <2>1. PICK n, e : n = DiscReq(h, b.hostCid, c) /\ e = [b EXCEPT !.state = "closing"]
    OBVIOUS
  <2>2. Delivers(n) /\ SetEnd(h, c, e) /\ Moving(h, "peerDisconnect")
    BY <1>1, <1>11, <2>1 DEF PeerDisconnect
  <2>3. n.handle = h /\ n.type = "DiscReq" /\ e.state = "closing"
    BY <1>1, <2>1 DEF DiscReq, Make, End
  <2>4. ~InUse(h, c)' /\ moves'[h] = moves[h] + 1 /\ \A g \in Handle : g # h => moves'[g] = moves[g]
    BY <1>2, <1>3, <1>9, <2>2, <2>3, MovingFacts
  <2>5. Tally(h)'
    BY <1>0, <1>5, <1>7, <2>2, <2>3, <2>4
  <2>. QED  BY <1>3, <1>4, <2>2, <2>3, <2>4, <2>5
<1>12. CASE PeerData(h, c)
  <2>1. PICK n : n = Data(h, HidInterrupt, b.hostCid)
    OBVIOUS
  <2>2. Delivers(n) /\ UNCHANGED <<peer, moves>>
    BY <1>1, <1>12, <2>1 DEF PeerData
  <2>3. n.handle = h /\ n.type = "Data" /\ n \notin Settings(h)
    BY <2>1 DEF Data, Make, Settings
  <2>4. Tally(h)'
    BY <1>2, <2>2, <2>3, OtherTally
  <2>. QED  BY <1>4, <2>2, <2>3, <2>4
<1>13. ASSUME NEW result \in Results, PeerDecides(h, c, result)
       PROVE  \A g \in Handle : Tally(g)'
  <2>1. PICK n : n = ConnRsp(h, IF result = Refused THEN 0 ELSE c, b.hostCid, result)
    OBVIOUS
  <2>2. PICK e : /\ SetEnd(h, c, e)
                 /\ e \in {[b EXCEPT !.state = "config"], [b EXCEPT !.state = "closed"]}
    BY <1>1, <1>13 DEF PeerDecides
  <2>3. Delivers(n) /\ UNCHANGED moves /\ b.state = "pending"
    BY <1>1, <1>13, <2>1 DEF PeerDecides
  <2>4. /\ n.handle = h /\ n.type = "ConnRsp" /\ e.state \in {"config", "closed"}
        /\ e.reqSent = b.reqSent /\ e.rspSent = b.rspSent
    BY <1>1, <2>1, <2>2 DEF ConnRsp, Make, End
  <2>5. ~InUse(h, c) /\ peer'[h][c] = e /\ moves'[h] = moves[h] + 0
    BY <1>3, <1>6, <1>8, <2>2, <2>3
  <2>6. CASE InUse(h, c)'
    <3>1. EndsNew(peer[h])
      BY <1>2 DEF LinkAt, Protocol
    <3>2. ~e.reqSent /\ ~e.rspSent
      BY <1>1, <2>3, <2>4, <3>1 DEF EndsNew
    <3>3. moves'[h] = moves[h]
      BY <2>3
    <3>4. Tally(h)'
      BY <1>2, <1>3, <2>2, <2>5, <2>6, <3>2, <3>3, AcceptTally
    <3>. QED  BY <1>3, <1>4, <2>2, <2>3, <2>4, <3>4
  <2>7. CASE ~InUse(h, c)'
    <3>1. Tally(h)'
      BY <1>0, <1>5, <1>7, <2>2, <2>3, <2>4, <2>5, <2>7
    <3>. QED  BY <1>3, <1>4, <2>2, <2>3, <2>4, <3>1
  <2>. QED  BY <2>6, <2>7
<1>14. ASSUME NEW form \in Forms, PeerConfigure(h, c, form)
       PROVE  \A g \in Handle : Tally(g)'
  <2>1. PICK n, e : n = ConfReq(h, b.hostCid, form) /\ e = [b EXCEPT !.reqSent = TRUE]
    OBVIOUS
  <2>2. Delivers(n) /\ SetEnd(h, c, e) /\ UNCHANGED moves /\ b.state = "config" /\ ~b.reqSent
    BY <1>1, <1>14, <2>1 DEF PeerConfigure
  <2>3. /\ n.handle = h /\ n.type = "ConfReq" /\ n.dcid = b.hostCid
        /\ e.state = b.state /\ e.psm = b.psm /\ e.reqSent /\ e.rspSent = b.rspSent
    BY <1>1, <2>1 DEF ConfReq, Make, End
  <2>4. peer'[h][c] = e /\ moves'[h] = moves[h] + 0 /\ (InUse(h, c)' <=> InUse(h, c))
    BY <1>3, <1>6, <1>8, <1>9, <2>2, <2>3
  <2>5. CASE InUse(h, c)
    <3>1. Unsent(peer'[h][c]) + 1 <= Unsent(peer[h][c]) + 0
      BY <1>1, <1>6, <2>2, <2>3, <2>4 DEF Unsent
    <3>2. Times(rx', Settings(h)) <= Times(rx, Settings(h)) + 1
      BY <1>2, <2>2, DeliversTimes
    <3>3. Tally(h)'
      BY <1>2, <1>3, <1>7, <2>2, <2>4, <2>5, <3>1, <3>2, EndTally
    <3>. QED  BY <1>3, <1>4, <2>2, <2>3, <3>3
  <2>6. CASE ~InUse(h, c)
    <3>1. n \notin Settings(h)
      <4>1. \A k \in ChannelsOf(h) : k.localCid = b.hostCid => k.psm = b.psm
        BY <1>1, <1>2, <2>2 DEF LinkAt, Protocol, EndsConfig
      <4>2. b.psm # HidInterrupt
        BY <1>8, <2>2, <2>6
      <4>. QED  BY <2>3, <4>1, <4>2 DEF Settings, Interrupts, Name
    <3>2. Times(rx', Settings(h)) <= Times(rx, Settings(h)) + 0
      <4>1. Times(rx, Settings(h)) \in Nat
        BY <1>2, TallyTypes
      <4>. QED  BY <1>2, <2>2, <3>1, <4>1, DeliversTimes
    <3>3. Tally(h)'
      BY <1>0, <1>7, <2>2, <2>4, <2>6, <3>2
    <3>. QED  BY <1>3, <1>4, <2>2, <2>3, <3>3
  <2>. QED  BY <2>5, <2>6
<1>15. ASSUME NEW n, Delivers(n), n.handle = h, NEW kind, Moving(h, kind),
              \A g \in Handle : g # h => peer'[g] = peer[g],
              \A x \in PeerCid : /\ InUse(h, x)' <=> InUse(h, x)
                                 /\ Unsent(peer'[h][x]) = Unsent(peer[h][x])
       PROVE  \A g \in Handle : Tally(g)'
  <2>1. moves'[h] = moves[h] + 1 /\ \A g \in Handle : g # h => moves'[g] = moves[g]
    BY <1>2, <1>15, MovingFacts
  <2>2. Times(rx', Settings(h)) <= Times(rx, Settings(h)) + 1
    BY <1>2, <1>15, DeliversTimes
  <2>3. \A x \in PeerCid : InUse(h, x)' =>
          InUse(h, x) /\ Unsent(peer'[h][x]) + 1 <= Unsent(peer[h][x]) + 1
    BY <1>6, <1>15
  <2>4. Tally(h)'
    BY <1>2, <1>7, <1>15, <2>1, <2>2, <2>3, BoardTally
  <2>. QED  BY <1>4, <1>15, <2>1, <2>4
<1>16. ASSUME NEW form \in Forms, PeerReconfigure(h, c, form)
       PROVE  \A g \in Handle : Tally(g)'
  <2>1. PICK n : n = ConfReq(h, b.hostCid, form)
    OBVIOUS
  <2>2. Delivers(n) /\ UNCHANGED peer /\ Moving(h, "reconfigure")
    BY <1>1, <1>16, <2>1 DEF PeerReconfigure
  <2>3. n.handle = h
    BY <2>1 DEF ConfReq, Make
  <2>4. \A x \in PeerCid : /\ InUse(h, x)' <=> InUse(h, x)
                           /\ Unsent(peer'[h][x]) = Unsent(peer[h][x])
    BY <1>2, <2>2 DEF InUse, Up
  <2>. QED  BY <1>15, <2>2, <2>3, <2>4
<1>17. ASSUME NEW result \in ConfResults, PeerConcludes(h, c, result)
       PROVE  \A g \in Handle : Tally(g)'
  <2>1. PICK n, e : n = ConfRsp(h, b.hostCid, result) /\ e = [b EXCEPT !.verdict = result]
    OBVIOUS
  <2>2. Delivers(n) /\ SetEnd(h, c, e) /\ Moving(h, "reconfigure")
    BY <1>1, <1>17, <2>1 DEF PeerConcludes
  <2>3. /\ n.handle = h /\ e.state = b.state /\ e.psm = b.psm
        /\ e.reqSent = b.reqSent /\ e.rspSent = b.rspSent
    BY <1>1, <2>1 DEF ConfRsp, Make, End
  <2>4. \A x \in PeerCid : /\ InUse(h, x)' <=> InUse(h, x)
                           /\ Unsent(peer'[h][x]) = Unsent(peer[h][x])
    <3>1. ASSUME NEW x \in PeerCid, x # c
          PROVE  (InUse(h, x)' <=> InUse(h, x)) /\ Unsent(peer'[h][x]) = Unsent(peer[h][x])
      BY <1>2, <1>3, <2>2, <3>1 DEF InUse, Up
    <3>2. (InUse(h, c)' <=> InUse(h, c)) /\ Unsent(peer'[h][c]) = Unsent(peer[h][c])
      BY <1>1, <1>3, <1>8, <1>9, <2>2, <2>3 DEF Unsent
    <3>. QED  BY <3>1, <3>2
  <2>. QED  BY <1>3, <1>15, <2>2, <2>3, <2>4
<1>. QED  BY <1>10, <1>11, <1>12, <1>13, <1>14, <1>16, <1>17

\* What a board does with what it receives.
LEMMA RepliesTally ==
  ASSUME Before, ProtocolOk', TypeOK', \A g \in Handle : Tally(g), NEW h \in Handle, PeerReply(h)
  PROVE  \A g \in Handle : Tally(g)'
<1>0. PICK m : m = Head(air[h])
  OBVIOUS
<1>1. PICK type : PeerReceives(h, type)
  BY DEF PeerReply, PeerOnConnReq, PeerOnConnRsp, PeerOnConfReq, PeerOnConfRsp, PeerOnDiscReq,
         PeerOnDiscRsp, PeerOnData
<1>2. /\ TypeOK /\ LinkAt(h) /\ Tally(h) /\ UNCHANGED <<connections, greeted, link, since, moves>>
      /\ Up(h) /\ m \in ToBoard(h) /\ SentOk(h, m) /\ m.type = type
  <2>1. UNCHANGED <<host, links, moves>>
    BY <1>1 DEF PeerReceives
  <2>. QED  BY <1>0, <1>1, <2>1, BoardTakes
            DEF Before, CidInv, ProtocolOk, LinksProtocol, host, store, app, links
<1>3. ASSUME NEW c \in PeerCid, NEW e, SetEnd(h, c, e)
      PROVE  /\ peer'[h][c] = e /\ \A x \in PeerCid : x # c => peer'[h][x] = peer[h][x]
             /\ \A g \in Handle : g # h => peer'[g] = peer[g]
  BY <1>2, <1>3, SetEndFacts
<1>4. ASSUME rx' = rx \/ \E n : Delivers(n) /\ n.handle = h,
             \A g \in Handle : g # h => peer'[g] = peer[g], Tally(h)'
      PROVE  \A g \in Handle : Tally(g)'
  BY <1>2, <1>4, StepTally
<1>5. ASSUME UNCHANGED peer,
             rx' = rx \/ \E n : Delivers(n) /\ n.handle = h /\ n.type \notin {"ConfReq", "ConfRsp"}
      PROVE  \A g \in Handle : Tally(g)'
  <2>1. \A n : n.type \notin {"ConfReq", "ConfRsp"} => n \notin Settings(h)
    BY DEF Settings
  <2>2. Tally(h)'
    BY <1>2, <1>5, <2>1, OtherTally
  <2>. QED  BY <1>4, <1>5, <2>2
<1>6. moves'[h] = moves[h] + 0 /\ Times(rx, Settings(h)) \in Nat
      /\ \A x \in PeerCid : Unsent(peer[h][x]) \in 0 .. 2
  BY <1>2, TallyTypes
<1>7. 0 \in {0, 1} /\ 1 \in {0, 1}
  OBVIOUS
<1>8. ASSUME NEW c \in PeerCid, NEW e, SetEnd(h, c, e),
             rx' = rx \/ \E n : Delivers(n) /\ n.handle = h /\ n.type \notin {"ConfReq", "ConfRsp"},
             \/ ~InUse(h, c) /\ ~InUse(h, c)'
             \/ ~InUse(h, c) /\ InUse(h, c)' /\ ~e.reqSent /\ ~e.rspSent
             \/ InUse(h, c) /\ InUse(h, c)' /\ Unsent(e) = Unsent(peer[h][c])
      PROVE  \A g \in Handle : Tally(g)'
  <2>1. \A n : n.type \notin {"ConfReq", "ConfRsp"} => n \notin Settings(h)
    BY DEF Settings
  <2>2. Times(rx', Settings(h)) <= Times(rx, Settings(h)) + 0
    BY <1>2, <1>6, <1>8, <2>1, DeliversTimes
  <2>3. CASE ~InUse(h, c) /\ InUse(h, c)' /\ ~e.reqSent /\ ~e.rspSent
    <3>1. Tally(h)'
      BY <1>2, <1>3, <1>8, <2>3, AcceptTally
    <3>. QED  BY <1>3, <1>4, <1>8, <3>1
  <2>4. CASE \/ ~InUse(h, c) /\ ~InUse(h, c)'
             \/ InUse(h, c) /\ InUse(h, c)' /\ Unsent(e) = Unsent(peer[h][c])
    <3>1. \/ ~InUse(h, c) /\ ~InUse(h, c)' /\ 0 <= 0
          \/ InUse(h, c) /\ InUse(h, c)' /\ Unsent(peer'[h][c]) + 0 <= Unsent(peer[h][c]) + 0
      BY <1>3, <1>6, <1>8, <2>4
    <3>2. Tally(h)'
      BY <1>2, <1>3, <1>6, <1>7, <1>8, <2>2, <3>1, EndTally
    <3>. QED  BY <1>3, <1>4, <1>8, <3>2
  <2>. QED  BY <1>8, <2>3, <2>4
<1>9. ASSUME NEW c, EndAt(h, c).state # "closed"
      PROVE  c \in PeerCid /\ EndAt(h, c) = peer[h][c] /\ peer[h][c] \in End
  BY <1>2, <1>9, StateFacts DEF EndAt, NewEnd
<1>10. \A c : /\ InUse(h, c) <=> peer[h][c].state = "config" /\ peer[h][c].psm = HidInterrupt
              /\ InUse(h, c)' <=> peer'[h][c].state = "config" /\ peer'[h][c].psm = HidInterrupt
  BY <1>2 DEF InUse, Up
<1>11. ASSUME NEW c \in PeerCid, NEW result \in Results, PeerOnConnReq(h, c, result)
       PROVE  \A g \in Handle : Tally(g)'
  <2>1. PICK n : n = ConnRsp(h, IF result = Refused THEN 0 ELSE c, m.scid, result)
    OBVIOUS
  <2>2. Delivers(n) /\ n.handle = h /\ n.type = "ConnRsp" /\ peer[h][c].state = "closed"
    BY <1>0, <1>11, <2>1 DEF PeerOnConnReq, ConnRsp, Make
  <2>3. ASSUME NEW s, SetEnd(h, c, NewEnd(s, m.psm, m.scid))
        PROVE  \A g \in Handle : Tally(g)'
    <3>1. PICK e : e = NewEnd(s, m.psm, m.scid)
      OBVIOUS
    <3>2. ~e.reqSent /\ ~e.rspSent
      BY <3>1 DEF NewEnd
    <3>3. ~InUse(h, c)
      BY <1>10, <2>2
    <3>. QED  BY <1>8, <2>2, <2>3, <3>1, <3>2, <3>3
  <2>. QED  BY <1>0, <1>5, <1>11, <2>2, <2>3 DEF PeerOnConnReq
<1>12. CASE PeerOnConnRsp(h)
  <2>1. PICK b : b = EndAt(h, m.scid)
    OBVIOUS
  <2>2. rx' = rx
    BY <1>12 DEF PeerOnConnRsp
  <2>3. \/ UNCHANGED peer
        \/ /\ b.state = "waiting"
           /\ \/ SetEnd(h, m.scid, [b EXCEPT !.state = "config", !.hostCid = m.dcid])
              \/ SetEnd(h, m.scid, [b EXCEPT !.state = "closed"])
    BY <1>0, <1>12, <2>1 DEF PeerOnConnRsp
  <2>4. ASSUME b.state = "waiting",
               NEW e, SetEnd(h, m.scid, e), e.reqSent = b.reqSent, e.rspSent = b.rspSent
        PROVE  \A g \in Handle : Tally(g)'
    <3>1. m.scid \in PeerCid /\ b = peer[h][m.scid]
      BY <1>9, <2>1, <2>4
    <3>2. EndsNew(peer[h])
      BY <1>2 DEF LinkAt, Protocol
    <3>3. ~e.reqSent /\ ~e.rspSent
      BY <2>4, <3>1, <3>2 DEF EndsNew
    <3>4. ~InUse(h, m.scid)
      BY <1>10, <2>4, <3>1
    <3>. QED  BY <1>8, <2>2, <2>4, <3>1, <3>3, <3>4
  <2>5. b.state = "waiting" => b \in End
    BY <1>9, <2>1
  <2>6. ASSUME b \in End
        PROVE  /\ \A e : e = [b EXCEPT !.state = "config", !.hostCid = m.dcid] =>
                           e.reqSent = b.reqSent /\ e.rspSent = b.rspSent
               /\ \A e : e = [b EXCEPT !.state = "closed"] =>
                           e.reqSent = b.reqSent /\ e.rspSent = b.rspSent
    BY <2>6 DEF End
  <2>. QED  BY <1>5, <2>2, <2>3, <2>4, <2>5, <2>6
<1>13. ASSUME NEW result \in ConfResults, PeerOnConfReq(h, result)
       PROVE  \A g \in Handle : Tally(g)'
  <2>1. PICK c, b : c = m.dcid /\ b = EndAt(h, c)
    OBVIOUS
  <2>2. CASE b.state # "config"
    BY <1>0, <1>5, <1>13, <2>1, <2>2 DEF PeerOnConfReq
  <2>3. CASE b.state = "config"
    <3>1. c \in PeerCid /\ b = peer[h][c] /\ b \in End
      BY <1>9, <2>1, <2>3
    <3>2. PICK n, e : /\ n = ConfRsp(h, b.hostCid, result)
                      /\ e = [b EXCEPT !.rspSent = TRUE, !.verdict = result]
      OBVIOUS
    <3>3. Delivers(n) /\ SetEnd(h, c, e) /\ m.type = "ConfReq"
      BY <1>0, <1>13, <2>1, <2>3, <3>2 DEF PeerOnConfReq, PeerReceives
    <3>4. /\ n.handle = h /\ n.type = "ConfRsp" /\ n.scid = b.hostCid
          /\ e.state = b.state /\ e.psm = b.psm /\ e.reqSent = b.reqSent /\ e.rspSent
      BY <3>1, <3>2 DEF ConfRsp, Make, End
    <3>5. ~b.rspSent
      <4>1. PICK R, O, K, P : R = FromBoard(h) /\ O = ToBoard(h) /\ K = ChannelsOf(h) /\ P = peer[h]
        OBVIOUS
      <4>2. /\ EndsSent(R, K, P) /\ EndsConfig(R, K, P) /\ OutConfReq(R, O, K)
            /\ RxConnRsp(R, O, K, P) /\ m \in O /\ m.type = "ConfReq" /\ m.dcid = c
            /\ P[c].state = "config" /\ b = P[c]
        BY <1>2, <2>1, <2>3, <3>1, <3>3, <4>1 DEF LinkAt, Protocol
      <4>3. PICK k \in K : k.localCid = b.hostCid
        BY <3>1, <4>2 DEF EndsSent, Known
      <4>4. ~Accepted(R, b.hostCid, c)
        BY <4>2 DEF Accepted, RxConnRsp, Unaddressed, ToEnd, EndOf
      <4>5. k.remoteCid = c /\ (b.rspSent <=> k.localConfigured \/ Answered(R, b.hostCid))
        BY <3>1, <4>2, <4>3, <4>4 DEF EndsConfig
      <4>. QED  BY <4>2, <4>3, <4>5 DEF OutConfReq
    <3>6. peer'[h][c] = e /\ (InUse(h, c)' <=> InUse(h, c))
      BY <1>3, <1>10, <3>1, <3>3, <3>4
    <3>7. CASE InUse(h, c)
      <4>1. Unsent(peer'[h][c]) + 1 <= Unsent(peer[h][c]) + 0
        BY <1>6, <3>1, <3>4, <3>5, <3>6 DEF Unsent
      <4>2. Times(rx', Settings(h)) <= Times(rx, Settings(h)) + 1
        BY <1>2, <3>3, DeliversTimes
      <4>3. Tally(h)'
        BY <1>2, <1>3, <1>6, <1>7, <3>1, <3>3, <3>6, <3>7, <4>1, <4>2, EndTally
      <4>. QED  BY <1>3, <1>4, <3>1, <3>3, <3>4, <4>3
    <3>8. CASE ~InUse(h, c)
      <4>1. n \notin Settings(h)
        <5>1. \A k \in ChannelsOf(h) : k.localCid = b.hostCid => k.psm = b.psm
          BY <1>2, <2>3, <3>1 DEF LinkAt, Protocol, EndsConfig
        <5>2. b.psm # HidInterrupt
          BY <1>10, <2>3, <3>1, <3>8
        <5>. QED  BY <3>4, <5>1, <5>2 DEF Settings, Interrupts, Name
      <4>2. Times(rx', Settings(h)) <= Times(rx, Settings(h)) + 0
        BY <1>2, <1>6, <3>3, <4>1, DeliversTimes
      <4>3. ~InUse(h, c) /\ ~InUse(h, c)' /\ 0 <= 0
        BY <3>6, <3>8
      <4>4. Tally(h)'
        BY <1>2, <1>3, <1>6, <1>7, <3>1, <3>3, <4>2, <4>3, EndTally
      <4>. QED  BY <1>3, <1>4, <3>1, <3>3, <3>4, <4>4
    <3>. QED  BY <3>7, <3>8
  <2>. QED  BY <2>2, <2>3
<1>14. CASE PeerOnConfRsp(h)
  <2>1. PICK c, b, e : c = m.scid /\ b = EndAt(h, c) /\ e = [b EXCEPT !.rspGot = TRUE]
    OBVIOUS
  <2>2. rx' = rx /\ (UNCHANGED peer \/ (b.state = "config" /\ SetEnd(h, c, e)))
    BY <1>0, <1>14, <2>1 DEF PeerOnConfRsp
  <2>3. ASSUME b.state = "config", SetEnd(h, c, e)
        PROVE  \A g \in Handle : Tally(g)'
    <3>1. c \in PeerCid /\ b = peer[h][c] /\ b \in End
      BY <1>9, <2>1, <2>3
    <3>2. /\ e.state = b.state /\ e.psm = b.psm /\ e.reqSent = b.reqSent /\ e.rspSent = b.rspSent
      BY <2>1, <3>1 DEF End
    <3>3. (InUse(h, c)' <=> InUse(h, c)) /\ Unsent(e) = Unsent(peer[h][c])
      BY <1>3, <1>10, <2>3, <3>1, <3>2 DEF Unsent
    <3>. QED  BY <1>8, <2>2, <2>3, <3>1, <3>3
  <2>. QED  BY <1>5, <2>2, <2>3
<1>15. ~PeerOnDiscReq(h)
  <2>. SUFFICES ASSUME PeerOnDiscReq(h) PROVE FALSE
    OBVIOUS
  <2>1. m.type = "DiscReq"
    BY <1>0 DEF PeerOnDiscReq, PeerReceives
  <2>. QED  BY <1>2, <2>1 DEF SentOk
<1>16. CASE PeerOnDiscRsp(h)
  <2>1. PICK c, b, e : c = m.scid /\ b = EndAt(h, c) /\ e = [b EXCEPT !.state = "closed"]
    OBVIOUS
  <2>2. rx' = rx /\ (UNCHANGED peer \/ (b.state = "closing" /\ SetEnd(h, c, e)))
    BY <1>0, <1>16, <2>1 DEF PeerOnDiscRsp
  <2>3. ASSUME b.state = "closing", SetEnd(h, c, e)
        PROVE  \A g \in Handle : Tally(g)'
    <3>1. c \in PeerCid /\ b = peer[h][c] /\ b \in End
      BY <1>9, <2>1, <2>3
    <3>2. e.state = "closed"
      BY <2>1, <3>1 DEF End
    <3>3. ~InUse(h, c) /\ ~InUse(h, c)'
      BY <1>3, <1>10, <2>3, <3>1, <3>2
    <3>. QED  BY <1>8, <2>2, <2>3, <3>1, <3>3
  <2>. QED  BY <1>5, <2>2, <2>3
<1>17. CASE PeerOnData(h)
  BY <1>5, <1>17 DEF PeerOnData
<1>. QED  BY <1>11, <1>12, <1>13, <1>14, <1>15, <1>16, <1>17 DEF PeerReply

\* A link comes up, without channels, or is lost.
LEMMA LinksTally ==
  ASSUME Before, TypeOK', \A g \in Handle : Tally(g), NEW h \in Handle,
         LinkLoss(h) \/ \E by \in {Ours, Theirs} : LinkUp(h, by)
  PROVE  \A g \in Handle : Tally(g)'
<1>1. TypeOK /\ Tally(h) /\ UNCHANGED <<connections, greeted>>
  BY DEF Before, CidInv, LinkLoss, LinkUp, host, store, app
<1>2. /\ greeted[h] \in Nat /\ moves[h] \in Nat /\ Times(rx, Settings(h)) \in Nat
      /\ \A c \in PeerCid : Unsent(peer[h][c]) \in 0 .. 2
  BY <1>1, TallyTypes
<1>3. CASE LinkLoss(h)
  <2>1. PICK n : n = DisconnectionComplete(h)
    OBVIOUS
  <2>2. /\ Delivers(n) /\ Moving(h, "linkLoss") /\ UNCHANGED <<since, peer>>
        /\ link' = [link EXCEPT ![h] = "lost"]
    BY <1>3, <2>1 DEF LinkLoss, LinkDown
  <2>3. n.handle = h /\ n \notin Settings(h)
    BY <2>1 DEF DisconnectionComplete, Make, Settings
  <2>4. /\ moves'[h] = moves[h] + 1 /\ link'[h] = "lost"
        /\ \A g \in Handle : g # h => moves'[g] = moves[g] /\ link'[g] = link[g]
    BY <1>1, <2>2, MovingFacts DEF TypeOK
  <2>5. Times(rx', Settings(h)) <= Times(rx, Settings(h)) + 0
    BY <1>1, <1>2, <2>2, <2>3, DeliversTimes
  <2>6. \A c \in PeerCid : ~InUse(h, c)'
    BY <2>4 DEF InUse, Up
  <2>7. 0 \in {0, 1} /\ 1 \in {0, 1}
    OBVIOUS
  <2>8. Tally(h)'
    BY <1>1, <2>2, <2>4, <2>5, <2>6, <2>7, BoardTally
  <2>. QED  BY <1>1, <2>2, <2>3, <2>4, <2>8, StepTally
<1>4. ASSUME NEW by \in {Ours, Theirs}, LinkUp(h, by)
      PROVE  \A g \in Handle : Tally(g)'
  <2>1. PICK n : n = ConnectionComplete(h, by)
    OBVIOUS
  <2>2. /\ Delivers(n) /\ UNCHANGED moves /\ ~Up(h)
        /\ link' = [link EXCEPT ![h] = IF by = Ours THEN "ours" ELSE "theirs"]
        /\ since' = [since EXCEPT ![h] = g_localCid]
        /\ peer' = [peer EXCEPT ![h] = NoEnds]
    BY <1>4, <2>1 DEF LinkUp, MayRelink, Up
  <2>3. n.handle = h
    BY <2>1 DEF ConnectionComplete, Make
  <2>4. /\ since'[h] = g_localCid /\ peer'[h] = NoEnds
        /\ \A g \in Handle : g # h => /\ link'[g] = link[g] /\ since'[g] = since[g]
                                      /\ peer'[g] = peer[g]
    BY <1>1, <2>2 DEF TypeOK
  <2>5. \A c \in PeerCid : ~InUse(h, c) /\ ~InUse(h, c)'
    <3>1. \A c \in PeerCid : peer'[h][c].state = "closed"
      BY <2>4 DEF NoEnds, NewEnd
    <3>. QED  BY <2>2, <3>1 DEF InUse
  <2>6. ChannelsOf(h)' = {}
    <3>1. g_localCid \in Nat /\ \A k \in Channels : k.localCid < g_localCid /\ k.localCid \in Nat
      BY <1>1, StateFacts, ChannelsUnique, ChannelsFacts DEF Before
    <3>2. Channels' = Channels
      BY <1>1 DEF Channels
    <3>3. \A k \in Channels : ~(since'[h] <= k.localCid)
      BY <2>4, <3>1
    <3>. QED  BY <3>2, <3>3 DEF ChannelsOf
  <2>7. Times(rx', Settings(h)') = 0 /\ Spare(h)' = 0
    <3>1. Interrupts(h)' = {}
      BY <2>6 DEF Interrupts
    <3>2. Settings(h)' = {} /\ rx' \in Seq(Packet)
      BY <3>1, NextStateFacts DEF Settings
    <3>. QED  BY <3>1, <3>2, TimesNone DEF Spare
  <2>8. greeted'[h] <= moves'[h]
    BY <1>1, <2>2, <2>5 DEF Tally
  <2>9. Tally(h)'
    <3>1. greeted'[h] + Times(rx', Settings(h)') <= moves'[h] + Spare(h)'
      BY <1>1, <1>2, <2>2, <2>7, <2>8
    <3>. QED  BY <2>5, <2>8, <3>1 DEF Tally
  <2>. QED  BY <1>1, <2>2, <2>3, <2>4, <2>9, StepTally
<1>. QED  BY <1>3, <1>4

LEMMA NextGreeted ==
  ASSUME "appDisconnect" \notin Moves, CidInv, NamesInv, ProtocolInv, Counted, GreetedInv,
         [Next]_vars
  PROVE  GreetedInv'
<1>. SUFFICES ASSUME ~wrapped' PROVE \A h \in Handle : Tally(h)'
  BY DEF GreetedInv
<1>1. TypeOK' /\ ProtocolOk'
  BY NextType, NextProtocol DEF CidInv, ProtocolInv
<1>2. CASE Handlers
  <2>1. ~wrapped
    BY <1>2, HandlersStore
  <2>2. Before /\ \A h \in Handle : Tally(h)
    BY <2>1 DEF Before, NamesInv, ProtocolInv, GreetedInv
  <2>. QED  BY <1>1, <1>2, <2>2, HandlersTally
<1>3. CASE ~Handlers
  <2>1. ~wrapped /\ UNCHANGED connections
    BY <1>3, OthersKeepStore
  <2>2. Before /\ TypeOK /\ \A h \in Handle : Tally(h)
    BY <2>1 DEF Before, NamesInv, ProtocolInv, GreetedInv, CidInv
  <2>3. ASSUME UNCHANGED <<greeted, link, since, peer, rx, moves>>
        PROVE  \A h \in Handle : Tally(h)'
    BY <1>1, <2>1, <2>2, <2>3, OtherTally
  <2>4. CASE Transmit
    BY <2>3, <2>4 DEF Transmit, app, links
  <2>5. CASE ControllerDisconnects
    <3>1. tx # <<>> /\ Head(tx).type = "Disconnect"
      BY <2>5 DEF ControllerDisconnects
    <3>2. Head(tx) \in Packets(tx)
      BY <2>2, <3>1, StateFacts, PacketsTail
    <3>. QED  BY <2>2, <3>1, <3>2 DEF Before, NamesOk, TxIssued, SentOk
  <2>6. ASSUME NEW h \in Handle, NEW psm \in AppPsm, AppDisconnect(h, psm)
        PROVE  FALSE
    BY <2>6 DEF AppDisconnect, Moving
  <2>7. ASSUME NEW h \in Handle, LinkLoss(h) \/ \E by \in {Ours, Theirs} : LinkUp(h, by)
        PROVE  \A g \in Handle : Tally(g)'
    BY <1>1, <2>2, <2>7, LinksTally
  <2>8. ASSUME NEW h \in Handle, NEW c \in PeerCid,
               \/ \E psm \in PeerPsm : PeerConnect(h, c, psm)
               \/ PeerDisconnect(h, c)
               \/ PeerData(h, c)
               \/ \E result \in Results : PeerDecides(h, c, result)
               \/ \E form \in Forms : PeerConfigure(h, c, form) \/ PeerReconfigure(h, c, form)
               \/ \E result \in ConfResults : PeerConcludes(h, c, result)
        PROVE  \A g \in Handle : Tally(g)'
    BY <1>1, <2>2, <2>8, BoardsTally
  <2>9. ASSUME NEW h \in Handle, PeerReply(h)
        PROVE  \A g \in Handle : Tally(g)'
    BY <1>1, <2>2, <2>9, RepliesTally
  <2>10. CASE UNCHANGED vars
    BY <2>3, <2>10 DEF vars, app, env, links
  <2>. QED  BY <1>3, <2>4, <2>5, <2>6, <2>7, <2>8, <2>9, <2>10 DEF Next
<1>. QED  BY <1>2, <1>3

\* On the same terms the application is told of a board once and, before it is
\* told that the board is gone, at most once more for each time that the board
\* repeated a configuration request or response or closed a channel, or that
\* the link was lost: the two handlers that dispatch ACLConnectionEstablished
\* do so once per channel and for nothing else.
THEOREM ConnectedOnceHolds ==
  ASSUME "appDisconnect" \notin Moves
  PROVE  Spec => [](~wrapped => ConnectedOnce)
<1>1. CidInv /\ GreetedInv => (~wrapped => ConnectedOnce)
  <2>. SUFFICES ASSUME TypeOK, NEW h \in Handle, Tally(h) PROVE greeted[h] <= 1 + moves[h]
    BY DEF GreetedInv, ConnectedOnce, CidInv
  <2>1. greeted[h] \in Nat /\ moves[h] \in Nat
    BY TallyTypes
  <2>2. CASE \A c \in PeerCid : ~InUse(h, c)
    BY <2>1, <2>2 DEF Tally
  <2>3. ASSUME NEW c \in PeerCid, InUse(h, c)
        PROVE  greeted[h] <= 1 + moves[h]
    BY <2>1, <2>3 DEF Tally
  <2>. QED  BY <2>2, <2>3
<1>2. CidInv /\ NamesInv /\ ProtocolInv /\ Counted /\ GreetedInv /\ [Next]_vars =>
        CidInv' /\ NamesInv' /\ ProtocolInv' /\ Counted' /\ GreetedInv'
  BY NextCids, NextNames, NextProtocol, NextCounted, NextGreeted
<1>3. Init => Counted /\ GreetedInv
  <2>. SUFFICES ASSUME Init PROVE Counted /\ \A h \in Handle : Tally(h)
    BY DEF GreetedInv
  <2>1. FirstCid = g_localCid /\ FirstCid \in Nat
    BY ConstantsAssumption, MaxType DEF Init, Cid, U16
  <2>2. ASSUME NEW h \in Handle
        PROVE  Tally(h)
    <3>1. ~Up(h) /\ greeted[h] = 0 /\ moves[h] = 0 /\ rx = <<>> /\ Channels = {}
      BY DEF Init, Up, Channels
    <3>2. \A c \in PeerCid : ~InUse(h, c)
      BY <3>1 DEF InUse
    <3>3. Spare(h) = 0
      BY <3>1 DEF Spare, Interrupts, ChannelsOf
    <3>4. Times(rx, Settings(h)) = 0
      <4>1. rx \in Seq(Packet) /\ Packets(rx) = {}
        BY <3>1 DEF Packets
      <4>. QED  BY <4>1, TimesNone
    <3>. QED  BY <3>1, <3>2, <3>3, <3>4 DEF Tally
  <2>. QED  BY <2>1, <2>2 DEF Counted
<1>. QED  BY <1>1, <1>2, <1>3, InitCids, InitNames, InitProtocol, PTL DEF Spec
--------------------------------------------------------------------------------
(* With one board, data goes to the right channel.                           *)

AllowedData == {ab \in Packet \X Packet :
  ~(ab[1].type = "DiscRsp" /\ ab[2].type = "Data" /\ ab[1].scid = ab[2].dcid)}

\* Data goes to a live end of its PSM.
RightEnd(m) == m.type = "Data" =>
  m.dcid \in PeerCid /\ Live(peer[m.handle][m.dcid]) /\ peer[m.handle][m.dcid].psm = m.psm

\* No data in the queue q comes after the last answer to its channel's end.
RightQueue(q) ==
  /\ Along(AllowedData, q)
  /\ \A h \in Handle : \A a \in Packets(air[h]), b \in Packets(q) : <<a, b>> \in AllowedData
  /\ \A m \in Packets(q) : RightEnd(m)

Addressed ==
  /\ RightQueue(tx)
  /\ \A h \in Handle : /\ Along(AllowedData, air[h])
                       /\ \A m \in Packets(air[h]) : RightEnd(m)

\* No channel of an earlier link is in the store.
Current == \A k \in Channels : since[k.handle] <= k.localCid

AddressedInv == ~wrapped /\ Current => Addressed

LEMMA AllowedDataFacts ==
  ASSUME NEW a \in Packet, NEW b \in Packet
  PROVE  <<a, b>> \in AllowedData <=>
           ~(a.type = "DiscRsp" /\ b.type = "Data" /\ a.scid = b.dcid)
<1>1. <<a, b>>[1] = a /\ <<a, b>>[2] = b /\ <<a, b>> \in Packet \X Packet
  OBVIOUS
<1>. QED  BY <1>1 DEF AllowedData

\* A handler sends the packet b, after it has made the queue q of txBuffer.
LEMMA RightEnqueue ==
  ASSUME TypeOK, NEW q \in Seq(Packet), RightQueue(q), NEW b \in Packet, RightEnd(b),
         \A a : (a \in Packets(q) \/ \E h \in Handle : a \in Packets(air[h])) =>
           ~(a.type = "DiscRsp" /\ b.type = "Data" /\ a.scid = b.dcid)
  PROVE  /\ Enqueue(q, b) \in Seq(Packet) /\ RightQueue(Enqueue(q, b))
         /\ \A n \in Packets(Enqueue(q, b)) : n \in Packets(q) \/ n = b
<1>1. /\ Enqueue(q, b) \in Seq(Packet)
      /\ \A n \in Packets(Enqueue(q, b)) : n \in Packets(q) \/ n = b
  BY PacketsEnqueue
<1>2. \A a \in Packets(q) : <<a, b>> \in AllowedData
  <2>1. Packets(q) \subseteq Packet
    BY PacketsFacts
  <2>. QED  BY <2>1, AllowedDataFacts
<1>3. Along(AllowedData, Enqueue(q, b))
  BY <1>2, AlongEnqueue DEF RightQueue
<1>4. ASSUME NEW h \in Handle, NEW a \in Packets(air[h])
      PROVE  <<a, b>> \in AllowedData
  <2>1. a \in Packet
    BY StateFacts, PacketsFacts
  <2>. QED  BY <2>1, AllowedDataFacts
<1>5. \A h \in Handle : \A a \in Packets(air[h]), n \in Packets(Enqueue(q, b)) :
        <<a, n>> \in AllowedData
  <2>1. ASSUME NEW h \in Handle, NEW a \in Packets(air[h]), NEW n \in Packets(Enqueue(q, b))
        PROVE  <<a, n>> \in AllowedData
    <3>1. CASE n \in Packets(q)
      BY <3>1, Zenon DEF RightQueue
    <3>2. CASE n = b
      BY <1>4, <3>2
    <3>3. n \in Packets(q) \/ n = b
      BY <1>1
    <3>. QED  BY <3>1, <3>2, <3>3
  <2>. QED  BY <2>1, Zenon
<1>6. \A m \in Packets(Enqueue(q, b)) : RightEnd(m)
  BY <1>1 DEF RightQueue
<1>. QED  BY <1>1, <1>3, <1>5, <1>6 DEF RightQueue

\* ... one that is no data.
LEMMA RightSignal ==
  ASSUME TypeOK, NEW q \in Seq(Packet), RightQueue(q), NEW b \in Packet, b.type # "Data"
  PROVE  /\ Enqueue(q, b) \in Seq(Packet) /\ RightQueue(Enqueue(q, b))
         /\ \A n \in Packets(Enqueue(q, b)) : n \in Packets(q) \/ n = b
<1>1. RightEnd(b)
  BY DEF RightEnd
<1>. QED  BY <1>1, RightEnqueue

\* The interrupt channel that findPsm finds is that of the board, if there is
\* one board and one of its two directions is configured.
LEMMA InterruptEnd ==
  ASSUME \A g, h \in Handle : g = h,
         Before, Current, NEW type, Receives(type), NEW h, h = Head(rx).handle,
         NEW k \in ChannelsOf(h), k.psm = HidInterrupt, k.localConfigured \/ k.remoteConfigured,
         NEW d \in L2Data(h, HidInterrupt)
  PROVE  /\ d.packet \in Packet /\ RightEnd(d.packet)
         /\ \A a : (a \in Packets(tx) \/ \E g \in Handle : a \in Packets(air[g])) =>
              ~(a.type = "DiscRsp" /\ a.scid = d.packet.dcid)
<1>1. TypeOK /\ h \in Handle /\ LinkAt(h) /\ NamesOk
  BY HostLink DEF Before, CidInv
<1>2. d.packet \in Packet
  BY <1>1, StateFacts, L2DataType, Numbers
<1>3. PICK p \in ByPsm(h, HidInterrupt) : d.packet = Data(h, HidInterrupt, p.to.remoteCid)
  BY DEF L2Data
<1>4. p.to \in Channels /\ p.to.psm = HidInterrupt
  <2>1. k \in Channels
    BY DEF ChannelsOf
  <2>. QED  BY <1>1, <2>1, ByPsmFinds
<1>5. p.to \in ChannelsOf(h)
  <2>1. p.to.handle \in Handle
    BY <1>1, <1>4, StateFacts, ChannelsFacts DEF Connection
  <2>2. p.to.handle = h
    BY <1>1, <2>1
  <2>. QED  BY <1>4, <2>2 DEF Current, ChannelsOf
<1>6. p.to = k
  BY <1>1, <1>4, <1>5 DEF LinkAt, Protocol, ChannelsDistinct
<1>7. k.remoteCid # 0
  BY <1>1 DEF LinkAt, Protocol, ChannelsNew, Fresh
<1>8. /\ k.remoteCid \in PeerCid /\ peer[h][k.remoteCid].psm = HidInterrupt
      /\ Live(peer[h][k.remoteCid])
  BY <1>1, <1>7 DEF LinkAt, Protocol, ChannelsBound
<1>9. /\ d.packet.type = "Data" /\ d.packet.handle = h /\ d.packet.dcid = k.remoteCid
      /\ d.packet.psm = HidInterrupt
  BY <1>3, <1>6 DEF Data, Make
<1>10. \A m \in ToBoard(h) : m.type = "DiscRsp" => m.scid # k.remoteCid
  BY <1>1 DEF LinkAt, Protocol, OutDiscRsp
<1>11. ASSUME NEW a, a \in Packets(tx) \/ \E g \in Handle : a \in Packets(air[g])
       PROVE  a \in ToBoard(h)
  <2>1. CASE a \in Packets(tx)
    <3>1. a.handle \in Handle
      BY <1>1, <2>1, StateFacts, PacketsFacts, PacketFacts
    <3>. QED  BY <1>1, <2>1, <3>1 DEF ToBoard
  <2>2. CASE \E g \in Handle : a \in Packets(air[g])
    BY <1>1, <2>2 DEF ToBoard
  <2>. QED  BY <1>11, <2>1, <2>2
<1>. QED  BY <1>2, <1>8, <1>9, <1>10, <1>11 DEF RightEnd

\* The listener on ACLConnectionEstablished.
LEMMA EstablishedAddressed ==
  ASSUME \A g, h \in Handle : g = h,
         Before, Current, NEW type, Receives(type), NEW h, h = Head(rx).handle,
         NEW k \in ChannelsOf(h), k.localConfigured \/ k.remoteConfigured,
         NEW q \in Seq(Packet), RightQueue(q),
         \A a \in Packets(q) : a \in Packets(tx) \/ a.type # "DiscRsp",
         NEW p, NEW n, Established(h, k.psm, p, q, n)
  PROVE  RightQueue(tx')
<1>1. CASE Sends(q, n)
  BY <1>1 DEF Sends
<1>2. ASSUME k.psm = HidInterrupt, NEW d \in L2Data(h, HidInterrupt), Sends(Enqueue(q, d.packet), n + 1)
      PROVE  RightQueue(tx')
  <2>1. /\ d.packet \in Packet /\ RightEnd(d.packet)
        /\ \A a : (a \in Packets(tx) \/ \E g \in Handle : a \in Packets(air[g])) =>
             ~(a.type = "DiscRsp" /\ a.scid = d.packet.dcid)
    BY <1>2, InterruptEnd
  <2>2. TypeOK
    BY DEF Before, CidInv
  <2>3. RightQueue(Enqueue(q, d.packet))
    BY <2>1, <2>2, RightEnqueue
  <2>. QED  BY <1>2, <2>3 DEF Sends
<1>. QED  BY <1>1, <1>2 DEF Established

LEMMA HandlersAddressed ==
  ASSUME \A g, h \in Handle : g = h,
         Before, ~wrapped', Current, Addressed, Handlers
  PROVE  Addressed'
<1>0. PICK m, h : m = Head(rx) /\ h = m.handle
  OBVIOUS
<1>1. /\ TypeOK /\ tx \in Seq(Packet) /\ g_localCid \in Cid /\ 0 \in Cid
      /\ CidInv /\ ~wrapped /\ RightQueue(tx)
  <2>1. ~wrapped
    BY DEF Before
  <2>. QED  BY <2>1, StateFacts, Numbers DEF Before, CidInv, TypeOK, Addressed
<1>2. PICK type : Receives(type)
  BY DEF Handlers, HandleHCIConnectionComplete, HandleHCIDisconnect, HandleL2ConnectionRequest,
         HandleL2ConnectionResponse, HandleL2ConfigurationRequest, HandleL2ConfigurationResponse,
         HandleL2DisconnectRequest, HandleL2DisconnectResponse, HandleACLData
<1>3. m \in Packet /\ m \in Packets(rx) /\ m.type = type /\ UNCHANGED env
  BY <1>0, <1>1, <1>2, ReceivesPackets
<1>4. h \in Handle /\ m.scid \in Cid /\ m.dcid \in Cid
  BY <1>0, <1>3, PacketFacts
<1>5. ASSUME NEW x, Known(ChannelsOf(h), x), NEW p \in Local(h, x)
      PROVE  p.to \in ChannelsOf(h) /\ p.to \in Connection
  BY <1>1, <1>4, <1>5, NamedChannel
<1>6. RightQueue(tx') => Addressed'
  BY <1>3 DEF Addressed, RightQueue, RightEnd, env
<1>7. CASE UNCHANGED out
  BY <1>1, <1>6, <1>7 DEF out
<1>8. CASE HandleHCIConnectionComplete
  <2>1. CASE Sends(Enqueue3(tx, Auth(h), ConnReq(h, HidControl, g_localCid),
                            ConnReq(h, HidInterrupt, AfterCid(1))), 3)
    <3>1. AfterCid(1) \in Cid /\ 1 \in 1 .. 2
      BY <1>1, AfterCidType
    <3>2. PICK a, b, c : /\ a = Auth(h) /\ b = ConnReq(h, HidControl, g_localCid)
                         /\ c = ConnReq(h, HidInterrupt, AfterCid(1))
      OBVIOUS
    <3>3. a \in Packet /\ b \in Packet /\ c \in Packet
      BY <1>1, <1>4, <3>1, <3>2, PacketType, Numbers
    <3>4. a.type # "Data" /\ b.type # "Data" /\ c.type # "Data"
      BY <3>2 DEF Auth, ConnReq, Make
    <3>5. PICK q, r : q = Enqueue(tx, a) /\ r = Enqueue(q, b)
      OBVIOUS
    <3>6. q \in Seq(Packet) /\ RightQueue(q)
      BY <1>1, <3>3, <3>4, <3>5, RightSignal
    <3>7. r \in Seq(Packet) /\ RightQueue(r)
      BY <1>1, <3>3, <3>4, <3>5, <3>6, RightSignal
    <3>8. RightQueue(Enqueue(r, c))
      BY <1>1, <3>3, <3>4, <3>7, RightSignal
    <3>9. tx' = Enqueue(r, c)
      BY <2>1, <3>2, <3>5 DEF Enqueue3, Enqueue2, Sends
    <3>. QED  BY <1>6, <3>8, <3>9
  <2>. QED  BY <1>0, <1>7, <1>8, <2>1 DEF HandleHCIConnectionComplete, NewConnection
<1>9. CASE HandleL2ConnectionRequest
  <2>1. CASE Sends(Enqueue2(tx, ConnRsp(h, g_localCid, m.scid, Success), ConfReq(h, m.scid, MtuOnly)), 2)
    <3>1. PICK a, b : a = ConnRsp(h, g_localCid, m.scid, Success) /\ b = ConfReq(h, m.scid, MtuOnly)
      OBVIOUS
    <3>2. a \in Packet /\ b \in Packet
      BY <1>1, <1>4, <3>1, PacketType, Numbers
    <3>3. a.type # "Data" /\ b.type # "Data"
      BY <3>1 DEF ConnRsp, ConfReq, Make
    <3>4. PICK q : q = Enqueue(tx, a)
      OBVIOUS
    <3>5. q \in Seq(Packet) /\ RightQueue(q)
      BY <1>1, <3>2, <3>3, <3>4, RightSignal
    <3>6. RightQueue(Enqueue(q, b))
      BY <1>1, <3>2, <3>3, <3>5, RightSignal
    <3>7. tx' = Enqueue(q, b)
      BY <2>1, <3>1, <3>4 DEF Enqueue2, Sends
    <3>. QED  BY <1>6, <3>6, <3>7
  <2>2. CASE Sends(Enqueue(tx, ConnRsp(h, g_localCid, m.scid, Refused)), 1)
    <3>1. PICK a : a = ConnRsp(h, g_localCid, m.scid, Refused)
      OBVIOUS
    <3>2. a \in Packet
      BY <1>1, <1>4, <3>1, PacketType, Numbers
    <3>3. a.type # "Data"
      BY <3>1 DEF ConnRsp, Make
    <3>. QED  BY <1>1, <1>6, <2>2, <3>1, <3>2, <3>3, RightSignal DEF Sends
  <2>. QED  BY <1>0, <1>9, <2>1, <2>2 DEF HandleL2ConnectionRequest
<1>10. CASE HandleL2ConnectionResponse
  <2>1. CASE Sends(Enqueue(tx, ConfReq(h, m.dcid, MtuOnly)), 1)
    <3>1. PICK a : a = ConfReq(h, m.dcid, MtuOnly)
      OBVIOUS
    <3>2. a \in Packet
      BY <1>1, <1>4, <3>1, PacketType, Numbers
    <3>3. a.type # "Data"
      BY <3>1 DEF ConfReq, Make
    <3>. QED  BY <1>1, <1>6, <2>1, <3>1, <3>2, <3>3, RightSignal DEF Sends
  <2>. QED  BY <1>0, <1>7, <1>10, <2>1 DEF HandleL2ConnectionResponse
<1>11. CASE HandleL2ConfigurationRequest
  <2>1. Receives("ConfReq") /\ m.type = "ConfReq"
    BY <1>0, <1>11 DEF HandleL2ConfigurationRequest, Receives
  <2>2. Known(ChannelsOf(h), m.dcid)
    BY <1>0, <2>1, HostNames DEF Naming, Name
  <2>3. ASSUME NEW p \in Local(h, m.dcid), NEW q, q = Enqueue(tx, ConfRsp(h, p.to.remoteCid, Success)),
               IF p.to.localConfigured THEN Established(h, p.to.psm, p, q, 1)
                                       ELSE Uses(p) /\ Sends(q, 1) /\ UNCHANGED app
        PROVE  RightQueue(tx')
    <3>1. p.to \in ChannelsOf(h) /\ p.to \in Connection
      BY <1>5, <2>2, <2>3
    <3>2. PICK k, a : k = p.to /\ a = ConfRsp(h, k.remoteCid, Success)
      OBVIOUS
    <3>3. a \in Packet /\ a.type = "ConfRsp"
      <4>1. k.remoteCid \in Cid
        BY <3>1, <3>2 DEF Connection
      <4>2. a \in Packet
        BY <1>1, <1>4, <3>2, <4>1, PacketType, Numbers
      <4>. QED  BY <3>2, <4>2 DEF ConfRsp, Make
    <3>4. /\ q \in Seq(Packet) /\ RightQueue(q)
          /\ \A n \in Packets(q) : n \in Packets(tx) \/ n = a
      BY <1>1, <2>3, <3>2, <3>3, RightSignal
    <3>5. CASE p.to.localConfigured
      <4>1. Established(h, k.psm, p, q, 1) /\ k \in ChannelsOf(h) /\ k.localConfigured
        BY <2>3, <3>1, <3>2, <3>5
      <4>2. \A n \in Packets(q) : n \in Packets(tx) \/ n.type # "DiscRsp"
        BY <3>3, <3>4
      <4>. QED  BY <1>0, <2>1, <3>4, <4>1, <4>2, EstablishedAddressed
    <3>6. CASE ~p.to.localConfigured
      BY <2>3, <3>4, <3>6 DEF Sends
    <3>. QED  BY <3>5, <3>6
  <2>. QED  BY <1>0, <1>6, <1>7, <1>11, <2>3 DEF HandleL2ConfigurationRequest
<1>12. CASE HandleL2ConfigurationResponse
  <2>1. Receives("ConfRsp") /\ m.type = "ConfRsp"
    BY <1>0, <1>12 DEF HandleL2ConfigurationResponse, Receives
  <2>2. Known(ChannelsOf(h), m.scid)
    BY <1>0, <2>1, HostNames DEF Naming, Name
  <2>3. ASSUME NEW p \in Local(h, m.scid),
               IF p.to.remoteConfigured THEN Established(h, p.to.psm, p, tx, 0)
                                        ELSE Uses(p) /\ UNCHANGED <<out, app>>
        PROVE  RightQueue(tx')
    <3>1. PICK k : k = p.to /\ k \in ChannelsOf(h)
      BY <1>5, <2>2, <2>3
    <3>2. CASE p.to.remoteConfigured
      <4>1. Established(h, k.psm, p, tx, 0) /\ k.remoteConfigured
        BY <2>3, <3>1, <3>2
      <4>. QED  BY <1>0, <1>1, <2>1, <3>1, <4>1, EstablishedAddressed
    <3>3. CASE ~p.to.remoteConfigured
      BY <1>1, <2>3, <3>3 DEF out
    <3>. QED  BY <3>2, <3>3
  <2>. QED  BY <1>0, <1>6, <1>7, <1>12, <2>3 DEF HandleL2ConfigurationResponse
<1>13. CASE HandleL2DisconnectRequest
  <2>1. ASSUME NEW p \in Local(h, m.dcid),
               Sends(Enqueue(tx, DiscRsp(h, p.to.localCid, p.to.remoteCid)), 1)
        PROVE  RightQueue(tx')
    <3>1. p.to \in Connection
      BY <1>1, <2>1, FoundCid
    <3>2. p.to.localCid \in Cid /\ p.to.remoteCid \in Cid
      BY <3>1 DEF Connection
    <3>3. PICK a : a = DiscRsp(h, p.to.localCid, p.to.remoteCid)
      OBVIOUS
    <3>4. a \in Packet
      BY <1>1, <1>4, <3>2, <3>3, PacketType, Numbers
    <3>5. a.type # "Data"
      BY <3>3 DEF DiscRsp, Make
    <3>. QED  BY <1>1, <2>1, <3>3, <3>4, <3>5, RightSignal DEF Sends
  <2>. QED  BY <1>0, <1>6, <1>7, <1>13, <2>1 DEF HandleL2DisconnectRequest
<1>14. CASE HandleL2DisconnectResponse
  <2>1. m.type = "DiscRsp"
    BY <1>0, <1>14 DEF HandleL2DisconnectResponse, Receives
  <2>. QED  BY <1>3, <2>1 DEF Before, NamesOk, RxIssued
<1>15. CASE HandleACLData
  <2>1. ASSUME m.type = "Data", NEW d \in L2Data(h, HidInterrupt), Sends(Enqueue(tx, d.packet), 1)
        PROVE  RightQueue(tx')
    <3>1. type \in Naming /\ Name(m) = m.dcid
      BY <1>3, <2>1 DEF Naming, Name
    <3>2. PICK k \in ChannelsOf(h) : k.localCid = m.dcid
      BY <1>0, <1>2, <3>1, HostNames DEF Known
    <3>3. k.psm = HidInterrupt /\ k.remoteConfigured
      <4>1. m \in FromBoard(h) /\ LinkAt(h)
        BY <1>0, <1>2, HostLink
      <4>. QED  BY <2>1, <3>2, <4>1 DEF LinkAt, Protocol, RxData
    <3>4. /\ d.packet \in Packet /\ RightEnd(d.packet)
          /\ \A a : (a \in Packets(tx) \/ \E g \in Handle : a \in Packets(air[g])) =>
               ~(a.type = "DiscRsp" /\ a.scid = d.packet.dcid)
      BY <1>0, <1>2, <2>1, <3>2, <3>3, InterruptEnd
    <3>5. RightQueue(Enqueue(tx, d.packet))
      BY <1>1, <3>4, RightEnqueue
    <3>. QED  BY <2>1, <3>5 DEF Sends
  <2>. QED  BY <1>0, <1>6, <1>7, <1>15, <2>1 DEF HandleACLData
<1>16. CASE HandleHCIDisconnect
  BY <1>7, <1>16 DEF HandleHCIDisconnect
<1>. QED  BY <1>8, <1>9, <1>10, <1>11, <1>12, <1>13, <1>14, <1>15, <1>16 DEF Handlers

\* What a step of the controller's or of a board's leaves to show.
LEMMA OthersAddressed ==
  ASSUME Before, Addressed, tx' = tx,
         \A g \in Handle : Packets(air'[g]) \subseteq Packets(air[g]) /\ Along(AllowedData, air'[g]),
         \A g \in Handle, c \in PeerCid : Live(peer[g][c]) =>
           \/ Live(peer'[g][c]) /\ peer'[g][c].psm = peer[g][c].psm
           \/ \A n \in ToBoard(g)' : n.type = "Data" => n.dcid # c
  PROVE  Addressed'
<1>1. TypeOK /\ NamesOk /\ RightQueue(tx)
  BY DEF Before, CidInv, Addressed
<1>2. ASSUME NEW g \in Handle, NEW n \in ToBoard(g)', n.handle = g, RightEnd(n)
      PROVE  RightEnd(n)'
  BY <1>2 DEF RightEnd
<1>3. ASSUME NEW n \in Packets(tx)
      PROVE  RightEnd(n)'
  <2>1. n.handle \in Handle
    BY <1>1, StateFacts, PacketsFacts, PacketFacts
  <2>2. n \in ToBoard(n.handle)'
    BY DEF ToBoard
  <2>3. RightEnd(n)
    BY <1>1 DEF RightQueue
  <2>. QED  BY <1>2, <2>1, <2>2, <2>3
<1>4. ASSUME NEW g \in Handle, NEW n \in Packets(air'[g])
      PROVE  RightEnd(n)'
  <2>1. n \in Packets(air[g])
    OBVIOUS
  <2>2. n.handle = g /\ RightEnd(n)
    BY <1>1, <2>1 DEF NamesOk, AirIssued, Addressed
  <2>3. n \in ToBoard(g)'
    BY DEF ToBoard
  <2>. QED  BY <1>2, <2>2, <2>3
<1>5. \A g \in Handle : \A a \in Packets(air'[g]), b \in Packets(tx) : <<a, b>> \in AllowedData
  <2>1. ASSUME NEW g \in Handle, NEW a \in Packets(air'[g]), NEW b \in Packets(tx)
        PROVE  <<a, b>> \in AllowedData
    <3>1. a \in Packets(air[g])
      OBVIOUS
    <3>. QED  BY <1>1, <3>1, Zenon DEF RightQueue
  <2>. QED  BY <2>1, Zenon
<1>6. Along(AllowedData, tx) /\ tx' = tx
  BY <1>1 DEF RightQueue
<1>7. RightQueue(tx)'
  BY <1>3, <1>5, <1>6 DEF RightQueue
<1>. QED  BY <1>4, <1>7 DEF Addressed

\* A board sets an end.
LEMMA SetEndAddressed ==
  ASSUME Before, Addressed, tx' = tx,
         \A g \in Handle : Packets(air'[g]) \subseteq Packets(air[g]) /\ Along(AllowedData, air'[g]),
         \/ peer' = peer
         \/ \E h \in Handle, c \in PeerCid : \E e :
              /\ SetEnd(h, c, e)
              /\ \/ Live(peer[h][c]) => Live(e) /\ e.psm = peer[h][c].psm
                 \/ \A n \in ToBoard(h)' : n.type = "Data" => n.dcid # c
  PROVE  Addressed'
<1>1. CASE peer' = peer
  BY <1>1, OthersAddressed
<1>2. ASSUME NEW h \in Handle, NEW c \in PeerCid, NEW e, SetEnd(h, c, e),
             \/ Live(peer[h][c]) => Live(e) /\ e.psm = peer[h][c].psm
             \/ \A n \in ToBoard(h)' : n.type = "Data" => n.dcid # c
      PROVE  Addressed'
  <2>1. /\ peer'[h][c] = e /\ \A d \in PeerCid : d # c => peer'[h][d] = peer[h][d]
        /\ \A k \in Handle : k # h => peer'[k] = peer[k]
    BY <1>2, SetEndFacts DEF Before, CidInv
  <2>2. \A g \in Handle, d \in PeerCid : Live(peer[g][d]) =>
           \/ Live(peer'[g][d]) /\ peer'[g][d].psm = peer[g][d].psm
           \/ \A n \in ToBoard(g)' : n.type = "Data" => n.dcid # d
    <3>1. ASSUME NEW g \in Handle, NEW d \in PeerCid, Live(peer[g][d])
          PROVE  \/ Live(peer'[g][d]) /\ peer'[g][d].psm = peer[g][d].psm
                 \/ \A n \in ToBoard(g)' : n.type = "Data" => n.dcid # d
      <4>1. CASE g = h /\ d = c
        BY <1>2, <2>1, <3>1, <4>1
      <4>2. CASE ~(g = h /\ d = c)
        <5>1. peer'[g][d] = peer[g][d]
          BY <2>1, <4>2
        <5>. QED  BY <3>1, <5>1
      <4>. QED  BY <4>1, <4>2
    <3>. QED  BY <3>1
  <2>. QED  BY <2>2, OthersAddressed
<1>. QED  BY <1>1, <1>2

\* What an end keeps.
LEMMA EndKeeps ==
  ASSUME NEW e \in End
  PROVE  /\ \A s \in {"config", "closing"} :
              Live([e EXCEPT !.state = s]) /\ [e EXCEPT !.state = s].psm = e.psm
         /\ Live(e) => /\ Live([e EXCEPT !.reqSent = TRUE]) /\ [e EXCEPT !.reqSent = TRUE].psm = e.psm
                       /\ Live([e EXCEPT !.rspGot = TRUE]) /\ [e EXCEPT !.rspGot = TRUE].psm = e.psm
                       /\ \A v : /\ Live([e EXCEPT !.verdict = v]) /\ [e EXCEPT !.verdict = v].psm = e.psm
                                /\ Live([e EXCEPT !.rspSent = TRUE, !.verdict = v])
                                /\ [e EXCEPT !.rspSent = TRUE, !.verdict = v].psm = e.psm
BY DEF Live, End, EndStates

LEMMA BoardsAddressed ==
  ASSUME Before, Addressed, NEW h \in Handle, NEW c \in PeerCid,
         \/ \E psm \in PeerPsm : PeerConnect(h, c, psm)
         \/ PeerDisconnect(h, c)
         \/ PeerData(h, c)
         \/ \E result \in Results : PeerDecides(h, c, result)
         \/ \E form \in Forms : PeerConfigure(h, c, form) \/ PeerReconfigure(h, c, form)
         \/ \E result \in ConfResults : PeerConcludes(h, c, result)
  PROVE  Addressed'
<1>1. tx' = tx /\ air' = air
  BY DEF PeerConnect, PeerDisconnect, PeerData, PeerDecides, PeerConfigure, PeerReconfigure,
         PeerConcludes, host, out
<1>2. \A g \in Handle : Packets(air'[g]) \subseteq Packets(air[g]) /\ Along(AllowedData, air'[g])
  BY <1>1 DEF Addressed
<1>3. PICK b \in End : b = peer[h][c]
  BY StateFacts DEF Before, CidInv
<1>4. \/ peer' = peer
      \/ \E e : SetEnd(h, c, e) /\ (Live(peer[h][c]) => Live(e) /\ e.psm = peer[h][c].psm)
  <2>1. ASSUME NEW psm \in PeerPsm, PeerConnect(h, c, psm)
        PROVE  SetEnd(h, c, NewEnd("waiting", psm, 0)) /\ ~Live(b)
    BY <1>3, <2>1 DEF PeerConnect, Live
  <2>2. CASE PeerDisconnect(h, c)
    BY <1>3, <2>2, EndKeeps DEF PeerDisconnect
  <2>3. CASE PeerData(h, c)
    BY <2>3 DEF PeerData
  <2>4. ASSUME NEW result \in Results, PeerDecides(h, c, result)
        PROVE  ~Live(b) /\ \E e : SetEnd(h, c, e)
    BY <1>3, <2>4 DEF PeerDecides, Live
  <2>5. ASSUME NEW form \in Forms, PeerConfigure(h, c, form)
        PROVE  SetEnd(h, c, [b EXCEPT !.reqSent = TRUE])
    BY <1>3, <2>5 DEF PeerConfigure
  <2>6. ASSUME NEW form \in Forms, PeerReconfigure(h, c, form)
        PROVE  peer' = peer
    BY <2>6 DEF PeerReconfigure
  <2>7. ASSUME NEW result \in ConfResults, PeerConcludes(h, c, result)
        PROVE  \E e : SetEnd(h, c, e) /\ (Live(b) => Live(e) /\ e.psm = b.psm)
    <3>1. PICK e : e = [b EXCEPT !.verdict = result]
      OBVIOUS
    <3>2. Live(b) => Live(e) /\ e.psm = b.psm
      BY <3>1, EndKeeps
    <3>. QED  BY <1>3, <2>7, <3>1, <3>2 DEF PeerConcludes
  <2>. QED  BY <1>3, <2>1, <2>2, <2>3, <2>4, <2>5, <2>6, <2>7, EndKeeps
<1>. QED  BY <1>1, <1>2, <1>4, SetEndAddressed

LEMMA RepliesAddressed ==
  ASSUME Before, Addressed, NEW h \in Handle, PeerReply(h)
  PROVE  Addressed'
<1>0. PICK m : m = Head(air[h])
  OBVIOUS
<1>1. TypeOK /\ \A g \in Handle : air[g] \in Seq(Packet)
  BY StateFacts DEF Before, CidInv
<1>2. PICK type : PeerReceives(h, type)
  BY DEF PeerReply, PeerOnConnReq, PeerOnConnRsp, PeerOnConfReq, PeerOnConfRsp, PeerOnDiscReq,
         PeerOnDiscRsp, PeerOnData
<1>3. /\ m \in Packet /\ m.type = type /\ m.handle = h /\ SentOk(h, m) /\ m \in Packets(air[h])
      /\ tx' = tx /\ air[h] # <<>> /\ air'[h] = Tail(air[h])
      /\ Packets(air'[h]) \subseteq Packets(air[h])
      /\ \A g \in Handle : g # h => air'[g] = air[g]
  <2>1. m.type = type /\ m.handle = h /\ SentOk(h, m)
    BY <1>0, <1>2, BoardTakes
  <2>. QED  BY <1>0, <1>1, <1>2, <2>1, PeerReceivesPackets DEF host, out
<1>4. Along(AllowedData, air'[h]) /\ \A b \in Packets(air'[h]) : <<m, b>> \in AllowedData
  <2>1. Along(AllowedData, air[h])
    BY DEF Addressed
  <2>. QED  BY <1>0, <1>1, <1>3, <2>1, AlongTail
<1>5. \A g \in Handle : Packets(air'[g]) \subseteq Packets(air[g]) /\ Along(AllowedData, air'[g])
  BY <1>3, <1>4 DEF Addressed
<1>6. ASSUME NEW c, EndAt(h, c).state # "closed"
      PROVE  c \in PeerCid /\ EndAt(h, c) = peer[h][c] /\ peer[h][c] \in End
  BY <1>1, <1>6, StateFacts DEF EndAt, NewEnd
<1>7. \/ peer' = peer
      \/ \E c \in PeerCid : \E e :
           /\ SetEnd(h, c, e)
           /\ \/ Live(peer[h][c]) => Live(e) /\ e.psm = peer[h][c].psm
              \/ \A n \in ToBoard(h)' : n.type = "Data" => n.dcid # c
  <2>1. ASSUME NEW c \in PeerCid, NEW result \in Results, PeerOnConnReq(h, c, result)
        PROVE  peer' = peer \/ (~Live(peer[h][c]) /\ \E e : SetEnd(h, c, e))
    BY <2>1 DEF PeerOnConnReq, Live
  <2>2. CASE PeerOnConnRsp(h)
    <3>1. \/ peer' = peer
          \/ EndAt(h, m.scid).state = "waiting" /\ \E e : SetEnd(h, m.scid, e)
      BY <1>0, <2>2 DEF PeerOnConnRsp
    <3>2. EndAt(h, m.scid).state = "waiting" => m.scid \in PeerCid /\ ~Live(peer[h][m.scid])
      BY <1>6 DEF Live
    <3>. QED  BY <3>1, <3>2
  <2>3. ASSUME NEW result \in ConfResults, PeerOnConfReq(h, result)
        PROVE  \/ peer' = peer
               \/ \E c \in PeerCid : \E e :
                    SetEnd(h, c, e) /\ Live(e) /\ e.psm = peer[h][c].psm
    <3>1. \/ peer' = peer
          \/ /\ EndAt(h, m.dcid).state = "config"
             /\ SetEnd(h, m.dcid, [EndAt(h, m.dcid) EXCEPT !.rspSent = TRUE, !.verdict = result])
      BY <1>0, <2>3 DEF PeerOnConfReq
    <3>2. CASE EndAt(h, m.dcid).state = "config"
      <4>1. PICK e \in End : e = peer[h][m.dcid] /\ e = EndAt(h, m.dcid) /\ m.dcid \in PeerCid
        BY <1>6, <3>2
      <4>2. Live(e)
        BY <3>2, <4>1 DEF Live
      <4>3. PICK d : d = [e EXCEPT !.rspSent = TRUE, !.verdict = result]
        OBVIOUS
      <4>4. Live(d) /\ d.psm = peer[h][m.dcid].psm
        BY <4>1, <4>2, <4>3, EndKeeps
      <4>5. peer' = peer \/ SetEnd(h, m.dcid, d)
        BY <3>1, <4>1, <4>3
      <4>. QED  BY <4>1, <4>4, <4>5, Zenon
    <3>. QED  BY <3>1, <3>2
  <2>4. CASE PeerOnConfRsp(h)
    <3>1. \/ peer' = peer
          \/ /\ EndAt(h, m.scid).state = "config"
             /\ SetEnd(h, m.scid, [EndAt(h, m.scid) EXCEPT !.rspGot = TRUE])
      BY <1>0, <2>4 DEF PeerOnConfRsp
    <3>2. CASE EndAt(h, m.scid).state = "config"
      <4>1. PICK e \in End : e = peer[h][m.scid] /\ e = EndAt(h, m.scid) /\ m.scid \in PeerCid
        BY <1>6, <3>2
      <4>2. Live(e)
        BY <3>2, <4>1 DEF Live
      <4>3. PICK d : d = [e EXCEPT !.rspGot = TRUE]
        OBVIOUS
      <4>4. Live(d) /\ d.psm = peer[h][m.scid].psm
        BY <4>1, <4>2, <4>3, EndKeeps
      <4>5. peer' = peer \/ SetEnd(h, m.scid, d)
        BY <3>1, <4>1, <4>3
      <4>. QED  BY <4>1, <4>4, <4>5, Zenon
    <3>. QED  BY <3>1, <3>2
  <2>5. ~PeerOnDiscReq(h)
    <3>. SUFFICES ASSUME PeerOnDiscReq(h) PROVE FALSE
      OBVIOUS
    <3>1. m.type = "DiscReq"
      BY <1>0 DEF PeerOnDiscReq, PeerReceives
    <3>. QED  BY <1>3, <3>1 DEF SentOk
  <2>6. CASE PeerOnDiscRsp(h)
    <3>1. \/ peer' = peer
          \/ EndAt(h, m.scid).state = "closing" /\ \E e : SetEnd(h, m.scid, e)
      BY <1>0, <2>6 DEF PeerOnDiscRsp
    <3>2. m.type = "DiscRsp"
      BY <1>0, <2>6 DEF PeerOnDiscRsp, PeerReceives
    <3>3. ASSUME NEW n \in ToBoard(h)', n.type = "Data"
          PROVE  n.dcid # m.scid
      <4>1. n \in Packet /\ <<m, n>> \in AllowedData
        <5>1. CASE n \in Packets(air'[h])
          BY <1>1, <1>3, <1>4, <5>1, PacketsFacts
        <5>2. CASE n \in Packets(tx)
          <6>1. n \in Packet
            BY <1>1, <5>2, StateFacts, PacketsFacts
          <6>. QED  BY <1>3, <5>2, <6>1 DEF Addressed, RightQueue
        <5>. QED  BY <1>3, <3>3, <5>1, <5>2 DEF ToBoard
      <4>. QED  BY <1>3, <3>2, <3>3, <4>1, AllowedDataFacts
    <3>. QED  BY <1>6, <3>1, <3>3
  <2>7. CASE PeerOnData(h)
    BY <2>7 DEF PeerOnData
  <2>. QED  BY <2>1, <2>2, <2>3, <2>4, <2>5, <2>6, <2>7 DEF PeerReply
<1>. QED  BY <1>3, <1>5, <1>7, SetEndAddressed

\* A packet goes from the ring to the link of its board.
LEMMA TransmitAddressed ==
  ASSUME Before, Addressed, Transmit
  PROVE  Addressed'
<1>0. PICK m : m = Head(tx)
  OBVIOUS
<1>1. TypeOK /\ tx \in Seq(Packet) /\ \A g \in Handle : air[g] \in Seq(Packet)
  BY StateFacts DEF Before, CidInv
<1>2. peer' = peer
  BY DEF Transmit
<1>3. /\ m \in Packets(tx) /\ m \in Packet /\ tx # <<>> /\ tx' = Tail(tx)
      /\ Packets(tx') \subseteq Packets(tx)
      /\ \A g \in Handle : g # m.handle => air'[g] = air[g]
      /\ \/ /\ air'[m.handle] = Append(air[m.handle], m)
            /\ Packets(air'[m.handle]) = Packets(air[m.handle]) \cup {m}
         \/ air' = air
  BY <1>0, <1>1, TransmitPackets
<1>4. RightQueue(tx) /\ Along(AllowedData, tx)
  BY DEF Addressed, RightQueue
<1>5. Along(AllowedData, tx') /\ \A b \in Packets(tx') : <<m, b>> \in AllowedData
  BY <1>0, <1>1, <1>3, <1>4, AlongTail
<1>6. RightEnd(m) /\ \A n : RightEnd(n) => RightEnd(n)'
  BY <1>2, <1>3, <1>4 DEF RightQueue, RightEnd
<1>7. ASSUME NEW g \in Handle
      PROVE  /\ Along(AllowedData, air'[g])
             /\ \A a \in Packets(air'[g]) : a \in Packets(air[g]) \/ a = m
  <2>1. CASE air'[g] = air[g]
    BY <2>1 DEF Addressed
  <2>2. CASE /\ g = m.handle /\ air'[g] = Append(air[g], m)
             /\ Packets(air'[g]) = Packets(air[g]) \cup {m}
    <3>1. \A a \in Packets(air[g]) : <<a, m>> \in AllowedData
      BY <1>3, <1>4, Zenon DEF RightQueue
    <3>2. Along(AllowedData, air[g])
      BY DEF Addressed
    <3>3. Along(AllowedData, Append(air[g], m))
      BY <1>1, <1>3, <3>1, <3>2, AlongAppend
    <3>. QED  BY <2>2, <3>3
  <2>. QED  BY <1>3, <2>1, <2>2
<1>8. \A g \in Handle : \A a \in Packets(air'[g]), b \in Packets(tx') : <<a, b>> \in AllowedData
  <2>1. ASSUME NEW g \in Handle, NEW a \in Packets(air'[g]), NEW b \in Packets(tx')
        PROVE  <<a, b>> \in AllowedData
    <3>1. a \in Packets(air[g]) \/ a = m
      BY <1>7, Zenon
    <3>2. CASE a \in Packets(air[g])
      <4>1. b \in Packets(tx)
        BY <1>3
      <4>. QED  BY <1>4, <3>2, <4>1, Zenon DEF RightQueue
    <3>3. CASE a = m
      BY <1>5, <3>3, Zenon
    <3>. QED  BY <3>1, <3>2, <3>3, Zenon
  <2>. QED  BY <2>1, Zenon
<1>9. RightQueue(tx)'
  <2>1. \A n \in Packets(tx') : RightEnd(n)'
    BY <1>3, <1>4, <1>6 DEF RightQueue
  <2>. QED  BY <1>5, <1>8, <2>1 DEF RightQueue
<1>10. ASSUME NEW g \in Handle, NEW n \in Packets(air'[g])
       PROVE  RightEnd(n)'
  BY <1>6, <1>7 DEF Addressed
<1>. QED  BY <1>7, <1>9, <1>10 DEF Addressed

\* A channel of an earlier link stays in the store.
LEMMA CurrentBefore ==
  ASSUME \A g, h \in Handle : g = h,
         CidInv, NamesOk, ~wrapped', Handlers, UNCHANGED since, Next, Current', TypeOK'
  PROVE  Current
<1>. SUFFICES ASSUME NEW k \in Channels PROVE since[k.handle] <= k.localCid
  BY DEF Current
<1>1. CASE k.localCid \notin {d.localCid : d \in Channels'}
  BY <1>1, NamedRemoval
<1>2. ASSUME NEW d \in Channels', d.localCid = k.localCid
      PROVE  since[k.handle] <= k.localCid
  <2>1. Channels' \subseteq Connection
    BY ChannelsFacts DEF TypeOK, Channels
  <2>2. Channels \subseteq Connection
    BY ChannelsFacts DEF CidInv, TypeOK
  <2>3. d.handle = k.handle
    BY <2>1, <2>2 DEF Connection
  <2>. QED  BY <1>2, <2>3 DEF Current
<1>. QED  BY <1>1, <1>2

LEMMA NextAddressed ==
  ASSUME "appDisconnect" \notin Moves, \A g, h \in Handle : g = h,
         CidInv, NamesInv, ProtocolInv, AddressedInv, TypeOK', [Next]_vars
  PROVE  AddressedInv'
<1>. SUFFICES ASSUME ~wrapped', Current' PROVE Addressed'
  BY DEF AddressedInv
<1>1. CASE Handlers
  <2>1. ~wrapped
    BY <1>1, HandlersStore
  <2>2. Before /\ NamesOk
    BY <2>1 DEF Before, NamesInv, ProtocolInv
  <2>3. UNCHANGED since /\ Next
    <3>1. UNCHANGED env
      BY <1>1, <2>2, HandlersKeep
    <3>. QED  BY <1>1, <3>1 DEF env, links, Next
  <2>4. Current
    BY <1>1, <2>2, <2>3, CurrentBefore
  <2>. QED  BY <1>1, <2>1, <2>2, <2>4, HandlersAddressed DEF AddressedInv
<1>2. CASE ~Handlers
  <2>1. UNCHANGED <<connections, g_localCid, wrapped>>
    BY <1>2, OthersKeepStore
  <2>2. Before /\ ~wrapped
    BY <2>1 DEF Before, NamesInv, ProtocolInv
  <2>3. UNCHANGED since => Addressed
    BY <2>1, <2>2 DEF AddressedInv, Current, Channels
  <2>4. CASE Transmit
    <3>1. UNCHANGED since
      BY <2>4 DEF Transmit, links
    <3>. QED  BY <2>2, <2>3, <2>4, <3>1, TransmitAddressed
  <2>5. CASE ControllerDisconnects
    <3>1. tx # <<>> /\ Head(tx).type = "Disconnect"
      BY <2>5 DEF ControllerDisconnects
    <3>2. Head(tx) \in Packets(tx)
      BY <2>2, <3>1, StateFacts, PacketsTail DEF Before, CidInv
    <3>. QED  BY <2>2, <3>1, <3>2 DEF Before, NamesOk, TxIssued, SentOk
  <2>6. ASSUME NEW h \in Handle, NEW psm \in AppPsm, AppDisconnect(h, psm)
        PROVE  Addressed'
    BY <2>6 DEF AppDisconnect, Moving
  <2>7. ASSUME NEW h \in Handle, NEW by \in {Ours, Theirs}, LinkUp(h, by)
        PROVE  Addressed'
    <3>1. tx' = tx /\ air' = air /\ (link[h] = "none" \/ MayRelink(h))
      BY <2>7 DEF LinkUp, host, out
    <3>2. ToBoard(h) = {}
      BY <2>2, <3>1, NothingUnderway
    <3>3. Packets(tx) = {}
      <4>1. \A m \in Packets(tx) : m.handle \in Handle
        BY <2>2, StateFacts, PacketsFacts, PacketFacts DEF Before, CidInv
      <4>. QED  BY <3>2, <4>1 DEF ToBoard
    <3>4. \A g \in Handle : Packets(air[g]) = {}
      BY <3>2 DEF ToBoard
    <3>5. \A q : Packets(q) = {} => Along(AllowedData, q)
      BY DEF Packets, Along
    <3>6. RightQueue(tx)'
      BY <3>1, <3>3, <3>5 DEF RightQueue
    <3>. QED  BY <3>1, <3>4, <3>5, <3>6 DEF Addressed
  <2>8. ASSUME NEW h \in Handle, LinkLoss(h)
        PROVE  Addressed'
    <3>1. /\ UNCHANGED <<since, peer, tx>> /\ air' = [air EXCEPT ![h] = <<>>]
      BY <2>8 DEF LinkLoss, LinkDown, host, out
    <3>2. ASSUME NEW g \in Handle
          PROVE  Packets(air'[g]) \subseteq Packets(air[g]) /\ Along(AllowedData, air'[g])
      <4>1. air'[g] = air[g] \/ air'[g] = <<>>
        BY <2>2, <3>1 DEF Before, CidInv, TypeOK
      <4>2. Along(AllowedData, air[g])
        BY <2>3, <3>1 DEF Addressed
      <4>. QED  BY <4>1, <4>2, AlongEmpty DEF Packets
    <3>. QED  BY <2>2, <2>3, <3>1, <3>2, OthersAddressed
  <2>9. ASSUME NEW h \in Handle, NEW c \in PeerCid,
               \/ \E psm \in PeerPsm : PeerConnect(h, c, psm)
               \/ PeerDisconnect(h, c)
               \/ PeerData(h, c)
               \/ \E result \in Results : PeerDecides(h, c, result)
               \/ \E form \in Forms : PeerConfigure(h, c, form) \/ PeerReconfigure(h, c, form)
               \/ \E result \in ConfResults : PeerConcludes(h, c, result)
        PROVE  Addressed'
    <3>1. UNCHANGED since
      BY <2>9 DEF PeerConnect, PeerDisconnect, PeerData, PeerDecides, PeerConfigure,
                  PeerReconfigure, PeerConcludes, links
    <3>. QED  BY <2>2, <2>3, <2>9, <3>1, BoardsAddressed
  <2>10. ASSUME NEW h \in Handle, PeerReply(h)
         PROVE  Addressed'
    <3>1. UNCHANGED since
      BY <2>10 DEF PeerReply, PeerOnConnReq, PeerOnConnRsp, PeerOnConfReq, PeerOnConfRsp,
                   PeerOnDiscReq, PeerOnDiscRsp, PeerOnData, PeerReceives, links
    <3>. QED  BY <2>2, <2>3, <2>10, <3>1, RepliesAddressed
  <2>11. CASE UNCHANGED vars
    <3>1. UNCHANGED <<since, peer, tx, air>>
      BY <2>11 DEF vars, env, links, out
    <3>. QED  BY <2>3, <3>1 DEF Addressed, RightQueue, RightEnd
  <2>. QED  BY <1>2, <2>4, <2>5, <2>6, <2>7, <2>8, <2>9, <2>10, <2>11 DEF Next
<1>. QED  BY <1>1, <1>2

\* With one board, and while no channel of an earlier link is in the store,
\* data goes to an end that the board has not closed and uses for the PSM that
\* l2send_data was given, on the same terms: the channel that findPsm finds is
\* that of the board, which neither closes its end before the data comes nor
\* gives its identifier to another channel meanwhile.  With two boards it may
\* be the channel of the other one, as findPsm compares the handle with itself.
THEOREM RightChannelHolds ==
  ASSUME "appDisconnect" \notin Moves, \A g, h \in Handle : g = h
  PROVE  Spec => [](~wrapped => RightChannel)
<1>1. CidInv /\ NamesInv /\ AddressedInv => (~wrapped => RightChannel)
  <2>. SUFFICES ASSUME CidInv, NamesOk, AddressedInv, ~wrapped, NEW h \in Handle,
                       \A c \in Channels : c.handle = h => Present(c),
                       NEW m \in ToBoard(h), m.type = "Data"
                PROVE  /\ EndAt(h, m.dcid).psm = m.psm
                       /\ EndAt(h, m.dcid).state \in {"config", "closing"}
    BY DEF RightChannel, NamesInv
  <2>1. TypeOK /\ Channels \subseteq Connection
    BY ChannelsFacts DEF CidInv, TypeOK
  <2>2. Current
    <3>1. ASSUME NEW c \in Channels
          PROVE  since[c.handle] <= c.localCid
      <4>1. c.handle = h /\ c.localCid \in Nat /\ since[h] \in Nat
        <5>1. c.handle \in Handle /\ c.localCid \in Cid
          BY <2>1 DEF Connection
        <5>. QED  BY <2>1, <5>1, StateFacts, MaxType DEF Cid, U16
      <4>. QED  BY <4>1 DEF Present
    <3>. QED  BY <3>1 DEF Current
  <2>3. m.handle = h /\ RightEnd(m)
    BY <2>2 DEF AddressedInv, Addressed, RightQueue, ToBoard, NamesOk, AirIssued
  <2>. QED  BY <2>3 DEF RightEnd, EndAt, Live
<1>2. CidInv /\ NamesInv /\ ProtocolInv /\ AddressedInv /\ [Next]_vars =>
        CidInv' /\ NamesInv' /\ ProtocolInv' /\ AddressedInv'
  BY NextCids, NextNames, NextProtocol, NextAddressed DEF CidInv
<1>3. Init => AddressedInv
  <2>. SUFFICES ASSUME Init PROVE Addressed
    BY DEF AddressedInv
  <2>1. tx = <<>> /\ \A h \in Handle : air[h] = <<>>
    BY DEF Init
  <2>2. Packets(<<>>) = {} /\ Along(AllowedData, <<>>)
    BY AlongEmpty DEF Packets
  <2>. QED  BY <2>1, <2>2 DEF Addressed, RightQueue
<1>. QED  BY <1>1, <1>2, <1>3, InitCids, InitNames, InitProtocol, PTL DEF Spec
================================================================================
