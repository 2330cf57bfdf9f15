---------------------------- MODULE ChannelLifecycle ---------------------------
(***************************************************************************)
(* What the L2CAP layer of src/src/esp32_bluetooth.cpp promises about a    *)
(* channel, whatever packets bring it about: a channel gets an identifier  *)
(* that no channel had before; the identifier of the other side becomes    *)
(* known once, and only then do the two directions get configured, in any  *)
(* order; the step that completes an interrupt channel makes its board     *)
(* known to the application; channels end one by one, and only the end of  *)
(* an interrupt channel makes a board unknown.                             *)
(***************************************************************************)
EXTENDS Naturals

CONSTANT Interrupt   \* PSM of interrupt channels

VARIABLES
  used,     \* identifiers handed out so far
  live,     \* the channels there are
  boards    \* handles of the boards known to the application

vars == <<used, live, boards>>

Init == used = {} /\ live = {} /\ boards = {}

New == live' \ live
Configured(c) == c.localConfigured /\ c.remoteConfigured

\* Some channels begin, each with an identifier of its own; an identifier may
\* be handed out for none.
Begin ==
  /\ live \subseteq live' /\ used \subseteq used'
  /\ \A c \in New : /\ c.localCid \in used' \ used
                    /\ ~c.localConfigured /\ ~c.remoteConfigured
  /\ \A c, d \in New : c.localCid = d.localCid => c = d
  /\ UNCHANGED boards

Becomes(c, d) == live' = (live \ {c}) \cup {d}

\* The other side has accepted the channel c under the identifier r.
Answer(c, r) ==
  /\ c.remoteCid = 0 /\ r # 0
  /\ Becomes(c, [c EXCEPT !.remoteCid = r])
  /\ UNCHANGED <<used, boards>>

\* d is the channel c with one more direction configured.
Configure(c, d) ==
  /\ c.remoteCid # 0
  /\ d \in {[c EXCEPT !.localConfigured = TRUE], [c EXCEPT !.remoteConfigured = TRUE]}
  /\ Becomes(c, d)
  /\ boards' = IF Configured(d) /\ d.psm = Interrupt THEN boards \cup {d.handle} ELSE boards
  /\ UNCHANGED used

End(c) ==
  /\ live' = live \ {c}
  /\ \/ UNCHANGED boards
     \/ c.psm = Interrupt /\ boards' = boards \ {c.handle}
  /\ UNCHANGED used

Next ==
  \/ Begin
  \/ \E c \in live : \/ \E d \in New : Answer(c, d.remoteCid) \/ Configure(c, d)
                     \/ End(c)

Spec == Init /\ [][Next]_vars
================================================================================
