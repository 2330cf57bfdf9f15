-------------------------------- MODULE MCL2cap --------------------------------
(* Instances of L2cap for TLC.                                             *)
EXTENDS L2cap, TLC

CONSTANTS h1, h2

\* What storage past the end reads as: a channel that was there before, or
\* zeroes.
JunkChannels ==
  {[handle |-> h, localCid |-> 0, psm |-> 0, remoteCid |-> 0,
    localConfigured |-> FALSE, remoteConfigured |-> FALSE] : h \in Handle}
  \cup
  {[handle |-> h, localCid |-> 64, psm |-> HidInterrupt, remoteCid |-> 80,
    localConfigured |-> TRUE, remoteConfigured |-> TRUE] : h \in Handle}

TwoHandles == Permutations({h1, h2})
================================================================================
