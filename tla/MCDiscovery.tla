------------------------------ MODULE MCDiscovery ------------------------------
(* Instances of Discovery for TLC.                                         *)
EXTENDS Discovery

CONSTANTS b1, b2, remote, stranger
================================================================================
