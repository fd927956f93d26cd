------------------------------ MODULE MCDevice ------------------------------
(***************************************************************************)
(* A readout with two ports, and a stranger.  A message is of two bytes:   *)
(* a datagram may be half of one, empty, or longer than one.  A stranger's *)
(* are too long, which a pinned session must not hold against the caller.  *)
(***************************************************************************)
EXTENDS Device

TwoHosts == {"readout", "stranger"}
CommandPort == [host |-> "readout", port |-> "command"]
DataPort == [host |-> "readout", port |-> "data"]
Stranger == [host |-> "stranger", port |-> "command"]
Addresses == {CommandPort, DataPort, Stranger}

ShortEmptyLong == {0, 1, 3}
ReadoutAndStranger ==
  [from : {CommandPort}, len : ShortEmptyLong] \cup [from : {DataPort}, len : {1}]
    \cup [from : {Stranger}, len : {3}]
=============================================================================
