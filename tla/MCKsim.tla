------------------------------- MODULE MCKsim -------------------------------
(***************************************************************************)
(* A daemon that listens on an alias of the loopback address, or on the    *)
(* primary one.  A remote client, a local one, and datagrams that seem to  *)
(* come from the daemon.  A register of one word and one cell with an      *)
(* index, a slow command, an upload of two chunks, and a short datagram.   *)
(***************************************************************************)
EXTENDS Ksim

AliasAddress == [host |-> "alias", port |-> "ctl"]
LoopbackAddress == [host |-> "loopback", port |-> "ctl"]
RemoteClient == [host |-> "remote", port |-> "any"]
LocalClient == [host |-> "alias", port |-> "any"]
SomeAddresses == {AliasAddress, LoopbackAddress, RemoteClient, LocalClient}

Cmd(op, sub, word) == [op |-> op, sub |-> sub, word |-> word]
SomeCommands ==
  {Cmd("bias", 0, 1), Cmd("get_bias", 0, 0), Cmd("sensor_reg", 1, 1),
   Cmd("back_read", 0, 1), Cmd("test_pulse", 0, 1), Cmd("upload", 0, 0),
   Cmd("start", 0, 0), Cmd("comm_status", 0, 0), Cmd("unknown", 0, 0)}

Command(from, c) == [from |-> from, kind |-> "cmd", words |-> CommandWords, cmd |-> c]
Chunk == [from |-> RemoteClient, kind |-> "chunk", words |-> 2,
          cmd |-> Cmd("unknown", 0, 0)]
Short == [Chunk EXCEPT !.kind = "short", !.words = 0]
Asked == {"bias", "sensor_reg", "test_pulse", "upload", "start"}
SomeDatagrams ==
  {Command(RemoteClient, c) : c \in {cmd \in SomeCommands : cmd.op \in Asked}}
    \cup {Command(LocalClient, Cmd("comm_status", 0, 0)),
          Command(AliasAddress, Cmd("get_bias", 0, 0)),
          Command(LoopbackAddress, Cmd("back_read", 0, 1)), Chunk, Short}

NoFault == [listen |-> AliasAddress, drop_px_chunk |-> 0, drop_crd |-> 0,
            stray_crd |-> FALSE, log |-> FALSE]
SomeOptions ==
  {NoFault,
   [NoFault EXCEPT !.drop_px_chunk = 1, !.log = TRUE],
   [NoFault EXCEPT !.drop_crd = 1, !.stray_crd = TRUE, !.log = TRUE],
   [NoFault EXCEPT !.listen = LoopbackAddress, !.stray_crd = TRUE]}
=============================================================================
