-------------------------------- MODULE Ksim --------------------------------
(***************************************************************************)
(* The daemon (tools/ksim/main.c): an emulated readout behind two UDP      *)
(* sockets.  One thread opens what it needs and loops: commands in, clock, *)
(* responses out, data out, log.  An iteration of an inner loop is one     *)
(* action.                                                                 *)
(*                                                                         *)
(* The network is open: any datagram of any client may be what the next    *)
(* receive returns.  A response the daemon sends to its own address comes  *)
(* back to it as a command.  The stream is whether there are data to hand  *)
(* over: EmuStream models it in full.                                      *)
(***************************************************************************)
EXTENDS EmuCommand

CONSTANTS
  Addresses,      \* [host, port]
  Loopback,       \* 127.0.0.1 and the control port
  Datagrams,      \* [from, kind, words, cmd]; kind is "cmd", "chunk" or "short"
  CommandWords,   \* words of a command, for an upload that takes it
  Options,        \* [listen, drop_px_chunk, drop_crd, stray_crd, log]
  MaxDrain,       \* MAX_DRAIN_PER_TICK
  Steps,          \* elapsed times
  MaxDatagrams,   \* bound on datagrams received
  MaxFail         \* bound on sends that fail, of responses and of data

ASSUME KsimAssumption ==
  /\ Loopback \in Addresses
  /\ \A dg \in Datagrams : dg.from \in Addresses /\ dg.words \in Nat /\ dg.cmd \in Commands
  /\ CommandWords \in Nat
  /\ MaxDrain \in Nat \ {0} /\ LogCap >= MaxDrain
  /\ Options \subseteq [listen : Addresses, drop_px_chunk : Nat, drop_crd : Nat,
                        stray_crd : BOOLEAN, log : BOOLEAN]
  /\ Steps \subseteq Nat /\ MaxDatagrams \in Nat /\ MaxFail \in Nat

VARIABLES
  pc,             \* a step of startup, a part of the loop, or "stopped"
  opened,         \* what startup has opened
  options,
  i,              \* iterations of the drain loop
  client_known, stray_crd_pending,
  ctl_remote,     \* addr_remote of the control socket
  data_remote,    \* host the data socket sends to
  data_remote_set,
  echoes,         \* operations of responses sent to the daemon, not yet received
  px_chunks_seen, crd_count_armed, crds_counted, md_send_errors,
  md,             \* there are measurement data to hand over
  \* History variables, read by the properties only.
  last,           \* the sender of the last datagram
  arrived,        \* datagrams received
  sent,           \* responses sent to a client
  written,        \* commands written to the log file
  spoilt,         \* what the injected faults did: [chunks, crds, strays]
  n_fail          \* responses whose send failed

loop == <<pc, opened, options, i>>
client == <<client_known, stray_crd_pending, ctl_remote, data_remote, data_remote_set, echoes>>
faults == <<px_chunks_seen, crd_count_armed, crds_counted, md_send_errors>>
history == <<last, arrived, sent, written, spoilt, n_fail>>
vars == <<emu, loop, client, faults, md, history>>

Init ==
  /\ EmuInit
  /\ pc = "ctl" /\ opened = {"emu"} /\ options \in Options /\ i = 0
  /\ client_known = FALSE /\ stray_crd_pending = options.stray_crd
  /\ ctl_remote = Loopback /\ data_remote = Loopback.host /\ data_remote_set = FALSE
  /\ echoes = <<>>
  /\ px_chunks_seen = 0 /\ crd_count_armed = FALSE /\ crds_counted = 0 /\ md_send_errors = 0
  /\ md = FALSE
  /\ last = Loopback /\ arrived = 0 /\ sent = <<>> /\ written = <<>>
  /\ spoilt = [chunks |-> <<>>, crds |-> <<>>, strays |-> 0] /\ n_fail = 0

---------------------------------------------------------------------------
(* Startup: the sockets, the log file, the stop handler.                   *)

StartupOrder == <<"ctl", "data", "log", "handler", "loop">>

Place(s) == CHOOSE k \in DOMAIN StartupOrder : StartupOrder[k] = s

Startup == {"ctl", "data", "log", "handler"}

\* No log file is opened when none is asked for.
Opens(s) == IF s = "handler" \/ (s = "log" /\ ~options.log) THEN {} ELSE {s}

StartupStep ==
  /\ pc \in Startup
  /\ pc' = StartupOrder[Place(pc) + 1]
  /\ opened' = opened \cup Opens(pc)
  /\ UNCHANGED <<emu, options, i, client, faults, md, history>>

\* Faulty variant: the log file stays open when no handler can be installed.
ClosedButLog(s) == {"emu", "ctl", "data"}

\* Each failure closes what the steps before it have opened.
ClosedOnFailure(s) ==
  CASE s = "ctl" -> {"emu"}
    [] s = "data" -> {"emu", "ctl"}
    [] s = "log" -> {"emu", "ctl", "data"}
    [] OTHER -> {"emu", "ctl", "data", "log"}

StartupFails ==
  /\ pc \in Startup /\ (pc = "log" => options.log)
  /\ pc' = "stopped"
  /\ opened' = opened \ ClosedOnFailure(pc)
  /\ UNCHANGED <<emu, options, i, client, faults, md, history>>

---------------------------------------------------------------------------
(* Commands in.                                                            *)

\* The address the control socket is bound to.
Own == options.listen

\* What the daemon sends to its own address it will receive.
Echoed(queue, op, to) == IF to = Own THEN Append(queue, op) ELSE queue

GoTo(place) == pc' = place /\ UNCHANGED <<opened, options>>

LoopStarts ==
  /\ pc = "loop"
  /\ GoTo("drain") /\ i' = i
  /\ UNCHANGED <<emu, client, faults, md, history>>

\* Faulty variant: replies go to where the command seems to come from.
ReplyToSender(from) == from

\* A command that seems to come from the daemon itself is answered on the
\* primary loopback address.
ReplyTo(from) == IF from = Own THEN Loopback ELSE from

TrackedHost(from) == ReplyTo(from).host

\* track_client
TrackClient(from) ==
  /\ data_remote_set' = TRUE
  /\ data_remote' = IF data_remote_set /\ data_remote = TrackedHost(from)
                    THEN data_remote ELSE TrackedHost(from)

ChunkDropped(dg) ==
  /\ dg.kind = "chunk" /\ options.drop_px_chunk # 0
  /\ px_chunks_seen + 1 = options.drop_px_chunk

IsUploadCommand(dg) == dg.kind = "cmd" /\ dg.cmd.op = "upload"

SendsStray == stray_crd_pending /\ ~client_known

\* What the receive leaves of the daemon's own responses is queue.
Receive(dg, queue) ==
  /\ pc = "drain" /\ i < MaxDrain /\ arrived < MaxDatagrams
  /\ i' = i + 1 /\ client_known' = TRUE
  /\ ctl_remote' = ReplyTo(dg.from)
  /\ TrackClient(dg.from)
  /\ px_chunks_seen' = IF dg.kind = "chunk" THEN px_chunks_seen + 1 ELSE px_chunks_seen
  /\ crd_count_armed' = (crd_count_armed \/ IsUploadCommand(dg))
  /\ IF ChunkDropped(dg) THEN UNCHANGED emu ELSE CmdIn(dg)
  /\ stray_crd_pending' = (stray_crd_pending /\ ~SendsStray)
  /\ spoilt' = [spoilt EXCEPT
       !.chunks = IF ChunkDropped(dg) THEN Append(@, px_chunks_seen + 1) ELSE @,
       !.strays = IF SendsStray THEN @ + 1 ELSE @]
  /\ echoes' \in {queue} \cup
       (IF SendsStray THEN {Echoed(queue, "unknown", ReplyTo(dg.from))} ELSE {})
  /\ last' = dg.from /\ arrived' = arrived + 1
  /\ UNCHANGED <<pc, opened, options, crds_counted, md_send_errors, md, sent, written, n_fail>>

\* A response carries its operation where a command does; the rest of it may
\* read as any sub-index and payload.
EchoOf(op) ==
  {[from |-> Own, kind |-> "cmd", words |-> CommandWords, cmd |-> c] :
     c \in {cmd \in Commands : cmd.op = op}}

ReceiveEcho ==
  echoes # <<>> /\ \E dg \in EchoOf(Head(echoes)) : Receive(dg, Tail(echoes))

ReceiveInterrupted ==
  /\ pc = "drain" /\ i < MaxDrain
  /\ i' = i + 1
  /\ UNCHANGED <<emu, pc, opened, options, client, faults, md, history>>

\* Nothing has arrived, the receive failed, or enough was taken.
DrainEnds ==
  /\ pc = "drain"
  /\ GoTo("advance") /\ i' = 0
  /\ UNCHANGED <<emu, client, faults, md, history>>

---------------------------------------------------------------------------
(* Clock, responses out, data out, log.                                    *)

\* Nothing is sent before a client is known.
Advance(d) ==
  /\ pc = "advance"
  /\ AdvanceCrd(d)
  /\ md' \in IF armed THEN BOOLEAN ELSE {md}
  /\ GoTo(IF client_known THEN "crds" ELSE "log_out") /\ i' = i
  /\ UNCHANGED <<regs, px_words, armed, crd_dropped, unknown_cmds, log, log_head,
                 log_count, handled, client, faults, history>>

CountedCrds == IF crd_count_armed THEN crds_counted + 1 ELSE crds_counted

\* Faulty variant: every response from the chosen one on is dropped.
CrdsDroppedFrom == options.drop_crd # 0 /\ CountedCrds >= options.drop_crd

CrdDropped == options.drop_crd # 0 /\ CountedCrds = options.drop_crd

\* The result of the send is ignored.
CrdStep(k) ==
  /\ pc = "crds" /\ CrdOut(k)
  /\ crds_counted' = CountedCrds
  /\ IF CrdDropped
     THEN /\ spoilt' = [spoilt EXCEPT !.crds = Append(@, crd[k].serial)]
          /\ UNCHANGED <<echoes, sent, n_fail>>
     ELSE \/ /\ sent' = Append(sent, crd[k])
             /\ echoes' = Echoed(echoes, crd[k].op, ctl_remote)
             /\ UNCHANGED <<spoilt, n_fail>>
          \/ /\ n_fail < MaxFail /\ n_fail' = n_fail + 1
             /\ UNCHANGED <<echoes, spoilt, sent>>
  /\ UNCHANGED <<regs, px_words, armed, crd_dropped, unknown_cmds, log, log_head,
                 log_count, handled, loop, client_known, stray_crd_pending, ctl_remote,
                 data_remote, data_remote_set, px_chunks_seen, crd_count_armed,
                 md_send_errors, md, last, arrived, written>>

CrdsEnd ==
  /\ pc = "crds" /\ Due = {}
  /\ GoTo("mds") /\ i' = i
  /\ UNCHANGED <<emu, client, faults, md, history>>

\* Data whose send fails are gone as well, and counted.
MdStep ==
  /\ pc = "mds" /\ md
  /\ md' = FALSE
  /\ \/ UNCHANGED md_send_errors
     \/ md_send_errors < MaxFail /\ md_send_errors' = md_send_errors + 1
  /\ DataOut
  /\ UNCHANGED <<loop, client, px_chunks_seen, crd_count_armed, crds_counted, history>>

MdsEnd ==
  /\ pc = "mds" /\ ~md
  /\ DataOut
  /\ GoTo("log_out") /\ i' = i
  /\ UNCHANGED <<client, faults, md, history>>

\* drain_log
DrainLog ==
  IF options.log
  THEN LogRead /\ written' = written \o Logged
  ELSE UNCHANGED <<log, log_head, log_count, written>>

LogOut ==
  /\ pc = "log_out"
  /\ DrainLog
  /\ GoTo("loop") /\ i' = i
  /\ UNCHANGED <<regs, px_words, armed, crd, crd_dropped, unknown_cmds, handled,
                 client, faults, md, last, arrived, sent, spoilt, n_fail>>

\* The stop signal is looked at between two rounds.
Stop ==
  /\ pc = "loop"
  /\ DrainLog
  /\ pc' = "stopped" /\ opened' = opened \ {"emu", "ctl", "data", "log"}
  /\ UNCHANGED <<regs, px_words, armed, crd, crd_dropped, unknown_cmds, handled,
                 options, i, client, faults, md, last, arrived, sent, spoilt, n_fail>>

---------------------------------------------------------------------------

Drain ==
  \/ \E dg \in Datagrams : Receive(dg, echoes)
  \/ ReceiveEcho \/ ReceiveInterrupted \/ DrainEnds

Daemon ==
  \/ StartupStep \/ LoopStarts \/ Drain
  \/ \E d \in Steps : Advance(d)
  \/ \E k \in DOMAIN crd : CrdStep(k)
  \/ CrdsEnd \/ MdStep \/ MdsEnd \/ LogOut

Next == Daemon \/ StartupFails \/ Stop

Spec == Init /\ [][Next]_vars

(***************************************************************************)
(* Fairness: the daemon goes on, and its clock is not for ever at rest: a  *)
(* receive that finds nothing takes a millisecond.                         *)
(***************************************************************************)
FairSpec ==
  /\ Spec /\ WF_vars(Daemon)
  /\ SF_vars(\E d \in Steps \ {0} : Advance(d))

---------------------------------------------------------------------------
(* Properties                                                              *)

Places == Startup \cup {"loop", "drain", "advance", "crds", "mds", "log_out", "stopped"}

\* Every variable keeps its type; the queue and the log their capacities.
TypeOK ==
  /\ regs \in [Cells -> Payloads \cup {0}] /\ px_words \in 0..ConfigWords
  /\ armed \in BOOLEAN /\ md \in BOOLEAN
  /\ Len(crd) <= QueueCap /\ crd_dropped \in Nat /\ unknown_cmds \in Nat
  /\ log_head \in 0..(LogCap - 1) /\ log_count \in 0..LogCap
  /\ log \in [0..(LogCap - 1) -> Commands \cup {Blank}]
  /\ pc \in Places /\ opened \subseteq {"emu", "ctl", "data", "log"}
  /\ i \in 0..MaxDrain
  /\ ctl_remote \in {dg.from : dg \in Datagrams} \cup {Loopback}
  /\ client_known \in BOOLEAN /\ stray_crd_pending \in BOOLEAN
  /\ data_remote_set \in BOOLEAN /\ crd_count_armed \in BOOLEAN

\* The ring holds the most recent commands that were not read yet, oldest
\* first (the comment of log_cmd); with a log file none is ever overwritten,
\* so that file and ring are all commands in order.
LogIsRecent ==
  LET unread == SubSeq(handled, Len(written) + 1, Len(handled))
      first == IF Len(unread) > LogCap THEN Len(unread) - LogCap + 1 ELSE 1
  IN /\ Logged = SubSeq(unread, first, Len(unread))
     /\ options.log => written \o Logged = handled

\* Responses leave in the order of their commands, whatever their latencies,
\* and an inquiry answers what had been set before it, not what was set since.
AnswersInOrder ==
  LET all == sent \o crd
  IN /\ \A j \in 2..Len(all) : all[j - 1].serial < all[j].serial
     /\ \A j \in DOMAIN all :
          all[j].op \in Inquiries => TrueAnswer(all[j].serial, all[j].value)

\* A command to be answered has its response sent, queued, or lost for a
\* reason: a full queue, a failed send, or the one response --drop-crd names.
ResponsesConserved ==
  /\ Len(spoilt.crds) <= 1
  /\ Len(sent) + Len(crd) + crd_dropped + n_fail + Len(spoilt.crds)
       = Cardinality({n \in DOMAIN handled :
            IF handled[n].op = "upload" THEN n < Len(handled) \/ px_words = 0
                                        ELSE Answered(handled[n])})

\* Unless it listens on the primary loopback address itself, the daemon never
\* sends a response to its own socket, where it would be a command (the
\* comment on self-sourced commands in main), and data go to the host that
\* responses go to.
NeverFedBack ==
  /\ Own # Loopback => echoes = <<>>
  /\ client_known => data_remote = ctl_remote.host

\* The injected faults: the chosen chunk and no other is dropped, no response
\* is dropped before an upload command, one stray response is sent.
FaultsAsChosen ==
  /\ spoilt.chunks = (IF options.drop_px_chunk \in 1..px_chunks_seen
                      THEN <<options.drop_px_chunk>> ELSE <<>>)
  /\ spoilt.crds # <<>> => crd_count_armed /\ options.drop_crd # 0
  /\ spoilt.strays = (IF options.stray_crd /\ client_known THEN 1 ELSE 0)

\* Injected or not, every loss is accounted for.
FaultsAccounted == ResponsesConserved /\ FaultsAsChosen

\* However startup fails, and after a stop, nothing stays open; after a stop
\* the log file has every command.
StopsClean ==
  pc = "stopped" => opened = {} /\ (options.log => written = handled)

\* A queued response leaves, interrupted receives and bursts notwithstanding.
ResponsesLeave == crd # <<>> ~> crd = <<>> \/ pc = "stopped"
=============================================================================
