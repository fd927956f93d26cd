----------------------------- MODULE KsimProofs -----------------------------
(***************************************************************************)
(* Theorems about the daemon, for every set of commands, datagrams and     *)
(* options, every size of the queue, the log and the register file, and    *)
(* every latency: its types, what it sends to itself, the command log, the *)
(* answers it sends and what it leaves behind.                             *)
(***************************************************************************)
EXTENDS Ksim, SequenceTheorems, FiniteSetTheorems, TLAPS

---------------------------------------------------------------------------
(* Types.                                                                  *)

Responses == [serial : Nat, op : Ops, value : Nat, wait : Nat]

\* TypeOK, and the types of what only properties read.
KsimTypes ==
  /\ TypeOK
  /\ options \in Options
  /\ handled \in Seq(Commands) /\ written \in Seq(Commands \cup {Blank})
  /\ crd \in Seq(Responses) /\ sent \in Seq(Responses)

LEMMA CommandType ==
  ASSUME NEW c \in Commands
  PROVE  c.op \in Ops /\ c.sub \in Nat /\ c.word \in Nat /\ c.word \in Payloads
BY CommandAssumption DEF Payloads

LEMMA KsimSizes ==
  /\ IndexCount \in Nat \ {0} /\ ConfigWords \in Nat \ {0}
  /\ QueueCap \in Nat \ {0} /\ LogCap \in Nat \ {0} /\ MaxDrain \in Nat \ {0}
  /\ Latency \in Nat /\ MaxJitter \in Nat /\ ApplyTime \in Nat /\ LogCap >= MaxDrain
BY CommandAssumption, KsimAssumption

\* The datagrams the daemon may receive: those of its clients, and its own
\* responses.
Heard ==
  Datagrams \cup {[from |-> Own, kind |-> "cmd", words |-> CommandWords, cmd |-> c] :
                   c \in Commands}

LEMMA HeardType ==
  ASSUME NEW dg \in Heard
  PROVE  /\ dg.words \in Nat /\ dg.cmd \in Commands
         /\ ReplyTo(dg.from) \in {d.from : d \in Datagrams} \cup {Loopback}
BY KsimAssumption DEF Heard, ReplyTo

LEMMA EchoIsHeard ==
  ASSUME NEW op PROVE EchoOf(op) \subseteq Heard
BY DEF EchoOf, Heard

\* A position in the ring.
LEMMA RingIndex ==
  ASSUME NEW n \in Nat PROVE (n % LogCap) \in 0..(LogCap - 1)
BY KsimSizes, SMT

\* The registers hold payloads.
LEMMA RegisterType ==
  ASSUME KsimTypes, NEW c \in Commands PROVE Answer(c, regs) \in Nat
<1>1. regs \in [Cells -> Payloads \cup {0}]
  BY DEF KsimTypes, TypeOK
<1>2. Payloads \subseteq Nat
  BY CommandAssumption DEF Payloads
<1>3. <<"bias", 0>> \in Cells
  BY DEF Cells, WordOps
<1>4. c.word \in Indices => <<"sensor_reg", c.word>> \in Cells
  BY DEF Cells, BoundedOps
<1> QED
  BY <1>1, <1>2, <1>3, <1>4 DEF Answer

\* A response is queued, or dropped.
LEMMA QueueCrdType ==
  ASSUME KsimTypes, NEW op \in Ops, NEW value \in Nat, NEW apply \in Nat,
         QueueCrd(op, value, apply), handled' \in Seq(Commands)
  PROVE  crd' \in Seq(Responses) /\ Len(crd') <= QueueCap /\ crd_dropped' \in Nat
<1>1. PICK jitter \in 0..MaxJitter :
        IF Len(crd) = QueueCap
        THEN crd_dropped' = crd_dropped + 1 /\ UNCHANGED crd
        ELSE /\ crd' = Append(crd, Response(op, value, apply, jitter))
             /\ UNCHANGED crd_dropped
  BY DEF QueueCrd
<1>2. crd \in Seq(Responses) /\ Len(crd) \in Nat /\ Len(crd) <= QueueCap /\ crd_dropped \in Nat
  BY LenProperties DEF KsimTypes, TypeOK
<1>3. Response(op, value, apply, jitter) \in Responses
  <2>1. Latency + jitter + apply \in Nat /\ Len(handled') \in Nat
    BY KsimSizes, LenProperties
  <2> QED BY <2>1 DEF Response, Responses
<1>4. CASE Len(crd) = QueueCap
  BY <1>1, <1>2, <1>4
<1>5. CASE Len(crd) # QueueCap
  <2>1. crd' \in Seq(Responses) /\ Len(crd') = Len(crd) + 1 /\ UNCHANGED crd_dropped
    BY <1>1, <1>2, <1>3, <1>5, AppendProperties
  <2> QED BY <1>2, <1>5, <2>1, KsimSizes
<1> QED
  BY <1>4, <1>5

\* The types of the emulator's own variables.
EmuTyped ==
  /\ regs \in [Cells -> Payloads \cup {0}] /\ px_words \in 0..ConfigWords
  /\ armed \in BOOLEAN /\ crd_dropped \in Nat /\ unknown_cmds \in Nat
  /\ crd \in Seq(Responses) /\ Len(crd) <= QueueCap
  /\ log_head \in 0..(LogCap - 1) /\ log_count \in 0..LogCap
  /\ log \in [0..(LogCap - 1) -> Commands \cup {Blank}]
  /\ handled \in Seq(Commands)

\* The types of the daemon's.
DaemonTyped ==
  /\ md \in BOOLEAN /\ pc \in Places /\ opened \subseteq {"emu", "ctl", "data", "log"}
  /\ i \in 0..MaxDrain /\ options \in Options
  /\ ctl_remote \in {dg.from : dg \in Datagrams} \cup {Loopback}
  /\ client_known \in BOOLEAN /\ stray_crd_pending \in BOOLEAN
  /\ data_remote_set \in BOOLEAN /\ crd_count_armed \in BOOLEAN
  /\ written \in Seq(Commands \cup {Blank}) /\ sent \in Seq(Responses)

LEMMA TypeParts == KsimTypes <=> EmuTyped /\ DaemonTyped
BY DEF KsimTypes, TypeOK, EmuTyped, DaemonTyped

LEMMA TypesAfter == EmuTyped' /\ DaemonTyped' => KsimTypes'
BY DEF KsimTypes, TypeOK, EmuTyped, DaemonTyped

\* The ring keeps its shape when a command is logged.
LEMMA LogCmdType ==
  ASSUME EmuTyped, NEW c \in Commands, LogCmd(c)
  PROVE  /\ log_head' \in 0..(LogCap - 1) /\ log_count' \in 0..LogCap
         /\ log' \in [0..(LogCap - 1) -> Commands \cup {Blank}]
<1> DEFINE full == log_count = LogCap
           head == IF full THEN HeadMoved ELSE log_head
           count == IF full THEN log_count - 1 ELSE log_count
<1>1. /\ log_head \in Nat /\ log_head \in 0..(LogCap - 1) /\ log_count \in 0..LogCap
      /\ log \in [0..(LogCap - 1) -> Commands \cup {Blank}] /\ LogCap \in Nat \ {0}
  BY KsimSizes DEF EmuTyped
<1>2. HeadMoved \in 0..(LogCap - 1)
  <2>1. log_head + 1 \in Nat
    BY <1>1
  <2>2. ((log_head + 1) % LogCap) \in 0..(LogCap - 1)
    BY <2>1, RingIndex
  <2> QED BY <2>2 DEF HeadMoved
<1>3. head \in 0..(LogCap - 1) /\ count \in 0..(LogCap - 1)
  BY <1>1, <1>2
<1>4. /\ log_head' = head /\ log_count' = count + 1
      /\ log' = [log EXCEPT ![(head + count) % LogCap] = c]
  BY DEF LogCmd
<1> HIDE DEF head, count
<1> QED
  BY <1>1, <1>3, <1>4

\* A command keeps the types of the emulator.
LEMMA HandleCmdType ==
  ASSUME KsimTypes, NEW c \in Commands, HandleCmd(c) PROVE EmuTyped'
<1>1. EmuTyped /\ c.op \in Ops /\ c.word \in Payloads /\ c.word \in Nat
  BY TypeParts, CommandType
<1>2. handled' \in Seq(Commands)
  BY <1>1, AppendProperties DEF HandleCmd, EmuTyped
<1>3. regs' \in [Cells -> Payloads \cup {0}]
  BY <1>1 DEF HandleCmd, EmuTyped
<1>4. px_words' \in 0..ConfigWords /\ armed' \in BOOLEAN /\ unknown_cmds' \in Nat
  <2>1. Arms(c) \subseteq BOOLEAN
    BY <1>1 DEF Arms, EmuTyped
  <2> QED BY <1>1, <2>1, KsimSizes DEF HandleCmd, EmuTyped
<1>5. crd' \in Seq(Responses) /\ Len(crd') <= QueueCap /\ crd_dropped' \in Nat
  <2>1. CASE Answered(c)
    <3> DEFINE apply == IF c.op = "test_pulse" THEN ApplyTime ELSE 0
    <3>1. apply \in Nat /\ Answer(c, regs) \in Nat
      BY KsimSizes, RegisterType
    <3>2. QueueCrd(c.op, Answer(c, regs), apply)
      BY <2>1 DEF HandleCmd
    <3> HIDE DEF apply
    <3> QED BY <1>1, <1>2, <3>1, <3>2, QueueCrdType
  <2>2. CASE ~Answered(c)
    BY <1>1, <2>2 DEF HandleCmd, EmuTyped
  <2> QED BY <2>1, <2>2
<1> QED
  BY <1>1, <1>2, <1>3, <1>4, <1>5, LogCmdType DEF HandleCmd, EmuTyped

\* So does a datagram of an upload.
LEMMA ConsumeType ==
  ASSUME KsimTypes, NEW n \in Nat, ConsumePxConfig(n) PROVE EmuTyped'
<1>1. EmuTyped
  BY TypeParts
<1>2. px_words' \in 0..ConfigWords
  BY <1>1, KsimSizes DEF ConsumePxConfig, Completes, EmuTyped
<1>3. handled' \in Seq(Commands)
  BY <1>1 DEF ConsumePxConfig, EmuTyped
<1>4. crd' \in Seq(Responses) /\ Len(crd') <= QueueCap /\ crd_dropped' \in Nat
  <2>1. CASE Completes(n)
    <3>1. QueueCrd("upload", 0, 0) /\ "upload" \in Ops /\ 0 \in Nat
      BY <2>1 DEF ConsumePxConfig, Ops, MuteOps
    <3> QED BY <1>3, <3>1, QueueCrdType
  <2>2. CASE ~Completes(n)
    BY <1>1, <2>2 DEF ConsumePxConfig, EmuTyped
  <2> QED BY <2>1, <2>2
<1> QED
  BY <1>1, <1>2, <1>3, <1>4 DEF ConsumePxConfig, EmuTyped

\* And any datagram.
LEMMA CmdInTyped ==
  ASSUME KsimTypes, NEW dg \in Heard, CmdIn(dg) PROVE EmuTyped'
<1>1. EmuTyped /\ dg.words \in Nat /\ dg.cmd \in Commands
  BY TypeParts, HeardType
<1>2. CASE UNCHANGED emu
  BY <1>1, <1>2 DEF emu, EmuTyped
<1> QED
  BY <1>1, <1>2, ConsumeType, HandleCmdType DEF CmdIn

\* The first response leaves.
LEMMA LeavesFirst ==
  ASSUME crd \in Seq(Responses), NEW k \in DOMAIN crd, CrdOut(k)
  PROVE  /\ k = 1 /\ crd # <<>> /\ crd' = Tail(crd) /\ crd[k] = Head(crd)
         /\ Head(crd) \in Responses /\ crd' \in Seq(Responses) /\ Len(crd') = Len(crd) - 1
<1>1. k = 1 /\ crd # <<>> /\ Len(crd) \in Nat \ {0} /\ crd[1] \in Responses
  BY EmptySeq, LenProperties DEF CrdOut, Due
<1>2. SubSeq(crd, 1, 0) = <<>> /\ SubSeq(crd, 2, Len(crd)) = Tail(crd)
  BY <1>1
<1>3. Tail(crd) \in Seq(Responses) /\ Head(crd) = crd[1] /\ Len(Tail(crd)) = Len(crd) - 1
  BY <1>1, HeadTailProperties
<1>4. <<>> \o Tail(crd) = Tail(crd)
  BY <1>3, ConcatEmptySeq
<1> QED
  BY <1>1, <1>2, <1>3, <1>4 DEF CrdOut, Leaves

\* What is read from the ring.
LEMMA LoggedType ==
  ASSUME EmuTyped PROVE Logged \in Seq(Commands \cup {Blank})
<1>1. log_count \in Nat /\ log_head \in Nat /\ log \in [0..(LogCap - 1) -> Commands \cup {Blank}]
  BY KsimSizes DEF EmuTyped
<1>2. ASSUME NEW k \in 1..log_count
      PROVE  log[(log_head + k - 1) % LogCap] \in Commands \cup {Blank}
  <2>1. log_head + k - 1 \in Nat
    BY <1>1
  <2> QED BY <1>1, <2>1, RingIndex
<1> QED
  BY <1>1, <1>2 DEF Logged

\* Reading the log empties the ring.
LEMMA DrainLogType ==
  ASSUME KsimTypes, DrainLog
  PROVE  /\ log_head' \in 0..(LogCap - 1) /\ log_count' \in 0..LogCap /\ UNCHANGED log
         /\ written' \in Seq(Commands \cup {Blank})
<1>1. EmuTyped /\ written \in Seq(Commands \cup {Blank}) /\ LogCap \in Nat \ {0}
  BY TypeParts, KsimSizes DEF DaemonTyped
<1>2. log_head \in Nat /\ log_count \in Nat
  BY <1>1 DEF EmuTyped
<1>3. log_head + log_count \in Nat
  BY <1>2
<1>4. ((log_head + log_count) % LogCap) \in 0..(LogCap - 1)
  BY <1>3, RingIndex
<1>5. written \o Logged \in Seq(Commands \cup {Blank})
  BY <1>1, LoggedType, ConcatProperties
<1>6. CASE options.log
  <2>1. LogRead /\ written' = written \o Logged
    BY <1>6, Zenon DEF DrainLog
  <2>2. log_head' \in 0..(LogCap - 1) /\ log_count' = 0 /\ UNCHANGED log
    BY <1>4, <2>1 DEF LogRead
  <2> QED BY <1>1, <1>5, <2>1, <2>2
<1>7. CASE ~options.log
  BY <1>1, <1>7 DEF DrainLog, EmuTyped
<1> QED
  BY <1>6, <1>7

\* No command is handled and nothing queued; an acquisition may end.
Rests ==
  /\ UNCHANGED <<regs, px_words, crd, crd_dropped, unknown_cmds, log, log_head, log_count,
                 handled>>
  /\ armed' \in {armed, FALSE}

\* Steps that do not ask the emulator for anything but data.
LEMMA QuietStep ==
  ASSUME KsimTypes,
         \/ StartupStep \/ StartupFails \/ LoopStarts \/ ReceiveInterrupted \/ DrainEnds
         \/ CrdsEnd \/ MdStep \/ MdsEnd
  PROVE  Rests /\ KsimTypes'
<1>1. EmuTyped /\ DaemonTyped /\ MaxDrain \in Nat \ {0}
  BY TypeParts, KsimSizes
<1>2. Rests
  BY DEF StartupStep, StartupFails, LoopStarts, ReceiveInterrupted, DrainEnds, CrdsEnd,
       MdStep, MdsEnd, DataOut, emu, Rests
<1>3. EmuTyped'
  BY <1>1, <1>2 DEF Rests, EmuTyped
<1> USE DEF DaemonTyped, Places, Startup, client, history, faults, loop, GoTo
<1>4. CASE StartupStep
  <2>1. pc' \in {"ctl", "data", "log", "handler", "loop"}
        /\ opened' \subseteq {"emu", "ctl", "data", "log"}
    <3>1. /\ StartupOrder[1] = "ctl" /\ StartupOrder[2] = "data" /\ StartupOrder[3] = "log"
          /\ StartupOrder[4] = "handler" /\ StartupOrder[5] = "loop"
          /\ DOMAIN StartupOrder = 1..5
      BY DEF StartupOrder
    <3>2. Place(pc) \in 1..5 /\ StartupOrder[Place(pc)] = pc
      BY <1>1, <1>4, <3>1 DEF StartupStep, Place
    <3>3. Place(pc) \in 1..4
      BY <1>4, <3>1, <3>2 DEF StartupStep
    <3>4. pc' = StartupOrder[Place(pc) + 1] /\ Place(pc) + 1 \in {2, 3, 4, 5}
      BY <1>4, <3>3 DEF StartupStep
    <3> QED BY <1>1, <1>4, <3>1, <3>4 DEF StartupStep, Opens
  <2>2. DaemonTyped'
    BY <1>1, <1>4, <2>1 DEF StartupStep
  <2> QED BY <1>2, <1>3, <2>2, TypesAfter
<1>5. CASE StartupFails
  <2>1. /\ pc' = "stopped" /\ opened' \subseteq opened
        /\ UNCHANGED <<options, i, client_known, stray_crd_pending, ctl_remote,
                       data_remote_set, crd_count_armed, md, written, sent>>
    BY <1>5 DEF StartupFails
  <2>2. DaemonTyped'
    BY <1>1, <2>1
  <2> QED BY <1>2, <1>3, <2>2, TypesAfter
<1>6. CASE LoopStarts \/ ReceiveInterrupted \/ DrainEnds
  <2>1. /\ pc' \in {"drain", "advance"}
        /\ UNCHANGED <<opened, options, md, client_known, stray_crd_pending, ctl_remote,
                       data_remote_set, crd_count_armed, written, sent>>
    BY <1>6 DEF LoopStarts, ReceiveInterrupted, DrainEnds
  <2>2. i' \in 0..MaxDrain
    BY <1>1, <1>6 DEF LoopStarts, ReceiveInterrupted, DrainEnds
  <2>3. DaemonTyped'
    BY <1>1, <2>1, <2>2
  <2> QED BY <1>2, <1>3, <2>3, TypesAfter
<1>7. CASE CrdsEnd \/ MdStep \/ MdsEnd
  <2>1. /\ pc' \in {"mds", "log_out", pc} /\ md' \in {md, FALSE}
        /\ UNCHANGED <<opened, options, i, client_known, stray_crd_pending, ctl_remote,
                       data_remote_set, crd_count_armed, written, sent>>
    BY <1>7 DEF CrdsEnd, MdStep, MdsEnd
  <2>2. DaemonTyped'
    BY <1>1, <2>1
  <2> QED BY <1>2, <1>3, <2>2, TypesAfter
<1> QED
  BY <1>2, <1>4, <1>5, <1>6, <1>7

\* A datagram keeps the types.
LEMMA ReceiveType ==
  ASSUME KsimTypes, NEW dg \in Heard, NEW queue, Receive(dg, queue) PROVE KsimTypes'
<1>1. EmuTyped /\ DaemonTyped /\ MaxDrain \in Nat \ {0}
  BY TypeParts, KsimSizes
<1>2. EmuTyped'
  <2>1. CASE UNCHANGED emu
    BY <1>1, <2>1 DEF emu, EmuTyped
  <2> QED BY <2>1, CmdInTyped DEF Receive
<1>3. i' \in 0..MaxDrain
  BY <1>1 DEF Receive, DaemonTyped
<1>4. ctl_remote' \in {d.from : d \in Datagrams} \cup {Loopback}
  BY HeardType DEF Receive
<1>5. DaemonTyped'
  BY <1>1, <1>3, <1>4 DEF Receive, TrackClient, DaemonTyped
<1> QED
  BY <1>2, <1>5, TypesAfter

\* The clock, the responses and the log keep the types.
LEMMA AdvanceType ==
  ASSUME KsimTypes, NEW d \in Steps, Advance(d)
  PROVE  /\ KsimTypes' /\ Len(crd') = Len(crd)
         /\ \A k \in DOMAIN crd : crd'[k] = [crd[k] EXCEPT !.wait = Remaining(@, d)]
<1>1. EmuTyped /\ DaemonTyped /\ d \in Nat
  BY TypeParts, KsimAssumption
<1>2. crd \in Seq(Responses) /\ crd' = [k \in DOMAIN crd |-> [crd[k] EXCEPT !.wait = Remaining(@, d)]]
  BY <1>1 DEF Advance, AdvanceCrd, EmuTyped
<1>3. ASSUME NEW k \in DOMAIN crd
      PROVE  [crd[k] EXCEPT !.wait = Remaining(@, d)] \in Responses
  <2>3. crd[k] \in Responses
    BY <1>2, <1>3, LenProperties
  <2>1. crd[k] \in Responses /\ crd[k].wait \in Nat
    BY <2>3 DEF Responses
  <2>2. Remaining(crd[k].wait, d) \in Nat
    BY <1>1, <2>1 DEF Remaining
  <2> QED BY <2>1, <2>2 DEF Responses
<1>4. crd' \in Seq(Responses) /\ Len(crd') = Len(crd) /\ DOMAIN crd = 1..Len(crd)
  <2>1. DOMAIN crd = 1..Len(crd) /\ Len(crd) \in Nat
    BY <1>2, LenProperties
  <2> DEFINE f(k) == [crd[k] EXCEPT !.wait = Remaining(@, d)]
  <2>2. crd' = [k \in 1..Len(crd) |-> f(k)] /\ \A k \in 1..Len(crd) : f(k) \in Responses
    BY <1>2, <1>3, <2>1
  <2> HIDE DEF f
  <2>3. crd' \in Seq(Responses) /\ Len(crd') = Len(crd)
    BY <2>1, <2>2
  <2> QED BY <2>1, <2>3
<1>5. EmuTyped'
  BY <1>1, <1>4 DEF Advance, EmuTyped
<1>6. DaemonTyped'
  BY <1>1 DEF Advance, GoTo, DaemonTyped, Places, Startup, client, history, faults, EmuTyped
<1> QED
  BY <1>2, <1>4, <1>5, <1>6, TypesAfter

LEMMA CrdStepType ==
  ASSUME KsimTypes, NEW k \in DOMAIN crd, CrdStep(k)
  PROVE  /\ KsimTypes' /\ crd # <<>> /\ crd' = Tail(crd) /\ UNCHANGED <<handled, px_words>>
         /\ sent' = sent \/ sent' = Append(sent, Head(crd))
<1>1. EmuTyped /\ DaemonTyped /\ crd \in Seq(Responses) /\ sent \in Seq(Responses)
  BY TypeParts DEF EmuTyped, DaemonTyped
<1>2. /\ crd # <<>> /\ crd' = Tail(crd) /\ crd[k] = Head(crd)
      /\ Head(crd) \in Responses /\ crd' \in Seq(Responses) /\ Len(crd') = Len(crd) - 1
  BY <1>1, LeavesFirst DEF CrdStep
<1>3. sent' = sent \/ sent' = Append(sent, Head(crd))
  BY <1>2 DEF CrdStep
<1>4. sent' \in Seq(Responses)
  <2>1. Append(sent, Head(crd)) \in Seq(Responses)
    BY <1>1, <1>2, AppendProperties
  <2> QED BY <1>1, <1>3, <2>1, Zenon
<1>5. Len(crd') <= QueueCap
  BY <1>1, <1>2, KsimSizes, LenProperties DEF EmuTyped
<1>6. EmuTyped' /\ UNCHANGED <<handled, px_words>>
  BY <1>1, <1>2, <1>5 DEF CrdStep, EmuTyped
<1>7. DaemonTyped'
  BY <1>1, <1>4 DEF CrdStep, DaemonTyped, loop, client
<1> QED
  BY <1>2, <1>3, <1>6, <1>7, TypesAfter

LEMMA LogStepType ==
  ASSUME KsimTypes, LogOut \/ Stop PROVE KsimTypes' /\ UNCHANGED <<crd, sent, handled, px_words, regs>>
<1>1. EmuTyped /\ DaemonTyped /\ DrainLog
  BY TypeParts DEF LogOut, Stop
<1>2. EmuTyped'
  BY <1>1, DrainLogType DEF LogOut, Stop, EmuTyped
<1>3. DaemonTyped'
  BY <1>1, DrainLogType DEF LogOut, Stop, GoTo, DaemonTyped, Places, Startup, client, faults
<1> QED
  BY <1>2, <1>3, TypesAfter DEF LogOut, Stop

\* The steps of the daemon, by what they do to the emulator.
LEMMA StepKinds ==
  ASSUME [Next]_vars
  PROVE  \/ \/ StartupStep \/ StartupFails \/ LoopStarts \/ ReceiveInterrupted
            \/ DrainEnds \/ CrdsEnd \/ MdStep \/ MdsEnd
         \/ \E dg \in Heard : \E queue : Receive(dg, queue)
         \/ \E d \in Steps : Advance(d)
         \/ \E k \in DOMAIN crd : CrdStep(k)
         \/ LogOut \/ Stop
         \/ UNCHANGED vars
<1>1. ASSUME NEW dg \in Datagrams, Receive(dg, echoes)
      PROVE  \E d \in Heard : \E queue : Receive(d, queue)
  BY <1>1 DEF Heard
<1>2. ASSUME ReceiveEcho PROVE \E d \in Heard : \E queue : Receive(d, queue)
  BY <1>2, EchoIsHeard DEF ReceiveEcho
<1> QED
  BY <1>1, <1>2, Zenon DEF Next, Daemon, Drain

LEMMA KsimTypesInit == Init => KsimTypes
<1> SUFFICES ASSUME Init PROVE KsimTypes
  OBVIOUS
<1>1. EmuTyped
  <2>1. /\ 0 \in 0..(LogCap - 1) /\ 0 \in 0..LogCap /\ 0 \in 0..ConfigWords
    BY KsimSizes
  <2>2. crd = <<>> /\ handled = <<>> /\ Len(crd) <= QueueCap
    BY KsimSizes DEF Init, EmuInit
  <2> QED BY <2>1, <2>2, EmptySeq DEF Init, EmuInit, EmuTyped
<1>2. DaemonTyped
  <2>1. options \in Options /\ options.stray_crd \in BOOLEAN /\ 0 \in 0..MaxDrain
    BY KsimAssumption DEF Init
  <2>2. written = <<>> /\ sent = <<>>
    BY DEF Init
  <2>3. written \in Seq(Commands \cup {Blank}) /\ sent \in Seq(Responses)
    BY <2>2, EmptySeq
  <2> QED BY <2>1, <2>3 DEF Init, DaemonTyped, Places, Startup
<1> QED
  BY <1>1, <1>2, TypeParts

LEMMA KsimTypesStep == KsimTypes /\ [Next]_vars => KsimTypes'
<1> SUFFICES ASSUME KsimTypes, [Next]_vars PROVE KsimTypes'
  OBVIOUS
<1>1. CASE UNCHANGED vars
  <2>1. EmuTyped' /\ DaemonTyped'
    <3>1. UNCHANGED emu /\ UNCHANGED <<loop, client, faults, md, history>>
      BY <1>1 DEF vars
    <3> QED BY <3>1, TypeParts DEF emu, loop, client, faults, history, EmuTyped, DaemonTyped
  <2> QED BY <2>1, TypesAfter
<1> QED
  BY <1>1, StepKinds, QuietStep, ReceiveType, AdvanceType, CrdStepType, LogStepType

LEMMA KsimTyped == Spec => []KsimTypes
BY KsimTypesInit, KsimTypesStep, PTL DEF Spec

\* Registers, queue, ring and daemon keep their types, and queue and ring
\* their capacities (TypeOK).
THEOREM KsimTypeCorrect == Spec => []TypeOK
<1>1. KsimTypes => TypeOK
  BY DEF KsimTypes
<1> QED
  BY <1>1, KsimTyped, PTL

---------------------------------------------------------------------------
(* What the daemon sends to itself (NeverFedBack).                         *)

\* Unless it is the primary loopback address, responses are not sent to the
\* daemon's own address, so that nothing comes back.
FeedInv ==
  /\ Own # Loopback => ctl_remote # Own /\ echoes = <<>>
  /\ client_known => data_remote = ctl_remote.host

LEMMA FeedReceived ==
  ASSUME NEW dg \in Heard, NEW queue, Receive(dg, queue), Own # Loopback => queue = <<>>
  PROVE  FeedInv'
<1>1. /\ ctl_remote' = ReplyTo(dg.from) /\ UNCHANGED options
      /\ \/ echoes' = queue
         \/ echoes' = Echoed(queue, "unknown", ReplyTo(dg.from))
  BY DEF Receive
<1>2. Own # Loopback => ReplyTo(dg.from) # Own
  BY DEF ReplyTo
<1>3. (Own # Loopback => ctl_remote # Own /\ echoes = <<>>)'
  BY <1>1, <1>2 DEF Echoed, Own
<1>4. data_remote' = ctl_remote'.host
  BY <1>1 DEF Receive, TrackClient, TrackedHost
<1> QED
  BY <1>3, <1>4 DEF FeedInv

LEMMA FeedStep == FeedInv /\ [Next]_vars => FeedInv'
<1> SUFFICES ASSUME FeedInv, [Next]_vars PROVE FeedInv'
  OBVIOUS
<1>1. ASSUME UNCHANGED <<options, client_known, ctl_remote, data_remote, echoes>>
      PROVE  FeedInv'
  BY <1>1 DEF FeedInv, Own
<1>2. ASSUME NEW dg \in Datagrams, Receive(dg, echoes) PROVE FeedInv'
  BY <1>2, FeedReceived DEF Heard, FeedInv
<1>3. CASE ReceiveEcho
  <2>1. Own = Loopback
    BY <1>3 DEF ReceiveEcho, FeedInv
  <2> QED BY <1>3, <2>1, FeedReceived, EchoIsHeard DEF ReceiveEcho
<1>4. ASSUME NEW k \in DOMAIN crd, CrdStep(k) PROVE FeedInv'
  <2>1. /\ UNCHANGED <<options, client_known, ctl_remote, data_remote>>
        /\ echoes' = echoes \/ echoes' = Echoed(echoes, crd[k].op, ctl_remote)
    BY <1>4 DEF CrdStep, loop
  <2>2. Own # Loopback => echoes' = <<>>
    BY <2>1 DEF FeedInv, Echoed
  <2> QED BY <2>1, <2>2 DEF FeedInv, Own
<1>5. CASE \/ StartupStep \/ StartupFails \/ LoopStarts \/ ReceiveInterrupted \/ DrainEnds
           \/ \E d \in Steps : Advance(d)
           \/ CrdsEnd \/ MdStep \/ MdsEnd \/ LogOut \/ Stop \/ UNCHANGED vars
  <2>1. UNCHANGED <<options, client_known, ctl_remote, data_remote, echoes>>
    BY <1>5 DEF StartupStep, StartupFails, LoopStarts, ReceiveInterrupted, DrainEnds,
         Advance, CrdsEnd, MdStep, MdsEnd, LogOut, Stop, GoTo, vars, loop, client
  <2> QED BY <1>1, <2>1
<1> QED
  BY <1>2, <1>3, <1>4, <1>5 DEF Next, Daemon, Drain

\* Whoever sends, and whatever address a datagram seems to come from, no
\* response goes to the daemon's own socket unless that is the primary
\* loopback address, and data go to the host of the responses (NeverFedBack).
THEOREM TheDaemonIsNotFedBack == Spec => []NeverFedBack
<1>1. Init => FeedInv
  BY DEF Init, FeedInv
<1>2. FeedInv => NeverFedBack
  BY DEF FeedInv, NeverFedBack
<1> QED
  BY <1>1, <1>2, FeedStep, PTL DEF Spec

---------------------------------------------------------------------------
(* The command log (LogIsRecent).                                          *)

Unread == Len(handled) - Len(written)

\* Commands that may be in the ring when there is a log file: a round logs
\* at most as many as it receives datagrams, and reads all of them.
Backlog ==
  IF pc = "drain" THEN i
  ELSE IF pc \in {"advance", "crds", "mds", "log_out"} THEN MaxDrain
  ELSE 0

\* Slot k of the ring, counted from its head.
Slot(k) == log[(log_head + k - 1) % LogCap]

\* The ring holds the last commands, as many as fit.
RingInv ==
  /\ Len(written) <= Len(handled)
  /\ log_count = IF Unread <= LogCap THEN Unread ELSE LogCap
  /\ \A k \in 1..log_count : Slot(k) = handled[Len(handled) - log_count + k]

\* The file holds the first ones, and never lags more than a ring behind.
FileInv ==
  /\ \A k \in 1..Len(written) : written[k] = handled[k]
  /\ options.log => Unread <= Backlog
  /\ ~options.log => written = <<>>
  /\ pc # "drain" => i = 0
  /\ pc \in Startup => handled = <<>>

LogInv == RingInv /\ FileInv

\* Where the slot that is so many past another one lies.
LEMMA RingPlace ==
  ASSUME NEW h \in 0..(LogCap - 1), NEW j \in 0..(LogCap - 1)
  PROVE  ((h + j) % LogCap) = IF h + j < LogCap THEN h + j ELSE h + j - LogCap
<1>1. LogCap \in Nat \ {0}
  BY KsimSizes
<1>2. CASE h + j < LogCap
  BY <1>1, <1>2, SMTT(30)
<1>3. CASE ~(h + j < LogCap)
  BY <1>1, <1>3, SMTT(30)
<1> QED
  BY <1>2, <1>3

\* There is one, for every slot that may be asked for.
LEMMA RingSlot ==
  ASSUME NEW h \in 0..(LogCap - 1), NEW k \in 1..LogCap
  PROVE  ((h + k - 1) % LogCap) \in 0..(LogCap - 1)
<1>1. h + k - 1 \in Nat
  BY KsimSizes
<1> QED
  BY <1>1, RingIndex

\* The sizes of what the log is about.
LEMMA LogSizes ==
  ASSUME KsimTypes
  PROVE  /\ Len(handled) \in Nat /\ Len(written) \in Nat /\ Unread \in Int
         /\ handled \in Seq(Commands) /\ written \in Seq(Commands \cup {Blank})
         /\ log_count \in 0..LogCap /\ log_head \in 0..(LogCap - 1) /\ LogCap \in Nat \ {0}
         /\ log \in [0..(LogCap - 1) -> Commands \cup {Blank}]
<1>1. EmuTyped /\ DaemonTyped
  BY TypeParts
<1> QED
  BY <1>1, KsimSizes, LenProperties DEF EmuTyped, DaemonTyped, Unread

\* A logged command takes the slot after the last one, or the oldest one's.
LEMMA RingStep ==
  ASSUME KsimTypes, RingInv, NEW c \in Commands, LogCmd(c),
         handled' = Append(handled, c), UNCHANGED written
  PROVE  RingInv'
<1> DEFINE n == Len(handled)
           L == LogCap
           h == log_head
           m == log_count
<1>1. /\ n \in Nat /\ h \in 0..(L - 1) /\ m \in 0..L /\ L \in Nat \ {0}
      /\ Len(written) \in Nat /\ handled \in Seq(Commands)
      /\ log \in [0..(L - 1) -> Commands \cup {Blank}]
  BY LogSizes
<1>2. /\ Len(handled') = n + 1 /\ handled'[n + 1] = c
      /\ \A k \in 1..n : handled'[k] = handled[k]
  BY <1>1, AppendProperties
<1>3. /\ Len(written) <= n /\ m <= n
      /\ m = IF n - Len(written) <= L THEN n - Len(written) ELSE L
      /\ \A k \in 1..m : Slot(k) = handled[n - m + k]
  <2>1. /\ Len(written) <= n
        /\ m = IF n - Len(written) <= L THEN n - Len(written) ELSE L
        /\ \A k \in 1..m : Slot(k) = handled[n - m + k]
    BY DEF RingInv, Unread
  <2>2. m <= n
    BY <1>1, <2>1
  <2> QED BY <2>1, <2>2
<1>4. /\ Len(written') <= Len(handled')
      /\ Unread' = Len(handled) + 1 - Len(written)
  BY <1>1, <1>2, <1>3 DEF Unread
<1>5. CASE m < L
  <2>1. /\ log_head' = h /\ log_count' = m + 1
        /\ log' = [log EXCEPT ![(h + m) % L] = c]
    <3>1. log_count # LogCap
      BY <1>1, <1>5
    <3> QED BY <3>1, Zenon DEF LogCmd
  <2>2. m \in 0..(L - 1)
    BY <1>1, <1>5
  <2>3. ((h + m) % L) = IF h + m < L THEN h + m ELSE h + m - L
    BY <1>1, <2>2, RingPlace
  <2>4. ((h + m) % L) \in 0..(L - 1)
    BY <1>1, <2>2, <2>3
  <2>5. ASSUME NEW k \in 1..(m + 1)
        PROVE  Slot(k)' = handled'[Len(handled') - log_count' + k]
    <3>1. /\ k - 1 \in 0..(L - 1) /\ h + k - 1 = h + (k - 1)
      BY <1>1, <2>2, <2>5
    <3>2. ((h + k - 1) % L) = IF h + (k - 1) < L THEN h + (k - 1) ELSE h + (k - 1) - L
      BY <1>1, <3>1, RingPlace
    <3>3. ((h + k - 1) % L) \in 0..(L - 1)
      BY <1>1, <3>1, <3>2
    <3>4. Slot(k)' = log'[(h + k - 1) % L]
      BY <2>1 DEF Slot
    <3>5. CASE k = m + 1
      <4>1. ((h + k - 1) % L) = ((h + m) % L)
        BY <1>1, <2>3, <3>2, <3>5
      <4>2. Slot(k)' = c
        BY <1>1, <2>1, <2>4, <3>4, <4>1
      <4>3. Len(handled') - log_count' + k = n + 1
        BY <1>1, <1>2, <2>1, <3>5
      <4> QED BY <1>2, <4>2, <4>3
    <3>6. CASE k # m + 1
      <4>4. k \in 1..m
        BY <1>1, <2>5, <3>6
      <4>5. (IF h + (k - 1) < L THEN h + (k - 1) ELSE h + (k - 1) - L)
              # (IF h + m < L THEN h + m ELSE h + m - L)
        BY <1>1, <2>2, <4>4
      <4>1. k \in 1..m /\ ((h + k - 1) % L) # ((h + m) % L)
        BY <2>3, <3>2, <4>4, <4>5
      <4>2. Slot(k)' = Slot(k)
        BY <1>1, <2>1, <3>3, <3>4, <4>1 DEF Slot
      <4>3. Len(handled') - log_count' + k = n - m + k /\ n - m + k \in 1..n
        <5>1. Len(handled') = n + 1 /\ log_count' = m + 1 /\ m <= n
          BY <1>2, <1>3, <2>1
        <5> QED BY <1>1, <4>4, <5>1
      <4> QED BY <1>2, <1>3, <4>1, <4>2, <4>3
    <3> QED BY <3>5, <3>6
  <2>6. log_count' = IF Unread' <= L THEN Unread' ELSE L
    BY <1>1, <1>3, <1>4, <1>5, <2>1
  <2> QED BY <1>4, <2>1, <2>5, <2>6 DEF RingInv
<1>6. CASE m = L
  <2>1. /\ log_head' = ((h + 1) % L) /\ log_count' = L
        /\ log' = [log EXCEPT ![(log_head' + (L - 1)) % L] = c]
    <3>1. /\ log_head' = HeadMoved /\ log_count' = log_count - 1 + 1
          /\ log' = [log EXCEPT ![(log_head' + (log_count - 1)) % LogCap] = c]
      BY <1>6, Zenon DEF LogCmd
    <3>2. log_count = L /\ log_count - 1 + 1 = L
      BY <1>1, <1>6
    <3> QED BY <3>1, <3>2 DEF HeadMoved
  <2>2. log_head' = IF h + 1 < L THEN h + 1 ELSE 0
    <3>1. CASE L = 1
      <4>1. h = 0 /\ ((h + 1) % L) = 0
        BY <1>1, <3>1, SMT
      <4> QED BY <2>1, <3>1, <4>1
    <3>2. CASE L # 1
      <4>1. 1 \in 0..(L - 1)
        BY <1>1, <3>2
      <4>2. ((h + 1) % L) = IF h + 1 < L THEN h + 1 ELSE h + 1 - L
        BY <1>1, <4>1, RingPlace
      <4> QED BY <1>1, <2>1, <4>2
    <3> QED BY <3>1, <3>2
  <2>3. log_head' \in 0..(L - 1) /\ L - 1 \in 0..(L - 1)
    BY <1>1, <2>2
  <2>4. ((log_head' + (L - 1)) % L) = h
    <3>1. ((log_head' + (L - 1)) % L) = IF log_head' + (L - 1) < L THEN log_head' + (L - 1)
                                        ELSE log_head' + (L - 1) - L
      BY <2>3, RingPlace
    <3> QED BY <1>1, <2>2, <3>1
  <2>5. ASSUME NEW k \in 1..L
        PROVE  Slot(k)' = handled'[Len(handled') - log_count' + k]
    <3>1. k - 1 \in 0..(L - 1) /\ log_head' + k - 1 = log_head' + (k - 1)
      BY <1>1, <2>3, <2>5
    <3>2. ((log_head' + k - 1) % L) = IF log_head' + (k - 1) < L THEN log_head' + (k - 1)
                                      ELSE log_head' + (k - 1) - L
      BY <2>3, <3>1, RingPlace
    <3>3. ((log_head' + k - 1) % L) \in 0..(L - 1)
      BY <2>3, <2>5, RingSlot
    <3>4. Slot(k)' = log'[(log_head' + k - 1) % L]
      BY DEF Slot
    <3>5. CASE k = L
      <4>1. ((log_head' + k - 1) % L) = h
        BY <1>1, <2>2, <3>2, <3>5
      <4>2. Slot(k)' = c
        BY <1>1, <2>1, <2>4, <3>4, <4>1
      <4>3. Len(handled') - log_count' + k = n + 1
        BY <1>1, <1>2, <2>1, <3>5
      <4> QED BY <1>2, <4>2, <4>3
    <3>6. CASE k # L
      <4>1. k \in 0..(L - 1) /\ k + 1 \in 1..m /\ h + (k + 1) - 1 = h + k
        BY <1>1, <1>6, <2>5, <3>6
      <4>2. ((h + k) % L) = IF h + k < L THEN h + k ELSE h + k - L
        BY <1>1, <4>1, RingPlace
      <4>3. ((log_head' + k - 1) % L) = ((h + k) % L) /\ ((h + k) % L) # h
        <5> DEFINE a == IF log_head' + (k - 1) < L THEN log_head' + (k - 1)
                        ELSE log_head' + (k - 1) - L
                   b == IF h + k < L THEN h + k ELSE h + k - L
        <5>1. a = b /\ b # h
          BY <1>1, <2>2, <2>5, <3>6
        <5>2. ((log_head' + k - 1) % L) = a /\ ((h + k) % L) = b
          BY <3>2, <4>2
        <5> HIDE DEF a, b
        <5> QED BY <5>1, <5>2
      <4>4. Slot(k)' = log[(h + k) % L]
        BY <1>1, <2>1, <2>4, <3>3, <3>4, <4>3
      <4>5. Slot(k + 1) = log[(h + k) % L]
        BY <4>1 DEF Slot
      <4>6. /\ n - m + (k + 1) = Len(handled') - log_count' + k
            /\ n - m + (k + 1) \in 1..n
        <5>1. Len(handled') = n + 1 /\ log_count' = m /\ m <= n
          BY <1>2, <1>3, <1>6, <2>1
        <5> QED BY <1>1, <4>1, <5>1
      <4> QED BY <1>2, <1>3, <4>1, <4>4, <4>5, <4>6
    <3> QED BY <3>5, <3>6
  <2>6. log_count' = IF Unread' <= L THEN Unread' ELSE L
    BY <1>1, <1>3, <1>4, <1>6, <2>1
  <2> QED BY <1>4, <2>1, <2>5, <2>6 DEF RingInv
<1> QED
  BY <1>1, <1>5, <1>6

\* A step that touches neither the log nor what it is about.
LEMMA RingKept ==
  ASSUME RingInv, UNCHANGED <<log, log_head, log_count, handled, written>> PROVE RingInv'
BY DEF RingInv, Unread, Slot

\* What a datagram does to the log.
LEMMA ReceiveRing ==
  ASSUME KsimTypes, RingInv, NEW dg \in Heard, NEW queue, Receive(dg, queue)
  PROVE  /\ RingInv' /\ UNCHANGED written
         /\ \/ handled' = handled
            \/ \E c \in Commands : handled' = Append(handled, c)
<1>1. UNCHANGED written
  BY DEF Receive
<1>2. CASE UNCHANGED <<log, log_head, log_count, handled>>
  BY <1>1, <1>2, RingKept
<1>3. CASE HandleCmd(dg.cmd)
  <2>1. dg.cmd \in Commands
    BY HeardType
  <2>2. LogCmd(dg.cmd) /\ handled' = Append(handled, dg.cmd)
    BY <1>3 DEF HandleCmd
  <2> QED BY <1>1, <2>1, <2>2, RingStep
<1>4. \/ UNCHANGED <<log, log_head, log_count, handled>>
      \/ HandleCmd(dg.cmd)
  BY DEF Receive, CmdIn, ConsumePxConfig, emu
<1> QED
  BY <1>2, <1>3, <1>4

\* So many commands are read, and they are the next ones in order.
LEMMA DrainAll ==
  ASSUME KsimTypes, LogInv, options.log, DrainLog, UNCHANGED handled
  PROVE  /\ Len(written') = Len(handled) - Unread + log_count /\ log_count' = 0
         /\ \A k \in 1..Len(written') : written'[k] = handled[k]
         /\ log_count = Unread
<1> DEFINE n == Len(handled)
           w == Len(written)
<1>1. /\ n \in Nat /\ w \in Nat /\ written \in Seq(Commands \cup {Blank})
      /\ log_count \in Nat /\ LogCap \in Nat \ {0} /\ MaxDrain \in Nat /\ LogCap >= MaxDrain
      /\ i \in 0..MaxDrain /\ EmuTyped
  BY LogSizes, KsimSizes, TypeParts DEF DaemonTyped
<1>2. /\ log_count' = 0 /\ written' = written \o Logged
  BY Zenon DEF DrainLog, LogRead
<1>3. w <= n /\ log_count = n - w
  <2>1. Backlog <= MaxDrain
    BY <1>1 DEF Backlog
  <2>2. Backlog \in Int
    BY <1>1 DEF Backlog
  <2>3. n - w <= Backlog /\ w <= n /\ log_count = IF n - w <= LogCap THEN n - w ELSE LogCap
    BY DEF LogInv, RingInv, FileInv, Unread
  <2> QED BY <1>1, <2>1, <2>2, <2>3
<1>4. /\ Logged \in Seq(Commands \cup {Blank}) /\ Len(Logged) = log_count
      /\ \A k \in 1..log_count : Logged[k] = Slot(k)
  <2>1. Len(Logged) = log_count /\ \A k \in 1..log_count : Logged[k] = Slot(k)
    BY <1>1 DEF Logged, Slot
  <2> QED BY <1>1, <2>1, LoggedType
<1>5. /\ Len(written') = w + log_count
      /\ \A k \in 1..(w + log_count) :
           written'[k] = IF k <= w THEN written[k] ELSE Logged[k - w]
  BY <1>1, <1>2, <1>4, ConcatProperties
<1>6. ASSUME NEW k \in 1..(w + log_count) PROVE written'[k] = handled[k]
  <2>1. CASE k <= w
    BY <1>1, <1>5, <1>6, <2>1 DEF LogInv, FileInv
  <2>2. CASE k > w
    <3>1. k - w \in 1..log_count /\ n - log_count + (k - w) = k /\ ~(k <= w)
      BY <1>1, <1>3, <1>6, <2>2
    <3>2. written'[k] = Slot(k - w)
      BY <1>4, <1>5, <1>6, <3>1
    <3>3. Slot(k - w) = handled[n - log_count + (k - w)]
      BY <3>1 DEF LogInv, RingInv
    <3> QED BY <3>1, <3>2, <3>3
  <2> QED BY <1>1, <1>6, <2>1, <2>2
<1>7. Unread = n - w
  BY DEF Unread
<1> QED
  BY <1>1, <1>2, <1>3, <1>5, <1>6, <1>7

LEMMA LogInvInit == Init => LogInv
<1> SUFFICES ASSUME Init PROVE LogInv
  OBVIOUS
<1>1. handled = <<>> /\ written = <<>> /\ log_count = 0 /\ i = 0 /\ pc = "ctl"
  BY DEF Init, EmuInit
<1>2. Len(handled) = 0 /\ Len(written) = 0 /\ Unread = 0
  BY <1>1 DEF Unread
<1>3. RingInv
  BY <1>1, <1>2, KsimSizes DEF RingInv
<1>4. FileInv
  BY <1>1, <1>2 DEF FileInv, Backlog
<1> QED
  BY <1>3, <1>4 DEF LogInv

\* Steps that keep the log: what is allowed to wait does not shrink.
LEMMA QuietLog ==
  ASSUME KsimTypes, LogInv, i' \in 0..MaxDrain,
         UNCHANGED <<log, log_head, log_count, handled, written, options>>,
         options.log => Backlog <= Backlog', pc' # "drain" => i' = 0,
         pc' \in Startup => pc \in Startup
  PROVE  LogInv'
<1>1. RingInv'
  BY RingKept DEF LogInv
<1>2. /\ Unread \in Int /\ Unread' = Unread
      /\ i \in Int /\ i' \in Int /\ MaxDrain \in Int
  BY LogSizes, KsimSizes, TypeParts DEF Unread, DaemonTyped
<1>3. Backlog \in Int /\ Backlog' \in Int
  BY <1>2 DEF Backlog
<1>4. options.log => Unread <= Backlog
  BY DEF LogInv, FileInv
<1>5. options'.log => Unread' <= Backlog'
  <2>1. CASE options.log
    BY <1>2, <1>3, <1>4, <2>1
  <2> QED BY <2>1
<1>6. /\ \A k \in 1..Len(written) : written[k] = handled[k]
      /\ ~options.log => written = <<>>
      /\ pc \in Startup => handled = <<>>
  BY DEF LogInv, FileInv
<1> QED
  BY <1>1, <1>5, <1>6 DEF LogInv, FileInv

\* Commands leave the ring for the file, or stay where there is none.
LEMMA LogStep ==
  ASSUME KsimTypes, LogInv, LogOut \/ Stop PROVE LogInv'
<1>1. /\ DrainLog /\ UNCHANGED <<handled, options, i>> /\ pc' \in {"loop", "stopped"}
      /\ pc \in {"loop", "log_out"} /\ i = 0
  <2>1. /\ DrainLog /\ UNCHANGED <<handled, options, i>> /\ pc' \in {"loop", "stopped"}
        /\ pc \in {"loop", "log_out"}
    BY DEF LogOut, Stop, GoTo
  <2> QED BY <2>1 DEF LogInv, FileInv
<1>2. pc' # "drain" /\ pc' \notin Startup /\ pc' \notin {"advance", "crds", "mds", "log_out"}
  BY <1>1 DEF Startup
<1>3. CASE options.log
  <2>1. /\ Len(written') = Len(handled) - Unread + log_count /\ log_count' = 0
        /\ \A k \in 1..Len(written') : written'[k] = handled[k] /\ log_count = Unread
    <3>1. UNCHANGED handled
      BY <1>1
    <3> QED BY <1>1, <1>3, <3>1, DrainAll
  <2>2. Len(written') = Len(handled) /\ Len(handled) \in Nat /\ LogCap \in Nat
    <3>1. Len(handled) \in Nat /\ Len(written) \in Nat /\ LogCap \in Nat /\ Unread \in Int
      BY LogSizes
    <3>2. log_count = Unread
      BY <1>1, <1>3, DrainAll, Zenon
    <3> QED BY <2>1, <3>1, <3>2
  <2>3. Unread' = 0 /\ Backlog' = 0
    BY <1>1, <1>2, <2>2 DEF Unread, Backlog
  <2>4. RingInv'
    BY <1>1, <2>1, <2>2, <2>3 DEF RingInv
  <2>5. FileInv'
    BY <1>1, <1>2, <1>3, <2>1, <2>2, <2>3 DEF FileInv
  <2> QED BY <2>4, <2>5 DEF LogInv
<1>4. CASE ~options.log
  <2>1. UNCHANGED <<log, log_head, log_count, written>>
    BY <1>1, <1>4, Zenon DEF DrainLog
  <2>2. i' \in 0..MaxDrain /\ i' = 0
    BY <1>1, TypeParts DEF DaemonTyped
  <2> QED BY <1>1, <1>2, <1>4, <2>1, <2>2, QuietLog
<1> QED
  BY <1>3, <1>4

LEMMA LogInvStep == KsimTypes /\ LogInv /\ [Next]_vars => LogInv'
<1> SUFFICES ASSUME KsimTypes, LogInv, [Next]_vars PROVE LogInv'
  OBVIOUS
<1>1. KsimTypes' /\ i' \in 0..MaxDrain /\ i \in 0..MaxDrain /\ MaxDrain \in Nat \ {0}
  <2>1. KsimTypes' /\ KsimTypes
    BY KsimTypesStep
  <2> QED BY <2>1, KsimSizes DEF KsimTypes, TypeOK
<1>2. pc # "drain" => i = 0
  BY DEF LogInv, FileInv
<1>3. CASE \/ StartupStep \/ StartupFails \/ LoopStarts \/ ReceiveInterrupted \/ DrainEnds
           \/ CrdsEnd \/ MdStep \/ MdsEnd
  <2>1. UNCHANGED <<log, log_head, log_count, handled, written, options>>
    BY <1>3, QuietStep DEF Rests, StartupStep, StartupFails, LoopStarts, ReceiveInterrupted,
         DrainEnds, CrdsEnd, MdStep, MdsEnd, GoTo, history, loop
  <2>2. CASE StartupStep \/ StartupFails
    <3>1. /\ pc \in Startup /\ i' = i
          /\ pc' \in {"ctl", "data", "log", "handler", "loop", "stopped"}
      <4>1. CASE StartupStep
        <5>1. Place(pc) \in DOMAIN StartupOrder /\ StartupOrder[Place(pc)] = pc
          BY <4>1 DEF StartupStep, Startup, Place, StartupOrder
        <5>2. Place(pc) \in 1..4
          BY <4>1, <5>1 DEF StartupStep, Startup, StartupOrder
        <5>3. pc' = StartupOrder[Place(pc) + 1] /\ Place(pc) + 1 \in {2, 3, 4, 5}
          BY <4>1, <5>2 DEF StartupStep
        <5> QED BY <4>1, <5>3 DEF StartupStep, StartupOrder
      <4>2. CASE StartupFails
        BY <4>2 DEF StartupFails
      <4> QED BY <2>2, <4>1, <4>2
    <3>2. Backlog = 0 /\ Backlog' = 0 /\ pc # "drain" /\ pc' # "drain"
      BY <3>1 DEF Startup, Backlog
    <3> QED BY <1>1, <1>2, <2>1, <3>1, <3>2, QuietLog
  <2>3. CASE LoopStarts
    <3>1. pc = "loop" /\ pc' = "drain" /\ i' = i
      BY <2>3 DEF LoopStarts, GoTo
    <3>2. Backlog = 0 /\ Backlog' = 0 /\ pc' \notin Startup
      BY <1>2, <3>1 DEF Backlog, Startup
    <3> QED BY <1>1, <2>1, <3>1, <3>2, QuietLog
  <2>4. CASE ReceiveInterrupted
    <3>1. pc = "drain" /\ pc' = "drain" /\ i' = i + 1
      BY <2>4 DEF ReceiveInterrupted
    <3>2. Backlog <= Backlog' /\ pc' \notin Startup
      BY <1>1, <3>1 DEF Backlog, Startup
    <3> QED BY <1>1, <2>1, <3>1, <3>2, QuietLog
  <2>5. CASE DrainEnds
    <3>1. pc = "drain" /\ pc' = "advance" /\ i' = 0
      BY <2>5 DEF DrainEnds, GoTo
    <3>2. Backlog <= Backlog' /\ pc' \notin Startup
      BY <1>1, <3>1 DEF Backlog, Startup
    <3> QED BY <1>1, <2>1, <3>1, <3>2, QuietLog
  <2>6. CASE CrdsEnd \/ MdStep \/ MdsEnd
    <3>1. /\ pc \in {"crds", "mds"} /\ pc' \in {"crds", "mds", "log_out"} /\ i' = i
      BY <2>6 DEF CrdsEnd, MdStep, MdsEnd, GoTo, loop
    <3>2. Backlog = MaxDrain /\ Backlog' = MaxDrain /\ pc' \notin Startup
      BY <3>1 DEF Backlog, Startup
    <3> QED BY <1>1, <1>2, <2>1, <3>1, <3>2, QuietLog
  <2> QED BY <1>3, <2>2, <2>3, <2>4, <2>5, <2>6
<1>4. ASSUME NEW dg \in Heard, NEW queue, Receive(dg, queue) PROVE LogInv'
  <2>1. RingInv' /\ UNCHANGED written /\ written \in Seq(Commands \cup {Blank})
    BY <1>4, ReceiveRing, LogSizes DEF LogInv
  <2>2. pc = "drain" /\ pc' = "drain" /\ i' = i + 1 /\ options' = options
    BY <1>4 DEF Receive
  <2>3. Len(handled) \in Nat /\ Len(written) \in Nat /\ handled \in Seq(Commands)
    BY LogSizes
  <2>4. /\ Len(handled') \in {Len(handled), Len(handled) + 1}
        /\ \A k \in 1..Len(handled) : handled'[k] = handled[k]
    <3>1. CASE handled' = handled
      BY <3>1
    <3>2. ASSUME NEW c \in Commands, handled' = Append(handled, c)
          PROVE  /\ Len(handled') = Len(handled) + 1
                 /\ \A k \in 1..Len(handled) : handled'[k] = handled[k]
      BY <2>3, <3>2, AppendProperties
    <3>3. handled' = handled \/ \E c \in Commands : handled' = Append(handled, c)
      BY <1>4, ReceiveRing DEF LogInv
    <3> QED BY <3>1, <3>2, <3>3
  <2>5. Unread' <= Unread + 1 /\ Unread \in Int /\ Unread' \in Int
    BY <2>1, <2>3, <2>4 DEF Unread
  <2>6. Backlog' = Backlog + 1 /\ Backlog \in Int /\ pc' \notin Startup
    BY <1>1, <2>2 DEF Backlog, Startup
  <2>7. options.log => Unread <= Backlog
    BY DEF LogInv, FileInv
  <2>8. options'.log => Unread' <= Backlog'
    <3>1. CASE options.log
      BY <2>5, <2>6, <2>7, <3>1
    <3> QED BY <2>2, <3>1
  <2>9. Len(written) <= Len(handled) /\ \A k \in 1..Len(written) : written[k] = handled[k]
    BY DEF LogInv, RingInv, FileInv
  <2>10. \A k \in 1..Len(written') : written'[k] = handled'[k]
    <3>1. \A k \in 1..Len(written) : k \in 1..Len(handled)
      BY <2>3, <2>9
    <3> QED BY <2>1, <2>4, <2>9, <3>1
  <2>11. ~options.log => written = <<>>
    BY DEF LogInv, FileInv
  <2> QED BY <2>1, <2>2, <2>6, <2>8, <2>10, <2>11 DEF LogInv, FileInv
<1>5. CASE (\E d \in Steps : Advance(d)) \/ (\E k \in DOMAIN crd : CrdStep(k))
  <2>1. UNCHANGED <<log, log_head, log_count, handled, written, options, i>>
    BY <1>5 DEF Advance, CrdStep, GoTo, history, loop
  <2>2. /\ pc \in {"advance", "crds"} /\ pc' \in {"crds", "log_out"}
    BY <1>5 DEF Advance, CrdStep, GoTo, loop
  <2>3. Backlog = MaxDrain /\ Backlog' = MaxDrain /\ pc' \notin Startup
    BY <2>2 DEF Backlog, Startup
  <2> QED BY <1>1, <1>2, <2>1, <2>2, <2>3, QuietLog
<1>6. CASE UNCHANGED vars
  <2>1. UNCHANGED <<log, log_head, log_count, handled, written, options, i, pc>>
    BY <1>6 DEF vars, emu, loop, history
  <2>2. Backlog' = Backlog /\ Backlog \in Int
    BY <1>1, <2>1 DEF Backlog
  <2> QED BY <1>1, <1>2, <2>1, <2>2, QuietLog
<1> QED
  BY <1>3, <1>4, <1>5, <1>6, LogStep, StepKinds

LEMMA LogFollowed == Spec => [](KsimTypes /\ LogInv)
BY KsimTypesInit, KsimTypesStep, LogInvInit, LogInvStep, PTL DEF Spec

\* What LogIsRecent says of one state.
LEMMA RecentInState == KsimTypes /\ LogInv => LogIsRecent
<1> SUFFICES ASSUME KsimTypes, LogInv PROVE LogIsRecent
  OBVIOUS
<1> DEFINE n == Len(handled)
           w == Len(written)
           unread == SubSeq(handled, w + 1, n)
           first == IF Len(unread) > LogCap THEN Len(unread) - LogCap + 1 ELSE 1
           recent == SubSeq(unread, first, Len(unread))
           S == Commands \cup {Blank}
<1>1. /\ n \in Nat /\ w \in Nat /\ w <= n /\ log_count \in Nat /\ LogCap \in Nat \ {0}
      /\ handled \in Seq(Commands) /\ written \in Seq(S) /\ EmuTyped
      /\ log_count = IF n - w <= LogCap THEN n - w ELSE LogCap
  BY LogSizes, TypeParts DEF LogInv, RingInv, Unread
<1>2. /\ Len(unread) = n - w
      /\ \A k \in 1..(n - w) : unread[k] = handled[w + k] /\ unread[k] \in S
  <2>1. \A k \in (w + 1)..n : handled[k] \in S
    BY <1>1
  <2>2. w + 1 \in Int /\ n \in Int
    BY <1>1
  <2>3. /\ unread \in Seq(S) /\ Len(unread) = IF w + 1 <= n THEN n - (w + 1) + 1 ELSE 0
        /\ \A k \in 1..(n - (w + 1) + 1) : unread[k] = handled[w + 1 + k - 1]
    BY <2>1, <2>2, SubSeqProperties
  <2> HIDE DEF unread
  <2>4. n - (w + 1) + 1 = n - w /\ \A k \in 1..(n - w) : w + 1 + k - 1 = w + k
    BY <1>1
  <2>5. Len(unread) = n - w
    <3>1. CASE w + 1 <= n
      BY <2>3, <2>4, <3>1
    <3>2. CASE ~(w + 1 <= n)
      <4>1. n - w = 0
        BY <1>1, <3>2
      <4> QED BY <2>3, <3>2, <4>1
    <3> QED BY <3>1, <3>2
  <2>6. \A k \in 1..(n - w) : unread[k] = handled[w + k]
    BY <2>3, <2>4
  <2>7. \A k \in 1..(n - w) : w + k \in (w + 1)..n
    BY <1>1
  <2> QED BY <2>1, <2>5, <2>6, <2>7
<1> HIDE DEF unread
<1>3. /\ first \in Nat \ {0} /\ (n - w) - first + 1 = log_count
      /\ \A k \in 1..log_count : first + k - 1 \in 1..(n - w)
      /\ \A k \in 1..log_count : w + (first + k - 1) = n - log_count + k
  <2>1. n \in Nat /\ w \in Nat /\ w <= n /\ LogCap \in Nat \ {0}
    BY <1>1
  <2>2. CASE n - w <= LogCap
    <3>1. first = 1 /\ log_count = n - w
      BY <1>1, <1>2, <2>2
    <3> HIDE DEF first
    <3> QED BY <2>1, <3>1
  <2>3. CASE ~(n - w <= LogCap)
    <3>1. first = n - w - LogCap + 1 /\ log_count = LogCap
      BY <1>1, <1>2, <2>3
    <3> HIDE DEF first
    <3> QED BY <2>1, <2>3, <3>1
  <2> QED BY <2>2, <2>3
<1> HIDE DEF first
<1>4. /\ recent \in Seq(S) /\ Len(recent) = log_count
      /\ \A k \in 1..log_count : recent[k] = unread[first + k - 1]
  <2>1. \A k \in first..(n - w) : unread[k] \in S
    BY <1>2, <1>3
  <2>2. /\ recent \in Seq(S)
        /\ Len(recent) = IF first <= n - w THEN (n - w) - first + 1 ELSE 0
        /\ \A k \in 1..((n - w) - first + 1) : recent[k] = unread[first + k - 1]
    <3>1. first \in Int /\ n - w \in Int /\ Len(unread) = n - w
      BY <1>1, <1>2, <1>3
    <3> QED BY <2>1, <3>1, SubSeqProperties
  <2> HIDE DEF recent
  <2> QED BY <1>1, <1>3, <2>2
<1> HIDE DEF recent
<1>5. /\ Logged \in Seq(S) /\ Len(Logged) = log_count
      /\ \A k \in 1..log_count : Logged[k] = Slot(k)
  <2>1. Len(Logged) = log_count /\ \A k \in 1..log_count : Logged[k] = Slot(k)
    BY <1>1 DEF Logged, Slot
  <2> QED BY <1>1, <2>1, LoggedType
<1>6. \A k \in 1..log_count : Slot(k) = handled[n - log_count + k]
  BY DEF LogInv, RingInv
<1>7. ASSUME NEW k \in 1..log_count PROVE Logged[k] = recent[k]
  <2>1. Logged[k] = handled[n - log_count + k]
    BY <1>5, <1>6
  <2>2. recent[k] = unread[first + k - 1] /\ first + k - 1 \in 1..(n - w)
    BY <1>3, <1>4
  <2>3. unread[first + k - 1] = handled[w + (first + k - 1)]
    BY <1>2, <2>2
  <2>4. w + (first + k - 1) = n - log_count + k
    BY <1>3
  <2> QED BY <2>1, <2>2, <2>3, <2>4
<1>8. Logged = recent
  BY <1>4, <1>5, <1>7, SeqEqual
<1>9. ASSUME options.log PROVE written \o Logged = handled
  <2>1. log_count = n - w
    <3>1. Backlog \in Int /\ Backlog <= MaxDrain /\ MaxDrain <= LogCap /\ MaxDrain \in Int
      BY KsimSizes, TypeParts DEF DaemonTyped, Backlog
    <3>2. n - w <= Backlog
      BY <1>9 DEF LogInv, FileInv, Unread
    <3> QED BY <1>1, <3>1, <3>2
  <2>2. /\ written \o Logged \in Seq(S) /\ Len(written \o Logged) = w + log_count
        /\ \A k \in 1..(w + log_count) :
             (written \o Logged)[k] = IF k <= w THEN written[k] ELSE Logged[k - w]
    <3>1. written \in Seq(S) /\ Logged \in Seq(S)
      BY <1>1, <1>5
    <3>2. /\ written \o Logged \in Seq(S) /\ Len(written \o Logged) = w + Len(Logged)
          /\ \A k \in 1..(w + Len(Logged)) :
               (written \o Logged)[k] = IF k <= w THEN written[k] ELSE Logged[k - w]
      BY <3>1, ConcatProperties, Zenon
    <3> QED BY <1>5, <3>2, Zenon
  <2>3. ASSUME NEW k \in 1..n PROVE (written \o Logged)[k] = handled[k]
    <3>1. CASE k <= w
      <4>1. k \in 1..w /\ k \in 1..(w + log_count)
        BY <1>1, <2>1, <3>1
      <4>2. written[k] = handled[k]
        BY <4>1 DEF LogInv, FileInv
      <4> QED BY <2>2, <3>1, <4>1, <4>2
    <3>2. CASE ~(k <= w)
      <4>1. k - w \in 1..log_count /\ n - log_count + (k - w) = k /\ k \in 1..(w + log_count)
        <5>1. n \in Nat /\ w \in Nat /\ w <= n
          BY <1>1
        <5>2. k \in 1..n
          OBVIOUS
        <5> QED BY <2>1, <3>2, <5>1, <5>2
      <4>2. (written \o Logged)[k] = Logged[k - w]
        BY <2>2, <3>2, <4>1, Zenon
      <4>3. Logged[k - w] = handled[n - log_count + (k - w)]
        BY <1>5, <1>6, <4>1, Zenon
      <4> QED BY <4>1, <4>2, <4>3
    <3> QED BY <3>1, <3>2
  <2>4. w + log_count = n /\ handled \in Seq(S)
    <3>1. \A k \in 1..n : handled[k] \in S
      BY <1>1
    <3> QED BY <1>1, <2>1, <3>1
  <2> QED BY <2>2, <2>3, <2>4, SeqEqual
<1> QED
  BY <1>8, <1>9 DEF LogIsRecent, recent, first, unread

\* The ring holds the most recent commands, oldest first, however often it
\* wraps; with a log file, file and ring are all of them (LogIsRecent).
THEOREM TheLogIsRecent == Spec => []LogIsRecent
BY LogFollowed, RecentInState, PTL

---------------------------------------------------------------------------
(* What a stop leaves behind (StopsClean).                                 *)

\* What is open at each step of startup, and after it.
Held ==
  CASE pc = "ctl" -> {"emu"}
    [] pc = "data" -> {"emu", "ctl"}
    [] pc = "log" -> {"emu", "ctl", "data"}
    [] pc = "stopped" -> {}
    [] OTHER -> {"emu", "ctl", "data", "log"}

StopInv ==
  /\ opened \subseteq Held
  /\ pc = "stopped" /\ options.log => Unread = 0

\* Only startup and a stop change what is open; a stopped daemon rests.
LEMMA OpenSteps ==
  ASSUME [Next]_vars
  PROVE  \/ StartupStep \/ StartupFails \/ Stop
         \/ UNCHANGED <<pc, opened, options, handled, written>>
         \/ /\ pc \notin Startup \cup {"stopped"} /\ pc' \notin Startup \cup {"stopped"}
            /\ UNCHANGED opened
<1> USE DEF Startup, GoTo, loop, history
<1>1. CASE \/ LoopStarts \/ ReceiveInterrupted \/ DrainEnds \/ CrdsEnd \/ MdStep \/ MdsEnd
           \/ LogOut
  BY <1>1 DEF LoopStarts, ReceiveInterrupted, DrainEnds, CrdsEnd, MdStep, MdsEnd, LogOut
<1>2. CASE \/ \E dg \in Heard : \E queue : Receive(dg, queue)
           \/ \E d \in Steps : Advance(d)
           \/ \E k \in DOMAIN crd : CrdStep(k)
  BY <1>2 DEF Receive, Advance, CrdStep
<1>3. CASE UNCHANGED vars
  BY <1>3 DEF vars, emu
<1> QED
  BY <1>1, <1>2, <1>3, StepKinds

LEMMA StopInvStep == KsimTypes /\ LogInv /\ StopInv /\ [Next]_vars => StopInv'
<1> SUFFICES ASSUME KsimTypes, LogInv, StopInv, [Next]_vars PROVE StopInv'
  OBVIOUS
<1>1. CASE StartupStep
  <2>1. /\ StartupOrder[1] = "ctl" /\ StartupOrder[2] = "data" /\ StartupOrder[3] = "log"
        /\ StartupOrder[4] = "handler" /\ StartupOrder[5] = "loop"
        /\ DOMAIN StartupOrder = 1..5
    BY DEF StartupOrder
  <2>2. Place(pc) \in 1..5 /\ StartupOrder[Place(pc)] = pc
    BY <1>1, <2>1 DEF StartupStep, Startup, Place
  <2>3. \/ Place(pc) = 1 /\ pc = "ctl" /\ pc' = "data"
        \/ Place(pc) = 2 /\ pc = "data" /\ pc' = "log"
        \/ Place(pc) = 3 /\ pc = "log" /\ pc' = "handler"
        \/ Place(pc) = 4 /\ pc = "handler" /\ pc' = "loop"
    BY <1>1, <2>1, <2>2 DEF StartupStep, Startup
  <2>4. opened \subseteq Held /\ opened' = opened \cup Opens(pc)
    BY <1>1 DEF StartupStep, StopInv
  <2>5. opened' \subseteq Held'
    BY <2>3, <2>4 DEF Held, Opens
  <2> QED BY <2>3, <2>5 DEF StopInv
<1>2. CASE StartupFails
  <2>1. /\ pc \in Startup /\ pc' = "stopped" /\ opened' = opened \ ClosedOnFailure(pc)
        /\ UNCHANGED <<handled, written>>
    BY <1>2 DEF StartupFails, emu, history
  <2>2. Held = ClosedOnFailure(pc)
    BY <2>1 DEF Held, ClosedOnFailure, Startup
  <2>3. opened' = {}
    BY <2>1, <2>2 DEF StopInv
  <2>4. handled = <<>> /\ Len(written) <= Len(handled) /\ Len(written) \in Nat
    BY <2>1, LogSizes DEF LogInv, RingInv, FileInv
  <2>5. Unread' = 0
    BY <2>1, <2>4 DEF Unread
  <2> QED BY <2>3, <2>5 DEF StopInv
<1>3. CASE Stop
  <2>1. /\ pc' = "stopped" /\ opened' = {} /\ DrainLog /\ UNCHANGED <<handled, options>>
    BY <1>3 DEF Stop, KsimTypes, TypeOK
  <2>2. ASSUME options.log PROVE Unread' = 0
    <3>1. Len(written') = Len(handled) - Unread + log_count /\ log_count = Unread
      BY <2>1, <2>2, DrainAll, Zenon
    <3>2. Len(handled) \in Nat /\ Unread \in Int
      BY LogSizes
    <3> QED BY <2>1, <3>1, <3>2 DEF Unread
  <2> QED BY <2>1, <2>2 DEF StopInv
<1>4. CASE UNCHANGED <<pc, opened, options, handled, written>>
  BY <1>4 DEF StopInv, Held, Unread
<1>5. CASE /\ pc \notin Startup \cup {"stopped"} /\ pc' \notin Startup \cup {"stopped"}
           /\ UNCHANGED opened
  <2>1. opened' \subseteq Held'
    BY <1>5 DEF StopInv, Held, Startup
  <2> QED BY <1>5, <2>1 DEF StopInv
<1> QED
  BY <1>1, <1>2, <1>3, <1>4, <1>5, OpenSteps

\* What StopsClean says of one state.
LEMMA CleanInState == KsimTypes /\ LogInv /\ StopInv => StopsClean
<1> SUFFICES ASSUME KsimTypes, LogInv, StopInv, pc = "stopped"
             PROVE  opened = {} /\ (options.log => written = handled)
  BY DEF StopsClean
<1>1. opened = {}
  BY DEF StopInv, Held
<1>2. ASSUME options.log PROVE written = handled
  <2>1. /\ Len(handled) \in Nat /\ Len(written) \in Nat
        /\ handled \in Seq(Commands \cup {Blank}) /\ written \in Seq(Commands \cup {Blank})
    <3>1. handled \in Seq(Commands) /\ written \in Seq(Commands \cup {Blank}) /\ Len(handled) \in Nat
          /\ Len(written) \in Nat
      BY LogSizes
    <3>2. \A k \in 1..Len(handled) : handled[k] \in Commands \cup {Blank}
      BY <3>1
    <3> QED BY <3>1, <3>2
  <2>2. Unread = 0
    BY <1>2 DEF StopInv
  <2>3. Len(written) = Len(handled)
    BY <2>1, <2>2 DEF Unread
  <2>4. \A k \in 1..Len(written) : written[k] = handled[k]
    BY DEF LogInv, FileInv
  <2> QED BY <2>1, <2>3, <2>4, SeqEqual
<1> QED
  BY <1>1, <1>2

\* However startup fails, and after a stop, nothing stays open and the file
\* has every command (StopsClean).
THEOREM TheDaemonStopsClean == Spec => []StopsClean
<1>1. Init => StopInv
  BY DEF Init, StopInv, Held
<1> QED
  BY <1>1, KsimTypesInit, KsimTypesStep, LogInvInit, LogInvStep, StopInvStep, CleanInState,
     PTL DEF Spec

---------------------------------------------------------------------------
(* The answers (AnswersInOrder).                                           *)

\* The registers an inquiry reads.
Readable == {<<"bias", 0>>} \cup {<<"sensor_reg", k>> : k \in Indices}

RegsInv ==
  \A cell \in Readable, n, v \in Nat :
    n = Len(handled) /\ v = regs[cell] => LastSet(cell, n, v)

MeasInv == \A n \in Nat : n = Len(handled) /\ armed => Measuring(n)

\* A response belongs to a command handled before, not to the upload that is
\* still to be completed, and answers it.
Known(r) ==
  /\ r.serial <= Len(handled)
  /\ px_words > 0 => r.serial < Len(handled)
  /\ r.op \in Inquiries => r.serial >= 1 /\ TrueAnswer(r.serial, r.value)

Increasing(s) == \A j, k \in 1..Len(s) : j < k => s[j].serial < s[k].serial

OrderInv ==
  /\ Increasing(sent) /\ Increasing(crd)
  /\ \A j \in 1..Len(sent), k \in 1..Len(crd) : sent[j].serial < crd[k].serial
  /\ \A r \in Responses :
       (\E j \in 1..Len(sent) : r = sent[j]) \/ (\E k \in 1..Len(crd) : r = crd[k])
         => Known(r)

AnswerInv == RegsInv /\ MeasInv /\ OrderInv

\* The word of an inquiry's register, whatever is handled afterwards.
LEMMA LastSetStays ==
  ASSUME NEW cell, NEW n \in Nat, NEW v,
         n <= Len(handled), Len(handled) \in Nat,
         \A k \in 1..Len(handled) : handled'[k] = handled[k]
  PROVE  LastSet(cell, n, v)' <=> LastSet(cell, n, v)
<1>1. \A k \in 1..n : handled'[k] = handled[k]
  OBVIOUS
<1>2. \A k \in 1..n : \A j \in (k + 1)..n : handled'[j] = handled[j]
  BY <1>1
<1>3. (\A k \in 1..n : ~Sets(handled[k], cell))' <=> \A k \in 1..n : ~Sets(handled[k], cell)
  BY <1>1, Zenon DEF Sets
<1>4. ASSUME NEW k \in 1..n
      PROVE  /\ Sets(handled[k], cell)' <=> Sets(handled[k], cell)
             /\ handled'[k].word = handled[k].word
             /\ (\A j \in (k + 1)..n : ~Sets(handled[j], cell))'
                  <=> \A j \in (k + 1)..n : ~Sets(handled[j], cell)
  <2>1. handled'[k] = handled[k] /\ \A j \in (k + 1)..n : handled'[j] = handled[j]
    BY <1>1, <1>2
  <2>2. Sets(handled[k], cell)' <=> Sets(handled[k], cell)
    BY <2>1, Zenon DEF Sets
  <2>3. (\A j \in (k + 1)..n : ~Sets(handled[j], cell))'
          <=> \A j \in (k + 1)..n : ~Sets(handled[j], cell)
    BY <2>1, Zenon DEF Sets
  <2> QED BY <2>1, <2>2, <2>3
<1> DEFINE Latest(k) == /\ Sets(handled[k], cell) /\ v = handled[k].word
                        /\ \A j \in (k + 1)..n : ~Sets(handled[j], cell)
<1>5. \A k \in 1..n : Latest(k)' <=> Latest(k)
  BY <1>4
<1> HIDE DEF Latest
<1>6. (\E k \in 1..n : Latest(k))' <=> \E k \in 1..n : Latest(k)
  BY <1>5
<1> USE DEF Latest
<1> QED
  BY <1>3, <1>6, Zenon DEF LastSet

\* So is whether an acquisition had been started.
LEMMA MeasuringStays ==
  ASSUME NEW n \in Nat, n <= Len(handled), Len(handled) \in Nat,
         \A k \in 1..Len(handled) : handled'[k] = handled[k]
  PROVE  Measuring(n)' <=> Measuring(n)
<1>1. /\ \A k \in 1..n : handled'[k] = handled[k]
      /\ \A k \in 1..n : \A j \in (k + 1)..n : handled'[j] = handled[j]
  OBVIOUS
<1> QED
  BY <1>1, Zenon DEF Measuring

LEMMA TrueAnswerStays ==
  ASSUME NEW n \in 1..Len(handled), NEW v, Len(handled) \in Nat,
         \A k \in 1..Len(handled) : handled'[k] = handled[k]
  PROVE  TrueAnswer(n, v)' <=> TrueAnswer(n, v)
<1>1. handled'[n] = handled[n] /\ n \in Nat /\ n <= Len(handled)
  OBVIOUS
<1>2. \A cell : LastSet(cell, n, v)' <=> LastSet(cell, n, v)
  BY <1>1, LastSetStays
<1>3. Measuring(n)' <=> Measuring(n)
  BY <1>1, MeasuringStays
<1> QED
  BY <1>1, <1>2, <1>3, Zenon DEF TrueAnswer

\* One more command sets the register, or leaves its word the last one set.
LEMMA LastSetGrows ==
  ASSUME NEW cell, NEW c \in Commands, NEW v, NEW n \in Nat, n = Len(handled),
         handled \in Seq(Commands), handled' = Append(handled, c)
  PROVE  /\ Sets(c, cell) => LastSet(cell, n + 1, c.word)'
         /\ ~Sets(c, cell) /\ LastSet(cell, n, v) => LastSet(cell, n + 1, v)'
<1>1. /\ n \in Nat /\ Len(handled') = n + 1 /\ handled'[n + 1] = c
      /\ \A k \in 1..n : handled'[k] = handled[k]
  BY AppendProperties, LenProperties
<1>2. ASSUME Sets(c, cell) PROVE LastSet(cell, n + 1, c.word)'
  <2>1. n + 1 \in 1..(n + 1) /\ \A j \in (n + 1 + 1)..(n + 1) : FALSE
    BY <1>1
  <2>2. Sets(handled'[n + 1], cell) /\ c.word = handled'[n + 1].word
    BY <1>1, <1>2
  <2> QED BY <2>1, <2>2 DEF LastSet, Sets
<1>3. ASSUME ~Sets(c, cell), LastSet(cell, n, v) PROVE LastSet(cell, n + 1, v)'
  <2>1. ~Sets(handled'[n + 1], cell)
    BY <1>1, <1>3
  <2>2. CASE v = 0 /\ \A k \in 1..n : ~Sets(handled[k], cell)
    <3>1. \A k \in 1..(n + 1) : k \in 1..n \/ k = n + 1
      BY <1>1
    <3>2. \A k \in 1..(n + 1) : ~Sets(handled'[k], cell)
      BY <1>1, <2>1, <2>2, <3>1, Zenon
    <3> QED BY <2>2, <3>2 DEF LastSet, Sets
  <2>3. ASSUME NEW k \in 1..n, Sets(handled[k], cell), v = handled[k].word,
               \A j \in (k + 1)..n : ~Sets(handled[j], cell)
        PROVE  LastSet(cell, n + 1, v)'
    <3>1. /\ \A j \in (k + 1)..(n + 1) : j \in (k + 1)..n \/ j = n + 1
          /\ \A j \in (k + 1)..n : j \in 1..n
          /\ k \in 1..(n + 1)
      BY <1>1
    <3>2. \A j \in (k + 1)..(n + 1) : ~Sets(handled'[j], cell)
      BY <1>1, <2>1, <2>3, <3>1, Zenon
    <3>3. Sets(handled'[k], cell) /\ v = handled'[k].word
      BY <1>1, <2>3
    <3> QED BY <3>1, <3>2, <3>3 DEF LastSet, Sets
  <2> QED BY <1>3, <2>2, <2>3 DEF LastSet
<1> QED
  BY <1>1, <1>2, <1>3

\* A start begins an acquisition, and only a stop ends it before its time.
LEMMA MeasuringGrows ==
  ASSUME NEW c \in Commands, NEW n \in Nat, n = Len(handled),
         handled \in Seq(Commands), handled' = Append(handled, c)
  PROVE  /\ c.op = "start" => Measuring(n + 1)'
         /\ c.op # "stop" /\ Measuring(n) => Measuring(n + 1)'
<1>1. /\ Len(handled') = n + 1 /\ handled'[n + 1] = c
      /\ \A k \in 1..n : handled'[k] = handled[k]
  BY AppendProperties, LenProperties
<1>2. ASSUME c.op = "start" PROVE Measuring(n + 1)'
  <2>1. n + 1 \in 1..(n + 1) /\ \A j \in (n + 1 + 1)..(n + 1) : FALSE
    OBVIOUS
  <2> QED BY <1>1, <1>2, <2>1 DEF Measuring
<1>3. ASSUME c.op # "stop", NEW k \in 1..n, handled[k].op = "start",
             \A j \in (k + 1)..n : handled[j].op # "stop"
      PROVE  Measuring(n + 1)'
  <2>1. /\ \A j \in (k + 1)..(n + 1) : j \in (k + 1)..n \/ j = n + 1
        /\ \A j \in (k + 1)..n : j \in 1..n
        /\ k \in 1..(n + 1)
    OBVIOUS
  <2>2. \A j \in (k + 1)..(n + 1) : handled'[j].op # "stop"
    BY <1>1, <1>3, <2>1, Zenon
  <2>3. handled'[k].op = "start"
    BY <1>1, <1>3
  <2> QED BY <2>1, <2>2, <2>3 DEF Measuring
<1> QED
  BY <1>2, <1>3 DEF Measuring

LEMMA MeasStep ==
  ASSUME KsimTypes, MeasInv, NEW c \in Commands, HandleCmd(c) PROVE MeasInv'
<1>1. handled \in Seq(Commands) /\ handled' = Append(handled, c) /\ armed' \in Arms(c)
  BY TypeParts DEF HandleCmd, EmuTyped
<1>2. PICK m \in Nat : m = Len(handled) /\ Len(handled') = m + 1
  BY <1>1, AppendProperties, LenProperties
<1>3. armed => Measuring(m)
  BY <1>2 DEF MeasInv
<1>4. armed' => Measuring(m + 1)'
  BY <1>1, <1>2, <1>3, MeasuringGrows DEF Arms
<1> QED
  BY <1>2, <1>4 DEF MeasInv

LEMMA MeasKept ==
  ASSUME MeasInv, UNCHANGED handled, armed' => armed PROVE MeasInv'
BY DEF MeasInv, Measuring

\* The registers a command writes, by its kind.
LEMMA WritesByKind ==
  ASSUME NEW c
  PROVE  /\ c.op \in WordOps \cup {"readout_mode"} => Writes(c) = {<<c.op, 0>>}
         /\ c.op \in BoundedOps => Writes(c) = {<<c.op, c.sub>>} \cap Cells
         /\ c.op \in WrappingOps => Writes(c) = {<<c.op, c.sub % IndexCount>>}
         /\ c.op \notin WordOps \cup {"readout_mode"} \cup BoundedOps \cup WrappingOps
              => Writes(c) = {}
<1>1. /\ \A op \in WordOps \cup {"readout_mode"} : op \notin BoundedOps /\ op \notin WrappingOps
      /\ \A op \in BoundedOps : op \notin WrappingOps
  BY DEF WordOps, BoundedOps, WrappingOps
<1> QED
  BY <1>1, Zenon DEF Writes

\* A command sets the register of an inquiry as the reference says.
LEMMA ReadableSets ==
  ASSUME NEW cell \in Readable, NEW c \in Commands
  PROVE  cell \in Cells /\ (cell \in Writes(c) <=> Sets(c, cell))
<1>1. c.op \in Ops
  BY CommandType
<1>2. CASE cell = <<"bias", 0>>
  <2>1. cell \in Cells
    BY <1>2 DEF Cells, WordOps
  <2>2. Sets(c, cell) <=> c.op = "bias"
    BY <1>2 DEF Sets, WordOps, WrappingOps
  <2>3. cell \in Writes(c) <=> c.op = "bias"
    <3>1. CASE c.op \in WordOps \cup {"readout_mode"}
      BY <1>2, <3>1, WritesByKind
    <3>2. CASE c.op \in BoundedOps
      <4>1. Writes(c) \subseteq {<<c.op, c.sub>>} /\ c.op # "bias"
        BY <3>2, WritesByKind DEF BoundedOps
      <4> QED BY <1>2, <4>1
    <3>3. CASE c.op \in WrappingOps
      <4>1. Writes(c) = {<<c.op, c.sub % IndexCount>>} /\ c.op # "bias"
        BY <3>3, WritesByKind DEF WrappingOps
      <4> QED BY <1>2, <4>1
    <3>4. CASE c.op \notin WordOps \cup {"readout_mode"} \cup BoundedOps \cup WrappingOps
      BY <1>2, <3>4, WritesByKind DEF WordOps
    <3> QED BY <3>1, <3>2, <3>3, <3>4
  <2> QED BY <2>1, <2>2, <2>3
<1>3. ASSUME NEW k \in Indices, cell = <<"sensor_reg", k>>
      PROVE  cell \in Cells /\ (cell \in Writes(c) <=> Sets(c, cell))
  <2>1. cell \in Cells
    BY <1>3 DEF Cells, BoundedOps
  <2>2. Sets(c, cell) <=> c.op = "sensor_reg" /\ c.sub = k
    BY <1>3 DEF Sets, WordOps, WrappingOps
  <2>3. cell \in Writes(c) <=> c.op = "sensor_reg" /\ c.sub = k
    <3>1. CASE c.op \in WordOps \cup {"readout_mode"}
      <4>1. Writes(c) = {<<c.op, 0>>} /\ c.op # "sensor_reg"
        BY <3>1, WritesByKind DEF WordOps
      <4> QED BY <1>3, <4>1
    <3>2. CASE c.op \in BoundedOps
      <4>1. Writes(c) = {<<c.op, c.sub>>} \cap Cells
        BY <3>2, WritesByKind
      <4> QED BY <1>3, <2>1, <4>1
    <3>3. CASE c.op \in WrappingOps
      <4>1. Writes(c) = {<<c.op, c.sub % IndexCount>>} /\ c.op # "sensor_reg"
        BY <3>3, WritesByKind DEF WrappingOps
      <4> QED BY <1>3, <4>1
    <3>4. CASE c.op \notin WordOps \cup {"readout_mode"} \cup BoundedOps \cup WrappingOps
      BY <1>3, <3>4, WritesByKind DEF BoundedOps
    <3> QED BY <3>1, <3>2, <3>3, <3>4
  <2> QED BY <2>1, <2>2, <2>3
<1> QED
  BY <1>2, <1>3 DEF Readable

LEMMA RegsStep ==
  ASSUME KsimTypes, RegsInv, NEW c \in Commands, HandleCmd(c) PROVE RegsInv'
<1> SUFFICES ASSUME NEW cell \in Readable, NEW n \in Nat, NEW v \in Nat,
                    n = Len(handled'), v = regs'[cell]
             PROVE  LastSet(cell, n, v)'
  BY DEF RegsInv
<1>1. /\ handled \in Seq(Commands) /\ handled' = Append(handled, c)
      /\ regs \in [Cells -> Payloads \cup {0}] /\ Payloads \subseteq Nat
      /\ regs' = [x \in Cells |-> IF x \in Writes(c) THEN c.word ELSE regs[x]]
  BY TypeParts, CommandAssumption DEF HandleCmd, EmuTyped, Payloads
<1>2. PICK m \in Nat : m = Len(handled) /\ n = m + 1
  BY <1>1, AppendProperties, LenProperties
<1>3. cell \in Cells /\ (cell \in Writes(c) <=> Sets(c, cell))
  BY ReadableSets
<1>4. CASE Sets(c, cell)
  <2>1. v = c.word
    BY <1>1, <1>3, <1>4
  <2> QED BY <1>1, <1>2, <1>4, <2>1, LastSetGrows
<1>5. CASE ~Sets(c, cell)
  <2>1. v = regs[cell]
    BY <1>1, <1>3, <1>5
  <2>2. LastSet(cell, m, v)
    BY <1>2, <2>1 DEF RegsInv
  <2> QED BY <1>1, <1>2, <1>5, <2>2, LastSetGrows
<1> QED
  BY <1>4, <1>5

LEMMA RegsKept == ASSUME RegsInv, UNCHANGED <<regs, handled>> PROVE RegsInv'
BY DEF RegsInv, LastSet, Sets

\* A response keeps answering, whatever is handled afterwards.
LEMMA KnownStays ==
  ASSUME KsimTypes, NEW r \in Responses, Known(r),
         \/ handled' = handled /\ (px_words' > 0 => px_words > 0)
         \/ \E c \in Commands : handled' = Append(handled, c)
  PROVE  Known(r)'
<1>1. handled \in Seq(Commands) /\ Len(handled) \in Nat /\ r.serial \in Nat
  BY LogSizes DEF Responses
<1>2. CASE handled' = handled /\ (px_words' > 0 => px_words > 0)
  <2>1. \A n, v : TrueAnswer(n, v)' <=> TrueAnswer(n, v)
    BY <1>2 DEF TrueAnswer, LastSet, Sets, Measuring
  <2> QED BY <1>2, <2>1 DEF Known
<1>3. ASSUME NEW c \in Commands, handled' = Append(handled, c) PROVE Known(r)'
  <2>1. /\ Len(handled') = Len(handled) + 1
        /\ \A k \in 1..Len(handled) : handled'[k] = handled[k]
    BY <1>1, <1>3, AppendProperties
  <2>2. r.serial <= Len(handled)
    BY DEF Known
  <2>3. r.serial < Len(handled')
    BY <1>1, <2>1, <2>2
  <2>4. ASSUME r.op \in Inquiries PROVE r.serial >= 1 /\ TrueAnswer(r.serial, r.value)'
    <3>1. r.serial >= 1 /\ TrueAnswer(r.serial, r.value)
      BY <2>4 DEF Known
    <3>2. r.serial \in 1..Len(handled)
      BY <1>1, <2>2, <3>1
    <3> QED BY <1>1, <2>1, <3>1, <3>2, TrueAnswerStays
  <2>5. r.serial <= Len(handled')
    BY <1>1, <2>1, <2>3
  <2> QED BY <2>3, <2>4, <2>5 DEF Known
<1> QED
  BY <1>2, <1>3

LEMMA OrderKept ==
  ASSUME KsimTypes, OrderInv, UNCHANGED <<crd, sent>>,
         \/ handled' = handled /\ (px_words' > 0 => px_words > 0)
         \/ \E c \in Commands : handled' = Append(handled, c)
  PROVE  OrderInv'
<1>1. \A r \in Responses : Known(r) => Known(r)'
  BY KnownStays
<1> QED
  BY <1>1 DEF OrderInv, Increasing

\* A response that is queued comes after all others.
LEMMA OrderQueued ==
  ASSUME KsimTypes, OrderInv, UNCHANGED sent, NEW s \in Responses,
         crd' = Append(crd, s), Known(s)',
         \A r \in Responses : Known(r) => Known(r)' /\ r.serial < s.serial
  PROVE  OrderInv'
<1>1. crd \in Seq(Responses) /\ Len(crd) \in Nat /\ sent \in Seq(Responses) /\ Len(sent) \in Nat
  BY LenProperties DEF KsimTypes
<1>2. /\ Len(crd') = Len(crd) + 1 /\ crd'[Len(crd) + 1] = s
      /\ \A k \in 1..Len(crd) : crd'[k] = crd[k]
  BY <1>1, AppendProperties
<1>3. /\ \A k \in 1..Len(crd) : crd[k].serial < s.serial
      /\ \A j \in 1..Len(sent) : sent[j].serial < s.serial
  <2>1. /\ \A k \in 1..Len(crd) : crd[k] \in Responses
        /\ \A j \in 1..Len(sent) : sent[j] \in Responses
    BY <1>1
  <2>2. /\ \A k \in 1..Len(crd) : Known(crd[k])
        /\ \A j \in 1..Len(sent) : Known(sent[j])
    BY <2>1 DEF OrderInv
  <2> QED BY <2>1, <2>2
<1>4. \A k \in 1..Len(crd') : k \in 1..Len(crd) \/ k = Len(crd) + 1
  BY <1>1, <1>2
<1>5. Increasing(crd)'
  <2> SUFFICES ASSUME NEW j \in 1..Len(crd'), NEW k \in 1..Len(crd'), j < k
               PROVE  crd'[j].serial < crd'[k].serial
    BY DEF Increasing
  <2>1. j \in 1..Len(crd)
    BY <1>1, <1>2
  <2>2. CASE k \in 1..Len(crd)
    BY <1>2, <2>1, <2>2 DEF OrderInv, Increasing
  <2>3. CASE k = Len(crd) + 1
    BY <1>2, <1>3, <2>1, <2>3
  <2> QED BY <1>4, <2>2, <2>3
<1>6. \A j \in 1..Len(sent'), k \in 1..Len(crd') : sent'[j].serial < crd'[k].serial
  <2> SUFFICES ASSUME NEW j \in 1..Len(sent), NEW k \in 1..Len(crd')
               PROVE  sent[j].serial < crd'[k].serial
    OBVIOUS
  <2>1. CASE k \in 1..Len(crd)
    BY <1>2, <2>1 DEF OrderInv
  <2>2. CASE k = Len(crd) + 1
    BY <1>2, <1>3, <2>2
  <2> QED BY <1>4, <2>1, <2>2
<1>7. ASSUME NEW r \in Responses,
             (\E j \in 1..Len(sent') : r = sent'[j]) \/ (\E k \in 1..Len(crd') : r = crd'[k])
      PROVE  Known(r)'
  <2>1. \/ \E j \in 1..Len(sent) : r = sent[j]
        \/ \E k \in 1..Len(crd) : r = crd[k]
        \/ r = s
    BY <1>2, <1>4, <1>7
  <2>2. CASE r = s
    BY <2>2
  <2>3. CASE \/ \E j \in 1..Len(sent) : r = sent[j]
             \/ \E k \in 1..Len(crd) : r = crd[k]
    <3>1. Known(r)
      BY <2>3 DEF OrderInv
    <3> QED BY <3>1
  <2> QED BY <2>1, <2>2, <2>3
<1>8. Increasing(sent)'
  BY DEF OrderInv, Increasing
<1> QED
  BY <1>5, <1>6, <1>7, <1>8 DEF OrderInv

\* What is queued is one response to the command handled last.
LEMMA QueuedOne ==
  ASSUME KsimTypes, NEW op \in Ops, NEW value \in Nat, NEW apply \in Nat,
         QueueCrd(op, value, apply), handled' \in Seq(Commands)
  PROVE  \/ UNCHANGED crd
         \/ \E s \in Responses : /\ crd' = Append(crd, s)
                                 /\ s.serial = Len(handled') /\ s.op = op /\ s.value = value
<1>1. PICK jitter \in 0..MaxJitter :
        \/ UNCHANGED crd
        \/ crd' = Append(crd, Response(op, value, apply, jitter))
  BY DEF QueueCrd
<1>2. Latency + jitter + apply \in Nat /\ Len(handled') \in Nat
  BY KsimSizes, LenProperties
<1>3. /\ Response(op, value, apply, jitter) \in Responses
      /\ Response(op, value, apply, jitter).serial = Len(handled')
      /\ Response(op, value, apply, jitter).op = op
      /\ Response(op, value, apply, jitter).value = value
  BY <1>2 DEF Response, Responses
<1> QED
  BY <1>1, <1>3

\* The answer to an inquiry is what the registers hold when it is handled.
LEMMA AnswerIsTrue ==
  ASSUME KsimTypes, RegsInv, MeasInv, NEW c \in Commands, handled' = Append(handled, c),
         NEW n \in Nat, n = Len(handled), NEW v \in Nat, v = Answer(c, regs),
         c.op \in Inquiries
  PROVE  TrueAnswer(n + 1, v)'
<1>1. handled \in Seq(Commands) /\ c.word \in Nat /\ IndexCount \in Nat
  BY LogSizes, CommandType, KsimSizes
<1>2. handled'[n + 1] = c
  BY <1>1, AppendProperties
<1>3. ASSUME NEW cell \in Readable, v = regs[cell] PROVE LastSet(cell, n + 1, v)'
  <2>1. LastSet(cell, n, v)
    BY <1>3 DEF RegsInv
  <2>2. ~Sets(c, cell)
    <3>1. c.op \notin {"bias", "sensor_reg"}
      BY DEF Inquiries
    <3> QED BY <3>1 DEF Sets, Readable
  <2> QED BY <1>1, <2>1, <2>2, LastSetGrows
<1>4. CASE c.op = "get_bias"
  <2>1. v = regs[<<"bias", 0>>] /\ <<"bias", 0>> \in Readable
    <3>1. Answer(c, regs) = regs[<<"bias", 0>>]
      BY <1>4 DEF Answer
    <3> QED BY <3>1 DEF Readable
  <2>2. LastSet(<<"bias", 0>>, n + 1, v)'
    BY <1>3, <2>1
  <2> QED BY <1>2, <1>4, <2>2 DEF TrueAnswer
<1>5. CASE c.op = "back_read" /\ c.word \in Indices
  <2>1. v = regs[<<"sensor_reg", c.word>>] /\ <<"sensor_reg", c.word>> \in Readable
    <3>1. Answer(c, regs) = regs[<<"sensor_reg", c.word>>]
      BY <1>5 DEF Answer
    <3> QED BY <1>5, <3>1 DEF Readable
  <2>2. LastSet(<<"sensor_reg", c.word>>, n + 1, v)'
    BY <1>3, <2>1
  <2>3. c.word < IndexCount
    BY <1>1, <1>5 DEF Indices
  <2>4. c.op # "get_bias" /\ c.op = "back_read"
    BY <1>5
  <2> QED BY <1>2, <2>2, <2>3, <2>4, Zenon DEF TrueAnswer
<1>6. CASE c.op = "comm_status"
  <2>1. armed => Measuring(n + 1)'
    BY <1>1, <1>6, MeasuringGrows DEF MeasInv
  <2>2. v = 0 \/ (v = 1 /\ armed)
    BY <1>6 DEF Answer
  <2>3. c.op # "get_bias" /\ c.op # "back_read"
    BY <1>6
  <2> QED BY <1>2, <1>6, <2>1, <2>2, <2>3, Zenon DEF TrueAnswer
<1>7. CASE /\ c.op # "get_bias" /\ c.op # "comm_status"
           /\ ~(c.op = "back_read" /\ c.word \in Indices)
  <2>1. v = 0
    BY <1>7, Zenon DEF Answer
  <2>2. ~(c.op = "back_read" /\ c.word < IndexCount)
    BY <1>1, <1>7 DEF Indices
  <2> QED BY <1>2, <1>7, <2>1, <2>2, Zenon DEF TrueAnswer
<1> QED
  BY <1>4, <1>5, <1>6, <1>7

\* A command is handled only when no upload is active.
LEMMA OrderHandled ==
  ASSUME KsimTypes, AnswerInv, NEW c \in Commands, HandleCmd(c), UNCHANGED sent,
         px_words = 0
  PROVE  OrderInv'
<1>1. handled' = Append(handled, c) /\ handled \in Seq(Commands) /\ c.op \in Ops
  BY LogSizes, CommandType DEF HandleCmd
<1>2. PICK n \in Nat : n = Len(handled) /\ Len(handled') = n + 1 /\ handled' \in Seq(Commands)
  BY <1>1, AppendProperties, LenProperties
<1>3. \A r \in Responses : Known(r) => Known(r)' /\ r.serial < n + 1
  <2>1. \A r \in Responses : Known(r) => Known(r)'
    BY <1>1, KnownStays
  <2>2. \A r \in Responses : r.serial \in Nat /\ (Known(r) => r.serial <= n)
    BY <1>2 DEF Known, Responses
  <2> QED BY <1>2, <2>1, <2>2
<1>4. CASE UNCHANGED crd
  BY <1>1, <1>4, OrderKept DEF AnswerInv
<1>5. CASE Answered(c)
  <2> DEFINE apply == IF c.op = "test_pulse" THEN ApplyTime ELSE 0
  <2>1. PICK v \in Nat : v = Answer(c, regs)
    BY RegisterType
  <2>2. QueueCrd(c.op, v, apply)
    BY <1>5, <2>1 DEF HandleCmd
  <2>3. apply \in Nat
    BY KsimSizes
  <2> HIDE DEF apply
  <2>4. ASSUME NEW s \in Responses, crd' = Append(crd, s),
               s.serial = Len(handled'), s.op = c.op, s.value = v
        PROVE  OrderInv'
    <3>1. px_words' = 0
      BY <1>5 DEF HandleCmd, Answered, MuteOps
    <3>2. s.op \in Inquiries => s.serial >= 1 /\ TrueAnswer(s.serial, s.value)'
      <4>1. c.op \in Inquiries => TrueAnswer(n + 1, v)'
        BY <1>1, <1>2, <2>1, AnswerIsTrue DEF AnswerInv
      <4>2. s.serial = n + 1 /\ n + 1 >= 1
        BY <1>2, <2>4
      <4> QED BY <2>4, <4>1, <4>2
    <3>3. s.serial = n + 1 /\ s.serial <= Len(handled')
      BY <1>2, <2>4
    <3>4. Known(s)'
      BY <3>1, <3>2, <3>3 DEF Known
    <3> QED BY <1>3, <2>4, <3>3, <3>4, OrderQueued DEF AnswerInv
  <2> QED BY <1>1, <1>2, <1>4, <2>2, <2>3, <2>4, QueuedOne
<1> QED
  BY <1>4, <1>5 DEF HandleCmd

\* The answer of an upload comes after those of the commands before it.
LEMMA OrderConsumed ==
  ASSUME KsimTypes, OrderInv, NEW words \in Nat, ConsumePxConfig(words), UNCHANGED sent,
         px_words > 0
  PROVE  OrderInv'
<1>1. /\ handled' = handled /\ handled \in Seq(Commands) /\ px_words \in Nat
      /\ Len(handled) \in Nat
  BY LogSizes, KsimSizes DEF ConsumePxConfig, KsimTypes, TypeOK
<1>2. \A r \in Responses : Known(r) => Known(r)' /\ r.serial < Len(handled)
  <2>1. \A r \in Responses : Known(r) => Known(r)'
    BY <1>1, KnownStays
  <2> QED BY <2>1 DEF Known
<1>3. CASE UNCHANGED crd
  BY <1>1, <1>3, OrderKept
<1>4. CASE Completes(words)
  <2>1. QueueCrd("upload", 0, 0) /\ px_words' = 0 /\ "upload" \in Ops /\ 0 \in Nat
    BY <1>4 DEF ConsumePxConfig, Ops, MuteOps
  <2>2. ASSUME NEW s \in Responses, crd' = Append(crd, s),
               s.serial = Len(handled'), s.op = "upload"
        PROVE  OrderInv'
    <3>1. Known(s)'
      BY <1>1, <2>1, <2>2 DEF Known, Inquiries
    <3>2. s.serial = Len(handled)
      BY <1>1, <2>2
    <3> QED BY <1>2, <2>2, <3>1, <3>2, OrderQueued
  <2>3. handled' \in Seq(Commands)
    BY <1>1
  <2> QED BY <1>3, <2>1, <2>2, <2>3, QueuedOne
<1> QED
  BY <1>3, <1>4 DEF ConsumePxConfig

LEMMA OrderReceived ==
  ASSUME KsimTypes, AnswerInv, NEW dg \in Heard, NEW queue, Receive(dg, queue) PROVE AnswerInv'
<1>1. sent' = sent /\ dg.cmd \in Commands /\ dg.words \in Nat /\ px_words \in Nat
  BY HeardType, KsimSizes DEF Receive, KsimTypes, TypeOK
<1>2. CASE UNCHANGED emu
  <2>1. UNCHANGED <<crd, handled, px_words, regs, armed>>
    BY <1>2 DEF emu
  <2> QED BY <1>1, <2>1, OrderKept, RegsKept, MeasKept DEF AnswerInv
<1>3. CASE px_words > 0 /\ ConsumePxConfig(dg.words)
  <2>1. UNCHANGED <<handled, regs, armed>>
    BY <1>3 DEF ConsumePxConfig
  <2> QED BY <1>1, <1>3, <2>1, OrderConsumed, RegsKept, MeasKept DEF AnswerInv
<1>4. CASE ~(px_words > 0) /\ HandleCmd(dg.cmd)
  <2>1. px_words = 0
    BY <1>1, <1>4
  <2> QED BY <1>1, <1>4, <2>1, OrderHandled, RegsStep, MeasStep DEF AnswerInv
<1> QED
  BY <1>2, <1>3, <1>4 DEF Receive, CmdIn

\* The clock changes no answer.
LEMMA OrderAdvanced ==
  ASSUME KsimTypes, AnswerInv, NEW d \in Steps, Advance(d) PROVE AnswerInv'
<1>1. /\ crd \in Seq(Responses) /\ crd' \in Seq(Responses) /\ Len(crd) \in Nat
      /\ Len(crd') = Len(crd)
      /\ \A k \in 1..Len(crd) : crd'[k] = [crd[k] EXCEPT !.wait = Remaining(@, d)]
  BY AdvanceType, LenProperties DEF KsimTypes
<1>2. UNCHANGED <<handled, regs, px_words, sent, armed>>
  BY DEF Advance, history
<1>3. \A k \in 1..Len(crd) : /\ crd[k] \in Responses /\ crd'[k].serial = crd[k].serial
                             /\ crd'[k].op = crd[k].op /\ crd'[k].value = crd[k].value
  <2>1. \A k \in 1..Len(crd) : crd[k] \in Responses
    BY <1>1
  <2> QED BY <1>1, <2>1 DEF Responses
<1>4. \A r \in Responses : Known(r) => Known(r)'
  BY <1>2, KnownStays
<1>5. ASSUME NEW r \in Responses, NEW k \in 1..Len(crd), r = crd'[k] PROVE Known(r)'
  <2>1. PICK q \in Responses : q = crd[k]
    BY <1>3
  <2>2. Known(q)'
    BY <1>4, <2>1 DEF AnswerInv, OrderInv
  <2>3. r.serial = q.serial /\ r.op = q.op /\ r.value = q.value
    BY <1>3, <1>5, <2>1
  <2> QED BY <2>2, <2>3 DEF Known
<1>6. Increasing(crd)' /\ Increasing(sent)'
  BY <1>1, <1>2, <1>3 DEF AnswerInv, OrderInv, Increasing
<1>7. \A j \in 1..Len(sent'), k \in 1..Len(crd') : sent'[j].serial < crd'[k].serial
  BY <1>1, <1>2, <1>3 DEF AnswerInv, OrderInv
<1>8. \A r \in Responses :
        (\E j \in 1..Len(sent') : r = sent'[j]) \/ (\E k \in 1..Len(crd') : r = crd'[k])
          => Known(r)'
  BY <1>1, <1>2, <1>4, <1>5 DEF AnswerInv, OrderInv
<1>9. RegsInv' /\ MeasInv'
  BY <1>2, RegsKept, MeasKept DEF AnswerInv
<1> QED
  BY <1>6, <1>7, <1>8, <1>9 DEF AnswerInv, OrderInv

\* The first response leaves the queue, for the client or for nowhere.
LEMMA OrderSent ==
  ASSUME KsimTypes, AnswerInv, NEW k \in DOMAIN crd, CrdStep(k) PROVE AnswerInv'
<1>1. /\ crd \in Seq(Responses) /\ sent \in Seq(Responses) /\ crd # <<>> /\ crd' = Tail(crd)
      /\ sent' = sent \/ sent' = Append(sent, Head(crd))
      /\ UNCHANGED <<handled, px_words, regs, armed>>
  BY CrdStepType DEF KsimTypes, CrdStep
<1>2. /\ Len(crd) \in Nat \ {0} /\ Len(sent) \in Nat /\ Head(crd) = crd[1]
      /\ Len(crd') = Len(crd) - 1 /\ \A j \in 1..Len(crd') : crd'[j] = crd[j + 1]
      /\ crd[1] \in Responses
  BY <1>1, EmptySeq, LenProperties, HeadTailProperties
<1>3. \A j \in 1..Len(crd') : j + 1 \in 1..Len(crd) /\ 1 < j + 1
  BY <1>2
<1>4. 1 \in 1..Len(crd)
  BY <1>2
<1>5. Increasing(crd)'
  BY <1>2, <1>3 DEF AnswerInv, OrderInv, Increasing
<1>6. \A r \in Responses : Known(r) => Known(r)'
  BY <1>1, KnownStays
<1>7. RegsInv' /\ MeasInv'
  BY <1>1, RegsKept, MeasKept DEF AnswerInv
<1>8. CASE sent' = sent
  <2>1. Increasing(sent)'
    BY <1>8 DEF AnswerInv, OrderInv, Increasing
  <2>2. \A j \in 1..Len(sent'), m \in 1..Len(crd') : sent'[j].serial < crd'[m].serial
    BY <1>2, <1>3, <1>8 DEF AnswerInv, OrderInv
  <2>3. \A r \in Responses :
          (\E j \in 1..Len(sent') : r = sent'[j]) \/ (\E m \in 1..Len(crd') : r = crd'[m])
            => Known(r)'
    BY <1>2, <1>3, <1>6, <1>8 DEF AnswerInv, OrderInv
  <2> QED BY <1>5, <1>7, <2>1, <2>2, <2>3 DEF AnswerInv, OrderInv
<1>9. CASE sent' = Append(sent, crd[1])
  <2>1. /\ Len(sent') = Len(sent) + 1 /\ sent'[Len(sent) + 1] = crd[1]
        /\ \A j \in 1..Len(sent) : sent'[j] = sent[j]
    BY <1>1, <1>2, <1>9, AppendProperties
  <2>2. \A j \in 1..Len(sent') : j \in 1..Len(sent) \/ j = Len(sent) + 1
    BY <1>2, <2>1
  <2>3. Increasing(sent)'
    <3> SUFFICES ASSUME NEW j \in 1..Len(sent'), NEW m \in 1..Len(sent'), j < m
                 PROVE  sent'[j].serial < sent'[m].serial
      BY DEF Increasing
    <3>1. j \in 1..Len(sent)
      BY <1>2, <2>1
    <3>2. CASE m \in 1..Len(sent)
      BY <2>1, <3>1, <3>2 DEF AnswerInv, OrderInv, Increasing
    <3>3. CASE m = Len(sent) + 1
      BY <1>4, <2>1, <3>1, <3>3 DEF AnswerInv, OrderInv
    <3> QED BY <2>2, <3>2, <3>3
  <2>4. ASSUME NEW j \in 1..Len(sent'), NEW m \in 1..Len(crd')
        PROVE  sent'[j].serial < crd'[m].serial
    <3>1. m + 1 \in 1..Len(crd) /\ 1 < m + 1 /\ crd'[m] = crd[m + 1]
      BY <1>2, <1>3
    <3>2. CASE j \in 1..Len(sent)
      BY <2>1, <3>1, <3>2 DEF AnswerInv, OrderInv
    <3>3. CASE j = Len(sent) + 1
      BY <1>4, <2>1, <3>1, <3>3 DEF AnswerInv, OrderInv, Increasing
    <3> QED BY <2>2, <3>2, <3>3
  <2>5. \A r \in Responses :
          (\E j \in 1..Len(sent') : r = sent'[j]) \/ (\E m \in 1..Len(crd') : r = crd'[m])
            => Known(r)'
    <3>1. ASSUME NEW r \in Responses, NEW j \in 1..Len(sent'), r = sent'[j] PROVE Known(r)'
      BY <1>4, <1>6, <2>1, <2>2, <3>1 DEF AnswerInv, OrderInv
    <3>2. ASSUME NEW r \in Responses, NEW m \in 1..Len(crd'), r = crd'[m] PROVE Known(r)'
      BY <1>2, <1>3, <1>6, <3>2 DEF AnswerInv, OrderInv
    <3> QED BY <3>1, <3>2
  <2> QED BY <1>5, <1>7, <2>3, <2>4, <2>5 DEF AnswerInv, OrderInv
<1> QED
  BY <1>1, <1>2, <1>8, <1>9

LEMMA AnswerInvStep == KsimTypes /\ AnswerInv /\ [Next]_vars => AnswerInv'
<1> SUFFICES ASSUME KsimTypes, AnswerInv, [Next]_vars PROVE AnswerInv'
  OBVIOUS
<1>1. ASSUME UNCHANGED <<crd, sent, handled, px_words, regs>>, armed' => armed
      PROVE  AnswerInv'
  BY <1>1, OrderKept, RegsKept, MeasKept DEF AnswerInv
<1>2. CASE \/ StartupStep \/ StartupFails \/ LoopStarts \/ ReceiveInterrupted \/ DrainEnds
           \/ CrdsEnd \/ MdStep \/ MdsEnd
  <2>1. Rests /\ UNCHANGED sent
    BY <1>2, QuietStep DEF StartupStep, StartupFails, LoopStarts, ReceiveInterrupted,
         DrainEnds, CrdsEnd, MdStep, MdsEnd, history
  <2> QED BY <1>1, <2>1 DEF Rests
<1>3. CASE LogOut \/ Stop
  <2>1. UNCHANGED armed
    BY <1>3 DEF LogOut, Stop
  <2> QED BY <1>1, <1>3, <2>1, LogStepType
<1>4. CASE UNCHANGED vars
  BY <1>1, <1>4 DEF vars, emu, history
<1> QED
  BY <1>2, <1>3, <1>4, OrderReceived, OrderAdvanced, OrderSent, StepKinds

LEMMA AnswerInvInit == Init => AnswerInv
<1> SUFFICES ASSUME Init PROVE AnswerInv
  OBVIOUS
<1>1. /\ handled = <<>> /\ sent = <<>> /\ crd = <<>>
      /\ Len(handled) = 0 /\ Len(sent) = 0 /\ Len(crd) = 0
      /\ \A cell \in Cells : regs[cell] = 0
  BY DEF Init, EmuInit
<1>2. Readable \subseteq Cells
  BY DEF Readable, Cells, WordOps, BoundedOps
<1>3. RegsInv
  BY <1>1, <1>2 DEF RegsInv, LastSet
<1>4. MeasInv
  BY DEF MeasInv, Init, EmuInit
<1> QED
  BY <1>1, <1>3, <1>4 DEF AnswerInv, OrderInv, Increasing

\* What AnswersInOrder says of one state.
LEMMA OrderInState == KsimTypes /\ AnswerInv => AnswersInOrder
<1> SUFFICES ASSUME KsimTypes, AnswerInv PROVE AnswersInOrder
  OBVIOUS
<1> DEFINE all == sent \o crd
<1>1. sent \in Seq(Responses) /\ crd \in Seq(Responses) /\ Len(sent) \in Nat /\ Len(crd) \in Nat
  BY LenProperties DEF KsimTypes
<1>2. /\ all \in Seq(Responses) /\ Len(all) = Len(sent) + Len(crd)
      /\ \A j \in 1..(Len(sent) + Len(crd)) :
           all[j] = IF j <= Len(sent) THEN sent[j] ELSE crd[j - Len(sent)]
  BY <1>1, ConcatProperties
<1> HIDE DEF all
<1>3. ASSUME NEW j \in 1..Len(all)
      PROVE  /\ all[j] \in Responses
             /\ \/ j \in 1..Len(sent) /\ all[j] = sent[j]
                \/ j - Len(sent) \in 1..Len(crd) /\ all[j] = crd[j - Len(sent)]
  BY <1>1, <1>2
<1>4. ASSUME NEW j \in 2..Len(all) PROVE all[j - 1].serial < all[j].serial
  <2>1. j \in 1..Len(all) /\ j - 1 \in 1..Len(all) /\ j - 1 < j
    BY <1>1, <1>2
  <2>2. CASE j \in 1..Len(sent)
    <3>1. j - 1 \in 1..Len(sent) /\ j <= Len(sent) /\ j - 1 <= Len(sent)
      BY <1>1, <1>4, <2>2
    <3>2. all[j] = sent[j] /\ all[j - 1] = sent[j - 1]
      BY <1>2, <2>1, <3>1
    <3> QED BY <2>1, <2>2, <3>1, <3>2 DEF AnswerInv, OrderInv, Increasing
  <2>3. CASE j = Len(sent) + 1
    <3>1. /\ j - 1 \in 1..Len(sent) /\ ~(j <= Len(sent)) /\ j - 1 <= Len(sent)
          /\ j - Len(sent) = 1 /\ 1 \in 1..Len(crd)
      BY <1>1, <1>2, <1>4, <2>3
    <3>2. all[j] = crd[1] /\ all[j - 1] = sent[j - 1]
      BY <1>2, <2>1, <3>1
    <3> QED BY <3>1, <3>2 DEF AnswerInv, OrderInv
  <2>4. CASE j > Len(sent) + 1
    <3>1. /\ j - Len(sent) \in 1..Len(crd) /\ j - 1 - Len(sent) \in 1..Len(crd)
          /\ ~(j <= Len(sent)) /\ ~(j - 1 <= Len(sent)) /\ j - 1 - Len(sent) < j - Len(sent)
      BY <1>1, <1>2, <1>4, <2>4
    <3>2. all[j] = crd[j - Len(sent)] /\ all[j - 1] = crd[j - 1 - Len(sent)]
      BY <1>2, <2>1, <3>1
    <3> QED BY <3>1, <3>2 DEF AnswerInv, OrderInv, Increasing
  <2> QED BY <1>1, <1>2, <1>4, <2>2, <2>3, <2>4
<1>5. ASSUME NEW j \in DOMAIN all, all[j].op \in Inquiries
      PROVE  TrueAnswer(all[j].serial, all[j].value)
  <2>1. j \in 1..Len(all)
    BY <1>2, <1>5, LenProperties
  <2>2. Known(all[j])
    BY <1>3, <2>1 DEF AnswerInv, OrderInv
  <2> QED BY <1>5, <2>2 DEF Known
<1> QED
  BY <1>4, <1>5 DEF AnswersInOrder, all

\* Responses leave in the order of their commands, for all latencies, and an
\* inquiry answers what was set before it (AnswersInOrder).
THEOREM TheAnswersAreInOrder == Spec => []AnswersInOrder
BY KsimTypesInit, KsimTypesStep, AnswerInvInit, AnswerInvStep, OrderInState, PTL DEF Spec

---------------------------------------------------------------------------
(* Every loss has a reason (FaultsAccounted).                              *)

\* The commands that are to be answered by now.
Owed == {n \in DOMAIN handled :
           IF handled[n].op = "upload" THEN n < Len(handled) \/ px_words = 0
                                       ELSE Answered(handled[n])}

Accounted == Len(sent) + Len(crd) + crd_dropped + n_fail + Len(spoilt.crds)

OwedInv ==
  /\ px_words > 0 => handled # <<>> /\ handled[Len(handled)].op = "upload"
  /\ IsFiniteSet(Owed) /\ Cardinality(Owed) = Accounted

\* The chosen response is dropped when it is counted, and counted once; before
\* an upload command none is counted.
CrdFaults ==
  /\ crds_counted \in Nat /\ (~crd_count_armed => crds_counted = 0)
  /\ spoilt.crds # <<>> =>
       /\ Len(spoilt.crds) = 1 /\ crd_count_armed
       /\ options.drop_crd # 0 /\ options.drop_crd <= crds_counted

ChunkFaults ==
  /\ px_chunks_seen \in Nat
  /\ spoilt.chunks = (IF options.drop_px_chunk \in 1..px_chunks_seen
                      THEN <<options.drop_px_chunk>> ELSE <<>>)

\* The stray response waits for the first datagram.
StrayFaults ==
  /\ spoilt.strays = (IF options.stray_crd /\ client_known THEN 1 ELSE 0)
  /\ ~client_known => stray_crd_pending = options.stray_crd

FaultTypes ==
  /\ n_fail \in Nat
  /\ spoilt \in [chunks : Seq(Nat), crds : Seq(Nat), strays : Nat]

FaultInv == FaultTypes /\ OwedInv /\ CrdFaults /\ ChunkFaults /\ StrayFaults

LEMMA AccountTypes ==
  ASSUME KsimTypes, FaultTypes
  PROVE  /\ Len(sent) \in Nat /\ Len(crd) \in Nat /\ crd_dropped \in Nat /\ n_fail \in Nat
         /\ spoilt.crds \in Seq(Nat) /\ Len(spoilt.crds) \in Nat
         /\ spoilt.chunks \in Seq(Nat) /\ spoilt.strays \in Nat
         /\ handled \in Seq(Commands) /\ Len(handled) \in Nat /\ DOMAIN handled = 1..Len(handled)
         /\ px_words \in Nat
         /\ options.drop_crd \in Nat /\ options.drop_px_chunk \in Nat /\ options.stray_crd \in BOOLEAN
<1>1. sent \in Seq(Responses) /\ crd \in Seq(Responses) /\ handled \in Seq(Commands)
  BY DEF KsimTypes
<1>2. crd_dropped \in Nat /\ px_words \in Nat
  BY KsimSizes DEF KsimTypes, TypeOK
<1>3. spoilt.crds \in Seq(Nat) /\ spoilt.chunks \in Seq(Nat) /\ spoilt.strays \in Nat
  BY DEF FaultTypes
<1>4. options.drop_crd \in Nat /\ options.drop_px_chunk \in Nat /\ options.stray_crd \in BOOLEAN
  BY KsimAssumption DEF KsimTypes
<1> QED
  BY <1>1, <1>2, <1>3, <1>4, LenProperties DEF FaultTypes

\* One response is queued, or one dropped by a full queue.
LEMMA QueuedCount ==
  ASSUME KsimTypes, NEW op, NEW value, NEW apply, QueueCrd(op, value, apply)
  PROVE  Len(crd') + crd_dropped' = Len(crd) + crd_dropped + 1
         /\ Len(crd') \in Nat /\ crd_dropped' \in Nat
<1>1. crd \in Seq(Responses) /\ Len(crd) \in Nat /\ crd_dropped \in Nat
  BY LenProperties DEF KsimTypes, TypeOK
<1>2. \/ crd_dropped' = crd_dropped + 1 /\ crd' = crd
      \/ \E r : crd' = Append(crd, r) /\ crd_dropped' = crd_dropped
  BY DEF QueueCrd
<1>3. PICK q, d \in Nat : q = Len(crd) /\ d = crd_dropped
  BY <1>1, Zenon
<1>4. ASSUME NEW r PROVE Len(Append(crd, r)) = q + 1
  BY <1>1, <1>3
<1>5. \/ Len(crd') = q /\ crd_dropped' = d + 1
      \/ Len(crd') = q + 1 /\ crd_dropped' = d
  BY <1>2, <1>3, <1>4, Zenon
<1>6. /\ q + (d + 1) = q + d + 1 /\ (q + 1) + d = q + d + 1
      /\ q + 1 \in Nat /\ d + 1 \in Nat
  OBVIOUS
<1> QED
  BY <1>3, <1>5, <1>6, Zenon

\* The account, as numbers.
LEMMA AccountOf ==
  ASSUME KsimTypes, FaultTypes
  PROVE  \E s, q, d, f, l \in Nat :
           /\ s = Len(sent) /\ q = Len(crd) /\ d = crd_dropped /\ f = n_fail
           /\ l = Len(spoilt.crds) /\ Accounted = s + q + d + f + l
BY AccountTypes, Zenon DEF Accounted

\* It is accounted for.
LEMMA QueuedAccount ==
  ASSUME KsimTypes, FaultTypes, NEW op, NEW value, NEW apply, QueueCrd(op, value, apply),
         UNCHANGED <<sent, n_fail>>, spoilt'.crds = spoilt.crds
  PROVE  Accounted' = Accounted + 1
<1>1. PICK s, q, d, f, l \in Nat :
        /\ s = Len(sent) /\ q = Len(crd) /\ d = crd_dropped /\ f = n_fail
        /\ l = Len(spoilt.crds) /\ Accounted = s + q + d + f + l
  BY AccountOf
<1>2. PICK q1, d1 \in Nat : q1 = Len(crd') /\ d1 = crd_dropped' /\ q1 + d1 = q + d + 1
  BY <1>1, QueuedCount, Zenon
<1>3. Accounted' = s + q1 + d1 + f + l
  BY <1>1, <1>2, Zenon DEF Accounted
<1>4. s + q1 + d1 + f + l = s + q + d + f + l + 1
  <2>1. q1 + d1 = q + d + 1 /\ {s, q, d, f, l, q1, d1} \subseteq Nat
    BY <1>2, Zenon
  <2> QED BY ONLY <2>1
<1> QED
  BY <1>1, <1>3, <1>4, Zenon

\* A command of its own adds what it owes to what was owed.
LEMMA OwedHandled ==
  ASSUME KsimTypes, FaultTypes, OwedInv, NEW c \in Commands, HandleCmd(c), px_words = 0,
         UNCHANGED <<sent, n_fail>>, spoilt'.crds = spoilt.crds
  PROVE  OwedInv'
<1>1. handled' = Append(handled, c)
  BY DEF HandleCmd
<1>2. PICK n \in Nat : n = Len(handled)
  BY AccountTypes
<1>3. /\ Len(handled') = n + 1 /\ handled'[n + 1] = c /\ DOMAIN handled' = 1..(n + 1)
      /\ DOMAIN handled = 1..n /\ \A k \in 1..n : handled'[k] = handled[k]
      /\ handled' # <<>>
  <2>1. handled \in Seq(Commands)
    BY AccountTypes
  <2>2. handled' \in Seq(Commands) /\ Len(handled') = n + 1
    BY <1>1, <1>2, <2>1, AppendProperties
  <2>3. handled'[n + 1] = c /\ \A k \in 1..n : handled'[k] = handled[k]
    BY <1>1, <1>2, <2>1, AppendProperties
  <2>4. DOMAIN handled' = 1..(n + 1) /\ DOMAIN handled = 1..n
    BY <1>2, <2>1, <2>2, LenProperties
  <2>5. handled' # <<>>
    BY <1>2, <2>2, EmptySeq
  <2> QED BY <2>2, <2>3, <2>4, <2>5
<1>4. px_words' = (IF c.op = "upload" THEN ConfigWords ELSE 0) /\ ConfigWords \in Nat \ {0}
  BY KsimSizes DEF HandleCmd
<1>5. px_words' > 0 => handled' # <<>> /\ handled'[Len(handled')].op = "upload"
  BY <1>3, <1>4
<1>6. ASSUME NEW k \in 1..n PROVE k \in Owed' <=> k \in Owed
  <2>1. k \in DOMAIN handled /\ k \in DOMAIN handled' /\ handled'[k] = handled[k] /\ k < Len(handled')
    BY <1>3
  <2> QED BY <2>1 DEF Owed, Answered
<1>7. n + 1 \in Owed' <=> Answered(c)
  <2>1. n + 1 \in DOMAIN handled' /\ ~(n + 1 < Len(handled'))
    BY <1>3
  <2>2. CASE c.op = "upload"
    BY <1>3, <1>4, <2>1, <2>2 DEF Owed, Answered, MuteOps
  <2>3. CASE c.op # "upload"
    BY <1>3, <2>1, <2>3 DEF Owed, Answered
  <2> QED BY <2>2, <2>3
<1>8. Owed \subseteq 1..n /\ Owed' \subseteq 1..(n + 1) /\ n + 1 \notin 1..n
      /\ 1..(n + 1) = (1..n) \cup {n + 1}
  BY <1>3 DEF Owed
<1>9. CASE Answered(c)
  <2>1. Owed' = Owed \cup {n + 1} /\ n + 1 \notin Owed
    BY <1>6, <1>7, <1>8, <1>9
  <2>2. /\ IsFiniteSet(Owed \cup {n + 1})
        /\ Cardinality(Owed \cup {n + 1}) = Cardinality(Owed) + 1
    BY <2>1, FS_AddElement DEF OwedInv
  <2>4. Accounted' = Accounted + 1
    BY <1>9, QueuedAccount DEF HandleCmd
  <2> QED BY <1>5, <2>1, <2>2, <2>4 DEF OwedInv
<1>10. CASE ~Answered(c)
  <2>1. Owed' = Owed
    BY <1>6, <1>7, <1>8, <1>10
  <2>2. Accounted' = Accounted
    BY <1>10 DEF Accounted, HandleCmd
  <2> QED BY <1>5, <2>1, <2>2 DEF OwedInv
<1> QED
  BY <1>9, <1>10

\* The last datagram of an upload adds the upload to what is owed.
LEMMA OwedConsumed ==
  ASSUME KsimTypes, FaultTypes, OwedInv, NEW words \in Nat, ConsumePxConfig(words),
         px_words > 0, UNCHANGED <<sent, n_fail>>, spoilt'.crds = spoilt.crds
  PROVE  OwedInv'
<1>1. handled' = handled
  BY DEF ConsumePxConfig
<1>2. PICK n \in Nat : n = Len(handled)
  BY AccountTypes
<1>3. /\ handled # <<>> /\ handled[n].op = "upload" /\ n \in DOMAIN handled /\ n \notin Owed
      /\ DOMAIN handled = 1..n
  <2>1. handled # <<>> /\ handled[n].op = "upload"
    BY <1>2 DEF OwedInv
  <2>2. DOMAIN handled = 1..n /\ n # 0
    BY <1>2, <2>1, AccountTypes, EmptySeq
  <2>3. n \in DOMAIN handled
    BY <2>2
  <2> QED BY <1>2, <2>1, <2>2, <2>3, AccountTypes DEF Owed
<1>4. \A k \in DOMAIN handled : k # n => k < n
  BY <1>3
<1>5. CASE Completes(words)
  <2>1. px_words' = 0 /\ QueueCrd("upload", 0, 0)
    BY <1>5 DEF ConsumePxConfig
  <2>2. Owed' = Owed \cup {n}
    BY <1>1, <1>2, <1>3, <1>4, <2>1 DEF Owed, Answered
  <2>3. /\ IsFiniteSet(Owed \cup {n})
        /\ Cardinality(Owed \cup {n}) = Cardinality(Owed) + 1
    BY <1>3, FS_AddElement DEF OwedInv
  <2>5. Accounted' = Accounted + 1
    BY <2>1, QueuedAccount
  <2> QED BY <2>1, <2>2, <2>3, <2>5 DEF OwedInv
<1>6. CASE ~Completes(words)
  <2>1. px_words' = px_words - words /\ px_words' > 0 /\ UNCHANGED <<crd, crd_dropped>>
    BY <1>6, AccountTypes DEF ConsumePxConfig, Completes
  <2>2. px_words' # 0 /\ px_words # 0
    BY <2>1, AccountTypes
  <2>3. Owed' = Owed
    BY <1>1, <2>2 DEF Owed, Answered
  <2>4. Accounted' = Accounted
    BY <2>1 DEF Accounted
  <2> QED BY <1>1, <2>3, <2>4 DEF OwedInv
<1> QED
  BY <1>5, <1>6

\* Nothing that is owed or accounted for changes.
LEMMA OwedKept ==
  ASSUME OwedInv, UNCHANGED <<handled, px_words>>, Accounted' = Accounted
  PROVE  OwedInv'
<1>1. Owed' = Owed
  BY DEF Owed, Answered
<1> QED
  BY <1>1 DEF OwedInv

\* The faults of a datagram received.
LEMMA FaultsReceived ==
  ASSUME KsimTypes, FaultInv, NEW dg \in Heard, NEW queue, Receive(dg, queue) PROVE FaultInv'
<1>1. /\ UNCHANGED <<options, crds_counted, sent, n_fail>> /\ client_known'
      /\ crd_count_armed' = (crd_count_armed \/ IsUploadCommand(dg))
      /\ dg.cmd \in Commands /\ dg.words \in Nat
      /\ spoilt' = [spoilt EXCEPT
           !.chunks = IF ChunkDropped(dg) THEN Append(@, px_chunks_seen + 1) ELSE @,
           !.strays = IF SendsStray THEN @ + 1 ELSE @]
      /\ px_chunks_seen' = IF dg.kind = "chunk" THEN px_chunks_seen + 1 ELSE px_chunks_seen
  BY HeardType DEF Receive
<1>2. spoilt \in [chunks : Seq(Nat), crds : Seq(Nat), strays : Nat] /\ FaultTypes
      /\ n_fail \in Nat /\ px_chunks_seen \in Nat
  BY DEF FaultInv, FaultTypes, ChunkFaults
<1>3. /\ spoilt'.crds = spoilt.crds
      /\ spoilt'.chunks = IF ChunkDropped(dg) THEN Append(spoilt.chunks, px_chunks_seen + 1)
                                              ELSE spoilt.chunks
      /\ spoilt'.strays = IF SendsStray THEN spoilt.strays + 1 ELSE spoilt.strays
      /\ spoilt' = [chunks |-> spoilt'.chunks, crds |-> spoilt'.crds, strays |-> spoilt'.strays]
  BY <1>1, <1>2
<1>4. FaultTypes'
  <2>1. Append(spoilt.chunks, px_chunks_seen + 1) \in Seq(Nat)
    BY <1>2, AppendProperties
  <2>2. spoilt'.chunks \in Seq(Nat) /\ spoilt'.crds \in Seq(Nat) /\ spoilt'.strays \in Nat
    BY <1>2, <1>3, <2>1
  <2> QED BY <1>1, <1>2, <1>3, <2>2 DEF FaultTypes
<1>5. OwedInv'
  <2>1. CASE UNCHANGED emu
    <3>1. UNCHANGED <<handled, px_words, crd, crd_dropped>>
      BY <2>1 DEF emu
    <3> QED BY <1>1, <1>3, <3>1, OwedKept DEF FaultInv, Accounted
  <2>2. CASE px_words > 0 /\ ConsumePxConfig(dg.words)
    BY <1>1, <1>2, <1>3, <2>2, OwedConsumed DEF FaultInv
  <2>3. CASE ~(px_words > 0) /\ HandleCmd(dg.cmd)
    <3>1. px_words = 0
      BY <1>2, <2>3, AccountTypes
    <3> QED BY <1>1, <1>2, <1>3, <2>3, <3>1, OwedHandled DEF FaultInv
  <2> QED BY <2>1, <2>2, <2>3 DEF Receive, CmdIn
<1>6. CrdFaults'
  BY <1>1, <1>3 DEF FaultInv, CrdFaults
<1>7. ChunkFaults'
  <2>1. options.drop_px_chunk \in Nat
    BY <1>2, AccountTypes
  <2>2. CASE ChunkDropped(dg)
    <3>1. /\ px_chunks_seen' = px_chunks_seen + 1 /\ px_chunks_seen + 1 = options.drop_px_chunk
          /\ options.drop_px_chunk \notin 1..px_chunks_seen
          /\ options.drop_px_chunk \in 1..(px_chunks_seen + 1)
      BY <1>1, <1>2, <2>1, <2>2 DEF ChunkDropped
    <3>2. spoilt.chunks = <<>>
      BY <3>1 DEF FaultInv, ChunkFaults
    <3>3. Append(<<>>, px_chunks_seen + 1) = <<px_chunks_seen + 1>>
      OBVIOUS
    <3> QED BY <1>1, <1>2, <1>3, <2>2, <3>1, <3>2, <3>3 DEF ChunkFaults
  <2>3. CASE ~ChunkDropped(dg)
    <3>1. px_chunks_seen' \in Nat
      BY <1>1, <1>2
    <3>2. options.drop_px_chunk \in 1..px_chunks_seen' <=> options.drop_px_chunk \in 1..px_chunks_seen
      BY <1>1, <1>2, <2>1, <2>3 DEF ChunkDropped
    <3> QED BY <1>1, <1>3, <2>3, <3>1, <3>2 DEF FaultInv, ChunkFaults
  <2> QED BY <2>2, <2>3
<1>8. StrayFaults'
  <2>1. CASE client_known
    BY <1>1, <1>3, <2>1 DEF SendsStray, FaultInv, StrayFaults
  <2>2. CASE ~client_known
    <3>1. spoilt.strays = 0 /\ stray_crd_pending = options.stray_crd
      BY <2>2 DEF FaultInv, StrayFaults
    <3> QED BY <1>1, <1>3, <2>2, <3>1 DEF SendsStray, StrayFaults
  <2> QED BY <2>1, <2>2
<1> QED
  BY <1>4, <1>5, <1>6, <1>7, <1>8 DEF FaultInv

\* A response that leaves the queue is sent, dropped or failed.
LEMMA FaultsSent ==
  ASSUME KsimTypes, FaultInv, NEW k \in DOMAIN crd, CrdStep(k) PROVE FaultInv'
<1>1. /\ UNCHANGED <<handled, px_words, crd_dropped, options, px_chunks_seen, crd_count_armed>>
      /\ UNCHANGED <<client_known, stray_crd_pending>> /\ crds_counted' = CountedCrds
  BY DEF CrdStep, loop, client
<1>2. /\ crd \in Seq(Responses) /\ sent \in Seq(Responses)
      /\ spoilt \in [chunks : Seq(Nat), crds : Seq(Nat), strays : Nat]
      /\ FaultTypes /\ CrdFaults
  BY DEF KsimTypes, FaultInv, FaultTypes
<1>3. /\ crd[k] \in Responses /\ crd[k].serial \in Nat
      /\ Len(crd') = Len(crd) - 1 /\ Len(crd') \in Nat
  <2>1. /\ crd # <<>> /\ crd[k] = Head(crd) /\ Head(crd) \in Responses
        /\ crd' \in Seq(Responses) /\ Len(crd') = Len(crd) - 1
    BY <1>2, LeavesFirst DEF CrdStep
  <2> QED BY <2>1, LenProperties DEF Responses
<1>4. /\ Len(sent) \in Nat /\ Len(crd) \in Nat /\ crd_dropped \in Nat /\ n_fail \in Nat
      /\ spoilt.crds \in Seq(Nat) /\ Len(spoilt.crds) \in Nat /\ options.drop_crd \in Nat
  BY <1>2, AccountTypes
<1>5. crds_counted' \in Nat /\ crds_counted <= crds_counted' /\ (~crd_count_armed' => crds_counted' = 0)
  BY <1>1, <1>2 DEF CrdFaults, CountedCrds
<1>6. ASSUME Accounted' = Accounted, FaultTypes', CrdFaults',
             spoilt'.chunks = spoilt.chunks, spoilt'.strays = spoilt.strays
      PROVE  FaultInv'
  <2>1. OwedInv'
    BY <1>1, <1>6, OwedKept DEF FaultInv
  <2> QED BY <1>1, <1>6, <2>1 DEF FaultInv, ChunkFaults, StrayFaults
<1>7. PICK s, q, d, f, l \in Nat :
        /\ s = Len(sent) /\ q = Len(crd) /\ d = crd_dropped /\ f = n_fail
        /\ l = Len(spoilt.crds) /\ Accounted = s + q + d + f + l
  BY <1>2, AccountOf
<1>8. CASE CrdDropped
  <2>1. /\ spoilt' = [spoilt EXCEPT !.crds = Append(@, crd[k].serial)]
        /\ UNCHANGED <<sent, n_fail>>
    BY <1>8 DEF CrdStep
  <2>2. crd_count_armed /\ options.drop_crd # 0 /\ options.drop_crd = crds_counted + 1
    BY <1>2, <1>4, <1>8 DEF CrdDropped, CountedCrds, CrdFaults
  <2>3. spoilt.crds = <<>>
    BY <1>2, <2>2 DEF CrdFaults
  <2>4. /\ Append(spoilt.crds, crd[k].serial) \in Seq(Nat)
        /\ Len(Append(spoilt.crds, crd[k].serial)) = Len(spoilt.crds) + 1
    BY <1>3, <1>4, AppendProperties
  <2>5. /\ spoilt'.crds = Append(spoilt.crds, crd[k].serial)
        /\ spoilt'.chunks = spoilt.chunks /\ spoilt'.strays = spoilt.strays
        /\ spoilt' \in [chunks : Seq(Nat), crds : Seq(Nat), strays : Nat]
    BY <1>2, <2>1, <2>4
  <2>6. Accounted' = Accounted
    <3>1. /\ Len(sent') = Len(sent) /\ crd_dropped' = crd_dropped /\ n_fail' = n_fail
          /\ Len(spoilt'.crds) = Len(spoilt.crds) + 1
      BY <1>1, <2>1, <2>4, <2>5
    <3>2. Accounted' = s + (q - 1) + d + f + (l + 1)
      BY <1>3, <1>7, <3>1, Zenon DEF Accounted
    <3>3. s + (q - 1) + d + f + (l + 1) = s + q + d + f + l
      OBVIOUS
    <3> QED BY <1>7, <3>2, <3>3, Zenon
  <2>7. FaultTypes'
    BY <1>4, <2>1, <2>5 DEF FaultTypes
  <2>8. Len(spoilt'.crds) = 1 /\ crds_counted' = crds_counted + 1
    BY <1>1, <2>2, <2>3, <2>4, <2>5 DEF CountedCrds
  <2>9. CrdFaults'
    BY <1>1, <1>4, <1>5, <2>2, <2>8 DEF CrdFaults
  <2> QED BY <1>6, <2>5, <2>6, <2>7, <2>9
<1>9. CASE ~CrdDropped
  <2>1. /\ UNCHANGED spoilt
        /\ \/ sent' = Append(sent, crd[k]) /\ UNCHANGED n_fail
           \/ n_fail' = n_fail + 1 /\ UNCHANGED sent
    BY <1>9 DEF CrdStep
  <2>2. Len(Append(sent, crd[k])) = Len(sent) + 1
    BY <1>2, <1>3, AppendProperties
  <2>3. Accounted' = Accounted
    <3>1. /\ crd_dropped' = crd_dropped /\ Len(spoilt'.crds) = Len(spoilt.crds)
          /\ \/ Len(sent') = Len(sent) + 1 /\ n_fail' = n_fail
             \/ n_fail' = n_fail + 1 /\ Len(sent') = Len(sent)
      BY <1>1, <2>1, <2>2
    <3>2. \/ Accounted' = (s + 1) + (q - 1) + d + f + l
          \/ Accounted' = s + (q - 1) + d + (f + 1) + l
      BY <1>3, <1>7, <3>1, Zenon DEF Accounted
    <3>3. /\ (s + 1) + (q - 1) + d + f + l = s + q + d + f + l
          /\ s + (q - 1) + d + (f + 1) + l = s + q + d + f + l
      OBVIOUS
    <3> QED BY <1>7, <3>2, <3>3, Zenon
  <2>4. FaultTypes'
    BY <1>2, <1>4, <2>1 DEF FaultTypes
  <2>5. CrdFaults'
    BY <1>1, <1>2, <1>4, <1>5, <2>1 DEF CrdFaults
  <2> QED BY <1>6, <2>1, <2>3, <2>4, <2>5
<1> QED
  BY <1>8, <1>9

LEMMA FaultInvStep == KsimTypes /\ FaultInv /\ [Next]_vars => FaultInv'
<1> SUFFICES ASSUME KsimTypes, FaultInv, [Next]_vars PROVE FaultInv'
  OBVIOUS
<1>1. ASSUME UNCHANGED <<handled, px_words, sent, crd_dropped, n_fail, spoilt>>,
             UNCHANGED <<options, crds_counted, crd_count_armed, px_chunks_seen>>,
             UNCHANGED <<client_known, stray_crd_pending>>, Len(crd') = Len(crd)
      PROVE  FaultInv'
  <2>1. Accounted' = Accounted
    BY <1>1 DEF Accounted
  <2>2. OwedInv'
    BY <1>1, <2>1, OwedKept DEF FaultInv
  <2>3. FaultTypes' /\ CrdFaults' /\ ChunkFaults' /\ StrayFaults'
    BY <1>1 DEF FaultInv, FaultTypes, CrdFaults, ChunkFaults, StrayFaults
  <2> QED BY <2>2, <2>3 DEF FaultInv
<1>2. CASE \/ StartupStep \/ StartupFails \/ LoopStarts \/ ReceiveInterrupted \/ DrainEnds
           \/ CrdsEnd \/ MdStep \/ MdsEnd \/ UNCHANGED vars
  <2>1. /\ UNCHANGED <<px_words, crd, crd_dropped, handled, options, client, history>>
        /\ UNCHANGED <<px_chunks_seen, crd_count_armed, crds_counted>>
    BY <1>2 DEF StartupStep, StartupFails, LoopStarts, ReceiveInterrupted, DrainEnds,
         CrdsEnd, MdStep, MdsEnd, DataOut, GoTo, vars, loop, faults, emu
  <2> QED BY <1>1, <2>1 DEF client, history
<1>3. CASE LogOut \/ Stop
  <2>1. /\ UNCHANGED <<handled, px_words, sent, crd, crd_dropped, n_fail, spoilt>>
        /\ UNCHANGED <<options, client, faults>>
    BY <1>3 DEF LogOut, Stop, GoTo
  <2> QED BY <1>1, <2>1 DEF client, faults
<1>4. ASSUME NEW d \in Steps, Advance(d) PROVE FaultInv'
  <2>1. /\ UNCHANGED <<handled, px_words, crd_dropped, options, client, faults, history>>
        /\ Len(crd') = Len(crd)
    BY <1>4, AdvanceType DEF Advance, GoTo
  <2> QED BY <1>1, <2>1 DEF client, faults, history
<1> QED
  BY <1>2, <1>3, <1>4, FaultsReceived, FaultsSent, StepKinds

LEMMA FaultInvInit == Init => FaultInv
<1> SUFFICES ASSUME Init PROVE FaultInv
  OBVIOUS
<1>1. /\ handled = <<>> /\ sent = <<>> /\ crd = <<>> /\ crd_dropped = 0 /\ n_fail = 0
      /\ px_words = 0 /\ spoilt = [chunks |-> <<>>, crds |-> <<>>, strays |-> 0]
      /\ crds_counted = 0 /\ px_chunks_seen = 0 /\ ~client_known
      /\ stray_crd_pending = options.stray_crd
  BY DEF Init, EmuInit
<1>2. spoilt.crds = <<>> /\ spoilt.chunks = <<>> /\ spoilt.strays = 0 /\ FaultTypes
  BY <1>1, EmptySeq DEF FaultTypes
<1>3. Owed = {} /\ Accounted = 0
  BY <1>1, <1>2 DEF Owed, Accounted
<1>4. OwedInv
  BY <1>1, <1>3, FS_EmptySet DEF OwedInv
<1>5. CrdFaults /\ ChunkFaults /\ StrayFaults
  BY <1>1, <1>2 DEF CrdFaults, ChunkFaults, StrayFaults
<1> QED
  BY <1>2, <1>4, <1>5 DEF FaultInv

\* What FaultsAccounted says of one state.
LEMMA FaultsInState == KsimTypes /\ FaultInv => FaultsAccounted
<1> SUFFICES ASSUME KsimTypes, FaultInv PROVE FaultsAccounted
  OBVIOUS
<1>1. Len(spoilt.crds) <= 1
  <2>1. PICK s \in Seq(Nat) : s = spoilt.crds
    BY DEF FaultInv, FaultTypes
  <2>2. s = <<>> \/ Len(s) = 1
    BY <2>1 DEF FaultInv, CrdFaults
  <2>3. Len(s) = 0 \/ Len(s) = 1
    BY <2>2, EmptySeq, Zenon
  <2>4. \A n \in {0, 1} : n <= 1
    OBVIOUS
  <2> QED BY <2>1, <2>3, <2>4, Zenon
<1>2. ResponsesConserved
  BY <1>1 DEF ResponsesConserved, FaultInv, OwedInv, Owed, Accounted
<1>3. FaultsAsChosen
  BY DEF FaultsAsChosen, FaultInv, CrdFaults, ChunkFaults, StrayFaults
<1> QED
  BY <1>2, <1>3 DEF FaultsAccounted

\* Every command that is to be answered has its response sent, queued, or lost
\* for one of the reasons there are, and the injected faults spoil what was
\* chosen and nothing else (FaultsAccounted).
THEOREM LossesHaveReasons == Spec => []FaultsAccounted
BY KsimTypesInit, KsimTypesStep, FaultInvInit, FaultInvStep, FaultsInState, PTL DEF Spec
=============================================================================
