----------------------------- MODULE EmuCommand -----------------------------
(***************************************************************************)
(* The command responder of the emulated readout (c/src/emu/emulator.c):   *)
(* its registers, the pixel configuration upload, the response queue with  *)
(* latency, and the command log.                                           *)
(*                                                                         *)
(* The module has no behaviour of its own: its operators are the calls of  *)
(* the emulator, which belong to the caller's steps (Ksim).  A command is  *)
(* an operation, a sub-index and a payload word; commands that are handled *)
(* alike are one operation.  Time is relative: a response carries the time *)
(* it still has to wait, which the clock takes away.  Jitter is any number *)
(* up to its bound.                                                        *)
(***************************************************************************)
EXTENDS Integers, Sequences, FiniteSets

CONSTANTS
  Commands,      \* [op, sub, word]
  IndexCount,    \* KATHERINE_EMU_SENSOR_REG_COUNT and the like
  Latency, MaxJitter,
  ApplyTime,     \* KATHERINE_EMU_TP_APPLY_NS
  QueueCap,      \* KATHERINE_EMU_CRD_QUEUE_CAP
  LogCap,        \* KATHERINE_EMU_LOG_CAP
  ConfigWords    \* KATHERINE_EMU_PX_CONFIG_WORDS

VARIABLES
  regs,          \* the register file
  px_words,      \* words the upload still waits for; zero when none is active
  armed,         \* the measurement data stream is armed
  crd,           \* the response queue
  crd_dropped, unknown_cmds,
  log, log_head, log_count,
  handled        \* history: the commands handle_cmd has seen, oldest first

emu == <<regs, px_words, armed, crd, crd_dropped, unknown_cmds,
         log, log_head, log_count, handled>>

\* Operations by what they do.  The first two kinds also store their word,
\* the second at the sub-index if there is such a register, the third at the
\* sub-index modulo their number.
WordOps == {"bias", "acq_time", "acq_mode", "no_frames", "led", "tokens", "tdc",
            "test_pulse"}
BoundedOps == {"dac", "sensor_reg"}
WrappingOps == {"acq_setup", "trigger_gen"}
PlainOps == {"hw_command", "set_pixel", "toa_calibration"}
Inquiries == {"get_bias", "back_read", "comm_status", "status", "chip_id",
              "temperature", "adc", "digital_test"}
MuteOps == {"readout_mode", "start", "stop", "interface", "upload"}
Ops == WordOps \cup BoundedOps \cup WrappingOps \cup PlainOps \cup Inquiries
         \cup MuteOps \cup {"unknown"}

Indices == 0..(IndexCount - 1)
Cells == ((WordOps \cup {"readout_mode"}) \X {0})
           \cup ((BoundedOps \cup WrappingOps) \X Indices)
Payloads == {c.word : c \in Commands}

ASSUME CommandAssumption ==
  /\ \A c \in Commands : c.op \in Ops /\ c.sub \in Nat /\ c.word \in Nat
  /\ IndexCount \in Nat \ {0} /\ ConfigWords \in Nat \ {0}
  /\ QueueCap \in Nat \ {0} /\ LogCap \in Nat \ {0}
  /\ Latency \in Nat /\ MaxJitter \in Nat /\ ApplyTime \in Nat

Blank == [op |-> "blank", sub |-> 0, word |-> 0]

EmuInit ==
  /\ regs = [cell \in Cells |-> 0]
  /\ px_words = 0 /\ armed = FALSE
  /\ crd = <<>> /\ crd_dropped = 0 /\ unknown_cmds = 0
  /\ log = [s \in 0..(LogCap - 1) |-> Blank] /\ log_head = 0 /\ log_count = 0
  /\ handled = <<>>

---------------------------------------------------------------------------
(* log_cmd                                                                 *)

\* Faulty variant: a full log overwrites a slot and forgets to move its head.
HeadForgotten == log_head

HeadMoved == (log_head + 1) % LogCap

LogCmd(c) ==
  LET full == log_count = LogCap
      head == IF full THEN HeadMoved ELSE log_head
      count == IF full THEN log_count - 1 ELSE log_count
  IN /\ log_head' = head
     /\ log' = [log EXCEPT ![(head + count) % LogCap] = c]
     /\ log_count' = count + 1

\* katherine_emu_log_read, called until the log is empty.
LogRead ==
  /\ log_head' = (log_head + log_count) % LogCap
  /\ log_count' = 0
  /\ UNCHANGED log

Logged == [k \in 1..log_count |-> log[(log_head + k - 1) % LogCap]]

---------------------------------------------------------------------------
(* queue_crd                                                               *)

\* serial: the command answered; wait: time until the response is due.
Response(c, value, apply, jitter) ==
  [serial |-> Len(handled'), op |-> c, value |-> value,
   wait |-> Latency + jitter + apply]

QueueCrd(op, value, apply) ==
  \E jitter \in 0..MaxJitter :
    IF Len(crd) = QueueCap
    THEN crd_dropped' = crd_dropped + 1 /\ UNCHANGED crd
    ELSE /\ crd' = Append(crd, Response(op, value, apply, jitter))
         /\ UNCHANGED crd_dropped

---------------------------------------------------------------------------
(* handle_cmd                                                              *)

Writes(c) ==
  CASE c.op \in WordOps \cup {"readout_mode"} -> {<<c.op, 0>>}
    [] c.op \in BoundedOps -> {<<c.op, c.sub>>} \cap Cells
    [] c.op \in WrappingOps -> {<<c.op, c.sub % IndexCount>>}
    [] OTHER -> {}

\* What a response carries besides the operation.  The back-read names its
\* register in the payload, the communication status says whether the readout
\* is measuring; inquiries of the profile answer a constant.
Answer(c, file) ==
  CASE c.op = "get_bias" -> file[<<"bias", 0>>]
    [] c.op = "back_read" /\ c.word \in Indices -> file[<<"sensor_reg", c.word>>]
    [] c.op = "comm_status" /\ armed -> 1
    [] OTHER -> 0

Answered(c) == c.op \notin MuteOps

\* An acquisition of no frames arms nothing.
Arms(c) ==
  CASE c.op = "start" -> BOOLEAN
    [] c.op = "stop" -> {FALSE}
    [] OTHER -> {armed}

HandleCmd(c) ==
  /\ handled' = Append(handled, c)
  /\ LogCmd(c)
  /\ regs' = [cell \in Cells |-> IF cell \in Writes(c) THEN c.word ELSE regs[cell]]
  /\ px_words' = IF c.op = "upload" THEN ConfigWords ELSE px_words
  /\ armed' \in Arms(c)
  /\ unknown_cmds' = IF c.op = "unknown" THEN unknown_cmds + 1 ELSE unknown_cmds
  /\ IF Answered(c)
     THEN QueueCrd(c.op, Answer(c, regs), IF c.op = "test_pulse" THEN ApplyTime ELSE 0)
     ELSE UNCHANGED <<crd, crd_dropped>>

Completes(words) == words >= px_words

\* consume_px_config
ConsumePxConfig(words) ==
  /\ px_words' = IF Completes(words) THEN 0 ELSE px_words - words
  /\ handled' = handled
  /\ IF Completes(words) THEN QueueCrd("upload", 0, 0)
                        ELSE UNCHANGED <<crd, crd_dropped>>
  /\ UNCHANGED <<regs, armed, unknown_cmds, log, log_head, log_count>>

\* katherine_emu_cmd_in of a datagram [kind, words, cmd].  What is shorter
\* than a command is none, unless an upload takes it.
CmdIn(dg) ==
  IF px_words > 0 THEN ConsumePxConfig(dg.words)
  ELSE IF dg.kind = "short" THEN UNCHANGED emu
  ELSE HandleCmd(dg.cmd)

\* katherine_emu_data_out, as far as it is seen here: generating the last of
\* its data ends an acquisition.
DataOut ==
  /\ armed' \in {armed, FALSE}
  /\ UNCHANGED <<regs, px_words, crd, crd_dropped, unknown_cmds, log, log_head,
                 log_count, handled>>

---------------------------------------------------------------------------
(* katherine_emu_crd_out, katherine_emu_advance                            *)

\* Faulty variant: the first response that is due leaves, not the first one.
AnyDue == {k \in DOMAIN crd : crd[k].wait = 0}

Due == {k \in DOMAIN crd : k = 1 /\ crd[k].wait = 0}

Leaves(k) == crd' = SubSeq(crd, 1, k - 1) \o SubSeq(crd, k + 1, Len(crd))

CrdOut(k) == k \in Due /\ Leaves(k)

\* Faulty variant: the clock is set to the time elapsed, not advanced by it.
RemainingOfStep(wait, d) == IF wait > d THEN wait ELSE 0

Remaining(wait, d) == IF wait > d THEN wait - d ELSE 0

AdvanceCrd(d) == crd' = [k \in DOMAIN crd |-> [crd[k] EXCEPT !.wait = Remaining(@, d)]]

---------------------------------------------------------------------------
(* Reference definitions, for the properties.                              *)

\* The sub-index names the register, modulo the number of them where the
\* set is cyclic.
Sets(c, cell) ==
  \/ c.op = cell[1] /\ c.sub = cell[2]
  \/ c.op = cell[1] /\ c.op \in WordOps
  \/ c.op = cell[1] /\ c.op \in WrappingOps /\ (c.sub - cell[2]) % IndexCount = 0

\* v is the word last set in a register by the first n commands, or zero.
LastSet(cell, n, v) ==
  \/ v = 0 /\ \A k \in 1..n : ~Sets(handled[k], cell)
  \/ \E k \in 1..n : /\ Sets(handled[k], cell) /\ v = handled[k].word
                     /\ \A j \in (k + 1)..n : ~Sets(handled[j], cell)

\* An acquisition was started by the first n commands, and not stopped.
Measuring(n) ==
  \E k \in 1..n : /\ handled[k].op = "start"
                  /\ \A j \in (k + 1)..n : handled[j].op # "stop"

\* v is what the inquiry handled[n] has to answer.  An acquisition may also
\* end by itself.
TrueAnswer(n, v) ==
  LET c == handled[n]
  IN CASE c.op = "get_bias" -> LastSet(<<"bias", 0>>, n, v)
       [] c.op = "back_read" /\ c.word < IndexCount -> LastSet(<<"sensor_reg", c.word>>, n, v)
       [] c.op = "comm_status" -> v = 0 \/ (v = 1 /\ Measuring(n))
       [] OTHER -> v = 0
=============================================================================
