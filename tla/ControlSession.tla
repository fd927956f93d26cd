--------------------------- MODULE ControlSession ---------------------------
(***************************************************************************)
(* The control session: threads of the client that call the configuration  *)
(* and status functions (c/src/config.c, c/src/status.c over               *)
(* c/src/command_interface.h), the control path and the command responder  *)
(* of the emulated readout (c/src/emu/emulator.c).                         *)
(*                                                                         *)
(* Every function takes the lock of the control socket, sends its commands *)
(* one by one and waits for the response of each.  A response is accepted  *)
(* for whatever command was sent last: the client does not look at its     *)
(* operation code.  The upload of the pixel configuration is the one       *)
(* function that is repeated, after a recovery that floods the readout     *)
(* with filler and discards what it answers.                               *)
(*                                                                         *)
(* Datagrams carry the number under which the client sent them, and a      *)
(* response the number of the command it answers.  The numbers are not on  *)
(* the wire; only the properties look at them.                             *)
(***************************************************************************)
EXTENDS Integers, Sequences, FiniteSets

CONSTANTS
  Threads, NoThread,
  Functions,    \* functions other than the upload: records [cmds, acked, tries]
  Uploads,      \* the upload is called as well
  Dacs,         \* digital-to-analog converters (18)
  Patience,     \* receives for the answer to the test pulse command (50)
  Chunks,       \* datagrams of a pixel configuration (64)
  ChunkWords,   \* configuration words in one of them (256)
  CmdWords,     \* words the readout makes of a command datagram (2)
  Fillers,      \* filler datagrams of the recovery (3 * 64)
  MaxDrain,     \* responses it discards at most (512)
  MaxAttempts,  \* attempts of the upload (10)
  MaxAcks,      \* receives for the acknowledgement of an attempt (10)
  QueueCap,     \* KATHERINE_EMU_CRD_QUEUE_CAP
  Lossy,        \* kinds of datagrams the path may lose
  MaxLate,      \* bound: receives that time out with a response under way
  MaxLoss,      \* bound: datagrams lost
  MaxFail,      \* bound: sends that fail
  MaxCalls      \* bound: calls

\* A function of the library: how many commands it sends one after another,
\* whether they are answered, how often it receives for each answer, and how
\* often it uploads a pixel configuration before them until that succeeds.
Function == [cmds : Nat \ {0}, acked : BOOLEAN, tries : Nat \ {0},
             attempts : 0..MaxAttempts]

Exchanges(n) == [cmds |-> n, acked |-> TRUE, tries |-> 1, attempts |-> 0]

SetRegister == Exchanges(1)      \* bias, number of frames, triggers
HardwareCommand == Exchanges(1)  \* sensor registers, output block, timer
Inquiry == Exchanges(1)          \* status, chip identifier, temperatures
SetAcqTime == Exchanges(2)       \* low and high word
SetDacs == Exchanges(Dacs + 1)   \* each converter, then their update

\* Not answered: the choice of the readout chain, start and stop.
MuteCommand == [Exchanges(1) EXCEPT !.acked = FALSE]

\* The answer takes many receive timeouts.
SetTestPulses == [Exchanges(1) EXCEPT !.tries = Patience]
DigitalTest == [Exchanges(1) EXCEPT !.tries = 2 * Patience]

\* The upload of the pixel configuration, with hardware commands 5 and 9.
Upload == [Exchanges(2) EXCEPT !.attempts = MaxAttempts]

Kinds == {"cmd", "mute", "upload", "chunk", "filler", "response"}

ASSUME SessionAssumption ==
  /\ NoThread \notin Threads
  /\ Functions \subseteq Function /\ Uploads \in BOOLEAN
  /\ {Dacs, Patience, Chunks, ChunkWords, CmdWords, MaxAttempts, MaxAcks, QueueCap} \subseteq Nat \ {0}
  /\ Fillers >= Chunks /\ Fillers \in Nat
  /\ MaxDrain > Fillers + 1 /\ MaxDrain \in Nat
  /\ Lossy \subseteq Kinds /\ MaxLate \in Nat
  /\ MaxLoss \in Nat /\ MaxFail \in Nat /\ MaxCalls \in Nat

VARIABLES
  th,           \* the threads: where they are in which function
  lock,         \* the holder of the mutex of the control socket
  c2r,          \* datagrams on their way to the readout
  inbox,        \* responses in the receive buffer of the control socket
  crd,          \* responses queued by the readout
  px_upload_active, px_upload_words,
  \* History variables, read by the properties only.
  matrix,       \* what the readout took for pixel configuration since 0x12
  upload_id,    \* the 0x12 command it took it for
  executed,     \* commands the readout has executed
  pairs,        \* <<command, command answered>> of each accepted response

  n_sent, n_loss, n_fail, n_late, n_calls

client == <<th, lock, pairs>>
readout == <<crd, px_upload_active, px_upload_words, matrix, upload_id, executed>>
bounds == <<n_loss, n_fail, n_calls, n_late>>
vars == <<client, readout, c2r, inbox, n_sent, bounds>>

Idle == [pc |-> "idle", func |-> Upload, n |-> 0, waits |-> 0, attempts |-> 0,
         i |-> 0, id |-> 0, ids |-> {}, res |-> "none"]

Init ==
  /\ th = [t \in Threads |-> Idle] /\ lock = NoThread
  /\ c2r = <<>> /\ inbox = <<>> /\ crd = <<>>
  /\ px_upload_active = FALSE /\ px_upload_words = 0
  /\ matrix = <<>> /\ upload_id = 0 /\ executed = {} /\ pairs = {}
  /\ n_late = 0 /\ n_sent = 0 /\ n_loss = 0 /\ n_fail = 0 /\ n_calls = 0

---------------------------------------------------------------------------
(* Sending and receiving.                                                  *)

At(t, pc) == th[t].pc = pc

Words(kind) == IF kind \in {"chunk", "filler"} THEN ChunkWords ELSE CmdWords

\* Datagram n_sent + 1.  A chunk knows which one it is of which upload.
Send(kind, of, idx) ==
  /\ c2r' = Append(c2r, [kind |-> kind, id |-> n_sent + 1, of |-> of, idx |-> idx])
  /\ n_sent' = n_sent + 1
  /\ UNCHANGED <<readout, inbox, pairs, bounds>>

SendFails ==
  /\ n_fail < MaxFail
  /\ n_fail' = n_fail + 1
  /\ UNCHANGED <<readout, c2r, inbox, pairs, n_sent, n_loss, n_calls, n_late>>

\* katherine_cmd_wait_ack takes the next response, whatever it answers.
TakeResponse ==
  /\ inbox # <<>>
  /\ inbox' = Tail(inbox)
  /\ UNCHANGED <<readout, c2r, n_sent, bounds>>

\* The receive timeout expires (EAGAIN).  Unless responses may be late, that
\* means that none is coming.
Silence ==
  /\ inbox = <<>>
  /\ \/ c2r = <<>> /\ crd = <<>> /\ UNCHANGED n_late
     \/ (c2r # <<>> \/ crd # <<>>) /\ n_late < MaxLate /\ n_late' = n_late + 1
  /\ UNCHANGED <<readout, c2r, inbox, pairs, n_sent, n_loss, n_fail, n_calls>>

\* Faulty variant: the lock is not released when a function fails.
ReturnHolding(t, res) ==
  /\ th' = [th EXCEPT ![t].pc = "idle", ![t].res = res]
  /\ lock' = IF res = "ok" THEN NoThread ELSE lock

Return(t, res) ==
  /\ th' = [th EXCEPT ![t].pc = "idle", ![t].res = res]
  /\ lock' = NoThread

---------------------------------------------------------------------------
(* Every function.                                                         *)

Called == Functions \cup IF Uploads THEN {Upload} ELSE {}

Call(t) ==
  /\ At(t, "idle") /\ n_calls < MaxCalls
  /\ \E f \in Called : th' = [th EXCEPT ![t] = [Idle EXCEPT !.pc = "lock", !.func = f]]
  /\ n_calls' = n_calls + 1
  /\ UNCHANGED <<lock, pairs, readout, c2r, inbox, n_sent, n_loss, n_fail, n_late>>

\* Faulty variant: the lock is not looked at.
LockIgnored == TRUE

LockFree == lock = NoThread

Locked(t) ==
  /\ At(t, "lock") /\ LockFree
  /\ lock' = t
  /\ th' = IF th[t].func.attempts > 0
           THEN [th EXCEPT ![t].pc = "attempt", ![t].attempts = th[t].func.attempts,
                           ![t].res = "EAGAIN"]
           ELSE [th EXCEPT ![t].pc = "send", ![t].n = th[t].func.cmds]
  /\ UNCHANGED <<pairs, readout, c2r, inbox, n_sent, bounds>>

\* One command of several is over.
NextCommand(t) ==
  IF th[t].n > 1
  THEN /\ th' = [th EXCEPT ![t].pc = "send", ![t].n = @ - 1]
       /\ UNCHANGED lock
  ELSE Return(t, "ok")

SendCommand(t) ==
  /\ At(t, "send") /\ th[t].func.acked
  /\ Send("cmd", 0, 0)
  /\ th' = [th EXCEPT ![t].pc = "wait", ![t].waits = th[t].func.tries,
                      ![t].id = n_sent + 1, ![t].ids = @ \cup {n_sent + 1}]
  /\ UNCHANGED lock

\* Start, stop and the choice of the readout chain are not answered.
SendMuteCommand(t) ==
  /\ At(t, "send") /\ ~th[t].func.acked
  /\ Send("mute", 0, 0)
  /\ NextCommand(t)

CommandSendFails(t) ==
  /\ At(t, "send") /\ SendFails
  /\ Return(t, "EIO")

ResponseArrives(t) ==
  /\ At(t, "wait") /\ TakeResponse
  /\ pairs' = pairs \cup {<<th[t].id, Head(inbox).to>>}
  /\ NextCommand(t)

\* The digital test and the test pulses wait more than once.
ResponseMissing(t) ==
  /\ At(t, "wait") /\ Silence
  /\ \/ /\ th[t].waits > 1
        /\ th' = [th EXCEPT ![t].waits = @ - 1] /\ UNCHANGED lock
     \/ /\ th[t].waits = 1
        /\ Return(t, "EAGAIN")

Simple(t) ==
  \/ Call(t) \/ Locked(t) \/ SendCommand(t) \/ SendMuteCommand(t)
  \/ CommandSendFails(t) \/ ResponseArrives(t) \/ ResponseMissing(t)

---------------------------------------------------------------------------
(* katherine_set_all_pixel_config.                                         *)

AttemptsAfter(n) == n - 1

\* Command 0x12 starts an attempt.
AttemptStarts(t) ==
  /\ At(t, "attempt") /\ th[t].attempts > 0
  /\ Send("upload", 0, 0)
  /\ th' = [th EXCEPT ![t].pc = "chunks", ![t].attempts = AttemptsAfter(@),
                      ![t].i = 1, ![t].id = n_sent + 1, ![t].ids = {n_sent + 1}]
  /\ UNCHANGED lock

\* When it cannot be sent the attempt is over, without a recovery.
AttemptSendFails(t) ==
  /\ At(t, "attempt") /\ th[t].attempts > 0 /\ SendFails
  /\ th' = [th EXCEPT ![t].attempts = AttemptsAfter(@), ![t].res = "EIO"]
  /\ UNCHANGED lock

AttemptsExhausted(t) ==
  /\ At(t, "attempt") /\ th[t].attempts = 0
  /\ Return(t, th[t].res)
  /\ UNCHANGED <<pairs, readout, c2r, inbox, n_sent, bounds>>

ChunkSent(t) ==
  /\ At(t, "chunks")
  /\ Send("chunk", th[t].id, th[t].i)
  /\ th' = [th EXCEPT ![t].i = @ + 1,
              ![t].pc = IF th[t].i = Chunks THEN "ack" ELSE "chunks",
              ![t].waits = MaxAcks]
  /\ UNCHANGED lock

\* No acknowledgement is waited for when a chunk cannot be sent.
ChunkSendFails(t) ==
  /\ At(t, "chunks") /\ SendFails
  /\ th' = [th EXCEPT ![t].pc = "flood", ![t].i = 1, ![t].res = "EIO"]
  /\ UNCHANGED lock

\* Hardware commands 5 and 9 follow an acknowledged upload.
UploadAcknowledged(t) ==
  /\ At(t, "ack") /\ TakeResponse
  /\ pairs' = pairs \cup {<<th[t].id, Head(inbox).to>>}
  /\ th' = [th EXCEPT ![t].pc = "send", ![t].n = th[t].func.cmds]
  /\ UNCHANGED lock

UploadNotAcknowledged(t) ==
  /\ At(t, "ack") /\ Silence
  /\ th' = IF th[t].waits > 1 THEN [th EXCEPT ![t].waits = @ - 1]
           ELSE [th EXCEPT ![t].pc = "flood", ![t].i = 1, ![t].res = "EAGAIN"]
  /\ UNCHANGED lock

\* Faulty variant: the recovery sends a single filler.
FloodOver(i) == TRUE

FloodEnds(i) == i = Fillers

\* recover_from_incomplete_set_all_pixel_config.  A filler that cannot be
\* sent is not missed.
FillerSent(t) ==
  /\ At(t, "flood")
  /\ Send("filler", 0, th[t].i) \/ SendFails
  /\ th' = IF FloodEnds(th[t].i) THEN [th EXCEPT ![t].pc = "drain", ![t].i = MaxDrain]
           ELSE [th EXCEPT ![t].i = @ + 1]
  /\ UNCHANGED lock

\* Faulty variant: a single response is discarded.
DrainOnce(i) == i = MaxDrain

DrainGoesOn(i) == i > 0

ResponseDiscarded(t) ==
  /\ At(t, "drain") /\ DrainGoesOn(th[t].i) /\ TakeResponse
  /\ th' = [th EXCEPT ![t].i = @ - 1]
  /\ UNCHANGED <<lock, pairs>>

\* It is over when the socket has been silent for a receive timeout.
DrainEnds(t) ==
  /\ At(t, "drain")
  /\ \/ DrainGoesOn(th[t].i) /\ Silence
     \/ ~DrainGoesOn(th[t].i) /\ UNCHANGED <<pairs, readout, c2r, inbox, n_sent, bounds>>
  /\ th' = [th EXCEPT ![t].pc = "attempt", ![t].i = 0]
  /\ UNCHANGED lock

UploadStep(t) ==
  \/ AttemptStarts(t) \/ AttemptSendFails(t) \/ AttemptsExhausted(t)
  \/ ChunkSent(t) \/ ChunkSendFails(t) \/ UploadAcknowledged(t)
  \/ UploadNotAcknowledged(t) \/ FillerSent(t) \/ ResponseDiscarded(t) \/ DrainEnds(t)

---------------------------------------------------------------------------
(* The readout: katherine_emu_cmd_in and katherine_emu_crd_out.            *)

QueueFull == Len(crd) = QueueCap

\* queue_crd: what does not fit is dropped.
QueueResponse(id) == crd' = IF QueueFull THEN crd ELSE Append(crd, [to |-> id])

WholeMatrix == [k \in 1..Chunks |-> <<upload_id, k>>]

\* While an upload is in progress every datagram is taken for pixel data.
ConsumePxConfig(d) ==
  /\ px_upload_active
  /\ matrix' = Append(matrix, <<d.of, d.idx>>)
  /\ IF Words(d.kind) >= px_upload_words
     THEN /\ px_upload_words' = 0 /\ px_upload_active' = FALSE
          /\ QueueResponse(upload_id)
          /\ executed' = IF matrix' = WholeMatrix THEN executed \cup {upload_id}
                         ELSE executed
     ELSE /\ px_upload_words' = px_upload_words - Words(d.kind)
          /\ UNCHANGED <<px_upload_active, crd, executed>>
  /\ UNCHANGED upload_id

UploadBegins(d) ==
  /\ px_upload_active' = TRUE /\ px_upload_words' = Chunks * ChunkWords
  /\ matrix' = <<>> /\ upload_id' = d.id
  /\ UNCHANGED <<crd, executed>>

Executes(d) ==
  /\ executed' = executed \cup {d.id}
  /\ UNCHANGED <<px_upload_active, px_upload_words, matrix, upload_id>>

\* handle_cmd: unknown commands are answered as well, which is what the
\* filler is; a chunk taken for a command can be any command.
HandleCmd(d) ==
  /\ ~px_upload_active
  /\ \/ d.kind = "upload" /\ UploadBegins(d)
     \/ d.kind \in {"cmd", "filler"} /\ Executes(d) /\ QueueResponse(d.id)
     \/ d.kind = "mute" /\ Executes(d) /\ UNCHANGED crd
     \/ d.kind = "chunk" /\ \/ Executes(d) /\ QueueResponse(d.id)
                            \/ Executes(d) /\ UNCHANGED crd
                            \/ UploadBegins(d)

CmdIn ==
  /\ c2r # <<>>
  /\ c2r' = Tail(c2r)
  /\ ConsumePxConfig(Head(c2r)) \/ HandleCmd(Head(c2r))
  /\ UNCHANGED <<client, inbox, n_sent, bounds>>

\* A response that is due is sent.
CrdOut ==
  /\ crd # <<>>
  /\ crd' = Tail(crd)
  /\ inbox' = Append(inbox, Head(crd))
  /\ UNCHANGED <<client, px_upload_active, px_upload_words, matrix, upload_id,
                 executed, c2r, n_sent, bounds>>

---------------------------------------------------------------------------
(* The path loses datagrams.                                               *)

Loss ==
  /\ n_loss < MaxLoss
  /\ n_loss' = n_loss + 1
  /\ UNCHANGED <<client, inbox, px_upload_active, px_upload_words, matrix,
                 upload_id, executed, n_sent, n_fail, n_calls, n_late>>

CommandLost ==
  /\ Loss /\ c2r # <<>> /\ Head(c2r).kind \in Lossy
  /\ c2r' = Tail(c2r) /\ UNCHANGED crd

ResponseLost ==
  /\ Loss /\ crd # <<>> /\ "response" \in Lossy
  /\ crd' = Tail(crd) /\ UNCHANGED c2r

Next ==
  \/ \E t \in Threads : Simple(t) \/ UploadStep(t)
  \/ CmdIn \/ CrdOut \/ CommandLost \/ ResponseLost

Spec == Init /\ [][Next]_vars

(***************************************************************************)
(* Fairness: a thread inside a function runs on, its receives return       *)
(* (the control socket has a receive timeout), a thread that waits for the *)
(* lock is served in the end, and the readout handles what it is sent.     *)
(* Nothing obliges anyone to call.                                         *)
(***************************************************************************)
Runs(t) == ~At(t, "idle") /\ ~At(t, "lock") /\ (Simple(t) \/ UploadStep(t))

Fairness ==
  /\ \A t \in Threads : WF_vars(Runs(t)) /\ SF_vars(Locked(t))
  /\ WF_vars(CmdIn) /\ WF_vars(CrdOut)

FairSpec == Spec /\ Fairness

---------------------------------------------------------------------------
(* Properties                                                              *)

Pcs == {"idle", "lock", "send", "wait", "attempt", "chunks", "ack", "flood", "drain"}

Thread == [pc : Pcs, func : Functions \cup {Upload}, n : Nat, waits : Nat,
           attempts : 0..MaxAttempts, i : 0..(MaxDrain + Chunks), id : Nat,
           ids : SUBSET Nat, res : {"none", "ok", "EAGAIN", "EIO"}]

Datagram == [kind : Kinds, id : Nat, of : Nat, idx : Nat]

\* Every variable keeps its type and the response queue its capacity.
TypeOK ==
  /\ th \in [Threads -> Thread] /\ lock \in Threads \cup {NoThread}
  /\ c2r \in Seq(Datagram) /\ inbox \in Seq([to : Nat])
  /\ crd \in Seq([to : Nat]) /\ Len(crd) <= QueueCap
  /\ px_upload_active \in BOOLEAN /\ px_upload_words \in 0..(Chunks * ChunkWords)
  /\ matrix \in Seq(Nat \X Nat) /\ upload_id \in Nat
  /\ executed \subseteq Nat /\ pairs \subseteq Nat \X Nat
  /\ n_late \in Nat /\ n_sent \in Nat /\ n_loss \in Nat /\ n_fail \in Nat /\ n_calls \in Nat

\* While responses arrive within the receive timeout, every response a
\* function accepts answers the command it has sent, whatever was lost or
\* failed before it and however often uploads were repeated: the recovery
\* leaves no response behind, and no function that fails does.
AckIsOwn == n_late = 0 => \A p \in pairs : p[1] = p[2]

\* A function that has returned 0 has had its effect: the readout executed
\* each of its commands, and took the pixel configuration of an upload whole
\* and in order, with no other thread's command in it.
OkMeansDone ==
  n_late = 0 =>
  \A t \in Threads : At(t, "idle") /\ th[t].res = "ok" => th[t].ids \subseteq executed

\* However an upload has ended, the readout is not left consuming the
\* commands that follow as pixel data (the comment of the recovery).
UploadClosed ==
  n_late = 0 /\ (\A t \in Threads : At(t, "idle")) /\ c2r = <<>> => ~px_upload_active

\* Every call returns: attempts and receives are bounded also when responses
\* come late, datagrams are lost, and several threads compete for the lock.
EveryCallReturns == \A t \in Threads : ~At(t, "idle") ~> At(t, "idle")
=============================================================================
