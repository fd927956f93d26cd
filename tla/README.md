# A formal model of libkatherine

libkatherine is a C library that controls the Katherine readout of Timepix3
pixel detectors over UDP. This directory holds TLA+ modules that model it (the
acquisition object, the control session, the UDP session and the device below
them, the pixel configuration, the emulated readout and the daemon around it),
the TLC configurations that check them on small instances, and theorems about
them checked by TLAPS. `PROJECT.json` lists the components, the runs, a mutant
for every checked property, the source lines behind every definition, the
hazards of the code, the findings and the theorems.

    tlc -workers 2 -config AcqFrames.cfg MCAcquisition    # one run
    tlapm AcquisitionProofs.tla                           # one module of proofs

## 1. Inventory

| Component | Source | State | Operations | Talks to |
|---|---|---|---|---|
| Acquisition | `c/src/acquisition.c`, `acquisition.h`, `md.h` | verdict, abort flag, frame counters, frame info, pixel buffer, MD buffer | init, begin, read (six pixel formats), stop, abort, fini | configuration commands, data session, the application's handlers |
| Configuration commands | `c/src/config.c` | none but the control lock | ~20 setters, the upload of the pixel configuration with its retry and recovery, `katherine_configure` | command interface |
| Status inquiries | `c/src/status.c`, `crd.h` | none but the control lock | status, chip id, temperatures, digital test, ADC | command interface |
| Command interface | `c/src/command_interface.h` | none | build and send a command, wait for a response | UDP session |
| UDP session | `c/src/udp_nix.c` (`udp_win.c` is its twin) | socket, remote address, pin, mutex | init, send, recv, recv_exact, set_remote, pin, lock | the network |
| Device | `c/src/device.c` | two UDP sessions | init, fini | UDP session |
| Pixel configuration | `c/src/px_config.c` | 65536 bytes | load BMC/BPC, get and set fields | none |
| Layouts | `bitfields.h`, `md.h`, `crd.h` | none | insert, extract | all of the above |
| Command responder | `c/src/emu/emulator.c` | registers, upload in progress, response queue, command log | cmd_in, crd_out, advance, log_read | stream |
| Measurement data stream | `c/src/emu/emu_stream.c` | stage, frame, staging buffer, token bucket, virtual clock | arm, stop, advance, data_out | responder |
| ksim | `tools/ksim/main.c` | known client, fault ordinals, what is open | startup; one loop: commands in, clock, responses out, data out, log; stop | emulator, network |
| Wrappers, dissector, examples | `cxx/`, `python/`, `tools/wireshark/` | none of their own | | library |

**Interaction.** An application thread configures the readout over the control
socket (command out, response back, one at a time, under the control lock),
sends the unacknowledged start command and calls read, which holds the data
lock and decodes what arrives on the data socket, calling the application's
handlers. Another thread, or a handler, may send commands, stop or abort in the
meantime. The emulator has no threads and no sockets: ksim, or a test, feeds it
commands, advances its virtual clock and forwards what comes out.

**What is hard.**

* Data arrive over UDP: datagrams are lost, repeated, cut short. Frame events
  are data of the same stream, so their loss mixes two frames.
* The verdict of an acquisition is set in the middle of a datagram; abort comes
  from another thread, races the time-outs and outlives the acquisition.
* Responses carry an operation code that the client does not look at: pairing
  is by order, and the upload's recovery rests on draining every response.
* While the readout is inside an upload it takes any command for pixel data.
* Anybody may send to a socket of the client. A pinned session must not hear
  strangers, must not wait for ever because of them, and must not be moved by
  what arrived before it was pinned.
* Opening a session, a device and the daemon takes steps that may fail, each
  with its own clean-up, and two platforms with different ones.
* Responses of the emulated readout have latencies; they leave in order, and
  answer for the time of their command.
* The generator has a bounded staging buffer and a token bucket: it is suspended
  at any stage of a frame, and resumed, stopped or re-armed there.

**What makes each component correct.**

* Acquisition: each decoded pixel is handed over once and in order; no write
  past the buffer; `frame_ended` agrees with what was handed over; the verdict
  is justified and final; read returns.
* Control session: a response belongs to its command; success means that the
  readout did it; an upload never leaves the readout inside an upload; every
  call returns and gives the lock back.
* UDP session and device: what is handed over comes from the readout and is
  whole; receives return; nothing leaks.
* Pixel configuration: packing, file formats and setters agree with a matrix of
  pixels.
* Command responder and ksim: answers in order and true to their time, a
  complete log, replies to the client that asked, no loss without a reason.
* Emulated stream: what leaves follows the grammar of the protocol, counts its
  hits and respects the rate; a stop terminates the open frame; nothing that
  was generated stays behind.
* The whole: frames are delivered once, in order, complete.

## 2. Modules

| Module | Models | Composes |
|---|---|---|
| `Acquisition` | the acquisition object over an open environment: any datagram may arrive at any receive | |
| `AcqDecoding` | the same with a history of what arrived, and a reference definition of its decoding | EXTENDS `Acquisition` |
| `EmuStream` | the measurement data stream of the emulated readout | |
| `FrameDelivery` | abstract: what an acquisition promises over a path that loses nothing | |
| `AcqSystem` | client, readout, control and data paths | EXTENDS `Acquisition`, instance of `EmuStream`, refines `FrameDelivery` |
| `ControlSession` | client threads, control lock, lossy control path, command responder | |
| `UdpSession` | a UDP session over an open network, on both platforms | |
| `Device` | opening, pinning and closing two sessions | EXTENDS `UdpSession` and refines it |
| `EmuCommand` | the command responder: registers, upload, response queue, log ring; operators only | |
| `Ksim` | the daemon from startup to stop | EXTENDS `EmuCommand` |
| `PixelMatrix` | abstract: a matrix of pixels, set by field or by file | |
| `Bitfields` | EXTRACT and INSERT | |
| `PxConfig` | the pixel configuration, its loaders, getters and setters | EXTENDS `Bitfields`, refines `PixelMatrix` |
| `AcquisitionProofs`, `EmuStreamProofs`, `AcqSystemProofs`, `ControlProofs`, `UdpProofs`, `DeviceProofs`, `KsimProofs`, `PxProofs` | theorems | each EXTENDS the module it is named after (`AcquisitionProofs`: `AcqDecoding`) |
| `MCAcquisition`, `MCEmuStream`, `MCAcqSystem`, `MCControlSession`, `MCDevice`, `MCKsim`, `MCPxConfig` | values of the constants for TLC | |

**Acquisition.** Variables have the names of the fields of
`katherine_acquisition_t`. One action per measurement datum (`PixelDatum`,
`NewFrame`, `FrameFinished`, ...: `handle_*` of `acquisition.c`), and one per
step of begin (`Begin`, `Configured`, `ConfigureFails`, `StartSent`,
`StartFails`), of read (`ReadEnter`, `RecvDatagram`, `RecvError`, `ReadLeave`)
and of abort (`AbortSend`, `AbortRaise`: the flag is raised after the lock is
released). A datagram is its data and the number of bytes that `cut` off its
end. What the missing bytes of the last datum read as is older memory, so that
datum may be any of `Leftovers` in `md_buffer` (`BufferAfter`); the loop of read
visits the data whose bytes were all received (`InWholeData`, the loop bound `i
+ 6 <= received`). `pending` is what of these is still to be decoded, so that an
abort can fall between two data of a datagram. Time is one flag, `overdue`,
which passes at any moment, and the report time-out may or may not have expired
whenever a receive fails. `current_frame_info` starts as any of two values,
because `katherine_acquisition_init` does not clear it. A datum carries a tag,
its origin, which is not on the wire and which only properties read; `decoded`,
`delivered`, `handed`, `reports` and `raised` are history. `AcqDecoding` adds
`arrived`, every datum that arrived whole, and where begin started anew; its
properties say from `arrived` alone which pixels there must be, and when they
were hit.

**EmuStream.** A call of data_out or stop is `PumpEnter`, then one `Pump*`
action per iteration of the loop of `pump()`, then the rest of the call; the
clock moves between calls only, as the emulator has a single thread. The 64-bit
arithmetic of the token bucket is modelled modulo `WordMax + 1`. Hits have a
time and no coordinates.

**AcqSystem.** Start and stop commands travel in `ctl` and measurement data in
`net`, which is also the receive buffer of the data socket. Both may lose
(`CommandLost`, `DatagramLost`), and `net` may repeat. The configuration
commands are acknowledged before begin goes on, so the frame register is written
when begin has configured the readout, or may have been when it failed. UDP is
modelled from how the library uses it and mapped as external.

**ControlSession.** A function is a record: how many commands, acknowledged or
not, how many receives per command (`SetRegister`, `SetDacs`, `DigitalTest`,
...). The upload is modelled step by step with its attempts, its chunks, its
wait, the flood of fillers and the drain. A chunk read as a command may be any
command: answered, unanswered, or the start of an upload. `MaxLate` receives may
time out with a response still under way (`n_late` counts them). Responses are
lost or late; they are neither repeated nor reordered, which the network may do
as well and which nothing in the client would notice. Datagrams carry serial
numbers, which only properties read.

**UdpSession.** `stage` is the step of `katherine_udp_init_bound` that comes
next, in the order of the platform; `InitFails` may happen at each and releases
what the error label of that step releases. A receive is `ReceiveCall`, then one
action per `recvfrom`: `ReceivePinned` discards a stranger or takes the
datagram, `ReceiveAdopting` is an unpinned session, which takes the sender for
its remote, `ReceiveTimesOut` and `ReceiveInterrupted` are errors. A datagram is
its sender and length. One that is longer than the buffer is cut on POSIX and an
error (`EMSGSIZE`) on Windows. `named` is the host the application named last:
by opening or `set_remote`, or, on pinning, the remote as it is then. Two notes
on the code. An empty datagram makes `recv_exact` receive again without
progress, so whoever may send can keep it busy with empty ones: `MaxEmpty`
bounds them. The discard budget is spent per datagram, as the comment in
`recv_exact` says, and not per call.

**Device.** The control session is `UdpSession` in full, the data session its
steps of opening. A session may also be used without a device (`SessionAlone`),
so that the run covers the unpinned session of the daemon and `set_remote`.

**EmuCommand and Ksim.** A command is an operation, a sub-index and a word.
Operations that the dispatcher treats alike are one set: those that store a
word, at no index, at an index that is checked, or at an index modulo the number
of registers; those that answer; those that do not. A response carries the time
it still has to wait. The log ring is modelled slot by slot. `Ksim` adds the
loop of the daemon, one action per iteration of an inner loop, startup with its
failures, the client's address on both sockets, the injected faults and the log
file. The stream is reduced to whether it is armed, which the communication
status reports and which ends with a stop or by itself (`Arms`, `DataOut`), and
whether there are data to send; a send of data that fails is counted
(`md_send_errors`). `EmuStream` has it in full. A response that goes to the
address the daemon listens on comes back to it as a command (`echoes`,
`ReceiveEcho`). The daemon avoids that: commands that seem its own are answered
on 127.0.0.1 instead. With `--listen 127.0.0.1`, which it accepts, the two are
the same and it would feed itself all the same; `NeverFedBack` has that premise,
and the other properties hold with the feedback too. Under `--drop-crd` the
counter is armed by the first command that opens an upload. The response to a
command before it, when delayed, is counted as well: "n = 1 is that upload's own
completion acknowledgement" (`main.c:213`) is true of a client that waits for
each response, as libkatherine does. `FaultsAccounted` states what holds of
every client.

**PxConfig.** A word is the set of the positions of its bits. The layout of the
matrix is the code's, for fewer columns and rows; the address of a pixel, its
shift within the word, the order of rows and the reversed threshold of the BPC
format are modelled bit by bit. The BMC loader shifts a byte as a signed `int`;
the spare bits it may push into the sign are modelled as the builds treat them.

## 3. Runs

All runs are of small instances; bounds are the constants that begin with `Max`
and the sizes below.

| Run | Instance | Shows |
|---|---|---|
| `AcqFrames` | a buffer of 2 pixels, 7 datagrams with every kind of datum, frame boundaries inside and at their ends, two that lack one byte or all but one of a datum, over memory that reads as a pixel or a frame end; 3 receives, 2 begins, 1 abort; fairness | conservation of pixels, pixels as they arrived whole and in their windows, buffer bound and clean end, reports, verdict; a read whose stream dries up returns |
| `EmuStreamFrames` | a staging buffer of 4 data, smaller than a frame, two start commands, fairness | grammar and hit count of what leaves; all of it leaves |
| `EmuStreamRoomy` | a staging buffer larger than an acquisition, rate shaping with a word small enough to overflow on the longest step, capacities smaller than a datum | stop terminates the frame; hit times are never ahead; no more bytes than the rate allows, and all the credit it earns, fractions of a token included |
| `SysDelivery` | no loss, both readout modes, windows of 2 units with 2 hits in each frame, an abort and stops | refinement of `FrameDelivery`, balanced events, clean end, hit times |
| `SysLossy` | one datum or command lost or repeated, small datagrams, stops, no abort at the client, no timeouts, fairness | completed frames did happen; a read returns |
| `CtlSession` | two threads, an upload of two chunks, loss of anything but 0x12, failed sends, a late response, fairness | pairing, effect of success, no open upload, every call returns |
| `DevicePinned` | a readout with two ports, with datagrams of 0, 1 and 3 bytes, and a stranger with overlong ones; messages of 2 bytes, a budget of 2, a receive buffer of 3, so that the whole budget can be ahead of an answer; both platforms, fairness | clean-up, pin, whole messages, time-outs with a cause, receives return |
| `KsimDaemon` | queue and log of 2, an upload of 3 words, 10 datagrams from a remote client, a local one, the daemon's own address and the primary loopback address, 4 sets of options with both of these to listen on, 3 received datagrams, fairness | order and truth of answers, log, faults, no feedback, clean stop, responses leave |
| `PxMatrix` | 2 columns, 8 rows, two files in both formats, setters of two pixels of one word | refinement of `PixelMatrix`, setters, loaders |

The types of `Acquisition`, `EmuStream`, `ControlSession`, `UdpSession`,
`Device` and `Ksim` are proved (section 4) and therefore not checked again by
the runs.

The sizes keep the cases that matter: a buffer of two pixels is filled,
overfilled and left half full by the datagrams; three receives fit a complete
frame and a late datum; a second begin meets whatever the first acquisition
left; a staging buffer smaller than a frame suspends the generator at every
stage; the recovery of `ControlSession` floods with more fillers than an upload
has chunks, as 192 > 64, into a response queue that overflows. A stranger can
spend the whole discard budget ahead of an answer that waits behind; the log
ring of two wraps within three commands and the queue of two overflows; two rows
of words and two columns tell every term of a pixel's address apart. The code's
sizes enter only through such inequalities, stated in the `ASSUME`s. Deadlock is
checked where the environment never runs out (`DevicePinned`, `PxMatrix`);
elsewhere a client that has used up its bounded calls, or a daemon that was
stopped, rests for good.

**Findings.** Three runs are violations, each of what a test or a comment of the
code says.

* `AcqStaleAbort`: begin does not clear the abort flag. An acquisition is begun,
  read and aborted; the next one on the same object, which nobody aborts, ends
  with success at its first empty receive, without its frames and with the flag
  up. The end-to-end test asserts that the flag is down after such a read
  (`test_e2e_acq.c:538`), and tries it on an object never aborted before. The
  application of this run (`Careful`) reads what it began, aborts only while it
  reads, and begins again only when that acquisition is over.
* `EmuStreamFullStop`: a stop while the staging buffer is full terminates no
  frame. A reader without a fail timeout then waits until it is aborted.
* `CtlUploadLost`: when command 0x12 is lost the chunks are answered as
  commands and the upload returns success. For this reason `CtlSession` loses
  everything but 0x12.

More limits of the code show in the premises of the properties. The three safety
properties of `CtlSession` speak of behaviours in which no response has come
later than the receive timeout (`n_late = 0`): a later one is taken for the
response of the next command, as the client does not look at operation codes
(`command_interface.h`). `ReportsWhatWasHanded` speaks of frames whose new-frame
datum arrived: without it the count of the frame before is added to.
`HitTimesNeverAhead` allows a hit to be dated whole windows early: the offset is
sent once in 64 hits, not once in a window. `HitTimesArrive` needs paths that
lose and repeat nothing: a repeated datagram brings back an old offset.

**Fairness.** A thread inside a library function runs on; every receive returns
because both sockets have a receive timeout of 100 ms (`device.c`); a call of
the emulator returns; the loop of ksim forever takes commands, advances the
clock and asks for data. In the composed modules these steps take turns with
others and may be disabled in between, hence strong fairness there; in
`ControlSession` a thread waiting for the mutex is strongly fair, which is what
a caller needs of `pthread_mutex_lock` or a Windows mutex. Nothing obliges an
application to call, or the network to deliver, except in `SysLossy`, where a
command that is not lost arrives. A receive of `UdpSession` takes what is there
or times out (weak fairness of the thread inside it). The daemon goes on, and
its clock does not stand still for ever: a receive that finds nothing takes a
millisecond, so that time passes again and again (strong fairness of a clock
step greater than zero).

Some properties need their premise, stated with them: `EveryReadEnds` is about
decoding reads (a raw read counts no frames) of an acquisition that the readout
measures, with a staging buffer that has room; `StopTerminates` holds of
`EmuStreamRoomy` and is what `EmuStreamFullStop` violates.

## 4. Proofs

For every value of the constants that the `ASSUME`s allow, without the bounds
on sizes that TLC needs:

| Module | Theorems | Invariant they rest on |
|---|---|---|
| `AcquisitionProofs` | `TypeCorrect`, `BufferSafe`, `PixelsAreConserved`, `VerdictCorrect`, `VerdictFinality`, `ReportsCorrect`, `ReportsAreTrue`, `DecodingIsFaithful` | types, and one strengthening per property (`DecodingInv` for the last) |
| `EmuStreamProofs` | `StreamTypeCorrect`, `ShapingSound`, `ShapingLive`, `FramesWellFormed`, `FinishedCounted`, `HitTimesSound`, `StopClosesFrame` | types, `CreditInv`, `WellFormedInv`, `HitsInv`, `MarksInv`, `OverAllInv` |
| `AcqSystemProofs` | `CompletedDidHappen`, `ReportsAreBalanced`, `SuccessIsClean`, `FramesAreDelivered`, `HitTimesAreMeant` | `SystemInv` |
| `ControlProofs` | `ControlTypeCorrect`, `LockIsKept`, `ResponsesArePaired`, `SuccessMeansEffect`, `UploadsAreClosed` | `ControlInv`, `PairingInv` |
| `UdpProofs` | `SessionTypeCorrect`, `SessionLeaksNothing`, `PinIsHeld`, `MessagesAreWhole`, `TimeoutsAreEarned`, `StrangersAreNotHeard` | `SessionInv` |
| `DeviceProofs` | `DeviceUsesSession`, `DeviceTypeCorrect`, `DeviceHoldsNothing`, `DeviceIsReady` | `SessionInv`, `DeviceInv` |
| `KsimProofs` | `KsimTypeCorrect`, `TheDaemonIsNotFedBack`, `TheLogIsRecent`, `TheDaemonStopsClean`, `TheAnswersAreInOrder`, `LossesHaveReasons` | `KsimTypes`, `FeedInv`, `LogInv`, `StopInv`, `AnswerInv`, `MeasInv`, `FaultInv` |
| `PxProofs` | `PxTypeCorrect`, `SettersReachTheirPixel`, `PackedIsPixelMatrix` | `PxInv` |

**Acquisition.** The environment delivers any datagram at any time, so the
theorems hold over any network and for any readout. Each safety theorem follows
from type correctness and a strengthening that is inductive: for the buffer,
that outside of read the buffer is empty and no frame is open, and inside that
its capacity is the one computed at entry; for the reports, that the completed
frames are counted by the reports already made, and that the info of an open
frame plus the buffered pixels is what has been and will be handed over; for
the verdict, that the count of completed frames stays below the request while
the acquisition runs. `DecodingIsFaithful` compares the decoder, which keeps one
offset and one datagram, with a definition over all data that ever arrived:
`DecodingInv` says that what is pending is the end of `arrived`, that the pixels
are those of the rest, and that the offset kept is that of the window the next
datum is in. The lemma behind it is that the data the loop visits are those
whose bytes arrived, whatever was in the buffer behind them.

**Rate shaping** is proved from the invariant that bytes sent, times a second,
plus the credit in both parts of the bucket do not exceed the burst and the rate
times the virtual clock, and conversely that a step of the clock adds exactly
its time's worth to that credit, the part below a token included, until the
bucket is full (`ShapingLive`); the arithmetic of one step is a lemma of its own
over plain numbers.

**The stream.** `Generated` is what left since the start command followed by
what is staged; a step leaves it alone or adds one datum (`StreamStep`,
`Grown`), so what data_out takes away when does not matter. Grammar: the stage
of `pump` says which datum is the newest (`StageInv`), and the next one may
follow it. Hit count: data carry the number of their frame (`TagsInv`), and the
hit counter is the cardinality of the hits generated of the open frame
(`CountInv`); this is what makes the number in the finished datum right however
often the frame was interrupted. Hit times: the newest datum that names a window
names one that has begun when any hit to come happens (`MarkInv`), so each hit
is preceded by such a datum (`DecodedInv`). `StopClosesFrame` has a premise,
`StageHoldsAll`: the staging buffer holds a whole acquisition. `LengthInv` then
leaves room for the datum that ends it. The premise is not slack:
`EmuStreamFullStop` is the run of an instance without it, where TLC finds the
stop that closes nothing; `EmuStreamRoomy` satisfies it (26 data for two frames
of 13).

**The system.** `AcqSystemProofs` treats the client as a decoder of the stream.
Let g be all data generated since the start command, and r[i] what a decoder
that follows the protocol knows after i data of g (`Decoder`, `After`, `IsRun`):
is a frame open, how many hits has it, how many frames are finished, which
window dates hits. The invariant `SystemInv` then has two halves. The readout
knows what the decoder knows at the end of g (`ReadoutAt`). The client has
decoded p data and knows r[p] (`ClientKnows`); what is pending of its datagram
are the data from p to q, and the datagrams in `net` carry consecutive pieces of
the rest (`OnTheWay`). Neither half mentions the other, so a step of the readout
only extends g, a step of the client only moves p, and `FrameDelivery` relates
the two ends. `Commanded` adds that one start command is sent and arms the
readout once, `Begun` how far begin has come, `Reported` what frame_ended has
said.

When datagrams or commands are lost the pieces have gaps and the client only
lags behind r[p]: that is enough for `CompletedDidHappen` and `SuccessIsClean`,
which hold with losses (a client that counted all frames has decoded the last
datum of the stream). The other three theorems are about paths that lose
nothing, and all but `HitTimesAreMeant`, whose property has the same premise
within, say so. None allows a repeated datagram: one that repeats a finished
datum is counted twice. All five speak of the first call of begin
(`FirstAcquisition`). This is where the code stops guaranteeing more. With a
second begin and one abort, over perfect paths, TLC refutes `Balanced`,
`SuccessLeavesNothing`, `CompletedFramesHappened` and the refinement: data of
the acquisition that was given up are still on the way, nothing in them says so,
and the next read decodes them. `SysDelivery` and `SysLossy` therefore have one
begin; `AcqFrames` and `AcqStaleAbort` have two, and the theorems of
`AcquisitionProofs` hold for any number.

**Control session.** Types are not inductive alone: the loop counters of a
thread are bounded only at the steps that use them (`PhaseBounds`), and the lock
belongs to the thread that is inside a function (`LockDiscipline`). Together
they are `ControlInv`.

Pairing by order works because outside of a function nothing is under way that
will be answered: `Quiet`, the readout outside of an upload, no response queued
or received, at most commands without an answer still travelling. `PairingInv`
says so while the lock is free, and says for each place in a function what may
be under way instead: one command (`Asked`) or its response (`Answered`); an
upload that waits for `left` more datagrams, with the last chunks sent behind
it, in order (`Sending`); during the flood and the drain, an upload that still
misses no more datagrams than fillers are to come and faults can take, or one
that is closed with no more responses under way than the drain discards
(`Recovering`, `Closing`, `Closed`).

The three theorems have two premises. No response has come later than the
receive timeout (`n_late = 0`, part of the properties): the client does not look
at operation codes. And `FaultsCovered`: command 0x12 is not lost, which is the
finding `CtlUploadLost`, and losses and failed sends together do not exceed
`Fillers - Chunks + 1`, 129 with the numbers of the code. Nothing weaker will
do: the instance of `CtlSession` meets the second part with equality, and with
one filler less, or one loss more, TLC refutes `AckIsOwn`.

**UDP session and device.** `SessionInv` says what is held at each step of
opening (`HeldByStage`), how far a receive has come, that the strangers
discarded since the last datagram are counted by the budget spent, and that a
pinned session still names the remote it was given. `DeviceUsesSession` is the
refinement: every step of a device is a step of its control session or leaves it
alone, so the invariant of a session is one of the device. `DeviceInv` adds the
phase of opening with what both sessions hold.

**ksim.** For the log, slot k of the ring, counted from its head, is the k-th of
the last `log_count` commands (`RingInv`), and with a log file no more commands
are unread than the loop has received in this round (`FileInv`), which the
assumption `LogCap >= MaxDrain` keeps within the ring: so none is lost. For the
answers, serial numbers increase through what was sent and what is queued, none
exceeds the commands handled, and none equals them while an upload is active, as
that number is kept for its answer; the register of an inquiry holds the word
set last (`RegsInv`), and an armed stream was started and not stopped since
(`MeasInv`). For the feedback, that the address responses go to is not the one
the daemon listens on (`FeedInv`), whoever seems to send. For the stop, what is
open at each step of startup. For the losses, the commands that are to be
answered by now are as many as the responses sent, queued, dropped or failed
(`OwedInv`): the command that opened an upload is owed only once its last word
has come, which is why the invariant also says that it is the last command
handled while the upload is active. The chosen response is dropped once because
the count that names it only grows (`CrdFaults`).

**Pixel configuration.** `PxInv` is the types and, as `Loading`, which file is
being read and what is held while it is. A word is a set of bit positions, so a
setter is `Insert` of a field at the shift of its pixel; the lemmas say that the
fields of a byte and the four bytes of a word do not overlap, and that an
address is that of one pixel only. `SettersReachTheirPixel` follows, and
`PackedIsPixelMatrix` maps every step of the loaders and setters to a step of
`PixelMatrix` or a stutter: for any number of columns and rows, and any content
of the file.

The theorems rest on the assumptions named `...Assumption`: a buffer of at least
one pixel, a word large enough for a full bucket, non-zero sizes, commands and
datagrams of the right shape, `LogCap >= MaxDrain` (2048 and 256 in the code).
Fail and report timeouts, modes, latencies, hosts, the address to listen on and
datagrams are free.

Only model-checked: liveness (`DriedUpReadEnds`, `Drains`, `EveryReadEnds`,
`EveryCallReturns`, `ReceiveReturns`, `ResponsesLeave`), which is out of the
prover's reach. Every other property of a passing run is stated by a theorem.

## 5. Not modelled

Wording, coordinates of hits, pixel formats and the bit positions of data,
commands and responses (a datum is its meaning; only the pixel configuration is
modelled in bits); the decoding of responses into numbers and texts; pacing
sleeps; a mutex that cannot be locked; allocation failure outside of
`px_config.c`; the invalid acquisition mode; texts of addresses, which are taken
as valid (on Windows a malformed one makes `inet_pton` return 0 with no error
set, and `katherine_udp_init_bound` may then report success,
`udp_win.c:201-203`); the reading of ksim's options. A sensor buffer smaller
than a pixel (`PixelCap = 0`), which the application can configure and the code
does not refuse, is excluded by the assumption on `PixelCap`. The abort flag is
a plain `bool` written by one thread and read by another; the model takes it as
an atomic variable, which a receive, an opaque call on every iteration of the
loop, makes of it in practice.

The C++ wrapper forwards calls to the C functions, turns error codes into
exceptions and C handlers into `std::function`s; the Python wrapper binds the
same functions; the dissector displays datagrams; examples and tests are
callers. None keeps a state or a protocol of its own.

## 6. Plan

Everything the plan began with is in place: the acquisition, the readout's
stream, their composition with time windows, the control session, the UDP
session with the device, the command responder with the daemon, the pixel
configuration. What would add most from here:

1. `begin` of `Acquisition` made of the commands of `ControlSession`, so that the
   frame register is written by a command that may be lost.
2. `Ksim` over `EmuStream` in full: a send of data that fails is counted in
   `Ksim`, and reaches the client of `AcqSystem` only as a lost datagram.
3. Theorems about later acquisitions: what holds of one that begins after a success
   of the one before, which `SuccessIsClean` says leaves nothing behind.
