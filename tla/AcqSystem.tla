------------------------------ MODULE AcqSystem ------------------------------
(***************************************************************************)
(* An acquisition from end to end: the client's acquisition object         *)
(* (Acquisition), the emulated readout (EmuStream) and the two UDP paths   *)
(* between them.                                                           *)
(*                                                                         *)
(* Configuration commands are acknowledged before begin goes on, so the    *)
(* register the readout samples is written directly.  The start and stop   *)
(* commands are not acknowledged: they travel in ctl, and the client goes  *)
(* on at once.  Measurement data travel in net, which also stands for the  *)
(* receive buffer of the data socket: it keeps what nobody reads.          *)
(*                                                                         *)
(* A call of the emulator touches only the emulator's own variables until  *)
(* it returns, so nothing else is interleaved with its steps.              *)
(***************************************************************************)
EXTENDS Acquisition

CONSTANTS
  StageCap, OffsetPeriod, Second, Rate, Burst, WordMax, Hits, Lost,
  FrameLens, Steps, Caps, MaxTime,
  MaxFaults,    \* bound: measurement datagrams lost or repeated, commands lost
  MaxStart,     \* bound: virtual time of the start command
  MaxStop       \* bound: calls of stop

ASSUME SystemAssumption ==
  /\ StageCap \in Nat \ {0} /\ OffsetPeriod \in Nat \ {0}
  /\ Second \in Nat \ {0} /\ Rate \in Nat /\ Burst \in Nat /\ WordMax \in Nat
  /\ Hits \in Nat /\ Lost \in Nat
  /\ FrameLens \subseteq Nat /\ Steps \subseteq Nat /\ Caps \subseteq Nat
  /\ MaxFaults \in Nat

VARIABLES
  e_now, e_call, e_stage, e_armed, e_frame_active, e_readout_mode, e_frames_total,
  e_frame_index, e_frame_open, e_frame_len, e_px_index, e_offset_sent,
  e_buf, e_buf_pos, e_tokens, e_token_frac, e_out, e_sent, e_arms,
  e_no_frames,  \* the number-of-frames register
  ctl,          \* start and stop commands on their way to the readout
  net,          \* datagrams on their way to the client's read
  n_loss, n_dup, n_stop

E == INSTANCE EmuStream WITH
  FrameCounts <- FrameRequests, MaxArm <- MaxBegin,
  now <- e_now, call <- e_call, stage <- e_stage, armed <- e_armed,
  frame_active <- e_frame_active, readout_mode <- e_readout_mode,
  frames_total <- e_frames_total, frame_index <- e_frame_index,
  frame_open <- e_frame_open, frame_len <- e_frame_len, px_index <- e_px_index,
  offset_sent <- e_offset_sent, buf <- e_buf, buf_pos <- e_buf_pos,
  tokens <- e_tokens, token_frac <- e_token_frac, out <- e_out, sent <- e_sent,
  arms <- e_arms

client == vars
readout == <<e_now, e_call, e_stage, e_armed, e_frame_active, e_readout_mode,
             e_frames_total, e_frame_index, e_frame_open, e_frame_len, e_px_index,
             e_offset_sent, e_buf, e_buf_pos, e_tokens, e_token_frac, e_out, e_sent, e_arms>>
paths == <<ctl, net, n_loss, n_dup, n_stop>>
system == <<client, readout, e_no_frames, paths>>

SystemInit ==
  /\ Init /\ E!Init
  /\ e_no_frames = 0
  /\ ctl = <<>> /\ net = <<>> /\ n_loss = 0 /\ n_dup = 0 /\ n_stop = 0

---------------------------------------------------------------------------
(* The client.                                                             *)

BetweenCalls == e_call = "none"

\* Steps of the client that nobody else sees.
ClientLocal ==
  /\ BetweenCalls
  /\ \/ Begin \/ StartFails \/ ReadEnter \/ RecvError \/ DecodeStep \/ ReadLeave
     \/ KillOffPasses \/ AbortRaise
  /\ UNCHANGED <<readout, e_no_frames, paths>>

\* begin has configured the readout, or failed after some of the commands.
ClientConfigures ==
  /\ BetweenCalls
  /\ \E n \in FrameRequests :
       /\ Configured(n) \/ ConfigureFails
       /\ e_no_frames' \in IF pc' = "start" THEN {n} ELSE {e_no_frames, n}
  /\ UNCHANGED <<readout, paths>>

\* The readout mode is part of the start command.
ClientStarts ==
  /\ BetweenCalls /\ StartSent
  /\ ctl' = Append(ctl, [cmd |-> "start", mode |-> readout_mode])
  /\ UNCHANGED <<readout, e_no_frames, net, n_loss, n_dup, n_stop>>

StopCommand == [cmd |-> "stop", mode |-> readout_mode]

ClientAborts ==
  /\ BetweenCalls /\ n_abort < MaxAbort /\ AbortSend
  /\ ctl' = Append(ctl, StopCommand)
  /\ UNCHANGED <<readout, e_no_frames, net, n_loss, n_dup, n_stop>>

\* katherine_acquisition_stop sends the command and does nothing else.
ClientStops ==
  /\ BetweenCalls /\ n_stop < MaxStop
  /\ ctl' = Append(ctl, StopCommand)
  /\ n_stop' = n_stop + 1
  /\ UNCHANGED <<client, readout, e_no_frames, net, n_loss, n_dup>>

ClientReceives ==
  /\ BetweenCalls /\ net # <<>>
  /\ RecvDatagram(Head(net))
  /\ net' = Tail(net)
  /\ UNCHANGED <<readout, e_no_frames, ctl, n_loss, n_dup, n_stop>>

---------------------------------------------------------------------------
(* The readout.                                                            *)

CommandArrives ==
  /\ BetweenCalls /\ ctl # <<>>
  /\ ctl' = Tail(ctl)
  /\ \/ /\ Head(ctl).cmd = "start"
        /\ \E len \in FrameLens : E!Arm(Head(ctl).mode, e_no_frames, len)
     \/ /\ Head(ctl).cmd = "stop" /\ e_armed /\ E!StopCall
     \/ /\ Head(ctl).cmd = "stop" /\ ~e_armed /\ UNCHANGED readout
  /\ UNCHANGED <<client, e_no_frames, net, n_loss, n_dup, n_stop>>

\* A datum on the wire.
OnWire(md) == [hdr |-> md.hdr, v |-> md.v, tag |-> md.tag]

Payload(cap) ==
  [i \in 1..E!CopyCount(cap) |-> OnWire(e_buf[e_buf_pos + i])]

\* data_out returns: what it copied is sent in one datagram.
ReadoutSends ==
  /\ \E cap \in Caps :
       /\ E!DataOutReturn(cap)
       /\ net' = IF E!CopyCount(cap) = 0 THEN net
                 ELSE Append(net, [mds |-> Payload(cap), cut |-> 0])
  /\ UNCHANGED <<client, e_no_frames, ctl, n_loss, n_dup, n_stop>>

ReadoutLocal ==
  /\ E!Pump \/ E!StopReturn \/ E!DataOutCall
  /\ UNCHANGED <<client, e_no_frames, paths>>

\* MaxStart leaves the clock room for a whole acquisition once it has begun.
ClockAdvances ==
  /\ E!Tick
  /\ e_armed \/ e_now' <= MaxStart
  /\ UNCHANGED <<client, e_no_frames, paths>>

---------------------------------------------------------------------------
(* The network.                                                            *)

Loss ==
  /\ BetweenCalls /\ n_loss + n_dup < MaxFaults
  /\ n_loss' = n_loss + 1
  /\ UNCHANGED <<client, readout, e_no_frames, n_dup, n_stop>>

DatagramLost == Loss /\ net # <<>> /\ net' = Tail(net) /\ UNCHANGED ctl

DatagramDuplicated ==
  /\ BetweenCalls /\ n_loss + n_dup < MaxFaults /\ net # <<>>
  /\ net' = <<Head(net)>> \o net
  /\ n_dup' = n_dup + 1
  /\ UNCHANGED <<client, readout, e_no_frames, ctl, n_loss, n_stop>>

CommandLost == Loss /\ ctl # <<>> /\ ctl' = Tail(ctl) /\ UNCHANGED net

Network == DatagramLost \/ DatagramDuplicated \/ CommandLost

SystemNext ==
  \/ ClientLocal \/ ClientConfigures \/ ClientStarts \/ ClientAborts \/ ClientStops
  \/ ClientReceives \/ CommandArrives \/ ReadoutSends \/ ReadoutLocal
  \/ ClockAdvances \/ Network

SystemSpec == SystemInit /\ [][SystemNext]_system

(***************************************************************************)
(* Fairness: the thread inside read runs and takes the datagrams that have *)
(* arrived, a thread inside abort finishes, a command that was sent        *)
(* arrives, a call of the emulator returns, and the loop around the        *)
(* emulator (ksim) keeps asking for data and advancing the clock.  The     *)
(* emulator's calls take turns with all else, hence the strong fairness.   *)
(***************************************************************************)
SystemFairness ==
  /\ SF_system(ClientLocal /\ (DecodeStep \/ RecvError \/ ReadLeave))
  /\ SF_system(ClientReceives) /\ SF_system(ClientLocal /\ AbortRaise)
  /\ SF_system(CommandArrives)
  /\ WF_system(ReadoutSends \/ (ReadoutLocal /\ (E!Pump \/ E!StopReturn)))
  /\ SF_system(ReadoutLocal /\ E!DataOutCall) /\ SF_system(ClockAdvances)

FairSystemSpec == SystemSpec /\ SystemFairness

---------------------------------------------------------------------------
(* Properties                                                              *)

\* What the client has been told, as the abstract specification sees it.
FramesReported ==
  [i \in 1..completed_frames |->
    [number |-> reports[i].frame, sent |-> reports[i].info.sent,
     received |-> reports[i].info.received]]

Outcome ==
  CASE state = "NOT_STARTED" -> "none"
    [] state = "RUNNING" -> "measuring"
    [] state = "SUCCEEDED" /\ requested_frames > 0
         /\ completed_frames = requested_frames -> "succeeded"
    [] OTHER -> "given_up"

Promise == INSTANCE FrameDelivery WITH
  Requests <- FrameRequests, asked <- requested_frames,
  frames <- FramesReported, verdict <- Outcome

\* While the paths lose and repeat nothing, the frames of an acquisition are
\* delivered in order, once, complete and with the count of hits the readout
\* says it sent, however data_out cuts the stream into datagrams and whenever
\* the client times out, stops or aborts.
DeliversFrames == Promise!Spec

\* ... and every frame_ended call follows a frame_started call of its own.
Balanced == \A i \in DOMAIN reports : reports[i].open

\* When all frames of an acquisition have been completed, the readout is at
\* rest and no datum of the acquisition is left on the way that the next
\* acquisition could take for its own.
SuccessLeavesNothing ==
  state = "SUCCEEDED" /\ requested_frames > 0 /\ completed_frames = requested_frames =>
    pending = <<>> /\ net = <<>> /\ ~e_armed /\ e_buf_pos = Len(e_buf)

\* In the data-driven readout the client dates every hit by the window the
\* readout meant: that of the offset last sent in the frame of the hit,
\* however data_out has cut the stream in between.
HitTimesArrive ==
  [][LET px == decoded'[Len(decoded')] IN
     decoded' # decoded /\ readout_mode = "data_driven" /\ n_loss + n_dup = 0
       /\ px.tag[1] = e_arms =>
       \E i \in E!HitPositions :
         E!Generated[i].tag = px.tag /\ E!DecodedTime(i) = px.toa]_system

\* Over paths that lose datagrams and commands the client never reports more
\* frames complete than the readout has closed since the start command: the
\* frames of a success did happen.
CompletedFramesHappened == n_dup = 0 => completed_frames <= e_frame_index

\* A decoding read of an acquisition that the readout measures returns, stopped
\* or left alone, without any timeout, also when datagrams are repeated on the
\* way.  (That an abort ends a read is DriedUpReadEnds, of Acquisition.)  True
\* while the staging buffer of the readout has room: a full one swallows the
\* aborted datum that answers a stop command (EmuStream!StopTerminates), and
\* read waits for ever.  A raw read counts no frames: only an abort or the
\* kill-off time ends it.
EveryReadEnds ==
  pc = "read" /\ decode_data /\ e_armed ~> pc = "idle" \/ n_loss > 0
==============================================================================
