----------------------------- MODULE EmuStream -----------------------------
(***************************************************************************)
(* The measurement data generator of the emulated readout                  *)
(* (c/src/emu/emu_stream.c).  A start command arms it; pump() generates    *)
(* every measurement datum (MD) whose virtual time has come into a bounded *)
(* staging buffer; data_out hands staged data over, whole data only and as *)
(* fast as the token bucket of the rate shaping allows; a stop command     *)
(* ends the acquisition.                                                   *)
(*                                                                         *)
(* The emulator is a single thread: one call runs at a time.  A call of    *)
(* data_out or stop first runs the loop of pump(), one action per stage    *)
(* here, and then its own part.  Virtual time only passes between calls.   *)
(***************************************************************************)
EXTENDS Integers, Sequences, FiniteSets

CONSTANTS
  StageCap,      \* KATHERINE_EMU_STAGE_MDS
  OffsetPeriod,  \* KATHERINE_EMU_TOA_OFFSET_PERIOD
  ToaSpan,       \* ticks in one window of the coarse time of arrival (2^14)
  MdSize,        \* bytes of a measurement datum
  Second,        \* nanoseconds in a second
  Rate,          \* profile.shape_bytes_per_s, 0 when the stream is not shaped
  Burst,         \* KATHERINE_EMU_SHAPE_BURST_BYTES
  WordMax,       \* UINT64_MAX
  Hits,          \* profile.hits_per_frame
  Lost,          \* profile.lost_per_frame
  FrameCounts,   \* values of the number-of-frames register
  FrameLens,     \* values of the acquisition time register
  Modes,         \* readout modes in the start command
  Steps,         \* amounts of time the clock advances by
  Caps,          \* capacities passed to data_out, in bytes
  MaxTime,       \* bound: virtual time
  MaxStart,      \* bound: virtual time of the last start command
  MaxArm         \* bound: start commands

Stages == {"new_frame", "start_lsb", "start_msb", "pixels", "end_lsb",
           "end_msb", "lost", "finished", "idle"}

ASSUME StreamAssumption ==
  /\ StageCap \in Nat \ {0} /\ OffsetPeriod \in Nat \ {0} /\ ToaSpan \in Nat \ {0}
  /\ MdSize \in Nat \ {0} /\ Second \in Nat \ {0}
  /\ Rate \in Nat /\ Burst \in Nat /\ WordMax \in Nat
  /\ WordMax >= Burst * Second + Second
  /\ Hits \in Nat /\ Lost \in Nat
  /\ FrameCounts \subseteq Nat /\ FrameLens \subseteq Nat
  /\ Modes \subseteq {"sequential", "data_driven"}
  /\ Steps \subseteq Nat /\ Caps \subseteq Nat
  /\ MaxTime \in Nat /\ MaxStart \in Nat /\ MaxArm \in Nat

VARIABLES
  now,           \* the virtual clock, in timer ticks
  call,          \* "none", or the call that is running
  stage, armed, frame_active, readout_mode,
  frames_total, frame_index, frame_open, frame_len,
  px_index, offset_sent,
  buf,           \* data generated since the staging buffer was last empty
  buf_pos,       \* how many of them were handed over
  tokens, token_frac,
  \* History variables, read by the properties only.
  out,           \* data handed over since the start command
  sent,          \* bytes ever handed over
  arms           \* start commands received

stream == <<stage, armed, frame_active, readout_mode, frames_total, frame_index,
            frame_open, frame_len, px_index, offset_sent>>
staging == <<buf, buf_pos>>
bucket == <<tokens, token_frac>>
history == <<out, sent, arms>>
vars == <<now, call, stream, staging, bucket, history>>

\* katherine_emu_stream_reset: all zero.
Init ==
  /\ now = 0 /\ call = "none"
  /\ stage = "idle" /\ armed = FALSE /\ frame_active = FALSE
  /\ readout_mode = "sequential"
  /\ frames_total = 0 /\ frame_index = 0 /\ frame_open = 0 /\ frame_len = 0
  /\ px_index = 0 /\ offset_sent = FALSE
  /\ buf = <<>> /\ buf_pos = 0
  /\ tokens = 0 /\ token_frac = 0
  /\ out = <<>> /\ sent = 0 /\ arms = 0

---------------------------------------------------------------------------
(* Measurement data.  The tag is the acquisition and frame it was made in; *)
(* "time" is when a hit happened, in ticks since its frame opened.  Neither*)
(* is on the wire.                                                         *)

Md(h, v, t) == [hdr |-> h, v |-> v, tag |-> <<arms, frame_index>>, time |-> t]

HasRoom == Len(buf) < StageCap

\* A full staging buffer swallows the datum.
Emit(md) == buf' = IF HasRoom THEN Append(buf, md) ELSE buf

\* Hits are spread evenly over the shutter.
HitDue(i) == frame_open + (frame_len \div (Hits + 1)) * (i + 1)

FrameClose == frame_open + frame_len

\* Faulty variant: the window is rounded up.
NextWindow(t) == (t + ToaSpan - 1) \div ToaSpan

\* The window of the coarse time of arrival that t falls into.
Window(t) == t \div ToaSpan

OffsetDue ==
  /\ readout_mode = "data_driven"
  /\ ~offset_sent
  /\ px_index % OffsetPeriod = 0

---------------------------------------------------------------------------
(* pump(): one iteration of its loop per action.                           *)

Waiting ==
  \/ stage = "new_frame" /\ frame_open > now
  \/ stage = "pixels" /\ px_index < Hits /\ HitDue(px_index) > now
  \/ stage = "end_lsb" /\ FrameClose > now
  \/ stage = "idle"

\* Faulty variant: data go on being generated into a full buffer.
PumpRegardless == armed /\ ~Waiting

PumpGoesOn == armed /\ HasRoom /\ ~Waiting

PumpAt(s) ==
  /\ call # "none" /\ PumpGoesOn /\ stage = s
  /\ UNCHANGED <<now, call, buf_pos, bucket, history>>

\* Faulty variant: the hit counter is not restarted.
PumpNewFrameKeepingCount ==
  /\ PumpAt("new_frame")
  /\ Emit(Md("new_frame", 0, 0))
  /\ stage' = "start_lsb"
  /\ frame_active' = TRUE /\ offset_sent' = FALSE
  /\ UNCHANGED <<armed, readout_mode, frames_total, frame_index, frame_open, frame_len, px_index>>

PumpNewFrame ==
  /\ PumpAt("new_frame")
  /\ Emit(Md("new_frame", 0, 0))
  /\ stage' = "start_lsb"
  /\ frame_active' = TRUE /\ px_index' = 0 /\ offset_sent' = FALSE
  /\ UNCHANGED <<armed, readout_mode, frames_total, frame_index, frame_open, frame_len>>

\* The stages that emit a time stamp and go on to the next stage.
PumpStamp ==
  /\ \/ PumpAt("start_lsb") /\ Emit(Md("start_lsb", frame_open, 0)) /\ stage' = "start_msb"
     \/ PumpAt("start_msb") /\ Emit(Md("start_msb", 0, 0)) /\ stage' = "pixels"
     \/ PumpAt("end_lsb") /\ Emit(Md("end_lsb", FrameClose, 0)) /\ stage' = "end_msb"
     \/ PumpAt("end_msb") /\ Emit(Md("end_msb", 0, 0)) /\ stage' = "lost"
  /\ UNCHANGED <<armed, frame_active, readout_mode, frames_total, frame_index,
                 frame_open, frame_len, px_index, offset_sent>>

PumpPixelsDone ==
  /\ PumpAt("pixels") /\ px_index >= Hits
  /\ stage' = "end_lsb"
  /\ UNCHANGED <<armed, frame_active, readout_mode, frames_total, frame_index,
                 frame_open, frame_len, px_index, offset_sent, buf>>

PumpOffset ==
  /\ PumpAt("pixels") /\ px_index < Hits /\ OffsetDue
  /\ LET t == HitDue(px_index) - frame_open IN Emit(Md("offset", Window(t), t))
  /\ offset_sent' = TRUE
  /\ UNCHANGED <<stage, armed, frame_active, readout_mode, frames_total,
                 frame_index, frame_open, frame_len, px_index>>

PumpHit ==
  /\ PumpAt("pixels") /\ px_index < Hits /\ ~OffsetDue
  /\ LET t == HitDue(px_index) - frame_open IN Emit(Md("px", t % ToaSpan, t))
  /\ px_index' = px_index + 1
  /\ offset_sent' = FALSE
  /\ UNCHANGED <<stage, armed, frame_active, readout_mode, frames_total,
                 frame_index, frame_open, frame_len>>

PumpLost ==
  /\ PumpAt("lost")
  /\ IF Lost > 0 THEN Emit(Md("lost", Lost, 0)) ELSE UNCHANGED buf
  /\ stage' = "finished"
  /\ UNCHANGED <<armed, frame_active, readout_mode, frames_total, frame_index,
                 frame_open, frame_len, px_index, offset_sent>>

\* Faulty variant: one frame more than was asked for.
PumpFinishedOneMore ==
  /\ PumpAt("finished")
  /\ Emit(Md("finished", px_index, 0))
  /\ frame_active' = FALSE
  /\ frame_index' = frame_index + 1
  /\ \/ /\ frame_index < frames_total
        /\ frame_open' = frame_open + frame_len
        /\ stage' = "new_frame" /\ UNCHANGED armed
     \/ /\ frame_index >= frames_total
        /\ armed' = FALSE /\ stage' = "idle" /\ UNCHANGED frame_open
  /\ UNCHANGED <<readout_mode, frames_total, frame_len, px_index, offset_sent>>

PumpFinished ==
  /\ PumpAt("finished")
  /\ Emit(Md("finished", px_index, 0))
  /\ frame_active' = FALSE
  /\ frame_index' = frame_index + 1
  /\ \/ /\ frame_index + 1 < frames_total
        /\ frame_open' = frame_open + frame_len
        /\ stage' = "new_frame" /\ UNCHANGED armed
     \/ /\ frame_index + 1 >= frames_total
        /\ armed' = FALSE /\ stage' = "idle" /\ UNCHANGED frame_open
  /\ UNCHANGED <<readout_mode, frames_total, frame_len, px_index, offset_sent>>

Pump ==
  \/ PumpNewFrame \/ PumpStamp \/ PumpPixelsDone \/ PumpOffset \/ PumpHit
  \/ PumpLost \/ PumpFinished

\* Faulty variant: the staging buffer is never restarted.
PumpEnterAsIs == UNCHANGED staging

\* pump() is entered: a drained staging buffer starts over.
PumpEnter ==
  IF buf_pos = Len(buf) THEN buf' = <<>> /\ buf_pos' = 0 ELSE UNCHANGED staging

---------------------------------------------------------------------------
(* The calls.                                                              *)

\* katherine_emu_stream_arm, on a start command: the registers are sampled
\* and whatever the previous acquisition left staged is gone.
Arm(mode, n, len) ==
  /\ call = "none"
  /\ buf' = <<>> /\ buf_pos' = 0
  /\ readout_mode' = mode
  /\ frames_total' = n /\ frame_len' = len
  /\ frame_index' = 0 /\ frame_open' = now /\ frame_active' = FALSE
  /\ px_index' = 0 /\ offset_sent' = FALSE
  /\ armed' = (n > 0)
  /\ stage' = IF n > 0 THEN "new_frame" ELSE "idle"
  /\ out' = <<>> /\ arms' = arms + 1
  /\ UNCHANGED <<now, call, bucket, sent>>

\* katherine_emu_stream_stop, on a stop command: it catches up with the
\* clock first.
StopCall ==
  /\ call = "none" /\ armed
  /\ call' = "stop"
  /\ PumpEnter
  /\ UNCHANGED <<now, stream, bucket, history>>

\* Faulty variant: only a frame in its shutter counts as open.
ShutterOpen == armed /\ stage = "pixels"

FrameLeftOpen == armed /\ frame_active

StopReturn ==
  /\ call = "stop" /\ ~PumpGoesOn
  /\ call' = "none"
  /\ IF FrameLeftOpen THEN Emit(Md("aborted", 0, 0)) ELSE UNCHANGED buf
  /\ frame_active' = FALSE
  /\ armed' = FALSE /\ stage' = "idle"
  /\ UNCHANGED <<now, readout_mode, frames_total, frame_index, frame_open, frame_len,
                 px_index, offset_sent, buf_pos, bucket, history>>

DataOutCall ==
  /\ call = "none"
  /\ call' = "data_out"
  /\ PumpEnter
  /\ UNCHANGED <<now, stream, bucket, history>>

LeastOf(a, b) == IF a < b THEN a ELSE b

\* Faulty variant: the credit is not looked at.
CopyCountUnshaped(cap) ==
  LeastOf((Len(buf) - buf_pos) * MdSize, cap) \div MdSize

\* What data_out may copy, in whole measurement data.
CopyCount(cap) ==
  LET staged == LeastOf((Len(buf) - buf_pos) * MdSize, cap)
      shaped == IF Rate > 0 THEN LeastOf(staged, tokens) ELSE staged
  IN shaped \div MdSize

DataOutReturn(cap) ==
  /\ call = "data_out" /\ ~PumpGoesOn
  /\ call' = "none"
  /\ LET n == CopyCount(cap) IN
     /\ out' = out \o SubSeq(buf, buf_pos + 1, buf_pos + n)
     /\ buf_pos' = buf_pos + n
     /\ tokens' = IF Rate > 0 THEN tokens - n * MdSize ELSE tokens
     /\ sent' = sent + n * MdSize
  /\ UNCHANGED <<now, stream, buf, token_frac, arms>>

Word(x) == x % (WordMax + 1)

\* Faulty variant: the fraction of a token a step leaves is forgotten.
AccrueForgetful(ns) ==
  /\ tokens' = LeastOf(tokens + Word(token_frac + Word(ns * Rate)) \div Second, Burst)
  /\ token_frac' = 0

\* katherine_emu_stream_advance: credit accrues up to the burst.  A step so
\* long that the product could wrap around fills the bucket instead.
Accrue(ns) ==
  IF ns > (WordMax - Second) \div Rate
  THEN tokens' = Burst /\ token_frac' = 0
  ELSE LET total == Word(token_frac + Word(ns * Rate)) IN
       /\ tokens' = LeastOf(tokens + total \div Second, Burst)
       /\ token_frac' = total % Second

Advance(ns) ==
  /\ call = "none"
  /\ now' = now + ns
  /\ IF Rate > 0 THEN Accrue(ns) ELSE UNCHANGED bucket
  /\ UNCHANGED <<call, stream, staging, history>>

---------------------------------------------------------------------------

Start ==
  /\ arms < MaxArm /\ now <= MaxStart
  /\ \E mode \in Modes, n \in FrameCounts, len \in FrameLens : Arm(mode, n, len)
Stop == StopCall \/ StopReturn
Tick == \E ns \in Steps : now + ns <= MaxTime /\ Advance(ns)
DataOut == DataOutCall \/ \E cap \in Caps : DataOutReturn(cap)

Next == Start \/ Stop \/ DataOut \/ Pump \/ Tick

Spec == Init /\ [][Next]_vars

(***************************************************************************)
(* Fairness: a call once made returns, and the program that embeds the     *)
(* emulator (the loop of ksim) forever alternates between advancing the    *)
(* clock and asking for data.  Both are enabled only between calls, hence  *)
(* the strong fairness.  Nothing obliges anyone to start or to stop.       *)
(***************************************************************************)
Fairness ==
  /\ WF_vars(Pump) /\ WF_vars(StopReturn)
  /\ WF_vars(\E cap \in Caps : DataOutReturn(cap))
  /\ SF_vars(DataOutCall) /\ SF_vars(Tick)

FairSpec == Spec /\ Fairness

---------------------------------------------------------------------------
(* Properties                                                              *)

MdHeaders == {"new_frame", "start_lsb", "start_msb", "px", "offset", "end_lsb",
              "end_msb", "lost", "finished", "aborted"}

StreamMD == [hdr : MdHeaders, v : Nat, tag : Nat \X Nat, time : Nat]

\* Every variable keeps its C type, the staging buffer its capacity and the
\* token bucket its burst.
TypeOK ==
  /\ now \in Nat /\ call \in {"none", "stop", "data_out"}
  /\ stage \in Stages /\ armed \in BOOLEAN /\ frame_active \in BOOLEAN
  /\ readout_mode \in Modes \cup {"sequential"}
  /\ frames_total \in Nat /\ frame_index \in Nat
  /\ frame_open \in Nat /\ frame_len \in Nat
  /\ px_index \in 0..Hits /\ offset_sent \in BOOLEAN
  /\ buf \in Seq(StreamMD) /\ Len(buf) <= StageCap /\ buf_pos \in 0..Len(buf)
  /\ tokens \in 0..Burst /\ token_frac \in 0..(Second - 1)
  /\ out \in Seq(StreamMD) /\ sent \in Nat /\ arms \in Nat

\* All that was generated since the start command.
Generated == out \o SubSeq(buf, buf_pos + 1, Len(buf))

\* The headers that may follow each header within an acquisition.
MayFollow ==
  [ new_frame |-> {"start_lsb"},  start_lsb |-> {"start_msb"},
    start_msb |-> {"offset", "px", "end_lsb"}, offset |-> {"px"},
    px |-> {"offset", "px", "end_lsb"}, end_lsb |-> {"end_msb"},
    end_msb |-> {"lost", "finished"}, lost |-> {"finished"},
    finished |-> {"new_frame"}, aborted |-> {} ]

FollowsWell(a, b) ==
  CASE b.hdr = "aborted" -> a.hdr # "finished" /\ b.tag = a.tag
    [] b.hdr = "new_frame" -> a.hdr = "finished" /\ b.tag = <<a.tag[1], a.tag[2] + 1>>
    [] OTHER -> b.hdr \in MayFollow[a.hdr] /\ b.tag = a.tag

\* However the calls of data_out chop the stream, however full the staging
\* buffer and whenever the start and stop commands come, the data of an
\* acquisition are its frames one after another, each one complete and in
\* order except the last, with nothing missing, repeated or left over from
\* the acquisition before.
StreamWellFormed ==
  /\ Generated # <<>> =>
       Head(Generated).hdr = "new_frame" /\ Head(Generated).tag = <<arms, 0>>
  /\ \A i \in 1..(Len(Generated) - 1) : FollowsWell(Generated[i], Generated[i + 1])

HitsBefore(i) ==
  {j \in 1..(i - 1) : Generated[j].hdr = "px" /\ Generated[j].tag = Generated[i].tag}

\* A frame is closed by the number of hits sent in it, also when the staging
\* buffer made it generate them in several calls.
FinishedCountsHits ==
  \A i \in DOMAIN Generated :
    Generated[i].hdr = "finished" => Generated[i].v = Cardinality(HitsBefore(i))

\* An acquisition that is over has said so: its last datum closes its last
\* frame or is the aborted datum (the comment of katherine_emu_stream_stop).
\* True while the staging buffer has room, and only then.
StopTerminates ==
  call = "none" /\ ~armed /\ Generated # <<>> =>
    Generated[Len(Generated)].hdr \in {"finished", "aborted"}

\* The time a decoder that follows the protocol gives the hit at position i:
\* it adds the window of the last offset in the frame, or none.
WindowBefore(i) ==
  LET js == {j \in 1..(i - 1) : Generated[j].hdr \in {"offset", "new_frame"}}
  IN IF js = {} THEN 0 ELSE Generated[CHOOSE j \in js : \A k \in js : k <= j].v

DecodedTime(i) == WindowBefore(i) * ToaSpan + Generated[i].v

HitPositions == {i \in DOMAIN Generated : Generated[i].hdr = "px"}

\* In the data driven readout the decoded time of a hit is never ahead of the
\* time it happened, and wrong by whole windows only.
HitTimesNeverAhead ==
  readout_mode = "data_driven" => \A i \in HitPositions :
    /\ DecodedTime(i) <= Generated[i].time
    /\ (Generated[i].time - DecodedTime(i)) % ToaSpan = 0

\* Rate shaping: from the start of the emulator on, no more bytes are handed
\* over than the rate allows for the virtual time that has passed, however
\* the clock is advanced and whatever capacities data_out is called with.
RateRespected == Rate > 0 => sent * Second <= Rate * now

\* Rate shaping withholds nothing either: whatever the length of the step, a
\* clock step earns all the credit of the rate up to the burst, fractions of
\* a token included, even when step * rate does not fit a machine word.
Credit == tokens * Second + token_frac

CreditAccrues ==
  [][now' > now /\ Rate > 0 =>
       Credit' >= LeastOf(Credit + (now' - now) * Rate, Burst * Second)]_vars

\* An acquisition runs out: all its data are handed over in the end, also
\* through a staging buffer smaller than a frame.
Drains == armed ~> (~armed /\ call = "none" /\ buf_pos = Len(buf))
============================================================================
