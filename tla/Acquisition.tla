---------------------------- MODULE Acquisition ----------------------------
(***************************************************************************)
(* The acquisition object of libkatherine (c/src/acquisition.c): begin,    *)
(* the read loop that decodes measurement data (MD) datagrams into pixels  *)
(* and frame events, and abort, called from another thread or from a       *)
(* handler while the read loop runs.                                       *)
(*                                                                         *)
(* The readout is an open environment here: any datagram of the constant   *)
(* Datagrams may arrive at any recv, in any order, so lost, duplicated and *)
(* reordered datagrams are all included.  AcqSystem closes the system with *)
(* the emulated readout and a channel.                                     *)
(*                                                                         *)
(* A measurement datum is a record [hdr, v, tag]: its header, its payload  *)
(* (coarse time of arrival of a pixel, window number of an offset, count   *)
(* of sent or lost pixels) and a tag that says where the readout generated *)
(* it.  The tag is not on the wire; only the properties look at it.        *)
(***************************************************************************)
EXTENDS Integers, Sequences

CONSTANTS
  PixelCap,       \* pixel_buffer_size / PIXEL_SIZE of the acquisition mode
  ToaSpan,        \* ticks in one time-of-arrival window (2^14 in the code)
  MdSize,         \* KATHERINE_MD_SIZE, bytes of a measurement datum
  Datagrams,      \* datagrams the data socket may deliver
  Tags,           \* origins of measurement data
  Leftovers,      \* what a datum reads as when bytes of it are older than the datagram
  NoTag,          \* origin of the contents of never written memory
  FrameRequests,  \* values of config->no_frames
  Modes,          \* readout modes passed to begin
  ReportEnabled,  \* report_timeout > 0
  FailEnabled,    \* fail_timeout > 0
  MaxRecv,        \* bound: datagrams received in a behaviour
  MaxBegin,       \* bound: calls of begin
  MaxAbort        \* bound: calls of abort

TimeHeaders == {"start_lsb", "start_msb", "end_lsb", "end_msb"}

Headers == TimeHeaders \cup
  {"px", "trigger", "offset", "new_frame", "finished", "lost", "aborted", "unknown"}

MD == [hdr : Headers, v : Nat, tag : Tags]

\* A datagram carries measurement data; when it was cut short, the last ones
\* of its bytes are missing.
Datagram == [mds : Seq(MD), cut : 0..(MdSize - 1)]

Pixel == [toa : Nat, tag : Tags]

FrameInfo == [received : Nat, sent : Nat, lost : Nat, completed : BOOLEAN,
              times : [TimeHeaders -> Tags \cup {NoTag}]]

\* A call of the frame_ended handler.  "open" says whether frame_active was
\* set, "handed" how many pixels the pixels_received handler has been given
\* since the previous frame_started or frame_ended call.
FrameReport == [frame : Nat, completed : BOOLEAN, info : FrameInfo,
                open : BOOLEAN, handed : Nat]

States == {"NOT_STARTED", "RUNNING", "SUCCEEDED", "TIMED_OUT"}
Results == {"none", "ok", "EINVAL", "EIO", "ETIMEDOUT", "EAGAIN"}

ASSUME AcqAssumption ==
  /\ PixelCap \in Nat \ {0}
  /\ ToaSpan \in Nat \ {0} /\ MdSize \in Nat \ {0}
  /\ Datagrams \subseteq Datagram /\ \A dg \in Datagrams : dg.mds # <<>>
  /\ Leftovers \subseteq MD
  /\ FrameRequests \subseteq Nat
  /\ Modes \subseteq {"sequential", "data_driven"}
  /\ ReportEnabled \in BOOLEAN /\ FailEnabled \in BOOLEAN
  /\ MaxRecv \in Nat /\ MaxBegin \in Nat /\ MaxAbort \in Nat

VARIABLES
  state, aborted, frame_active, completed_frames, requested_frames,
  readout_mode, decode_data, dropped_measurement_data, last_toa_offset,
  current_frame_info, pixel_buffer, pixel_buffer_max_valid,
  pending,        \* measurement data of md_buffer not yet decoded
  overdue,        \* the kill-off time since acq_start_time has passed
  pc,             \* program counter of the thread that begins and reads
  apc,            \* program counter of the thread that aborts
  result,         \* code returned by the last call of begin or read
  \* History variables, read by the properties only.
  decoded,        \* pixels written to the pixel buffer
  delivered,      \* pixels handed to the pixels_received handler
  handed,         \* ... since the previous frame event
  reports,        \* frame_ended calls since begin configured the readout
  raised,         \* abort or an aborted datum seen since begin was called
  n_recv, n_begin, n_abort

object == <<state, aborted, frame_active, completed_frames, requested_frames,
            readout_mode, decode_data, dropped_measurement_data,
            last_toa_offset, current_frame_info, pixel_buffer, pixel_buffer_max_valid>>
history == <<decoded, delivered, handed, reports, raised>>
bounds == <<n_recv, n_begin, n_abort>>
vars == <<object, pending, overdue, pc, apc, result, history, bounds>>

BlankInfo == [received |-> 0, sent |-> 0, lost |-> 0, completed |-> FALSE,
              times |-> [h \in TimeHeaders |-> NoTag]]

\* katherine_acquisition_init leaves current_frame_info as malloc or the
\* stack had it: its counters may hold anything.
Garbage == {BlankInfo, [BlankInfo EXCEPT !.received = 7]}

Init ==
  /\ state = "NOT_STARTED" /\ aborted = FALSE /\ frame_active = FALSE
  /\ completed_frames = 0 /\ requested_frames = 0
  /\ readout_mode = "sequential" /\ decode_data = TRUE
  /\ dropped_measurement_data = 0 /\ last_toa_offset = 0
  /\ current_frame_info \in Garbage
  /\ pixel_buffer = <<>> /\ pixel_buffer_max_valid = 0
  /\ pending = <<>> /\ overdue = FALSE
  /\ pc = "idle" /\ apc = "idle" /\ result = "none"
  /\ decoded = <<>> /\ delivered = <<>> /\ handed = 0 /\ reports = <<>>
  /\ raised = FALSE
  /\ n_recv = 0 /\ n_begin = 0 /\ n_abort = 0

---------------------------------------------------------------------------
(* flush_buffer: the handler is given the buffered pixels, the frame info  *)
(* counts them and the buffer restarts empty.                              *)

FlushDelivers ==
  /\ delivered' = delivered \o pixel_buffer
  /\ handed' = handed + Len(pixel_buffer)

FlushedInfo ==
  [current_frame_info EXCEPT !.received = @ + Len(pixel_buffer)]

FlushBuffer ==
  /\ FlushDelivers
  /\ current_frame_info' = FlushedInfo
  /\ pixel_buffer' = <<>>

NoFlush ==
  UNCHANGED <<delivered, handed, current_frame_info, pixel_buffer>>

\* The frame_ended handler is called with info, after a flush.
ReportFrame(info, complete) ==
  reports' = Append(reports,
    [frame |-> completed_frames, completed |-> complete, info |-> info,
     open |-> frame_active, handed |-> handed + Len(pixel_buffer)])

---------------------------------------------------------------------------
(* handle_measurement_data: one action per header, each consuming the next *)
(* datum of the datagram in md_buffer.                                     *)

Decode(h) ==
  /\ pc = "read" /\ pending # <<>> /\ Head(pending).hdr = h
  /\ pending' = Tail(pending)
  /\ UNCHANGED <<requested_frames, readout_mode, decode_data, pixel_buffer_max_valid,
                 overdue, pc, apc, result, bounds>>

\* Faulty variant: the window offset is taken off instead of added.
MapPixelBefore(md) == [toa |-> md.v - last_toa_offset, tag |-> md.tag]

MapPixel(md) == [toa |-> md.v + last_toa_offset, tag |-> md.tag]

\* Faulty variant: the capacity test is off by one.
BufferOverfull == Len(pixel_buffer) > pixel_buffer_max_valid

BufferFull == Len(pixel_buffer) = pixel_buffer_max_valid

PixelDatum ==
  /\ Decode("px")
  /\ LET px == MapPixel(Head(pending)) IN
     /\ decoded' = Append(decoded, px)
     /\ \/ /\ BufferFull
           /\ FlushDelivers
           /\ current_frame_info' = FlushedInfo
           /\ pixel_buffer' = <<px>>
        \/ /\ ~BufferFull
           /\ pixel_buffer' = Append(pixel_buffer, px)
           /\ UNCHANGED <<delivered, handed, current_frame_info>>
  /\ UNCHANGED <<state, aborted, frame_active, completed_frames,
                 dropped_measurement_data, last_toa_offset, reports, raised>>

\* Faulty variant: the frame info is not cleared.
OpenedInfoKept == [current_frame_info EXCEPT !.completed = FALSE]

OpenedInfo == BlankInfo

\* Pixels still buffered when the frame opens are not flushed: they will be
\* counted to the frame that opens.
NewFrame ==
  /\ Decode("new_frame")
  /\ current_frame_info' = OpenedInfo
  /\ frame_active' = TRUE
  /\ last_toa_offset' = 0
  /\ handed' = 0
  /\ UNCHANGED <<state, aborted, completed_frames, dropped_measurement_data,
                 pixel_buffer, decoded, delivered, reports, raised>>

TimestampOffset ==
  /\ Decode("offset")
  /\ last_toa_offset' = Head(pending).v * ToaSpan
  /\ UNCHANGED <<state, aborted, frame_active, completed_frames,
                 dropped_measurement_data, decoded, reports, raised>>
  /\ NoFlush

FrameTimestamp ==
  \E h \in TimeHeaders :
    /\ Decode(h)
    /\ current_frame_info' =
         [current_frame_info EXCEPT !.times[h] = Head(pending).tag]
    /\ UNCHANGED <<state, aborted, frame_active, completed_frames,
                   dropped_measurement_data, last_toa_offset, pixel_buffer, history>>

\* Faulty variant: the count is compared before it is incremented.
StateAfterFrameLate ==
  IF completed_frames = requested_frames THEN "SUCCEEDED" ELSE state

\* Faulty variant: a frame past the requested ones makes it run again.
StateAfterFrameReopened ==
  IF completed_frames + 1 = requested_frames THEN "SUCCEEDED" ELSE "RUNNING"

StateAfterFrame ==
  IF completed_frames + 1 = requested_frames THEN "SUCCEEDED" ELSE state

FrameFinished ==
  /\ Decode("finished")
  /\ LET info == [FlushedInfo EXCEPT !.sent = Head(pending).v, !.completed = TRUE]
     IN /\ current_frame_info' = info
        /\ ReportFrame(info, TRUE)
  /\ delivered' = delivered \o pixel_buffer
  /\ pixel_buffer' = <<>>
  /\ handed' = 0
  /\ frame_active' = FALSE
  /\ completed_frames' = completed_frames + 1
  /\ state' = StateAfterFrame
  /\ UNCHANGED <<aborted, dropped_measurement_data, last_toa_offset, decoded, raised>>

LostPixels ==
  /\ Decode("lost")
  /\ current_frame_info' = [current_frame_info EXCEPT !.lost = @ + Head(pending).v]
  /\ UNCHANGED <<state, aborted, frame_active, completed_frames,
                 dropped_measurement_data, last_toa_offset, pixel_buffer, history>>

AbortedDatum ==
  /\ Decode("aborted")
  /\ aborted' = TRUE
  /\ raised' = TRUE
  /\ UNCHANGED <<state, frame_active, completed_frames, dropped_measurement_data,
                 last_toa_offset, decoded, reports>>
  /\ NoFlush

TriggerInfo ==
  /\ Decode("trigger")
  /\ UNCHANGED <<object, history>>

UnknownDatum ==
  /\ Decode("unknown")
  /\ dropped_measurement_data' = dropped_measurement_data + 1
  /\ UNCHANGED <<state, aborted, frame_active, completed_frames, last_toa_offset,
                 decoded, reports, raised>>
  /\ NoFlush

DecodeStep ==
  \/ PixelDatum \/ NewFrame \/ TimestampOffset \/ FrameTimestamp \/ FrameFinished
  \/ LostPixels \/ AbortedDatum \/ TriggerInfo \/ UnknownDatum

---------------------------------------------------------------------------
(* The read loop: acquisition_read_*.                                      *)

\* The lock on the data socket is taken, the buffer emptied and its capacity
\* computed.  The call is legal whenever begin has chosen a mode before.
ReadEnter ==
  /\ pc = "idle" /\ n_begin > 0
  /\ pc' = "read"
  /\ pixel_buffer' = <<>>
  /\ pixel_buffer_max_valid' = PixelCap
  /\ result' = "none"
  /\ UNCHANGED <<state, aborted, frame_active, completed_frames, requested_frames,
                 readout_mode, decode_data, dropped_measurement_data, last_toa_offset,
                 current_frame_info, pending, overdue, apc, history, bounds>>

Receiving == pc = "read" /\ pending = <<>> /\ state = "RUNNING"

\* The bytes recv reports.
Received(dg) == Len(dg.mds) * MdSize - dg.cut

\* md_buffer, datum by datum, up to the last one the datagram has reached.  Of
\* a datum cut short the header, in its last byte, is what was there before.
BufferAfter(dg) ==
  IF dg.cut = 0 THEN {dg.mds}
  ELSE {[dg.mds EXCEPT ![Len(dg.mds)] = md] : md \in Leftovers}

\* Faulty variant: the loop goes on while i < received.
InStartedData(k, received) == (k - 1) * MdSize < received

\* The loop bound i + KATHERINE_MD_SIZE <= received, for the k-th datum.
InWholeData(k, received) == (k - 1) * MdSize + MdSize <= received

\* Faulty variant: decoding starts at the second datum.
AllButFirst(buffer, received) == IF buffer = <<>> THEN <<>> ELSE Tail(buffer)

\* Faulty variant: decoding runs one datum past the end, and finds there a
\* copy of the last one.
LastTwice(buffer, received) ==
  IF buffer = <<>> THEN <<>> ELSE Append(buffer, buffer[Len(buffer)])

\* The data the loop over md_buffer decodes, one after the other.
Visited(buffer, received) ==
  LET visits == {k \in DOMAIN buffer : InWholeData(k, received)}
  IN [k \in visits |-> buffer[k]]

\* A datagram arrives in md_buffer and is decoded; a raw acquisition hands it
\* to data_received instead.
RecvDatagram(dg) ==
  /\ Receiving
  /\ \E md_buffer \in BufferAfter(dg) :
       pending' = IF decode_data THEN Visited(md_buffer, Received(dg)) ELSE <<>>
  /\ n_recv' = n_recv + 1
  /\ UNCHANGED <<object, overdue, pc, apc, result, history, n_begin, n_abort>>

\* Faulty variant: the kill-off time is only looked at between frames.
KillOffBetweenFrames ==
  IF aborted THEN "SUCCEEDED"
  ELSE IF FailEnabled /\ overdue /\ ~frame_active THEN "TIMED_OUT"
  ELSE state

\* The kill-off check comes first, but an abort overrides its verdict.
StateAfterError ==
  IF aborted THEN "SUCCEEDED"
  ELSE IF FailEnabled /\ overdue THEN "TIMED_OUT"
  ELSE state

\* recv fails: nothing arrived within the socket timeout, or an error.
RecvError ==
  /\ Receiving
  /\ \/ ReportEnabled /\ pixel_buffer # <<>> /\ FlushBuffer
     \/ NoFlush
  /\ state' = StateAfterError
  /\ UNCHANGED <<aborted, frame_active, completed_frames, requested_frames,
                 readout_mode, decode_data, dropped_measurement_data, last_toa_offset,
                 pixel_buffer_max_valid, pending, overdue, pc, apc, result,
                 decoded, reports, raised, bounds>>

ReadResult ==
  CASE state = "SUCCEEDED" -> "ok"
    [] state = "TIMED_OUT" -> "ETIMEDOUT"
    [] OTHER -> "EAGAIN"

\* Faulty variant: what is buffered when the loop ends is dropped.
LeaveDrop ==
  pixel_buffer' = <<>> /\ UNCHANGED <<delivered, handed, current_frame_info>>

LeaveFlush == FlushBuffer

\* The loop ends: handle_acquisition_interrupted for a frame still open, or a
\* flush of what is buffered, then the lock is released and read returns.
ReadLeave ==
  /\ pc = "read" /\ pending = <<>> /\ state # "RUNNING"
  /\ pc' = "idle" /\ result' = ReadResult
  /\ LeaveFlush
  /\ frame_active' = FALSE
  /\ IF frame_active THEN ReportFrame(FlushedInfo, FALSE) ELSE UNCHANGED reports
  /\ UNCHANGED <<state, aborted, completed_frames, requested_frames,
                 readout_mode, decode_data,
                 dropped_measurement_data, last_toa_offset, pixel_buffer_max_valid,
                 pending, overdue, apc, decoded, raised, bounds>>

\* Real time passes the kill-off time of the running acquisition.
KillOffPasses ==
  /\ FailEnabled /\ ~overdue /\ pc = "read"
  /\ overdue' = TRUE
  /\ UNCHANGED <<object, pending, pc, apc, result, history, bounds>>

---------------------------------------------------------------------------
(* katherine_acquisition_begin                                             *)

BeginCall(mode, dec) ==
  /\ pc = "idle"
  /\ n_begin' = n_begin + 1
  /\ readout_mode' = mode /\ decode_data' = dec
  /\ raised' = FALSE
  /\ UNCHANGED <<state, aborted, frame_active, completed_frames, requested_frames,
                 dropped_measurement_data, last_toa_offset, current_frame_info,
                 pixel_buffer, pixel_buffer_max_valid, pending, overdue, apc,
                 decoded, delivered, handed, reports, n_recv, n_abort>>

\* A data-driven readout measures a single frame.
FramesAllowed(mode, n) == ~(mode = "data_driven" /\ n > 1)

BeginRejected(mode, n, dec) ==
  /\ BeginCall(mode, dec)
  /\ ~FramesAllowed(mode, n)
  /\ result' = "EINVAL" /\ pc' = "idle"

\* The configuration commands start; each waits for its acknowledgement.
BeginAccepted(mode, n, dec) ==
  /\ BeginCall(mode, dec)
  /\ FramesAllowed(mode, n)
  /\ result' = "none" /\ pc' = "configure"

ConfigureFails ==
  /\ pc = "configure"
  /\ pc' = "idle" /\ result' = "EIO"
  /\ UNCHANGED <<object, pending, overdue, apc, history, bounds>>

\* Faulty variant: the count of completed frames is not reset.
ConfiguredKeepingCount(n) ==
  /\ pc = "configure" /\ FramesAllowed(readout_mode, n)
  /\ pc' = "start"
  /\ state' = "RUNNING"
  /\ requested_frames' = n
  /\ dropped_measurement_data' = 0
  /\ pixel_buffer' = <<>> /\ pixel_buffer_max_valid' = 0
  /\ last_toa_offset' = 0 /\ frame_active' = FALSE
  /\ overdue' = FALSE
  /\ reports' = <<>>
  /\ UNCHANGED <<aborted, completed_frames, readout_mode, decode_data,
                 current_frame_info, pending, apc, result, decoded, delivered,
                 handed, raised, bounds>>

\* All commands are acknowledged: the object is reset and marked RUNNING
\* before the start command is sent.  The abort flag is left as it is.
Configured(n) ==
  /\ pc = "configure" /\ FramesAllowed(readout_mode, n)
  /\ pc' = "start"
  /\ state' = "RUNNING"
  /\ completed_frames' = 0 /\ requested_frames' = n
  /\ dropped_measurement_data' = 0
  /\ pixel_buffer' = <<>> /\ pixel_buffer_max_valid' = 0
  /\ last_toa_offset' = 0 /\ frame_active' = FALSE
  /\ overdue' = FALSE
  /\ reports' = <<>>
  /\ UNCHANGED <<aborted, readout_mode, decode_data, current_frame_info, pending, apc, result,
                 decoded, delivered, handed, raised, bounds>>

\* The start command is sent under the control lock, or fails to be; either
\* way the object stays RUNNING.
StartSent ==
  /\ pc = "start"
  /\ pc' = "idle" /\ result' = "ok"
  /\ UNCHANGED <<object, pending, overdue, apc, history, bounds>>

StartFails ==
  /\ pc = "start"
  /\ pc' = "idle" /\ result' = "EIO"
  /\ UNCHANGED <<object, pending, overdue, apc, history, bounds>>

---------------------------------------------------------------------------
(* katherine_acquisition_abort: the stop command is sent under the control *)
(* lock; the flag is raised after the lock is released.  When the send     *)
(* fails abort returns its error and nothing has changed.                  *)

AbortSend ==
  /\ apc = "idle"
  /\ apc' = "raise"
  /\ n_abort' = n_abort + 1
  /\ UNCHANGED <<object, pending, overdue, pc, result, history, n_recv, n_begin>>

AbortRaise ==
  /\ apc = "raise"
  /\ apc' = "idle"
  /\ aborted' = TRUE
  /\ raised' = TRUE
  /\ UNCHANGED <<state, frame_active, completed_frames, requested_frames,
                 readout_mode, decode_data, dropped_measurement_data, last_toa_offset,
                 current_frame_info, pixel_buffer, pixel_buffer_max_valid,
                 pending, overdue, pc, result, decoded, delivered, handed,
                 reports, bounds>>

---------------------------------------------------------------------------

Begin ==
  /\ n_begin < MaxBegin
  /\ \E mode \in Modes, n \in FrameRequests, dec \in BOOLEAN :
       BeginRejected(mode, n, dec) \/ BeginAccepted(mode, n, dec)

Recv == n_recv < MaxRecv /\ \E dg \in Datagrams : RecvDatagram(dg)

Abort == (n_abort < MaxAbort /\ AbortSend) \/ AbortRaise

Next ==
  \/ Begin \/ ConfigureFails \/ StartSent \/ StartFails
  \/ \E n \in FrameRequests : Configured(n)
  \/ ReadEnter \/ Recv \/ RecvError \/ DecodeStep \/ ReadLeave
  \/ KillOffPasses \/ Abort

Spec == Init /\ [][Next]_vars

(***************************************************************************)
(* Fairness: the reading thread keeps running, its recv always returns,    *)
(* because the data socket has a receive timeout (device.c gives it        *)
(* 100 ms), a thread inside abort finishes it, and real time passes.       *)
(* Nothing obliges a caller to call begin, read or abort, or the network   *)
(* to deliver.                                                             *)
(***************************************************************************)
Fairness ==
  /\ WF_vars(RecvError) /\ WF_vars(DecodeStep) /\ WF_vars(ReadLeave)
  /\ WF_vars(AbortRaise) /\ WF_vars(KillOffPasses)

FairSpec == Spec /\ Fairness

---------------------------------------------------------------------------
(* Properties                                                              *)

\* Every variable of the object and of its two threads keeps its C type.
TypeOK ==
  /\ state \in States /\ aborted \in BOOLEAN /\ frame_active \in BOOLEAN
  /\ completed_frames \in Nat /\ requested_frames \in FrameRequests \cup {0}
  /\ readout_mode \in Modes \cup {"sequential"} /\ decode_data \in BOOLEAN
  /\ dropped_measurement_data \in Nat /\ last_toa_offset \in Nat
  /\ current_frame_info \in FrameInfo
  /\ pixel_buffer \in Seq(Pixel) /\ pixel_buffer_max_valid \in {0, PixelCap}
  /\ pending \in Seq(MD) /\ overdue \in BOOLEAN
  /\ pc \in {"idle", "configure", "start", "read"} /\ apc \in {"idle", "raise"}
  /\ result \in Results
  /\ decoded \in Seq(Pixel) /\ delivered \in Seq(Pixel) /\ handed \in Nat
  /\ reports \in Seq(FrameReport) /\ raised \in BOOLEAN
  /\ n_recv \in Nat /\ n_begin \in Nat /\ n_abort \in Nat

\* Whatever arrives and however the acquisition ends, the pixels handed to
\* the pixels_received handler followed by those still buffered are exactly
\* the pixels decoded, in order: flush_buffer is reached on every path that
\* empties the buffer, over any number of acquisitions.
PixelsConserved == decoded = delivered \o pixel_buffer

\* The decoder never writes a pixel past the end of pixel_buffer.
BufferWithinCapacity ==
  pc = "read" => Len(pixel_buffer) <= pixel_buffer_max_valid

\* When read has returned no pixel is left in the buffer and no frame is
\* left open: its frame_ended handler has been called.
NothingLeftBehind == pc # "read" => pixel_buffer = <<>> /\ ~frame_active

\* frame_ended calls of one acquisition are numbered 0, 1, 2, ... and are as
\* many as the completed frames, plus at most one frame reported incomplete,
\* which is the last one and is reported only when the acquisition is over.
Interrupted == {i \in DOMAIN reports : ~reports[i].completed}

ReportsInOrder ==
  /\ \A i \in DOMAIN reports :
       /\ reports[i].frame = i - 1
       /\ reports[i].completed = reports[i].info.completed
  /\ \A i \in Interrupted : i = Len(reports) /\ state # "RUNNING"
  /\ completed_frames = IF Interrupted = {} THEN Len(reports) ELSE Len(reports) - 1

\* For a frame whose new-frame datum arrived, frame_ended reports as
\* received_pixels the number of pixels the application has been handed
\* since frame_started.
ReportsWhatWasHanded ==
  \A i \in DOMAIN reports :
    reports[i].open => reports[i].info.received = reports[i].handed

\* The verdict agrees with the counters: a running acquisition has not yet
\* completed its frames, a timed-out one never did and had a fail timeout,
\* and a success had all its frames or was aborted.
VerdictJustified ==
  /\ state \in {"RUNNING", "TIMED_OUT"} /\ requested_frames > 0
       => completed_frames < requested_frames
  /\ state = "TIMED_OUT" => FailEnabled
  /\ state = "SUCCEEDED" =>
       aborted \/ (requested_frames > 0 /\ completed_frames >= requested_frames)

\* A verdict is final: once the acquisition has succeeded or timed out, no
\* later datum of the same datagram, time-out or abort changes it; only begin
\* starts it over.
VerdictIsFinal ==
  [][(pc # "configure" /\ state \in {"SUCCEEDED", "TIMED_OUT"}) => state' = state]_vars

\* The buffer is safe whatever arrives: no overrun, nothing left behind.
BufferSafety == BufferWithinCapacity /\ NothingLeftBehind

\* An abort raised while read runs makes it return success as soon as the
\* stream has dried up, with or without a fail timeout and even when the
\* kill-off time has passed as well (the comment in the read loop).
AbortEndsRead ==
  (pc = "read" /\ state = "RUNNING" /\ aborted) ~> (pc = "idle" /\ result = "ok")

\* With a fail timeout, a read whose stream has dried up returns, whether or
\* not a frame is open.
KillOffEndsRead == FailEnabled => (pc = "read" ~> pc = "idle")

\* A read whose stream has dried up returns, by either of the two.
DriedUpReadEnds == AbortEndsRead /\ KillOffEndsRead

\* NOT true of the code: a decoding read that returns success, in an
\* acquisition that neither abort nor an aborted datum has ended, has all its
\* frames and the aborted flag down, as the end-to-end tests assert.
UnabortedReadCompletes ==
  pc = "idle" /\ result = "ok" /\ state = "SUCCEEDED" /\ decode_data /\ ~raised =>
    completed_frames >= requested_frames /\ ~aborted
============================================================================
