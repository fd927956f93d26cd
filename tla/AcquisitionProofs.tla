-------------------------- MODULE AcquisitionProofs --------------------------
(***************************************************************************)
(* Theorems about Acquisition, for every pixel buffer capacity, every set  *)
(* of datagrams the network may deliver and every combination of the       *)
(* timeouts.                                                               *)
(***************************************************************************)
EXTENDS AcqDecoding, SequenceTheorems, FiniteSetTheorems, TLAPS

---------------------------------------------------------------------------
(* Lemmas about the data.                                                  *)

\* The frame info after a flush is a frame info.
LEMMA FlushedInfoType ==
  ASSUME TypeOK PROVE FlushedInfo \in FrameInfo
<1>1. current_frame_info \in FrameInfo /\ Len(pixel_buffer) \in Nat
  BY LenProperties DEF TypeOK
<1> QED
  BY <1>1 DEF FlushedInfo, FrameInfo

\* The info a new frame starts with is a frame info.
LEMMA BlankInfoType == BlankInfo \in FrameInfo
BY DEF BlankInfo, FrameInfo

\* A flush keeps the types of what it touches.
LEMMA FlushType ==
  ASSUME TypeOK, FlushBuffer
  PROVE  /\ delivered' \in Seq(Pixel) /\ handed' \in Nat
         /\ current_frame_info' \in FrameInfo /\ pixel_buffer' \in Seq(Pixel)
<1>1. pixel_buffer \in Seq(Pixel) /\ delivered \in Seq(Pixel) /\ handed \in Nat
  BY DEF TypeOK
<1>2. delivered \o pixel_buffer \in Seq(Pixel) /\ Len(pixel_buffer) \in Nat
  BY <1>1, ConcatProperties, LenProperties
<1> QED
  BY <1>1, <1>2, FlushedInfoType DEF FlushBuffer, FlushDelivers

\* What ReportFrame appends to is a sequence of frame reports again.
LEMMA ReportType ==
  ASSUME TypeOK, NEW info \in FrameInfo, NEW complete \in BOOLEAN,
         ReportFrame(info, complete)
  PROVE  reports' \in Seq(FrameReport)
<1>1. Len(pixel_buffer) \in Nat
  BY LenProperties DEF TypeOK
<1> QED
  BY <1>1 DEF TypeOK, ReportFrame, FrameReport

\* The measurement datum at the head of what is pending.
LEMMA HeadType ==
  ASSUME TypeOK, pending # <<>>
  PROVE  /\ Head(pending) \in MD /\ Tail(pending) \in Seq(MD)
         /\ Head(pending).v \in Nat /\ Head(pending).tag \in Tags
         /\ Head(pending).hdr \in Headers
<1>1. Head(pending) \in MD /\ Tail(pending) \in Seq(MD)
  BY HeadTailProperties DEF TypeOK
<1> QED
  BY <1>1 DEF MD

---------------------------------------------------------------------------
(* The loop over md_buffer.                                                *)

\* Multiples of the size of a datum keep the order.
LEMMA Multiples ==
  ASSUME NEW a \in Nat, NEW b \in Nat, a <= b PROVE a * MdSize <= b * MdSize
<1>1. PICK d \in Nat : b = a + d
  <2>1. b - a \in Nat /\ b = a + (b - a)
    OBVIOUS
  <2> QED BY <2>1
<1>2. b * MdSize = a * MdSize + d * MdSize /\ d * MdSize \in Nat /\ a * MdSize \in Nat
  BY <1>1, AcqAssumption
<1>3. \A x \in Nat, y \in Nat : x <= x + y
  OBVIOUS
<1> QED BY <1>2, <1>3

\* The loop bound holds for the data that have arrived whole and no other.
LEMMA LoopBound ==
  ASSUME NEW dg \in Datagrams, NEW k \in 1..Len(dg.mds)
  PROVE  InWholeData(k, Received(dg)) <=> (dg.cut = 0 \/ k < Len(dg.mds))
<1>1. /\ Len(dg.mds) \in Nat /\ k \in Nat /\ k >= 1 /\ k <= Len(dg.mds)
      /\ MdSize \in Nat /\ dg.cut \in Nat /\ dg.cut < MdSize
  BY AcqAssumption, LenProperties DEF Datagram
<1>2. (k - 1) * MdSize + MdSize = k * MdSize /\ k * MdSize \in Nat
      /\ Len(dg.mds) * MdSize \in Nat
  BY <1>1
<1>3. CASE k = Len(dg.mds)
  BY <1>1, <1>2, <1>3 DEF InWholeData, Received
<1>4. CASE k < Len(dg.mds)
  <2>1. (k + 1) * MdSize <= Len(dg.mds) * MdSize
    BY <1>1, <1>4, Multiples
  <2>2. (k + 1) * MdSize = k * MdSize + MdSize
    BY <1>1
  <2> QED BY <1>1, <1>2, <1>4, <2>1, <2>2 DEF InWholeData, Received
<1> QED BY <1>1, <1>3, <1>4

\* Whatever is behind them in md_buffer, the loop decodes the data that have
\* arrived whole.
LEMMA LoopVisits ==
  ASSUME NEW dg \in Datagrams, NEW buffer \in BufferAfter(dg)
  PROVE  /\ Visited(buffer, Received(dg)) = ArrivedWhole(dg)
         /\ ArrivedWhole(dg) \in Seq(MD)
<1> DEFINE n == Len(dg.mds)
<1>1. dg.mds \in Seq(MD) /\ n \in Nat \ {0} /\ dg.cut \in Nat
      /\ dg.mds = [k \in 1..n |-> dg.mds[k]]
  BY AcqAssumption, LenProperties, EmptySeq DEF Datagram
<1>2. DOMAIN buffer = 1..n /\ \A k \in 1..n : dg.cut = 0 \/ k < n => buffer[k] = dg.mds[k]
  BY <1>1 DEF BufferAfter
<1>3. CASE dg.cut = 0
  <2>1. {k \in DOMAIN buffer : InWholeData(k, Received(dg))} = 1..n
    BY <1>2, <1>3, LoopBound
  <2> QED BY <1>1, <1>2, <1>3, <2>1 DEF Visited, ArrivedWhole
<1>4. CASE dg.cut # 0
  <2>1. {k \in DOMAIN buffer : InWholeData(k, Received(dg))} = 1..(n - 1)
    <3>1. \A k \in 1..n : InWholeData(k, Received(dg)) <=> k < n
      BY <1>4, LoopBound
    <3> QED BY <1>1, <1>2, <3>1
  <2>2. ArrivedWhole(dg) = [k \in 1..(n - 1) |-> dg.mds[k]]
    BY <1>1, <1>4 DEF ArrivedWhole
  <2>3. ArrivedWhole(dg) \in Seq(MD)
    BY <1>1, <2>2
  <2> QED BY <1>1, <1>2, <2>1, <2>2, <2>3 DEF Visited
<1> QED BY <1>3, <1>4

\* A datagram leaves its whole data to be decoded, or none in a raw read.
LEMMA RecvPending ==
  ASSUME NEW dg \in Datagrams, RecvDatagram(dg)
  PROVE  /\ pending' = (IF decode_data THEN ArrivedWhole(dg) ELSE <<>>)
         /\ ArrivedWhole(dg) \in Seq(MD)
<1>1. PICK buffer \in BufferAfter(dg) :
        pending' = IF decode_data THEN Visited(buffer, Received(dg)) ELSE <<>>
  BY DEF RecvDatagram
<1> QED BY <1>1, LoopVisits

---------------------------------------------------------------------------
(* Type correctness.                                                       *)

\* Every decoding step keeps the types.
LEMMA DecodeType ==
  ASSUME TypeOK, DecodeStep PROVE TypeOK'
<1> USE DEF Decode, object, history, bounds
<1>1. ASSUME pending # <<>>
      PROVE  /\ Head(pending) \in MD /\ Tail(pending) \in Seq(MD)
             /\ Head(pending).v \in Nat /\ Head(pending).tag \in Tags
  BY <1>1, HeadType
<1>2. CASE PixelDatum
  <2> DEFINE px == MapPixel(Head(pending))
  <2>1. px \in Pixel
    BY <1>1, <1>2, AcqAssumption DEF PixelDatum, MapPixel, Pixel, TypeOK
  <2>2. decoded' \in Seq(Pixel)
    BY <1>2, <2>1 DEF PixelDatum, TypeOK
  <2>3. /\ pixel_buffer' \in Seq(Pixel) /\ delivered' \in Seq(Pixel)
        /\ handed' \in Nat /\ current_frame_info' \in FrameInfo
    <3>1. CASE BufferFull /\ FlushDelivers /\ current_frame_info' = FlushedInfo
                 /\ pixel_buffer' = <<px>>
      <4>1. Len(pixel_buffer) \in Nat
        BY LenProperties DEF TypeOK
      <4> QED BY <2>1, <3>1, <4>1, FlushedInfoType DEF FlushDelivers, TypeOK
    <3>2. CASE /\ ~BufferFull /\ pixel_buffer' = Append(pixel_buffer, px)
               /\ UNCHANGED <<delivered, handed, current_frame_info>>
      BY <2>1, <3>2 DEF TypeOK
    <3> QED BY <1>2, <3>1, <3>2 DEF PixelDatum
  <2> QED BY <1>1, <1>2, <2>2, <2>3 DEF PixelDatum, TypeOK
<1>3. CASE NewFrame
  BY <1>1, <1>3, BlankInfoType DEF NewFrame, OpenedInfo, TypeOK
<1>4. CASE TimestampOffset
  BY <1>1, <1>4, AcqAssumption DEF TimestampOffset, NoFlush, TypeOK
<1>5. CASE FrameTimestamp
  <2>1. PICK h \in TimeHeaders :
          /\ Decode(h)
          /\ current_frame_info' = [current_frame_info EXCEPT !.times[h] = Head(pending).tag]
          /\ UNCHANGED <<state, aborted, frame_active, completed_frames,
                         dropped_measurement_data, last_toa_offset, pixel_buffer, history>>
    BY <1>5 DEF FrameTimestamp
  <2>2. current_frame_info' \in FrameInfo
    BY <1>1, <2>1 DEF FrameInfo, TypeOK
  <2> QED BY <1>1, <2>1, <2>2 DEF TypeOK
<1>6. CASE FrameFinished
  <2> DEFINE info == [FlushedInfo EXCEPT !.sent = Head(pending).v, !.completed = TRUE]
  <2>1. info \in FrameInfo
    BY <1>1, <1>6, FlushedInfoType DEF FrameFinished, FrameInfo
  <2>2. reports' \in Seq(FrameReport)
    BY <1>6, <2>1, ReportType DEF FrameFinished
  <2>3. delivered' \in Seq(Pixel)
    BY <1>6 DEF FrameFinished, TypeOK
  <2>4. state' \in States
    BY <1>6 DEF FrameFinished, StateAfterFrame, States, TypeOK
  <2>5. current_frame_info' \in FrameInfo
    BY <1>6, <2>1 DEF FrameFinished
  <2> HIDE DEF info
  <2>6. completed_frames' \in Nat /\ handed' \in Nat /\ frame_active' \in BOOLEAN
    <3>1. completed_frames' = completed_frames + 1 /\ handed' = 0 /\ frame_active' = FALSE
      BY <1>6 DEF FrameFinished
    <3>2. completed_frames \in Nat
      BY DEF TypeOK
    <3>3. completed_frames' \in Nat /\ handed' \in Nat
      BY <3>1, <3>2
    <3>4. frame_active' \in BOOLEAN
      BY <3>1
    <3> QED BY <3>3, <3>4
  <2>7. pixel_buffer' \in Seq(Pixel) /\ pending' \in Seq(MD)
    BY <1>1, <1>6 DEF FrameFinished
  <2>8. UNCHANGED <<aborted, dropped_measurement_data, last_toa_offset, decoded, raised,
          requested_frames, readout_mode, decode_data, pixel_buffer_max_valid,
          overdue, pc, apc, result, bounds>>
    BY <1>6 DEF FrameFinished
  <2> QED BY <2>2, <2>3, <2>4, <2>5, <2>6, <2>7, <2>8 DEF TypeOK
<1>7. CASE LostPixels
  <2>1. current_frame_info' \in FrameInfo
    <3>1. current_frame_info \in FrameInfo
      BY DEF TypeOK
    <3>2. current_frame_info.lost + Head(pending).v \in Nat
      <4>1. current_frame_info.lost \in Nat
        BY <3>1 DEF FrameInfo
      <4>2. Head(pending).v \in Nat
        BY <1>1, <1>7 DEF LostPixels, Decode, MD
      <4> QED BY <4>1, <4>2
    <3> DEFINE lost == current_frame_info.lost + Head(pending).v
    <3>3. current_frame_info' = [current_frame_info EXCEPT !.lost = lost]
      BY <1>7 DEF LostPixels
    <3> HIDE DEF lost
    <3> QED BY <3>1, <3>2, <3>3 DEF FrameInfo, lost
  <2> QED BY <1>1, <1>7, <2>1 DEF LostPixels, TypeOK
<1>8. CASE AbortedDatum
  BY <1>1, <1>8 DEF AbortedDatum, NoFlush, TypeOK
<1>9. CASE TriggerInfo
  BY <1>1, <1>9 DEF TriggerInfo, TypeOK
<1>10. CASE UnknownDatum
  BY <1>1, <1>10 DEF UnknownDatum, NoFlush, TypeOK
<1> QED
  BY <1>2, <1>3, <1>4, <1>5, <1>6, <1>7, <1>8, <1>9, <1>10
  DEF DecodeStep

\* Every step keeps the types.
LEMMA TypeStep ==
  ASSUME TypeOK, [Next]_vars PROVE TypeOK'
<1> USE DEF object, history, bounds
<1>1. CASE Begin
  <2>1. PICK mode \in Modes, n \in FrameRequests, dec \in BOOLEAN :
          BeginRejected(mode, n, dec) \/ BeginAccepted(mode, n, dec)
    BY <1>1 DEF Begin
  <2>2. BeginCall(mode, dec)
    BY <2>1 DEF BeginRejected, BeginAccepted
  <2>3. result' \in Results /\ pc' \in {"idle", "configure", "start", "read"}
    BY <2>1 DEF BeginRejected, BeginAccepted, Results
  <2>4. decode_data' \in BOOLEAN /\ raised' \in BOOLEAN
    BY <2>2 DEF BeginCall
  <2>5. readout_mode' \in Modes /\ n_begin' \in Nat
    BY <2>2 DEF BeginCall, TypeOK
  <2> QED BY <2>2, <2>3, <2>4, <2>5 DEF BeginCall, TypeOK
<1>2. CASE ConfigureFails
  BY <1>2 DEF ConfigureFails, Results, TypeOK
<1>3. CASE StartSent
  BY <1>3 DEF StartSent, Results, TypeOK
<1>4. CASE StartFails
  BY <1>4 DEF StartFails, Results, TypeOK
<1>5. ASSUME NEW n \in FrameRequests, Configured(n) PROVE TypeOK'
  <2>1. /\ state' \in States /\ pixel_buffer' \in Seq(Pixel)
        /\ reports' \in Seq(FrameReport) /\ completed_frames' \in Nat
        /\ requested_frames' \in FrameRequests /\ last_toa_offset' \in Nat
        /\ dropped_measurement_data' \in Nat
    BY <1>5 DEF Configured, States
  <2>2. /\ frame_active' \in BOOLEAN /\ overdue' \in BOOLEAN
        /\ pixel_buffer_max_valid' \in {0, PixelCap}
        /\ pc' \in {"idle", "configure", "start", "read"}
    BY <1>5 DEF Configured
  <2>3. UNCHANGED <<aborted, readout_mode, decode_data, current_frame_info, pending,
          apc, result, decoded, delivered, handed, raised, bounds>>
    BY <1>5 DEF Configured
  <2> QED BY <2>1, <2>2, <2>3 DEF TypeOK
<1>6. CASE ReadEnter
  BY <1>6 DEF ReadEnter, Results, TypeOK
<1>7. CASE Recv
  <2>1. PICK dg \in Datagrams : RecvDatagram(dg)
    BY <1>7 DEF Recv
  <2>2. pending' \in Seq(MD)
    BY <2>1, RecvPending, EmptySeq
  <2> QED BY <1>7, <2>2 DEF Recv, RecvDatagram, TypeOK
<1>8. CASE RecvError
  <2>1. /\ delivered' \in Seq(Pixel) /\ handed' \in Nat
        /\ current_frame_info' \in FrameInfo /\ pixel_buffer' \in Seq(Pixel)
    <3>1. CASE FlushBuffer
      BY <3>1, FlushType
    <3>2. CASE NoFlush
      BY <3>2 DEF NoFlush, TypeOK
    <3> QED BY <1>8, <3>1, <3>2 DEF RecvError
  <2>2. state' \in States
    BY <1>8 DEF RecvError, StateAfterError, States, TypeOK
  <2> QED BY <1>8, <2>1, <2>2 DEF RecvError, TypeOK
<1>9. CASE DecodeStep
  BY <1>9, DecodeType
<1>10. CASE ReadLeave
  <2>1. /\ delivered' \in Seq(Pixel) /\ handed' \in Nat
        /\ current_frame_info' \in FrameInfo /\ pixel_buffer' \in Seq(Pixel)
    BY <1>10, FlushType DEF ReadLeave, LeaveFlush
  <2>2. reports' \in Seq(FrameReport)
    BY <1>10, FlushedInfoType, ReportType DEF ReadLeave, TypeOK
  <2>3. result' \in Results
    BY <1>10 DEF ReadLeave, ReadResult, Results
  <2> QED BY <1>10, <2>1, <2>2, <2>3 DEF ReadLeave, TypeOK
<1>11. CASE KillOffPasses
  BY <1>11 DEF KillOffPasses, TypeOK
<1>12. CASE Abort
  <2>1. CASE AbortSend
    BY <2>1 DEF AbortSend, TypeOK
  <2>2. CASE AbortRaise
    BY <2>2 DEF AbortRaise, TypeOK
  <2> QED BY <1>12, <2>1, <2>2 DEF Abort
<1>13. CASE UNCHANGED vars
  BY <1>13 DEF vars, TypeOK
<1> QED
  BY <1>1, <1>2, <1>3, <1>4, <1>5, <1>6, <1>7, <1>8, <1>9, <1>10, <1>11, <1>12, <1>13
  DEF Next

\* The initial values have the types.
LEMMA TypeInit == Init => TypeOK
<1> SUFFICES ASSUME Init PROVE TypeOK
  OBVIOUS
<1>1. current_frame_info \in FrameInfo
  BY BlankInfoType DEF Init, Garbage, FrameInfo
<1>2. state \in States /\ result \in Results
  BY DEF Init, States, Results
<1>3. /\ pixel_buffer \in Seq(Pixel) /\ pending \in Seq(MD)
      /\ decoded \in Seq(Pixel) /\ delivered \in Seq(Pixel)
      /\ reports \in Seq(FrameReport)
  BY DEF Init
<1>4. /\ aborted \in BOOLEAN /\ frame_active \in BOOLEAN /\ decode_data \in BOOLEAN
      /\ overdue \in BOOLEAN /\ raised \in BOOLEAN
  BY DEF Init
<1> QED BY <1>1, <1>2, <1>3, <1>4 DEF Init, TypeOK

\* Every variable of the object and of its threads keeps its C type, in every
\* behaviour of the two threads and of the network (TypeOK).
THEOREM TypeCorrect == Spec => []TypeOK
<1> QED
  BY TypeInit, TypeStep, PTL DEF Spec

---------------------------------------------------------------------------
(* The invariants.  Each strengthening says which threads of control may   *)
(* still hold pixels, an open frame or undecoded data.                     *)

\* Between calls of read nothing is buffered, open or undecoded, and during
\* one the buffer is bounded by the capacity that read computed.
BufferInv ==
  /\ pc # "read" => pixel_buffer = <<>> /\ ~frame_active /\ pending = <<>>
  /\ pc = "read" => pixel_buffer_max_valid = PixelCap /\ Len(pixel_buffer) <= PixelCap

\* Data are only decoded while the acquisition runs or after its last frame,
\* never after a time-out.
VerdictInv ==
  /\ VerdictJustified
  /\ pending # <<>> => state # "TIMED_OUT"

\* The info of an open frame is not complete, and once an interrupted frame
\* has been reported nothing is left to decode.
ReportsInv ==
  /\ ReportsInOrder
  /\ frame_active => ~current_frame_info.completed
  /\ Interrupted # {} => pending = <<>> /\ ~frame_active

\* The counter of the open frame keeps up with the pixels handed over.
HandedInv ==
  /\ ReportsWhatWasHanded
  /\ frame_active => current_frame_info.received = handed

---------------------------------------------------------------------------
(* Nothing is left behind, and the buffer never overflows.                 *)

\* A decoding step keeps the buffer within its capacity.
LEMMA DecodeBuffer ==
  ASSUME TypeOK, BufferInv, DecodeStep PROVE BufferInv'
<1> USE DEF object, history, bounds
<1>1. /\ pc = "read" /\ pc' = "read" /\ pixel_buffer_max_valid = PixelCap
      /\ pixel_buffer_max_valid' = PixelCap
      /\ Len(pixel_buffer) \in Nat /\ Len(pixel_buffer) <= PixelCap
  <2>1. pc = "read" /\ UNCHANGED <<pc, pixel_buffer_max_valid>>
    BY DEF DecodeStep, PixelDatum, NewFrame, TimestampOffset, FrameTimestamp,
           FrameFinished, LostPixels, AbortedDatum, TriggerInfo, UnknownDatum, Decode
  <2> QED BY <2>1, LenProperties DEF BufferInv, TypeOK
<1>2. Len(pixel_buffer') <= PixelCap
  <2>1. CASE PixelDatum
    <3> DEFINE px == MapPixel(Head(pending))
    <3>1. CASE pixel_buffer' = <<px>>
      BY <3>1, AcqAssumption
    <3>2. CASE ~BufferFull /\ pixel_buffer' = Append(pixel_buffer, px)
      <4>1. Len(pixel_buffer') = Len(pixel_buffer) + 1
        BY <3>2 DEF TypeOK
      <4>2. Len(pixel_buffer) # PixelCap
        BY <1>1, <3>2 DEF BufferFull
      <4> QED BY <1>1, <4>1, <4>2, AcqAssumption
    <3> QED BY <2>1, <3>1, <3>2 DEF PixelDatum
  <2>2. CASE FrameFinished
    BY <2>2, AcqAssumption DEF FrameFinished
  <2>3. CASE UNCHANGED pixel_buffer
    BY <1>1, <2>3
  <2> QED
    BY <2>1, <2>2, <2>3
    DEF DecodeStep, NewFrame, TimestampOffset, FrameTimestamp, LostPixels,
        AbortedDatum, TriggerInfo, UnknownDatum, NoFlush
<1> QED
  BY <1>1, <1>2 DEF BufferInv

\* Every step keeps BufferInv.
LEMMA BufferStep ==
  ASSUME TypeOK, BufferInv, [Next]_vars PROVE BufferInv'
<1> USE DEF object, history, bounds
<1>1. CASE Begin
  BY <1>1 DEF Begin, BeginRejected, BeginAccepted, BeginCall, BufferInv
<1>2. CASE ConfigureFails \/ StartSent \/ StartFails
  BY <1>2 DEF ConfigureFails, StartSent, StartFails, BufferInv
<1>3. ASSUME NEW n \in FrameRequests, Configured(n) PROVE BufferInv'
  BY <1>3 DEF Configured, BufferInv
<1>4. CASE ReadEnter
  BY <1>4, AcqAssumption DEF ReadEnter, BufferInv
<1>5. CASE Recv
  BY <1>5 DEF Recv, RecvDatagram, Receiving, BufferInv
<1>6. CASE RecvError
  <2>1. pixel_buffer' = <<>> \/ pixel_buffer' = pixel_buffer
    BY <1>6 DEF RecvError, FlushBuffer, NoFlush
  <2> QED BY <1>6, <2>1, AcqAssumption DEF RecvError, Receiving, BufferInv
<1>7. CASE DecodeStep
  BY <1>7, DecodeBuffer
<1>8. CASE ReadLeave
  BY <1>8 DEF ReadLeave, LeaveFlush, FlushBuffer, BufferInv
<1>9. CASE KillOffPasses
  BY <1>9 DEF KillOffPasses, BufferInv
<1>10. CASE Abort
  BY <1>10 DEF Abort, AbortSend, AbortRaise, BufferInv
<1>11. CASE UNCHANGED vars
  BY <1>11 DEF vars, BufferInv
<1> QED
  BY <1>1, <1>2, <1>3, <1>4, <1>5, <1>6, <1>7, <1>8, <1>9, <1>10, <1>11 DEF Next

\* For every capacity of the pixel buffer: the decoder never writes past its
\* end, and when read has returned no pixel is left in it and no frame is
\* left open (BufferWithinCapacity, NothingLeftBehind).
THEOREM BufferSafe == Spec => []BufferSafety
<1>1. Init => BufferInv
  BY DEF Init, BufferInv
<1>2. BufferInv => BufferSafety
  BY DEF BufferInv, BufferSafety, BufferWithinCapacity, NothingLeftBehind
<1> QED
  BY <1>1, <1>2, TypeCorrect, BufferStep, PTL DEF Spec

---------------------------------------------------------------------------
(* No pixel is lost or handed over twice.                                  *)

\* Pixels move from the buffer to the handler without changing their order.
LEMMA ConservedStep ==
  ASSUME TypeOK, BufferInv, PixelsConserved, [Next]_vars PROVE PixelsConserved'
<1> USE DEF object, history, bounds
<1>1. /\ pixel_buffer \in Seq(Pixel) /\ delivered \in Seq(Pixel)
      /\ decoded \in Seq(Pixel) /\ decoded = delivered \o pixel_buffer
  BY DEF TypeOK, PixelsConserved
<1>2. ASSUME UNCHANGED decoded, delivered' = delivered \o pixel_buffer, pixel_buffer' = <<>>
      PROVE  PixelsConserved'
  <2>1. delivered \o pixel_buffer \in Seq(Pixel)
    BY <1>1, ConcatProperties
  <2>2. (delivered \o pixel_buffer) \o <<>> = delivered \o pixel_buffer
    BY <2>1, ConcatEmptySeq
  <2> QED BY <1>1, <1>2, <2>2 DEF PixelsConserved
<1>3. ASSUME UNCHANGED <<decoded, delivered, pixel_buffer>> PROVE PixelsConserved'
  BY <1>3 DEF PixelsConserved
<1>4. CASE PixelDatum
  <2> DEFINE px == MapPixel(Head(pending))
  <2>1. px \in Pixel
    BY <1>4, HeadType, AcqAssumption DEF PixelDatum, Decode, MapPixel, Pixel, TypeOK
  <2>2. decoded' = decoded \o <<px>> /\ <<px>> \in Seq(Pixel)
    BY <1>1, <1>4, <2>1 DEF PixelDatum
  <2> HIDE DEF px
  <2>3. CASE delivered' = delivered \o pixel_buffer /\ pixel_buffer' = <<px>>
    BY <1>1, <2>2, <2>3 DEF PixelsConserved
  <2>4. CASE UNCHANGED delivered /\ pixel_buffer' = Append(pixel_buffer, px)
    <3>1. pixel_buffer' = pixel_buffer \o <<px>>
      BY <1>1, <2>1, <2>4
    <3>2. (delivered \o pixel_buffer) \o <<px>> = delivered \o (pixel_buffer \o <<px>>)
      BY <1>1, <2>2, ConcatAssociative
    <3> QED BY <1>1, <2>2, <2>4, <3>1, <3>2 DEF PixelsConserved
  <2> QED BY <1>4, <2>3, <2>4 DEF PixelDatum, FlushDelivers, px
<1>5. CASE FrameFinished
  BY <1>2, <1>5 DEF FrameFinished
<1>6. CASE RecvError
  BY <1>2, <1>3, <1>6 DEF RecvError, FlushBuffer, FlushDelivers, NoFlush
<1>7. CASE ReadLeave
  BY <1>2, <1>7 DEF ReadLeave, LeaveFlush, FlushBuffer, FlushDelivers
<1>8. CASE ReadEnter
  BY <1>3, <1>8 DEF ReadEnter, BufferInv
<1>9. ASSUME NEW n \in FrameRequests, Configured(n) PROVE PixelsConserved'
  BY <1>3, <1>9 DEF Configured, BufferInv
<1>10. CASE NewFrame \/ TimestampOffset \/ FrameTimestamp \/ LostPixels
            \/ AbortedDatum \/ TriggerInfo \/ UnknownDatum
  BY <1>3, <1>10 DEF NewFrame, TimestampOffset, FrameTimestamp, LostPixels,
       AbortedDatum, TriggerInfo, UnknownDatum, NoFlush
<1>11. CASE \/ Begin \/ ConfigureFails \/ StartSent \/ StartFails \/ Recv
            \/ KillOffPasses \/ Abort \/ UNCHANGED vars
  BY <1>3, <1>11 DEF Begin, BeginRejected, BeginAccepted, BeginCall, ConfigureFails,
       StartSent, StartFails, Recv, RecvDatagram, KillOffPasses, Abort, AbortSend,
       AbortRaise, vars
<1> QED
  BY <1>4, <1>5, <1>6, <1>7, <1>8, <1>9, <1>10, <1>11 DEF Next, DecodeStep

\* For every set of datagrams, arriving in any order, and whichever way the
\* acquisition ends: the pixels handed to the application followed by those
\* still buffered are exactly the decoded ones, in order (PixelsConserved).
THEOREM PixelsAreConserved == Spec => []PixelsConserved
<1>1. Init => PixelsConserved /\ BufferInv
  <2>1. <<>> \o <<>> = <<>>
    BY EmptySeq, ConcatEmptySeq
  <2> QED BY <2>1 DEF Init, PixelsConserved, BufferInv
<1> QED
  BY <1>1, TypeCorrect, BufferStep, ConservedStep, PTL DEF Spec

---------------------------------------------------------------------------
(* Verdicts.                                                               *)

\* The decoding steps that are not about frames leave the verdict alone.
LEMMA OtherDataKeepVerdict ==
  ASSUME DecodeStep
  PROVE  \/ FrameFinished
         \/ /\ UNCHANGED <<state, completed_frames, requested_frames>>
            /\ aborted => aborted'
            /\ pending # <<>>
BY DEF DecodeStep, PixelDatum, NewFrame, TimestampOffset, FrameTimestamp, FrameFinished,
       LostPixels, AbortedDatum, TriggerInfo, UnknownDatum, Decode, object

\* Every step keeps VerdictInv.
LEMMA VerdictStep ==
  ASSUME TypeOK, BufferInv, VerdictInv, [Next]_vars PROVE VerdictInv'
<1> USE DEF object, history, bounds
<1>1. completed_frames \in Nat /\ requested_frames \in Nat /\ FailEnabled \in BOOLEAN
  BY AcqAssumption DEF TypeOK
<1>2. ASSUME UNCHANGED <<state, completed_frames, requested_frames>>, aborted => aborted',
             pending' # <<>> => pending # <<>>
      PROVE  VerdictInv'
  BY <1>2 DEF VerdictInv, VerdictJustified
<1>3. CASE FrameFinished
  <2>1. /\ completed_frames' = completed_frames + 1 /\ state' = StateAfterFrame
        /\ UNCHANGED <<aborted, requested_frames>> /\ state # "TIMED_OUT"
    BY <1>3 DEF FrameFinished, Decode, VerdictInv
  <2>2. CASE completed_frames + 1 = requested_frames
    BY <1>1, <2>1, <2>2 DEF StateAfterFrame, VerdictInv, VerdictJustified
  <2>3. CASE completed_frames + 1 # requested_frames
    BY <1>1, <2>1, <2>3 DEF StateAfterFrame, VerdictInv, VerdictJustified
  <2> QED BY <2>2, <2>3
<1>4. ASSUME NEW n \in FrameRequests, Configured(n) PROVE VerdictInv'
  <2>1. state' = "RUNNING" /\ completed_frames' = 0 /\ requested_frames' = n /\ n \in Nat
    BY <1>4, AcqAssumption DEF Configured
  <2> QED BY <2>1 DEF VerdictInv, VerdictJustified
<1>5. CASE Recv
  BY <1>5 DEF Recv, RecvDatagram, Receiving, VerdictInv, VerdictJustified
<1>6. CASE RecvError
  BY <1>1, <1>6 DEF RecvError, Receiving, StateAfterError, VerdictInv, VerdictJustified
<1>7. CASE DecodeStep
  BY <1>2, <1>3, <1>7, OtherDataKeepVerdict
<1>8. CASE \/ Begin \/ ConfigureFails \/ StartSent \/ StartFails \/ ReadEnter \/ ReadLeave
           \/ KillOffPasses \/ AbortSend \/ UNCHANGED vars
  <2>1. UNCHANGED <<state, aborted, completed_frames, requested_frames, pending>>
    BY <1>8 DEF Begin, BeginRejected, BeginAccepted, BeginCall, ConfigureFails, StartSent,
         StartFails, ReadEnter, ReadLeave, KillOffPasses, AbortSend, vars
  <2> QED BY <1>2, <2>1
<1>9. CASE AbortRaise
  BY <1>2, <1>9 DEF AbortRaise
<1> QED
  BY <1>4, <1>5, <1>6, <1>7, <1>8, <1>9 DEF Next, Abort

\* The verdict always agrees with the counters, whatever the number of frames
\* asked for and whatever arrives: no success without its frames or an abort,
\* no time-out after the last frame (VerdictJustified).
THEOREM VerdictCorrect == Spec => []VerdictJustified
<1>1. Init => VerdictInv /\ BufferInv
  BY DEF Init, VerdictInv, VerdictJustified, BufferInv
<1>2. VerdictInv => VerdictJustified
  BY DEF VerdictInv
<1> QED
  BY <1>1, <1>2, TypeCorrect, BufferStep, VerdictStep, PTL DEF Spec

\* Only begin replaces a verdict.
LEMMA VerdictKept ==
  ASSUME VerdictInv, [Next]_vars, pc # "configure", state \in {"SUCCEEDED", "TIMED_OUT"}
  PROVE  state' = state
<1> USE DEF object
<1>1. CASE FrameFinished
  BY <1>1 DEF FrameFinished, Decode, StateAfterFrame, VerdictInv
<1>2. CASE DecodeStep
  BY <1>1, <1>2, OtherDataKeepVerdict
<1>3. CASE Recv \/ RecvError
  BY <1>3 DEF Recv, RecvDatagram, RecvError, Receiving
<1>4. CASE \E n \in FrameRequests : Configured(n)
  BY <1>4 DEF Configured
<1>5. CASE \/ Begin \/ ConfigureFails \/ StartSent \/ StartFails \/ ReadEnter \/ ReadLeave
           \/ KillOffPasses \/ Abort \/ UNCHANGED vars
  BY <1>5 DEF Begin, BeginRejected, BeginAccepted, BeginCall, ConfigureFails,
       StartSent, StartFails, ReadEnter, ReadLeave, KillOffPasses, Abort, AbortSend,
       AbortRaise, vars
<1> QED
  BY <1>2, <1>3, <1>4, <1>5 DEF Next

\* Once given, a verdict is changed by no datum, time-out or abort, only by
\* the next begin (VerdictIsFinal).
THEOREM VerdictFinality == Spec => VerdictIsFinal
<1>1. Init => VerdictInv /\ BufferInv
  BY DEF Init, VerdictInv, VerdictJustified, BufferInv
<1>2. VerdictInv /\ [Next]_vars =>
        [(pc # "configure" /\ state \in {"SUCCEEDED", "TIMED_OUT"}) => state' = state]_vars
  BY VerdictKept
<1> QED
  BY <1>1, <1>2, TypeCorrect, BufferStep, VerdictStep, PTL DEF Spec, VerdictIsFinal

---------------------------------------------------------------------------
(* Frame reports.                                                          *)

\* Appending a report numbered completed_frames to complete reports.
LEMMA ReportAppended ==
  ASSUME TypeOK, ReportsInOrder, Interrupted = {}, NEW info \in FrameInfo,
         NEW complete \in BOOLEAN, info.completed = complete, ReportFrame(info, complete)
  PROVE  /\ Len(reports') = Len(reports) + 1 /\ Len(reports) = completed_frames
         /\ \A i \in DOMAIN reports' :
              /\ reports'[i].frame = i - 1
              /\ reports'[i].completed = reports'[i].info.completed
         /\ \A i \in DOMAIN reports' :
              ~reports'[i].completed <=> (i = Len(reports') /\ ~complete)
<1>1. /\ reports \in Seq(FrameReport) /\ Len(reports) \in Nat
      /\ DOMAIN reports = 1..Len(reports) /\ completed_frames = Len(reports)
  BY LenProperties DEF TypeOK, ReportsInOrder
<1> DEFINE r == [frame |-> completed_frames, completed |-> complete, info |-> info,
                 open |-> frame_active, handed |-> handed + Len(pixel_buffer)]
<1>2. r.frame = Len(reports) /\ r.completed = complete /\ r.info.completed = complete
  BY <1>1
<1>3. r \in FrameReport
  BY LenProperties DEF TypeOK, FrameReport
<1>4. reports' = Append(reports, r)
  BY DEF ReportFrame
<1> HIDE DEF r
<1>5. /\ Len(reports') = Len(reports) + 1 /\ DOMAIN reports' = 1..(Len(reports) + 1)
      /\ \A i \in 1..Len(reports) : reports'[i] = reports[i]
      /\ reports'[Len(reports) + 1] = r
  BY <1>1, <1>3, <1>4
<1>6. \A i \in 1..Len(reports) :
        /\ reports[i].frame = i - 1 /\ reports[i].completed = reports[i].info.completed
        /\ reports[i].completed
  BY <1>1 DEF ReportsInOrder, Interrupted
<1>7. ASSUME NEW i \in DOMAIN reports'
      PROVE  /\ reports'[i].frame = i - 1
             /\ reports'[i].completed = reports'[i].info.completed
             /\ ~reports'[i].completed <=> (i = Len(reports') /\ ~complete)
  <2>1. CASE i \in 1..Len(reports)
    BY <1>1, <1>5, <1>6, <2>1
  <2>2. CASE i = Len(reports) + 1
    BY <1>1, <1>2, <1>5, <2>2
  <2> QED BY <1>1, <1>5, <1>7, <2>1, <2>2
<1> QED
  BY <1>1, <1>5, <1>7

\* Every step keeps ReportsInv.
LEMMA ReportsStep ==
  ASSUME TypeOK, BufferInv, ReportsInv, [Next]_vars PROVE ReportsInv'
<1> USE DEF object, history, bounds
<1>1. ASSUME UNCHANGED <<reports, completed_frames>>,
             state' # state => state' # "RUNNING",
             Interrupted # {} => pending' = <<>> /\ ~frame_active',
             frame_active' => ~current_frame_info'.completed
      PROVE  ReportsInv'
  BY <1>1 DEF ReportsInv, ReportsInOrder, Interrupted
<1>2. CASE FrameFinished
  <2> DEFINE info == [FlushedInfo EXCEPT !.sent = Head(pending).v, !.completed = TRUE]
  <2>1. Interrupted = {} /\ ReportsInOrder
    BY <1>2 DEF FrameFinished, Decode, ReportsInv
  <2>2. info \in FrameInfo /\ info.completed = TRUE /\ ReportFrame(info, TRUE)
    <3>1. Head(pending).v \in Nat
      BY <1>2, HeadType DEF FrameFinished, Decode
    <3> QED BY <1>2, <3>1, FlushedInfoType DEF FrameFinished, FrameInfo
  <2>3. completed_frames' = completed_frames + 1 /\ ~frame_active'
    BY <1>2 DEF FrameFinished
  <2> HIDE DEF info
  <2>4. /\ Len(reports') = Len(reports) + 1 /\ Len(reports) = completed_frames
        /\ \A i \in DOMAIN reports' :
             /\ reports'[i].frame = i - 1
             /\ reports'[i].completed = reports'[i].info.completed
        /\ \A i \in DOMAIN reports' : reports'[i].completed
    BY <2>1, <2>2, ReportAppended
  <2>5. Interrupted' = {}
    BY <2>4 DEF Interrupted
  <2> QED BY <2>3, <2>4, <2>5 DEF ReportsInv, ReportsInOrder
<1>3. CASE ReadLeave
  <2>1. CASE ~frame_active
    BY <1>1, <1>3, <2>1 DEF ReadLeave, ReportsInv
  <2>2. CASE frame_active
    <3>1. /\ Interrupted = {} /\ ReportsInOrder /\ ~current_frame_info.completed
          /\ completed_frames' = completed_frames /\ ~frame_active'
          /\ pending' = <<>> /\ state' # "RUNNING"
      BY <1>3, <2>2 DEF ReadLeave, ReportsInv
    <3>2. ReportFrame(FlushedInfo, FALSE) /\ FlushedInfo \in FrameInfo
      BY <1>3, <2>2, FlushedInfoType DEF ReadLeave
    <3>3. FlushedInfo.completed = FALSE
      <4>1. FlushedInfo.completed = current_frame_info.completed
        BY DEF FlushedInfo, FrameInfo, TypeOK
      <4> QED BY <3>1, <4>1 DEF FrameInfo, TypeOK
    <3>4. /\ Len(reports') = Len(reports) + 1 /\ Len(reports) = completed_frames
          /\ \A i \in DOMAIN reports' :
               /\ reports'[i].frame = i - 1
               /\ reports'[i].completed = reports'[i].info.completed
          /\ \A i \in DOMAIN reports' : ~reports'[i].completed <=> i = Len(reports')
      BY <3>1, <3>2, <3>3, ReportAppended
    <3>5. Interrupted' = {i \in DOMAIN reports' : i = Len(reports')}
      BY <3>4 DEF Interrupted
    <3>6. Len(reports') \in DOMAIN reports'
      BY <3>2, <3>4, ReportType, LenProperties DEF TypeOK
    <3>7. Interrupted' # {} /\ \A i \in Interrupted' : i = Len(reports')
      BY <3>5, <3>6
    <3>8. completed_frames' = Len(reports') - 1
      BY <3>1, <3>4 DEF TypeOK
    <3> QED BY <3>1, <3>4, <3>7, <3>8 DEF ReportsInv, ReportsInOrder
  <2> QED BY <2>1, <2>2
<1>4. ASSUME NEW n \in FrameRequests, Configured(n) PROVE ReportsInv'
  <2>1. reports' = <<>> /\ completed_frames' = 0 /\ ~frame_active'
    BY <1>4 DEF Configured
  <2> QED BY <2>1 DEF ReportsInv, ReportsInOrder, Interrupted
<1>5. CASE NewFrame
  <2>1. current_frame_info'.completed = FALSE
    BY <1>5 DEF NewFrame, OpenedInfo, BlankInfo
  <2>2. Interrupted = {}
    BY <1>5 DEF NewFrame, Decode, ReportsInv
  <2> QED BY <1>1, <1>5, <2>1, <2>2 DEF NewFrame, Decode
<1>6. FlushedInfo.completed = current_frame_info.completed
  BY DEF FlushedInfo, FrameInfo, TypeOK
<1>7. CASE PixelDatum
  BY <1>1, <1>6, <1>7 DEF PixelDatum, Decode, ReportsInv
<1>8. CASE FrameTimestamp \/ LostPixels
  <2>1. current_frame_info'.completed = current_frame_info.completed
    BY <1>8 DEF FrameTimestamp, LostPixels, FrameInfo, TypeOK
  <2> QED BY <1>1, <1>8, <2>1 DEF FrameTimestamp, LostPixels, Decode, ReportsInv
<1>9. CASE TimestampOffset \/ AbortedDatum \/ TriggerInfo \/ UnknownDatum
  BY <1>1, <1>9 DEF TimestampOffset, AbortedDatum, TriggerInfo, UnknownDatum, NoFlush,
       Decode, ReportsInv
<1>10. CASE RecvError
  <2>1. state' # state => state' # "RUNNING"
    BY <1>10 DEF RecvError, StateAfterError
  <2>2. current_frame_info'.completed = current_frame_info.completed
    BY <1>6, <1>10 DEF RecvError, FlushBuffer, NoFlush
  <2> QED BY <1>1, <1>10, <2>1, <2>2 DEF RecvError, ReportsInv
<1>11. CASE Recv
  <2>1. Interrupted = {}
    BY <1>11 DEF Recv, RecvDatagram, Receiving, ReportsInv, ReportsInOrder
  <2> QED BY <1>1, <1>11, <2>1 DEF Recv, RecvDatagram, ReportsInv
<1>12. CASE \/ Begin \/ ConfigureFails \/ StartSent \/ StartFails \/ ReadEnter
            \/ KillOffPasses \/ Abort \/ UNCHANGED vars
  <2>1. UNCHANGED <<state, reports, completed_frames, pending, frame_active,
                    current_frame_info>>
    BY <1>12 DEF Begin, BeginRejected, BeginAccepted, BeginCall, ConfigureFails, StartSent,
         StartFails, ReadEnter, KillOffPasses, Abort, AbortSend, AbortRaise, vars
  <2> QED BY <1>1, <2>1 DEF ReportsInv
<1> QED
  BY <1>2, <1>3, <1>4, <1>5, <1>7, <1>8, <1>9, <1>10, <1>11, <1>12 DEF Next, DecodeStep

\* For any stream of data, however damaged: the frame_ended calls of an
\* acquisition are numbered without gaps, agree with the count of completed
\* frames, and at most the last one reports an incomplete frame, after the
\* acquisition is over (ReportsInOrder).
THEOREM ReportsCorrect == Spec => []ReportsInOrder
<1>1. Init => ReportsInv /\ BufferInv
  BY DEF Init, ReportsInv, ReportsInOrder, Interrupted, BufferInv
<1>2. ReportsInv => ReportsInOrder
  BY DEF ReportsInv
<1> QED
  BY <1>1, <1>2, TypeCorrect, BufferStep, ReportsStep, PTL DEF Spec

---------------------------------------------------------------------------
(* What frame_ended reports is what the application was handed.            *)

\* A flush counts what it hands over.
LEMMA FlushedCount ==
  ASSUME TypeOK
  PROVE  /\ FlushedInfo.received = current_frame_info.received + Len(pixel_buffer)
         /\ current_frame_info.received \in Nat /\ Len(pixel_buffer) \in Nat
<1>1. current_frame_info \in FrameInfo /\ Len(pixel_buffer) \in Nat
  BY LenProperties DEF TypeOK
<1> QED
  BY <1>1 DEF FlushedInfo, FrameInfo

\* A report appended for an open frame has the right count.
LEMMA ReportCounted ==
  ASSUME TypeOK, HandedInv, NEW info \in FrameInfo, NEW complete \in BOOLEAN,
         info.received = FlushedInfo.received, ReportFrame(info, complete)
  PROVE  ReportsWhatWasHanded'
<1>1. reports \in Seq(FrameReport) /\ Len(reports) \in Nat /\ DOMAIN reports = 1..Len(reports)
  BY LenProperties DEF TypeOK
<1> DEFINE r == [frame |-> completed_frames, completed |-> complete, info |-> info,
                 open |-> frame_active, handed |-> handed + Len(pixel_buffer)]
<1>2. r.open => r.info.received = r.handed
  BY FlushedCount DEF HandedInv
<1>3. r \in FrameReport
  BY LenProperties DEF TypeOK, FrameReport
<1>4. reports' = Append(reports, r)
  BY DEF ReportFrame
<1> HIDE DEF r
<1>5. /\ DOMAIN reports' = 1..(Len(reports) + 1)
      /\ \A i \in 1..Len(reports) : reports'[i] = reports[i]
      /\ reports'[Len(reports) + 1] = r
  BY <1>1, <1>3, <1>4
<1>6. ASSUME NEW i \in DOMAIN reports', reports'[i].open
      PROVE  reports'[i].info.received = reports'[i].handed
  <2>1. CASE i \in 1..Len(reports)
    BY <1>1, <1>5, <1>6, <2>1 DEF HandedInv, ReportsWhatWasHanded
  <2>2. CASE i = Len(reports) + 1
    BY <1>2, <1>5, <1>6, <2>2
  <2> QED BY <1>1, <1>5, <1>6, <2>1, <2>2
<1> QED
  BY <1>6 DEF ReportsWhatWasHanded

\* Every step keeps HandedInv.
LEMMA HandedStep ==
  ASSUME TypeOK, BufferInv, HandedInv, [Next]_vars PROVE HandedInv'
<1> USE DEF object, history, bounds
<1>1. ASSUME UNCHANGED reports,
             frame_active' => current_frame_info'.received = handed'
      PROVE  HandedInv'
  BY <1>1 DEF HandedInv, ReportsWhatWasHanded
<1>2. ASSUME UNCHANGED <<reports, handed, frame_active>>,
             current_frame_info'.received = current_frame_info.received
      PROVE  HandedInv'
  BY <1>1, <1>2 DEF HandedInv
<1>3. ASSUME UNCHANGED <<reports, frame_active>>, FlushDelivers,
             current_frame_info' = FlushedInfo
      PROVE  HandedInv'
  <2>1. frame_active => current_frame_info.received = handed
    BY DEF HandedInv
  <2> QED BY <1>1, <1>3, <2>1, FlushedCount DEF FlushDelivers
<1>4. CASE PixelDatum
  BY <1>2, <1>3, <1>4 DEF PixelDatum, Decode
<1>5. CASE NewFrame
  BY <1>1, <1>5 DEF NewFrame, Decode, OpenedInfo, BlankInfo
<1>6. CASE FrameFinished
  <2> DEFINE info == [FlushedInfo EXCEPT !.sent = Head(pending).v, !.completed = TRUE]
  <2>1. /\ info \in FrameInfo /\ info.received = FlushedInfo.received
        /\ ReportFrame(info, TRUE) /\ ~frame_active'
    <3>1. Head(pending).v \in Nat
      BY <1>6, HeadType DEF FrameFinished, Decode
    <3> QED BY <1>6, <3>1, FlushedInfoType DEF FrameFinished, FrameInfo
  <2> HIDE DEF info
  <2> QED BY <2>1, ReportCounted DEF HandedInv
<1>7. CASE FrameTimestamp \/ LostPixels
  <2>1. current_frame_info'.received = current_frame_info.received
    BY <1>7 DEF FrameTimestamp, LostPixels, FrameInfo, TypeOK
  <2> QED BY <1>2, <1>7, <2>1 DEF FrameTimestamp, LostPixels, Decode
<1>8. CASE TimestampOffset \/ AbortedDatum \/ TriggerInfo \/ UnknownDatum
  BY <1>2, <1>8 DEF TimestampOffset, AbortedDatum, TriggerInfo, UnknownDatum, NoFlush, Decode
<1>9. CASE RecvError
  BY <1>2, <1>3, <1>9 DEF RecvError, FlushBuffer, NoFlush
<1>10. CASE ReadLeave
  <2>1. CASE frame_active
    <3>1. ReportFrame(FlushedInfo, FALSE) /\ FlushedInfo \in FrameInfo /\ ~frame_active'
      BY <1>10, <2>1, FlushedInfoType DEF ReadLeave
    <3> QED BY <3>1, ReportCounted DEF HandedInv
  <2>2. CASE ~frame_active
    BY <1>1, <1>10, <2>2 DEF ReadLeave
  <2> QED BY <2>1, <2>2
<1>11. ASSUME NEW n \in FrameRequests, Configured(n) PROVE HandedInv'
  <2>1. reports' = <<>> /\ ~frame_active'
    BY <1>11 DEF Configured
  <2> QED BY <2>1 DEF HandedInv, ReportsWhatWasHanded
<1>12. CASE \/ Begin \/ ConfigureFails \/ StartSent \/ StartFails \/ ReadEnter \/ Recv
            \/ KillOffPasses \/ Abort \/ UNCHANGED vars
  BY <1>2, <1>12 DEF Begin, BeginRejected, BeginAccepted, BeginCall, ConfigureFails,
       StartSent, StartFails, ReadEnter, Recv, RecvDatagram, KillOffPasses, Abort,
       AbortSend, AbortRaise, vars
<1> QED
  BY <1>4, <1>5, <1>6, <1>7, <1>8, <1>9, <1>10, <1>11, <1>12 DEF Next, DecodeStep

\* For a frame whose new-frame datum arrived, received_pixels is the number of
\* pixels the application was handed since frame_started, in whatever portions
\* the buffer, the report timeout and the end of the frame flushed them
\* (ReportsWhatWasHanded).
THEOREM ReportsAreTrue == Spec => []ReportsWhatWasHanded
<1>1. Init => HandedInv /\ BufferInv
  BY DEF Init, HandedInv, ReportsWhatWasHanded, BufferInv
<1>2. HandedInv => ReportsWhatWasHanded
  BY DEF HandedInv
<1> QED
  BY <1>1, <1>2, TypeCorrect, BufferStep, HandedStep, PTL DEF Spec

---------------------------------------------------------------------------
(* The pixels decoded are those of the data that arrived.                  *)

\* What the decoder has made of the first n data that arrived.
DecodedUpTo(n) ==
  /\ Len(decoded) = Cardinality(Hits(n))
  /\ \A i \in Hits(n) :
       decoded[Cardinality(Hits(i))] =
         [toa |-> arrived[i].v + ToaSpan * Window(i), tag |-> arrived[i].tag]
  /\ last_toa_offset = ToaSpan * Window(n + 1)
  /\ \A i \in 1..(n + 1) : Marks(i) # {} => LastMark(i) \in Marks(i)

\* The data not yet decoded are the last ones that arrived, and the offset is
\* that of the window the next of them belongs to.
DecodingInv ==
  /\ arrived \in Seq(MD \cup {Restart})
  /\ Len(pending) <= Len(arrived)
  /\ pending = SubSeq(arrived, Done + 1, Len(arrived))
  /\ DecodedUpTo(Done)

\* A pixel is one hit more, and no other datum is.
NextHit(n) ==
  /\ IsFiniteSet(Hits(n)) /\ Cardinality(Hits(n)) \in Nat
  /\ n + 1 \notin Hits(n)
  /\ Hits(n + 1) = IF arrived[n + 1].hdr = "px" THEN Hits(n) \cup {n + 1} ELSE Hits(n)
  /\ Cardinality(Hits(n + 1)) =
       IF arrived[n + 1].hdr = "px" THEN Cardinality(Hits(n)) + 1 ELSE Cardinality(Hits(n))

AllHits == \A n \in Nat : NextHit(n)

LEMMA HitsNext == AllHits
<1> SUFFICES ASSUME NEW n \in Nat PROVE NextHit(n)
  BY DEF AllHits
<1>1. IsFiniteSet(Hits(n)) /\ Cardinality(Hits(n)) \in Nat
  <2>1. IsFiniteSet(1..n)
    BY FS_Interval
  <2>2. Hits(n) \in SUBSET (1..n)
    BY DEF Hits
  <2>3. IsFiniteSet(Hits(n))
    BY <2>1, <2>2, FS_Subset
  <2> QED BY <2>3, FS_CardinalityType
<1>2. n + 1 \notin Hits(n)
  BY DEF Hits
<1>3. Hits(n + 1) = IF arrived[n + 1].hdr = "px" THEN Hits(n) \cup {n + 1} ELSE Hits(n)
  <2>1. 1..(n + 1) = (1..n) \cup {n + 1}
    OBVIOUS
  <2> QED BY <2>1 DEF Hits
<1>4. Cardinality(Hits(n) \cup {n + 1}) = Cardinality(Hits(n)) + 1
  BY <1>1, <1>2, FS_AddElement
<1> QED BY <1>1, <1>2, <1>3, <1>4 DEF NextHit

\* The number of the pixel a hit has become.
LEMMA HitNumber ==
  ASSUME NEW n \in Nat, NEW i \in Hits(n)
  PROVE  Cardinality(Hits(i)) \in 1..Cardinality(Hits(n))
<1>1. i \in 1..n /\ i \in Hits(i) /\ Hits(i) \subseteq Hits(n)
  BY DEF Hits
<1>2. /\ IsFiniteSet(Hits(n)) /\ Cardinality(Hits(n)) \in Nat
      /\ IsFiniteSet(Hits(i)) /\ Cardinality(Hits(i)) \in Nat
  <2>1. NextHit(n) /\ NextHit(i)
    BY <1>1, HitsNext DEF AllHits
  <2> QED BY <2>1 DEF NextHit
<1>3. Cardinality(Hits(i)) <= Cardinality(Hits(n)) /\ Cardinality(Hits(i)) # 0
  BY <1>1, <1>2, FS_Subset, FS_EmptySet
<1> QED BY <1>2, <1>3

\* The window after a datum: the one it names, the first one, or the same.
NextWindow(n) ==
  IF arrived[n].hdr \in {"offset", "new_frame", "begin"}
  THEN /\ Marks(n + 1) # {} /\ LastMark(n + 1) = n /\ n \in Marks(n + 1)
       /\ Window(n + 1) = IF arrived[n].hdr = "offset" THEN arrived[n].v ELSE 0
  ELSE /\ Marks(n + 1) = Marks(n) /\ LastMark(n + 1) = LastMark(n)
       /\ Window(n + 1) = Window(n)

AllWindows == \A n \in Nat \ {0} : NextWindow(n)

LEMMA WindowNext == AllWindows
<1> SUFFICES ASSUME NEW n \in Nat \ {0} PROVE NextWindow(n)
  BY DEF AllWindows
<1>1. 1..((n + 1) - 1) = (1..(n - 1)) \cup {n} /\ n \notin 1..(n - 1)
  OBVIOUS
<1>2. CASE arrived[n].hdr \in {"offset", "new_frame", "begin"}
  <2>1. n \in Marks(n + 1) /\ \A j \in Marks(n + 1) : j \in Nat /\ j <= n
    BY <1>1, <1>2 DEF Marks
  <2>2. LastMark(n + 1) = n
    BY <2>1 DEF LastMark
  <2>3. Window(n + 1) = IF arrived[n].hdr = "offset" THEN arrived[n].v ELSE 0
    BY <2>1, <2>2 DEF Window
  <2> QED BY <1>2, <2>1, <2>2, <2>3 DEF NextWindow
<1>3. CASE arrived[n].hdr \notin {"offset", "new_frame", "begin"}
  <2>1. Marks(n + 1) = Marks(n)
    BY <1>1, <1>3 DEF Marks
  <2>2. LastMark(n + 1) = LastMark(n)
    BY <2>1 DEF LastMark
  <2>3. Window(n + 1) = Window(n)
    BY <2>1, <2>2 DEF Window
  <2> QED BY <1>3, <2>1, <2>2, <2>3 DEF NextWindow
<1> QED BY <1>2, <1>3

\* What comes later changes nothing of the hits and windows before.
LEMMA SamePrefix ==
  ASSUME NEW n \in Nat, DecodedUpTo(n), \A k \in 1..n : arrived'[k] = arrived[k]
  PROVE  /\ \A i \in 0..n : Hits(i)' = Hits(i)
         /\ \A i \in 1..(n + 1) :
              Marks(i)' = Marks(i) /\ LastMark(i)' = LastMark(i) /\ Window(i)' = Window(i)
<1>1. ASSUME NEW i \in 0..n PROVE Hits(i)' = Hits(i)
  BY <1>1 DEF Hits
<1>2. ASSUME NEW i \in 1..(n + 1)
      PROVE  Marks(i)' = Marks(i) /\ LastMark(i)' = LastMark(i) /\ Window(i)' = Window(i)
  <2>1. Marks(i)' = Marks(i)
    BY DEF Marks
  <2>2. LastMark(i)' = LastMark(i)
    BY <2>1 DEF LastMark
  <2>3. Marks(i) # {} => LastMark(i) \in 1..n
    BY DEF DecodedUpTo, Marks
  <2> QED BY <2>1, <2>2, <2>3 DEF Window
<1> QED BY <1>1, <1>2

\* Nothing is decoded while data arrive.
LEMMA NotDecoded ==
  ASSUME NEW n \in Nat, DecodedUpTo(n), \A k \in 1..n : arrived'[k] = arrived[k],
         UNCHANGED <<decoded, last_toa_offset>>
  PROVE  DecodedUpTo(n)'
<1>1. /\ \A i \in 0..n : Hits(i)' = Hits(i)
      /\ \A i \in 1..(n + 1) :
           Marks(i)' = Marks(i) /\ LastMark(i)' = LastMark(i) /\ Window(i)' = Window(i)
  BY SamePrefix
<1>2. Hits(n) \subseteq 1..n /\ n \in 0..n /\ n + 1 \in 1..(n + 1)
  BY DEF Hits
<1> QED BY <1>1, <1>2 DEF DecodedUpTo

\* Decoding, or starting over, goes on by one datum.
LEMMA DecodedNext ==
  ASSUME NEW n \in Nat, DecodedUpTo(n), decoded \in Seq(Pixel),
         \A k \in 1..n : arrived'[k] = arrived[k],
         NEW md \in MD \cup {Restart}, arrived'[n + 1] = md,
         decoded' = IF md.hdr = "px" THEN Append(decoded, MapPixel(md)) ELSE decoded,
         md.hdr = "px" => MapPixel(md) \in Pixel,
         last_toa_offset' =
           IF md.hdr = "offset" THEN md.v * ToaSpan
           ELSE IF md.hdr \in {"new_frame", "begin"} THEN 0 ELSE last_toa_offset
  PROVE  DecodedUpTo(n + 1)'
<1>1. /\ \A i \in 0..n : Hits(i)' = Hits(i)
      /\ \A i \in 1..(n + 1) :
           Marks(i)' = Marks(i) /\ LastMark(i)' = LastMark(i) /\ Window(i)' = Window(i)
  BY SamePrefix
<1>2. AllHits' /\ AllWindows'
  BY HitsNext, WindowNext, PTL
<1>3. NextHit(n)' /\ NextWindow(n + 1)'
  BY <1>2 DEF AllHits, AllWindows
<1>4. /\ Hits(n)' = Hits(n) /\ Window(n + 1)' = Window(n + 1)
      /\ Hits(n) \subseteq 1..n /\ Len(decoded) = Cardinality(Hits(n))
      /\ Len(decoded) \in Nat
  BY <1>1, LenProperties DEF Hits, DecodedUpTo
<1>5. /\ Hits(n + 1)' = IF md.hdr = "px" THEN Hits(n) \cup {n + 1} ELSE Hits(n)
      /\ Cardinality(Hits(n + 1)') =
           IF md.hdr = "px" THEN Len(decoded) + 1 ELSE Len(decoded)
  BY <1>3, <1>4 DEF NextHit
<1>6. /\ Len(decoded') = Cardinality(Hits(n + 1)')
      /\ \A c \in 1..Len(decoded) : decoded'[c] = decoded[c]
      /\ md.hdr = "px" => decoded'[Len(decoded) + 1] = MapPixel(md)
  BY <1>4, <1>5, AppendProperties
<1>7. ASSUME NEW i \in Hits(n + 1)'
      PROVE  decoded'[Cardinality(Hits(i)')] =
               [toa |-> arrived'[i].v + ToaSpan * Window(i)', tag |-> arrived'[i].tag]
  <2>1. CASE i \in Hits(n)
    <3>1. Cardinality(Hits(i)) \in 1..Len(decoded) /\ i \in 1..n
      BY <1>4, <2>1, HitNumber
    <3>2. Hits(i)' = Hits(i) /\ Window(i)' = Window(i) /\ arrived'[i] = arrived[i]
      BY <1>1, <3>1
    <3> QED BY <1>6, <2>1, <3>1, <3>2 DEF DecodedUpTo
  <2>2. CASE i = n + 1 /\ md.hdr = "px"
    <3>1. Cardinality(Hits(i)') = Len(decoded) + 1
      BY <1>5, <2>2
    <3>2. decoded'[Len(decoded) + 1] = [toa |-> md.v + last_toa_offset, tag |-> md.tag]
      BY <1>6, <2>2 DEF MapPixel
    <3>3. last_toa_offset = ToaSpan * Window(i)'
      BY <1>4, <2>2 DEF DecodedUpTo
    <3> QED BY <2>2, <3>1, <3>2, <3>3
  <2> QED BY <1>5, <1>7, <2>1, <2>2
<1>8. last_toa_offset' = ToaSpan * Window((n + 1) + 1)'
  <2>1. CASE md.hdr = "offset"
    <3>1. Window((n + 1) + 1)' = md.v
      BY <1>3, <2>1 DEF NextWindow
    <3>2. md.v \in Nat /\ ToaSpan \in Nat
      BY AcqAssumption DEF MD, Restart
    <3>3. md.v * ToaSpan = ToaSpan * md.v
      BY <3>2
    <3> QED BY <2>1, <3>1, <3>3
  <2>2. CASE md.hdr \in {"new_frame", "begin"}
    BY <1>3, <2>2, AcqAssumption DEF NextWindow
  <2>3. CASE md.hdr \notin {"offset", "new_frame", "begin"}
    BY <1>3, <1>4, <2>3 DEF NextWindow, DecodedUpTo
  <2> QED BY <2>1, <2>2, <2>3
<1>9. ASSUME NEW i \in 1..((n + 1) + 1), Marks(i)' # {} PROVE LastMark(i)' \in Marks(i)'
  <2>1. CASE i \in 1..(n + 1)
    BY <1>1, <1>9, <2>1 DEF DecodedUpTo
  <2>2. CASE i = (n + 1) + 1
    <3>1. n + 1 \in 1..(n + 1)
      OBVIOUS
    <3> QED BY <1>1, <1>3, <1>9, <2>2, <3>1 DEF NextWindow, DecodedUpTo
  <2> QED BY <1>9, <2>1, <2>2
<1> QED BY <1>6, <1>7, <1>8, <1>9 DEF DecodedUpTo

\* What a decoding step does to the pixels and to the offset.
LEMMA DecodedDatum ==
  ASSUME TypeOK, DecodeStep
  PROVE  LET md == Head(pending)
         IN  /\ pending # <<>> /\ pending' = Tail(pending) /\ md \in MD
             /\ decoded' = IF md.hdr = "px" THEN Append(decoded, MapPixel(md)) ELSE decoded
             /\ MapPixel(md) \in Pixel
             /\ last_toa_offset' =
                  IF md.hdr = "offset" THEN md.v * ToaSpan
                  ELSE IF md.hdr \in {"new_frame", "begin"} THEN 0 ELSE last_toa_offset
<1> USE DEF object, history
<1> DEFINE md == Head(pending)
<1>1. pending # <<>> /\ pending' = Tail(pending)
  BY DEF DecodeStep, PixelDatum, NewFrame, TimestampOffset, FrameTimestamp,
         FrameFinished, LostPixels, AbortedDatum, TriggerInfo, UnknownDatum, Decode
<1>2. md \in MD /\ md.v \in Nat /\ md.tag \in Tags /\ md.hdr \in Headers
  BY <1>1, HeadType
<1>3. MapPixel(md) \in Pixel
  BY <1>2 DEF MapPixel, Pixel, TypeOK
<1>4. CASE PixelDatum
  BY <1>1, <1>2, <1>3, <1>4 DEF PixelDatum, Decode
<1>5. CASE NewFrame
  BY <1>1, <1>2, <1>3, <1>5 DEF NewFrame, Decode
<1>6. CASE TimestampOffset
  BY <1>1, <1>2, <1>3, <1>6 DEF TimestampOffset, Decode
<1>7. CASE \/ FrameTimestamp \/ FrameFinished \/ LostPixels \/ AbortedDatum \/ TriggerInfo
           \/ UnknownDatum
  <2>1. md.hdr \notin {"px", "offset", "new_frame", "begin"}
    BY <1>2, <1>7 DEF FrameTimestamp, FrameFinished, LostPixels, AbortedDatum, TriggerInfo,
         UnknownDatum, Decode, TimeHeaders, Headers
  <2>2. UNCHANGED <<decoded, last_toa_offset>>
    BY <1>7 DEF FrameTimestamp, FrameFinished, LostPixels, AbortedDatum, TriggerInfo,
         UnknownDatum
  <2> QED BY <1>1, <1>2, <1>3, <2>1, <2>2
<1> QED
  BY <1>4, <1>5, <1>6, <1>7 DEF DecodeStep

\* The datum to be decoded next is the first of those not decoded yet.
LEMMA NextToDecode ==
  ASSUME NEW S, NEW s \in Seq(S), NEW p \in Seq(S), Len(p) <= Len(s), p # <<>>,
         p = SubSeq(s, Len(s) - Len(p) + 1, Len(s))
  PROVE  /\ Len(p) > 0 /\ Head(p) = s[Len(s) - Len(p) + 1] /\ Len(Tail(p)) = Len(p) - 1
         /\ Tail(p) = SubSeq(s, Len(s) - Len(p) + 2, Len(s))
<1>1. Len(s) \in Nat /\ Len(p) \in Nat /\ Len(p) > 0
  BY LenProperties, EmptySeq
<1>2. PICK m \in Int : m = Len(s) - Len(p) + 1
  BY <1>1
<1>3. m <= Len(s)
  BY <1>1, <1>2
<1>4. m \in 1..Len(s) /\ Len(s) \in m..Len(s)
  BY <1>1, <1>2, <1>3
<1>5. Head(p) = s[m] /\ Tail(p) = SubSeq(s, m + 1, Len(s))
  BY <1>2, <1>4, HeadTailOfSubSeq
<1>6. Len(Tail(p)) = Len(p) - 1
  BY HeadTailProperties
<1> QED BY <1>1, <1>2, <1>5, <1>6

\* The data of a datagram are the last ones that arrived.
LEMMA NewlyArrived ==
  ASSUME NEW S, NEW s \in Seq(S), NEW t \in Seq(S)
  PROVE  /\ s \o t \in Seq(S) /\ Len(s \o t) = Len(s) + Len(t)
         /\ \A k \in 1..Len(s) : (s \o t)[k] = s[k]
         /\ t = SubSeq(s \o t, Len(s) + 1, Len(s \o t))
<1>1. Len(s) \in Nat /\ Len(t) \in Nat
  BY LenProperties
<1>2. /\ s \o t \in Seq(S) /\ Len(s \o t) = Len(s) + Len(t)
      /\ \A k \in 1..(Len(s) + Len(t)) :
           (s \o t)[k] = IF k <= Len(s) THEN s[k] ELSE t[k - Len(s)]
  BY ConcatProperties
<1>3. PICK u : u = s \o t
  OBVIOUS
<1>4. PICK m \in Nat, n \in Nat : m = Len(s) + 1 /\ n = Len(s) + Len(t)
  BY <1>1
<1>5. \A k \in m..n : u[k] \in S
  BY <1>2, <1>3, <1>4, <1>1, ElementOfSeq
<1>6. /\ SubSeq(u, m, n) \in Seq(S) /\ Len(SubSeq(u, m, n)) = IF m <= n THEN n - m + 1 ELSE 0
      /\ \A i \in 1..(n - m + 1) : SubSeq(u, m, n)[i] = u[m + i - 1]
  BY <1>5, SubSeqProperties
<1>7. Len(SubSeq(u, m, n)) = Len(t)
  BY <1>1, <1>4, <1>6
<1>8. ASSUME NEW i \in 1..Len(t) PROVE SubSeq(u, m, n)[i] = t[i]
  <2>1. i \in 1..(n - m + 1) /\ m + i - 1 = Len(s) + i /\ Len(s) + i \in 1..(Len(s) + Len(t))
        /\ ~(Len(s) + i <= Len(s)) /\ (Len(s) + i) - Len(s) = i
    BY <1>1, <1>4
  <2> QED BY <1>2, <1>3, <1>6, <2>1
<1>9. SubSeq(u, m, n) = t
  BY <1>6, <1>7, <1>8, SeqEqual
<1>10. \A k \in 1..Len(s) : (s \o t)[k] = s[k]
  BY <1>1, <1>2
<1> QED BY <1>2, <1>3, <1>4, <1>9, <1>10

\* The parts of DecodingInv after a step, for the count n of data decoded then.
LEMMA StillDecoding ==
  ASSUME NEW n \in Nat, n = Done', DecodedUpTo(n)', arrived' \in Seq(MD \cup {Restart}),
         Len(pending') <= Len(arrived'), pending' = SubSeq(arrived', n + 1, Len(arrived'))
  PROVE  DecodingInv'
<1>1. DecodedUpTo(Done)'
  BY DEF DecodedUpTo
<1> QED BY <1>1 DEF DecodingInv

\* Every step keeps DecodingInv.
LEMMA DecodingStep ==
  ASSUME TypeOK, BufferInv, DecodingInv, [DecodingNext]_decodingVars PROVE DecodingInv'
<1> USE DEF object, history
<1> DEFINE D == MD \cup {Restart}
<1>0. PICK n \in Nat, m \in Nat, k \in Nat :
        n = Done /\ m = Len(arrived) /\ k = Len(pending) /\ m = n + k
  <2>1. Len(arrived) \in Nat /\ Len(pending) \in Nat /\ Len(pending) <= Len(arrived)
    BY LenProperties DEF TypeOK, DecodingInv
  <2>2. Done \in Nat /\ Len(arrived) = Done + Len(pending)
    BY <2>1 DEF Done
  <2> QED BY <2>1, <2>2
<1>1. /\ arrived \in Seq(D) /\ pending \in Seq(D) /\ decoded \in Seq(Pixel)
      /\ pending = SubSeq(arrived, n + 1, Len(arrived)) /\ DecodedUpTo(n)
  BY <1>0, SeqMonotonic DEF TypeOK, DecodingInv
<1>2. ASSUME NEW dg \in Datagrams, Arrives(dg) PROVE DecodingInv'
  <2>1. PICK t \in Seq(D) : pending' = t /\ arrived' = arrived \o t
    <3>1. /\ pending' = (IF decode_data THEN ArrivedWhole(dg) ELSE <<>>)
          /\ ArrivedWhole(dg) \in Seq(MD)
      BY <1>2, RecvPending DEF Arrives
    <3>2. ArrivedWhole(dg) \in Seq(D) /\ <<>> \in Seq(D) /\ arrived = arrived \o <<>>
      BY <1>1, <3>1, SeqMonotonic, EmptySeq, ConcatEmptySeq
    <3> QED BY <1>2, <3>1, <3>2 DEF Arrives
  <2>2. /\ arrived' \in Seq(D) /\ Len(arrived') = m + Len(t)
        /\ \A i \in 1..m : arrived'[i] = arrived[i]
        /\ t = SubSeq(arrived', m + 1, Len(arrived'))
    <3> HIDE DEF D
    <3>1. /\ arrived \o t \in Seq(D) /\ Len(arrived \o t) = Len(arrived) + Len(t)
          /\ \A i \in 1..Len(arrived) : (arrived \o t)[i] = arrived[i]
          /\ t = SubSeq(arrived \o t, Len(arrived) + 1, Len(arrived \o t))
      BY <1>1, NewlyArrived
    <3> QED BY <1>0, <2>1, <3>1
  <2>3. PICK l \in Nat : l = Len(t)
    BY LenProperties
  <2>4. pending = <<>> /\ UNCHANGED <<decoded, last_toa_offset>>
    BY <1>2 DEF Arrives, RecvDatagram, Receiving
  <2>5. n = m /\ n = Done'
    BY <1>0, <2>1, <2>2, <2>3, <2>4 DEF Done
  <2>6. DecodedUpTo(n)'
    BY <1>1, <2>2, <2>4, <2>5, NotDecoded
  <2>7. Len(pending') <= Len(arrived')
    BY <2>1, <2>2, <2>3
  <2>8. pending' = SubSeq(arrived', n + 1, Len(arrived')) /\ arrived' \in Seq(MD \cup {Restart})
    BY <2>1, <2>2, <2>5
  <2> HIDE DEF D
  <2> QED BY <2>5, <2>6, <2>7, <2>8, StillDecoding
<1>3. CASE Restarts
  <2>1. /\ pc = "configure" /\ arrived' = Append(arrived, Restart)
        /\ last_toa_offset' = 0 /\ UNCHANGED <<pending, decoded>>
    BY <1>3 DEF Restarts, Configured
  <2>2. /\ arrived' \in Seq(D) /\ Len(arrived') = m + 1
        /\ \A i \in 1..m : arrived'[i] = arrived[i]
        /\ arrived'[m + 1] = Restart
    <3>1. Restart \in D
      OBVIOUS
    <3> HIDE DEF D
    <3>2. PICK r \in D : r = Restart
      BY <3>1
    <3>3. /\ Append(arrived, r) \in Seq(D) /\ Len(Append(arrived, r)) = Len(arrived) + 1
          /\ \A i \in 1..Len(arrived) : Append(arrived, r)[i] = arrived[i]
          /\ Append(arrived, r)[Len(arrived) + 1] = r
      BY <1>1, AppendProperties
    <3> QED BY <1>0, <2>1, <3>2, <3>3
  <2>3. pending = <<>> /\ k = 0 /\ n = m /\ Done' = n + 1
    BY <1>0, <2>1, <2>2 DEF BufferInv, Done
  <2>4. Restart.hdr = "begin" /\ Restart \in D
    BY DEF Restart
  <2>5. DecodedUpTo(n + 1)'
    BY <1>1, <2>1, <2>2, <2>3, <2>4, DecodedNext
  <2>6. pending' = SubSeq(arrived', (n + 1) + 1, Len(arrived'))
    BY <2>1, <2>2, <2>3, SubSeqEmpty
  <2>7. Len(pending') <= Len(arrived')
    BY <1>0, <2>1, <2>2, <2>3
  <2> QED BY <2>2, <2>3, <2>5, <2>6, <2>7, StillDecoding
<1>4. CASE DecodeStep /\ UNCHANGED arrived
  <2> DEFINE md == Head(pending)
  <2>1. /\ pending # <<>> /\ pending' = Tail(pending) /\ md \in MD
        /\ decoded' = IF md.hdr = "px" THEN Append(decoded, MapPixel(md)) ELSE decoded
        /\ MapPixel(md) \in Pixel
        /\ last_toa_offset' =
             IF md.hdr = "offset" THEN md.v * ToaSpan
             ELSE IF md.hdr \in {"new_frame", "begin"} THEN 0 ELSE last_toa_offset
    BY <1>4, DecodedDatum
  <2>2. /\ k > 0 /\ md = arrived[n + 1] /\ Len(pending') = k - 1
        /\ pending' = SubSeq(arrived, n + 2, Len(arrived))
    <3>1. /\ Len(pending) > 0 /\ md = arrived[Len(arrived) - Len(pending) + 1]
          /\ Len(Tail(pending)) = Len(pending) - 1
          /\ Tail(pending) = SubSeq(arrived, Len(arrived) - Len(pending) + 2, Len(arrived))
      <4>1. pending = SubSeq(arrived, Len(arrived) - Len(pending) + 1, Len(arrived))
            /\ Len(pending) <= Len(arrived)
        <5>1. Len(arrived) - Len(pending) + 1 = n + 1 /\ Len(pending) <= Len(arrived)
          BY <1>0
        <5> QED BY <1>1, <5>1
      <4> HIDE DEF D
      <4> QED BY <1>1, <2>1, <4>1, NextToDecode
    <3>2. Len(arrived) - Len(pending) + 1 = n + 1 /\ Len(arrived) - Len(pending) + 2 = n + 2
      BY <1>0
    <3> QED BY <1>0, <2>1, <3>1, <3>2
  <2>3. n + 1 = Done' /\ Len(pending') <= Len(arrived') /\ n + 2 = (n + 1) + 1
    BY <1>0, <1>4, <2>2 DEF Done
  <2> HIDE DEF md
  <2>4. DecodedUpTo(n + 1)'
    BY <1>1, <1>4, <2>1, <2>2, DecodedNext
  <2>5. /\ arrived' \in Seq(MD \cup {Restart}) /\ Len(pending') <= Len(arrived')
        /\ pending' = SubSeq(arrived', (n + 1) + 1, Len(arrived'))
    BY <1>1, <1>4, <2>2, <2>3
  <2> HIDE DEF D
  <2> QED BY <2>3, <2>4, <2>5, StillDecoding
<1>5. ASSUME UNCHANGED <<arrived, pending, decoded, last_toa_offset>> PROVE DecodingInv'
  <2>1. n = Done' /\ DecodedUpTo(n)'
    BY <1>0, <1>1, <1>5, NotDecoded DEF Done
  <2>2. Len(pending') <= Len(arrived')
    <3>1. Len(pending) <= Len(arrived)
      BY <1>0
    <3> QED BY <1>5, <3>1
  <2>3. pending' = SubSeq(arrived', n + 1, Len(arrived')) /\ arrived' \in Seq(MD \cup {Restart})
    BY <1>1, <1>5
  <2> HIDE DEF D
  <2> QED BY <2>1, <2>2, <2>3, StillDecoding
<1>6. CASE /\ \/ Begin \/ ConfigureFails \/ StartSent \/ StartFails \/ ReadEnter
              \/ RecvError \/ ReadLeave \/ KillOffPasses \/ Abort \/ UNCHANGED vars
           /\ UNCHANGED arrived
  <2>1. UNCHANGED <<arrived, pending, decoded, last_toa_offset>>
    BY <1>6 DEF Begin, BeginRejected, BeginAccepted, BeginCall, ConfigureFails, StartSent,
         StartFails, ReadEnter, RecvError, ReadLeave, KillOffPasses, Abort, AbortSend,
         AbortRaise, vars
  <2> QED BY <1>5, <2>1
<1> QED
  BY <1>2, <1>3, <1>4, <1>5, <1>6 DEF DecodingNext, NothingArrives, decodingVars

\* For every size of a datum, every set of datagrams, whole or cut short, and
\* whatever the buffer holds behind them: the pixels decoded are those of the
\* data received whole, each once, in order and dated in the window it was
\* sent in, over any number of buffers, reads and acquisitions
\* (DecodedAsArrived).
THEOREM DecodingIsFaithful == DecodingSpec => []DecodedAsArrived
<1>1. DecodingInit => Init /\ BufferInv /\ DecodingInv
  <2> SUFFICES ASSUME DecodingInit PROVE BufferInv /\ DecodingInv
    BY DEF DecodingInit
  <2>1. pending = <<>> /\ arrived = <<>> /\ decoded = <<>> /\ last_toa_offset = 0
    BY DEF DecodingInit, Init
  <2>2. Len(pending) = 0 /\ Len(arrived) = 0 /\ Len(decoded) = 0 /\ Done = 0
        /\ arrived \in Seq(MD \cup {Restart})
    BY <2>1, EmptySeq DEF Done
  <2>3. Hits(0) = {} /\ Marks(1) = {}
    BY DEF Hits, Marks
  <2>4. Window(1) = 0 /\ ToaSpan * 0 = 0
    BY <2>3, AcqAssumption DEF Window
  <2>5. DecodedUpTo(0)
    <3>1. 1..(0 + 1) = {1} /\ 0 + 1 = 1
      OBVIOUS
    <3> QED BY <2>1, <2>2, <2>3, <2>4, <3>1, FS_EmptySet DEF DecodedUpTo
  <2>6. pending = SubSeq(arrived, Done + 1, Len(arrived))
    BY <2>1, <2>2, SubSeqEmpty
  <2>7. BufferInv
    BY DEF DecodingInit, Init, BufferInv
  <2> QED BY <2>2, <2>5, <2>6, <2>7 DEF DecodingInv
<1>2. [DecodingNext]_decodingVars => [Next]_vars
  BY DEF DecodingNext, decodingVars, Next, Arrives, Recv, Restarts, NothingArrives
<1>3. DecodingInv => DecodedAsArrived
  BY DEF DecodingInv, DecodedUpTo, DecodedAsArrived
<1> QED
  BY <1>1, <1>2, <1>3, TypeInit, TypeStep, BufferStep, DecodingStep, PTL DEF DecodingSpec

====
