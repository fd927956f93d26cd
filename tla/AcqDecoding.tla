---------------------------- MODULE AcqDecoding ----------------------------
(***************************************************************************)
(* Acquisition with a history of what its reads have been sent to decode,  *)
(* and a reference definition of decoding: from the data in the order they *)
(* arrived, read one at a time and told where the time of arrival starts   *)
(* anew, to pixels.  The history changes nothing of Acquisition.           *)
(***************************************************************************)
EXTENDS Acquisition, FiniteSets

VARIABLE arrived  \* every datum a decoding read received whole, and restarts

decodingVars == <<vars, arrived>>

\* Where begin has reset the acquisition.
Restart == [hdr |-> "begin", v |-> 0, tag |-> NoTag]

DecodingInit == Init /\ arrived = <<>>

\* The data of a datagram of which every byte has arrived.
ArrivedWhole(dg) ==
  IF dg.cut = 0 THEN dg.mds ELSE SubSeq(dg.mds, 1, Len(dg.mds) - 1)

Arrives(dg) ==
  /\ n_recv < MaxRecv /\ RecvDatagram(dg)
  /\ arrived' = IF decode_data THEN arrived \o ArrivedWhole(dg) ELSE arrived

Restarts ==
  /\ \E n \in FrameRequests : Configured(n)
  /\ arrived' = Append(arrived, Restart)

NothingArrives ==
  /\ \/ Begin \/ ConfigureFails \/ StartSent \/ StartFails \/ ReadEnter
     \/ RecvError \/ DecodeStep \/ ReadLeave \/ KillOffPasses \/ Abort
  /\ UNCHANGED arrived

DecodingNext ==
  \/ \E dg \in Datagrams : Arrives(dg)
  \/ Restarts \/ NothingArrives

DecodingSpec == DecodingInit /\ [][DecodingNext]_decodingVars

FairDecodingSpec == DecodingSpec /\ Fairness

---------------------------------------------------------------------------
(* Properties                                                              *)

\* How many of the data that arrived have been decoded.
Done == Len(arrived) - Len(pending)

Hits(n) == {k \in 1..n : arrived[k].hdr = "px"}

\* Before datum i: data that say in which window the times of arrival are.
Marks(i) == {k \in 1..(i - 1) : arrived[k].hdr \in {"offset", "new_frame", "begin"}}

LastMark(i) == CHOOSE k \in Marks(i) : \A j \in Marks(i) : j <= k

\* An offset names the window, a new frame and begin start in the first one.
Window(i) ==
  IF Marks(i) # {} /\ arrived[LastMark(i)].hdr = "offset"
  THEN arrived[LastMark(i)].v ELSE 0

\* The pixels are those of the data received whole: each is decoded once, in
\* order, neither a fragment nor the bytes behind it ever are, and each is
\* dated in the window that the frame it belongs to was in when it was sent,
\* over any cut of the stream into datagrams, buffers, reads and acquisitions.
DecodedAsArrived ==
  /\ pending = SubSeq(arrived, Done + 1, Len(arrived))
  /\ Len(decoded) = Cardinality(Hits(Done))
  /\ \A i \in Hits(Done) :
       decoded[Cardinality(Hits(i))] =
         [toa |-> arrived[i].v + ToaSpan * Window(i), tag |-> arrived[i].tag]
============================================================================
