--------------------------- MODULE MCAcquisition ---------------------------
(***************************************************************************)
(* Small instances of Acquisition and AcqDecoding for TLC.                 *)
(***************************************************************************)
EXTENDS AcqDecoding

Md(h, v) == [hdr |-> h, v |-> v, tag |-> "whole"]
Whole(s) == [mds |-> s, cut |-> 0]
Cut(s, bytes) == [mds |-> s, cut |-> bytes]

TagSet == {"whole", "stale"}

\* What the datum cut short may read as.
StaleData == {[hdr |-> h, v |-> 0, tag |-> "stale"] : h \in {"px", "finished"}}

\* Datagrams that exercise buffering and frame boundaries: several pixels,
\* frames that open and close within a datagram or across datagrams, and one
\* that lacks its last byte.
FrameDatagrams ==
  { Whole(<<Md("px", 0), Md("px", 1)>>),
    Whole(<<Md("new_frame", 0), Md("px", 0)>>),
    Whole(<<Md("finished", 2)>>),
    Whole(<<Md("px", 1), Md("finished", 1), Md("new_frame", 0)>>),
    Cut(<<Md("px", 0), Md("px", 1)>>, 1) }

\* ... and the other kinds of data, the last of them but for one byte missing.
AllDatagrams == FrameDatagrams \cup
  { Whole(<<Md("start_lsb", 0), Md("offset", 1), Md("px", 1), Md("lost", 1)>>),
    Cut(<<Md("finished", 1), Md("new_frame", 0), Md("finished", 0),
          Md("unknown", 0), Md("trigger", 0), Md("aborted", 0), Md("px", 0)>>, MdSize - 1) }

BothModes == {"sequential", "data_driven"}
OneFrame == {1}
AnyFrames == {0, 1, 2}

\* An application that reads what it has begun, aborts while it reads, and
\* begins again when that acquisition is over.
Careful ==
  /\ pc' = "read" /\ pc # "read" => result = "ok"
  /\ n_abort' > n_abort => pc = "read"
  /\ n_begin' > n_begin => state # "RUNNING"

CarefulSpec == DecodingInit /\ [][DecodingNext /\ Careful]_decodingVars
============================================================================
