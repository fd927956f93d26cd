---------------------------- MODULE MCAcqSystem ----------------------------
(***************************************************************************)
(* Small instances of AcqSystem for TLC.                                   *)
(***************************************************************************)
EXTENDS AcqSystem

NoDatagrams == {}
TagSet == (1..2) \X (0..2)
Sequential == {"sequential"}
BothModes == {"sequential", "data_driven"}
OneFrame == {1}
TwoFrames == {2}
OneOrTwoFrames == {1, 2}
FrameLength == {2}
OddFrameLength == {3}
OneTick == {1}
TwoTicks == {2}
SmallDatagram == {18}
TwoSizes == {18, 60}
LargeDatagram == {60}
============================================================================
