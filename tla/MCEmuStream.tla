---------------------------- MODULE MCEmuStream ----------------------------
(***************************************************************************)
(* Small instances of EmuStream for TLC.                                   *)
(***************************************************************************)
EXTENDS EmuStream

BothModes == {"sequential", "data_driven"}
DataDriven == {"data_driven"}
UpToTwoFrames == {0, 1, 2}
OneFrame == {1}
TwoFrames == {2}
ShortFrames == {0, 6}
LongFrame == {12}
TwoTicks == {2}
SmallSteps == {2, 3}
UnevenSteps == {1, 3, 13}
OneTick == {1}
SomeCaps == {5, 13, 60}
WholeDataCaps == {13, 60}
LargeCap == {60}
============================================================================
