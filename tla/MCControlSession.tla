-------------------------- MODULE MCControlSession --------------------------
(***************************************************************************)
(* Small instances of ControlSession for TLC.                              *)
(***************************************************************************)
EXTENDS ControlSession

FewFunctions == {SetTestPulses, SetAcqTime, MuteCommand}
OneFunction == {Inquiry}

AllButUpload == {"cmd", "mute", "chunk", "filler", "response"}
OnlyUpload == {"upload"}
NoLoss == {}
=============================================================================
