------------------------------- MODULE Device -------------------------------
(***************************************************************************)
(* The device (c/src/device.c): two UDP sessions that are opened in order, *)
(* pinned to one readout at once, and closed together.                     *)
(*                                                                         *)
(* The control session is the session of UdpSession, in full.  The data    *)
(* session is the same code: of it this module keeps the steps of opening, *)
(* what it holds, its remote and its pin.  A program may also use the      *)
(* control session alone, as the daemon does: then the phase is "alone"    *)
(* and the session is driven by the Application of UdpSession.             *)
(***************************************************************************)
EXTENDS UdpSession

VARIABLES
  device,   \* where katherine_device_init or katherine_device_fini is
  target,   \* the host the device was opened for
  data      \* the data session: [stage, held, remote, pinned]

deviceVars == <<vars, device, target, data>>

Phases == {"closed", "control", "pin_control", "data", "pin_data", "open",
           "undo", "fini_control", "alone"}

ClosedSession == [stage |-> "closed", held |-> {}, remote |-> target, pinned |-> FALSE]

DeviceInit ==
  /\ Init
  /\ device = "closed" /\ target \in Hosts /\ data = ClosedSession

---------------------------------------------------------------------------
(* katherine_device_init                                                   *)

\* Both sockets have a receive timeout.
DeviceCall(h) ==
  /\ device = "closed"
  /\ InitCall(TRUE)
  /\ device' = "control" /\ target' = h
  /\ UNCHANGED data

ControlStep(a) ==
  /\ device = "control" /\ a.host = target
  /\ InitStep(a)
  /\ device' = IF stage' = "open" THEN "pin_control" ELSE "control"
  /\ UNCHANGED <<target, data>>

ControlFails ==
  /\ device = "control"
  /\ InitFails
  /\ device' = "closed"
  /\ UNCHANGED <<target, data>>

PinControl ==
  /\ device = "pin_control"
  /\ PinRemote
  /\ device' = "data"
  /\ data' = [data EXCEPT !.stage = FirstStep, !.pinned = FALSE]
  /\ UNCHANGED target

DataStep ==
  /\ device = "data"
  /\ data' = [data EXCEPT
       !.stage = StepAfter(@),
       !.held = @ \cup Acquired(data.stage),
       !.remote = IF data.stage = "remote" THEN target ELSE @]
  /\ device' = IF data'.stage = "open" THEN "pin_data" ELSE "data"
  /\ UNCHANGED <<vars, target>>

DataFails ==
  /\ device = "data"
  /\ data' = [data EXCEPT !.stage = "closed",
                          !.held = @ \ ReleasedOnFailure(data.stage)]
  /\ device' = "undo"
  /\ UNCHANGED <<vars, target>>

\* Faulty variant: the data session follows whoever sends.
Unpinned == data

Pinned == [data EXCEPT !.pinned = TRUE]

PinData ==
  /\ device = "pin_data"
  /\ data' = Pinned
  /\ device' = "open"
  /\ UNCHANGED <<vars, target>>

\* Faulty variant: a device without its data session is merely reported.
UndoNothing == UNCHANGED vars

\* err_data: the control session is closed again.
UndoControl == Fini

Undo ==
  /\ device = "undo"
  /\ UndoControl
  /\ device' = "closed"
  /\ UNCHANGED <<target, data>>

---------------------------------------------------------------------------
(* katherine_device_fini, no receive under way.                            *)

DeviceFini ==
  /\ device = "open" /\ call = "none"
  /\ data' = [data EXCEPT !.stage = "closed", !.held = @ \ ReleasedByFini]
  /\ device' = "fini_control"
  /\ UNCHANGED <<vars, target>>

FiniControl ==
  /\ device = "fini_control"
  /\ Fini
  /\ device' = "closed"
  /\ UNCHANGED <<target, data>>

---------------------------------------------------------------------------

OpenOrClose ==
  \/ \E h \in Hosts : DeviceCall(h)
  \/ \E a \in Address : ControlStep(a)
  \/ ControlFails \/ PinControl \/ DataStep \/ DataFails \/ PinData \/ Undo
  \/ DeviceFini \/ FiniControl

\* The library receives on the control session of an open device.
LibraryReceives ==
  /\ device = "open"
  /\ \E n \in Counts : ReceiveCall("recv_exact", n)

SessionAlone ==
  /\ device \in {"closed", "alone"}
  /\ Application
  /\ device' = IF stage' = "closed" THEN "closed" ELSE "alone"
  /\ UNCHANGED <<target, data>>

ControlReceives == ReceiveGoesOn /\ UNCHANGED <<device, target, data>>

DeviceNext ==
  \/ OpenOrClose
  \/ SessionAlone \/ ControlReceives
  \/ /\ \/ LibraryReceives \/ ReceiveInterrupted
        \/ \E dg \in Traffic : Arrives(dg)
     /\ UNCHANGED <<device, target, data>>

DeviceSpec == DeviceInit /\ [][DeviceNext]_deviceVars

\* Fairness as in UdpSession.
FairDeviceSpec == DeviceSpec /\ WF_deviceVars(ControlReceives)

---------------------------------------------------------------------------
(* Properties                                                              *)

\* Every variable keeps its type.
DeviceTypeOK ==
  /\ UdpTypeOK
  /\ device \in Phases /\ target \in Hosts
  /\ data \in [stage : Opening \cup {"closed", "open"}, held : SUBSET Resources,
               remote : Hosts, pinned : BOOLEAN]

\* However katherine_device_init fails, and after katherine_device_fini,
\* neither session holds anything.
DeviceLeaksNothing ==
  device = "closed" =>
    /\ stage = "closed" /\ held = {}
    /\ data.stage = "closed" /\ data.held = {}

\* Both sessions of an open device hold what they need and speak to the host
\* it was opened for, whatever has arrived in the meantime (the comment of
\* katherine_device_init).
DeviceReady ==
  device = "open" =>
    /\ stage = "open" /\ data.stage = "open"
    /\ {"socket", "mutex"} \subseteq held /\ held = data.held
    /\ remote_pinned /\ data.pinned
    /\ addr_remote.host = target /\ data.remote = target
=============================================================================
