---------------------------- MODULE DeviceProofs ----------------------------
(***************************************************************************)
(* Theorems about Device: the control session of a device is a session of  *)
(* UdpSession, so what UdpProofs shows of a session holds of it; and both  *)
(* sessions are opened, pinned and closed together.                        *)
(***************************************************************************)
EXTENDS Device, UdpProofs

---------------------------------------------------------------------------
(* The device drives its control session as an application may.            *)

\* A step of the device is a step of the control session or leaves it alone.
LEMMA StepOfSession ==
  ASSUME [DeviceNext]_deviceVars PROVE [Next]_vars
<1>1. CASE OpenOrClose
  <2>1. CASE \E h \in Hosts : DeviceCall(h)
    BY <2>1 DEF DeviceCall, Next, Application
  <2>2. CASE \E a \in Address : ControlStep(a)
    BY <2>2 DEF ControlStep, Next, Application
  <2>3. CASE ControlFails \/ PinControl
    BY <2>3 DEF ControlFails, PinControl, Next, Application
  <2>4. CASE Undo \/ FiniControl
    BY <2>4 DEF Undo, UndoControl, FiniControl, Next, Application
  <2>5. CASE DataStep \/ DataFails \/ PinData \/ DeviceFini
    BY <2>5 DEF DataStep, DataFails, PinData, DeviceFini
  <2> QED BY <1>1, <2>1, <2>2, <2>3, <2>4, <2>5 DEF OpenOrClose
<1>2. CASE SessionAlone
  BY <1>2 DEF SessionAlone, Next
<1>3. CASE LibraryReceives
  BY <1>3 DEF LibraryReceives, Next, Application
<1>4. CASE ControlReceives \/ ReceiveInterrupted \/ \E dg \in Traffic : Arrives(dg)
  BY <1>4 DEF ControlReceives, Next
<1>5. CASE UNCHANGED deviceVars
  BY <1>5 DEF deviceVars
<1> QED BY <1>1, <1>2, <1>3, <1>4, <1>5 DEF DeviceNext

\* Refinement: whatever is true of a session is true of the control session
\* of a device.
THEOREM DeviceUsesSession == DeviceSpec => Spec
<1>1. DeviceInit => Init
  BY DEF DeviceInit
<1> QED BY <1>1, StepOfSession, PTL DEF DeviceSpec, Spec

\* The invariant of the session, for the proofs below.
LEMMA SessionOfDevice == DeviceSpec => []SessionInv
BY DeviceUsesSession, SessionInvariant, PTL

---------------------------------------------------------------------------
(* The inductive invariant.                                                *)

\* The data session holds what the step it has come to says, too.
DataHeld == data.held = HeldAt(data.stage) /\ OwnStep(data.stage)

DataOpening == data.stage \in Opening /\ (data.stage = "mutex" => data.remote = target)

ControlReady == stage = "open" /\ remote_pinned /\ addr_remote.host = target

\* What the place reached in katherine_device_init and _fini says of the two
\* sessions.
ByPhase ==
  /\ device = "closed" => stage = "closed" /\ data.stage = "closed"
  /\ device = "control" =>
       /\ stage \in Opening /\ data.stage = "closed"
       /\ stage = "mutex" => addr_remote.host = target
  /\ device = "pin_control" =>
       /\ stage = "open" /\ call = "none" /\ addr_remote.host = target
       /\ data.stage = "closed"
  /\ device = "data" => ControlReady /\ DataOpening
  /\ device = "pin_data" => ControlReady /\ data.stage = "open" /\ data.remote = target
  /\ device = "open" =>
       ControlReady /\ data.stage = "open" /\ data.remote = target /\ data.pinned
  /\ device \in {"undo", "fini_control"} => stage = "open" /\ data.stage = "closed"
  /\ device = "alone" => data.stage = "closed"

DataType ==
  data \in [stage : Opening \cup {"closed", "open"}, held : SUBSET Resources,
            remote : Hosts, pinned : BOOLEAN]

DeviceInv ==
  /\ device \in Phases /\ target \in Hosts /\ DataType
  /\ DataHeld /\ ByPhase

\* Nothing is open at first.
LEMMA DeviceInitInv == DeviceInit => DeviceInv
BY DEF DeviceInit, Init, ClosedSession, DeviceInv, DataType, DataHeld, HeldAt, OwnStep,
       ByPhase, Phases, Resources

\* What the session holds is a set of resources.
LEMMA HeldType == ASSUME NEW s PROVE HeldAt(s) \in SUBSET Resources
BY DEF HeldAt, Resources

\* Steps of the control session that open or close it.
LEMMA ControlKeeps ==
  ASSUME SessionInv, SessionInv', DeviceInv,
         \/ \E h \in Hosts : DeviceCall(h)
         \/ \E a \in Address : ControlStep(a)
         \/ ControlFails \/ Undo \/ FiniControl
  PROVE  DeviceInv'
<1> USE DEF DeviceInv
<1>1. CASE \E h \in Hosts : DeviceCall(h)
  BY <1>1 DEF DeviceCall, InitCall, FirstStep, Opening, DataType, DataHeld, HeldAt, OwnStep,
              ByPhase, Phases
<1>2. CASE \E a \in Address : ControlStep(a)
  <2>1. PICK a \in Address : device = "control" /\ a.host = target /\ InitStep(a)
    BY <1>2 DEF ControlStep
  <2>2. /\ device' = (IF stage' = "open" THEN "pin_control" ELSE "control")
        /\ target' = target /\ data' = data /\ platform' = platform /\ call' = call
    BY <1>2, <2>1 DEF ControlStep, InitStep, receive
  <2>3. stage \in Opening /\ data.stage = "closed" /\ call = "none"
    BY <2>1 DEF ByPhase, SessionInv, InCall, Opening
  <2>4. stage' = StepAfter(stage) /\ stage' \in Opening \cup {"open"}
    BY <2>1, <2>3, StepAfterType DEF InitStep
  <2>5. stage' = "mutex" => stage = "remote"
    BY <2>3, <2>4 DEF StepAfter, Opening
  <2>6. addr_remote' = IF stage = "remote" THEN a ELSE addr_remote
    BY <2>1 DEF InitStep
  <2>7. stage' = "open" => stage = "mutex"
    BY <2>3, <2>4, StepAfterType
  <2>8. stage = "mutex" => addr_remote.host = target
    BY <2>1 DEF ByPhase
  <2>9. ByPhase'
    BY <2>1, <2>2, <2>3, <2>4, <2>5, <2>6, <2>7, <2>8 DEF ByPhase
  <2>10. DataHeld' /\ DataType'
    BY <2>2 DEF DataHeld, DataType, HeldAt, OwnStep
  <2> QED BY <2>2, <2>9, <2>10 DEF Phases
<1>3. CASE ControlFails
  BY <1>3 DEF ControlFails, InitFails, DataType, DataHeld, HeldAt, OwnStep, ByPhase, Phases
<1>4. CASE Undo \/ FiniControl
  BY <1>4 DEF Undo, UndoControl, FiniControl, Fini, DataType, DataHeld, HeldAt, OwnStep,
              ByPhase, Phases
<1> QED BY <1>1, <1>2, <1>3, <1>4

\* Steps of the data session, and the pins.
LEMMA DataKeeps ==
  ASSUME SessionInv, SessionInv', DeviceInv,
         PinControl \/ DataStep \/ DataFails \/ PinData \/ DeviceFini
  PROVE  DeviceInv'
<1> USE DEF DeviceInv
<1>1. CASE PinControl
  BY <1>1 DEF PinControl, PinRemote, setup, receive, FirstStep, Opening, DataType, DataHeld,
              HeldAt, OwnStep, ByPhase, ControlReady, DataOpening, Phases
<1>2. CASE DataStep
  <2>1. /\ data.stage \in Opening /\ ControlReady
        /\ (data.stage = "mutex" => data.remote = target)
        /\ device = "data" /\ target' = target /\ platform' = platform
    BY <1>2 DEF DataStep, ByPhase, DataOpening, vars, setup
  <2>2. /\ data'.stage = StepAfter(data.stage)
        /\ data'.held = data.held \cup Acquired(data.stage)
        /\ data'.remote = (IF data.stage = "remote" THEN target ELSE data.remote)
        /\ data'.pinned = data.pinned
        /\ data' = [stage |-> data'.stage, held |-> data'.held, remote |-> data'.remote,
                    pinned |-> data'.pinned]
    BY <1>2 DEF DataStep, DataType
  <2>3. HeldAt(data.stage)' = HeldAt(data'.stage) /\ OwnStep(data.stage)' = OwnStep(data'.stage)
    BY <2>1 DEF HeldAt, OwnStep
  <2>4. DataHeld'
    BY <2>1, <2>2, <2>3, HeldAfterStep DEF DataHeld
  <2>5. data'.stage \in Opening \cup {"open"} /\ (data'.stage = "open" <=> data.stage = "mutex")
    BY <2>1, <2>2 DEF StepAfter, Opening
  <2>6. data'.stage = "mutex" => data.stage = "remote"
    BY <2>1, <2>2 DEF StepAfter, Opening
  <2>7. DataType'
    BY <2>2, <2>4, <2>5, HeldType, <2>1, <2>3 DEF DataHeld, DataType
  <2>8. ControlReady'
    BY <1>2, <2>1 DEF DataStep, vars, setup, ControlReady
  <2>9. device' = IF data'.stage = "open" THEN "pin_data" ELSE "data"
    BY <1>2 DEF DataStep
  <2>10. ByPhase'
    BY <2>1, <2>2, <2>5, <2>6, <2>8, <2>9 DEF ByPhase, DataOpening
  <2> QED BY <2>1, <2>4, <2>7, <2>9, <2>10 DEF Phases
<1>3. CASE DataFails
  <2>1. data.held \ ReleasedOnFailure(data.stage) = {}
    BY <1>3, HeldAfterFailure DEF DataFails, ByPhase, DataOpening, DataHeld
  <2> QED BY <1>3, <2>1 DEF DataFails, vars, setup, DataType, DataHeld, HeldAt, OwnStep,
                            ByPhase, ControlReady, Phases
<1>4. CASE PinData
  BY <1>4 DEF PinData, Pinned, vars, setup, DataType, DataHeld, HeldAt, OwnStep, ByPhase,
              ControlReady, Phases
<1>5. CASE DeviceFini
  <2>1. data.held \ ReleasedByFini = {}
    BY <1>5, HeldAfterFini DEF DeviceFini, ByPhase, DataHeld
  <2> QED BY <1>5, <2>1 DEF DeviceFini, vars, setup, DataType, DataHeld, HeldAt, OwnStep,
                            ByPhase, ControlReady, Phases
<1> QED BY <1>1, <1>2, <1>3, <1>4, <1>5

\* A session used alone leaves the data session closed.
LEMMA AloneKeeps ==
  ASSUME SessionInv, SessionInv', DeviceInv, SessionAlone PROVE DeviceInv'
<1>1. platform' = platform
  BY DEF SessionAlone, Application, InitCall, InitStep, InitFails, Fini, SetRemote,
         PinRemote, ReceiveCall, setup
<1> QED
  BY <1>1 DEF SessionAlone, DeviceInv, DataType, DataHeld, HeldAt, OwnStep, ByPhase, Phases

\* Receiving moves no pin, no remote of a pinned session, and opens nothing.
LEMMA ReceivingKeeps ==
  ASSUME SessionInv, SessionInv', DeviceInv,
         \/ ReceiveGoesOn \/ ReceiveInterrupted \/ LibraryReceives
         \/ \E dg \in Traffic : Arrives(dg),
         UNCHANGED <<device, target, data>>
  PROVE  DeviceInv'
<1>1. /\ UNCHANGED <<setup, remote_pinned>>
      /\ addr_remote' = addr_remote \/ (~remote_pinned /\ call # "none")
      /\ call' = "none" \/ call # "none" \/ device = "open"
  BY DEF ReceiveGoesOn, ReceivePinned, ReceiveAdopting, AdoptsSender, ReceiveTimesOut,
         ReceiveInterrupted, Fails, LibraryReceives, ReceiveCall, Arrives, Receiving, receive
<1>2. call # "none" => stage = "open"
  BY DEF SessionInv, InCall
<1> QED
  BY <1>1, <1>2, <1>1 DEF setup, DeviceInv, DataType, DataHeld, HeldAt, OwnStep, ByPhase, ControlReady,
                     DataOpening, Opening

\* Every step of the device keeps the invariant.
LEMMA DeviceNextInv ==
  ASSUME SessionInv, SessionInv', DeviceInv, [DeviceNext]_deviceVars PROVE DeviceInv'
<1>1. CASE OpenOrClose
  BY <1>1, ControlKeeps, DataKeeps DEF OpenOrClose
<1>2. CASE SessionAlone
  BY <1>2, AloneKeeps
<1>3. CASE ControlReceives
  BY <1>3, ReceivingKeeps DEF ControlReceives
<1>4. CASE /\ \/ LibraryReceives \/ ReceiveInterrupted
              \/ \E dg \in Traffic : Arrives(dg)
           /\ UNCHANGED <<device, target, data>>
  BY <1>4, ReceivingKeeps
<1>5. CASE UNCHANGED deviceVars
  BY <1>5 DEF deviceVars, vars, setup, receive, DeviceInv, DataType, DataHeld, HeldAt, OwnStep,
              ByPhase, ControlReady, DataOpening
<1> QED BY <1>1, <1>2, <1>3, <1>4, <1>5 DEF DeviceNext

\* The invariant holds in every state of a device.
THEOREM DeviceInvariant == DeviceSpec => [](SessionInv /\ DeviceInv)
<1>1. SessionInv /\ SessionInv' /\ DeviceInv /\ [DeviceNext]_deviceVars => DeviceInv'
  BY DeviceNextInv
<1> QED BY <1>1, DeviceInitInv, SessionOfDevice, PTL DEF DeviceSpec

---------------------------------------------------------------------------
(* The theorems.                                                           *)

\* A device keeps its types.
THEOREM DeviceTypeCorrect == DeviceSpec => []DeviceTypeOK
<1>1. SessionInv /\ DeviceInv => DeviceTypeOK
  BY DEF SessionInv, DeviceInv, DataType, DeviceTypeOK
<1> QED BY <1>1, DeviceInvariant, PTL

\* Whichever of the steps of katherine_device_init fails, neither session
\* holds anything afterwards.
THEOREM DeviceHoldsNothing == DeviceSpec => []DeviceLeaksNothing
<1>1. SessionInv /\ DeviceInv => DeviceLeaksNothing
  BY DEF SessionInv, DeviceInv, HeldByStage, DataHeld, HeldAt, ByPhase, DeviceLeaksNothing
<1> QED BY <1>1, DeviceInvariant, PTL

\* An open device speaks to the host it was opened for, whoever has sent to it.
THEOREM DeviceIsReady == DeviceSpec => []DeviceReady
<1>1. SessionInv /\ DeviceInv => DeviceReady
  BY DEF SessionInv, DeviceInv, HeldByStage, DataHeld, HeldAt, ByPhase, ControlReady, DeviceReady
<1> QED BY <1>1, DeviceInvariant, PTL
=============================================================================
