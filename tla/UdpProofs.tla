------------------------------ MODULE UdpProofs ------------------------------
(***************************************************************************)
(* Theorems about UdpSession, for every set of hosts, every length of      *)
(* datagrams and messages, every discard budget and receive buffer, and    *)
(* both platforms.                                                         *)
(***************************************************************************)
EXTENDS UdpSession, SequenceTheorems, TLAPS

---------------------------------------------------------------------------
(* Lemmas about the data.                                                  *)

\* The datagram at the head of the receive buffer.
LEMMA HeadDatagram ==
  ASSUME UdpTypeOK, rx # <<>>
  PROVE  /\ Head(rx) \in Datagram /\ Tail(rx) \in Seq(Datagram)
         /\ Head(rx).from \in Address /\ Head(rx).len \in Nat
         /\ Head(rx).len \in Lengths
<1>1. Head(rx) \in Datagram /\ Tail(rx) \in Seq(Datagram)
  BY HeadTailProperties DEF UdpTypeOK
<1> QED
  BY <1>1, UdpAssumption DEF Datagram

\* Lengths and counts are numbers.
LEMMA CountType ==
  ASSUME UdpTypeOK
  PROVE  count \in Nat /\ total \in Nat /\ discarded \in Nat /\ MaxDiscards \in Nat \ {0}
BY UdpAssumption DEF UdpTypeOK

\* A receive function that has not taken anything yet.
LEMMA NothingTaken ==
  /\ <<>> \in Seq(Datagram) /\ <<>> \in Seq(Piece)
  /\ 0 \in 0..MaxDiscards /\ 0 \in 0..MaxEmpty
BY UdpAssumption, EmptySeq

\* As long as the total is within the message, so are the bytes taken.
LEMMA BytesFit ==
  ASSUME NEW dg, dg.len \in Nat, count \in Nat, total \in Nat, total <= count
  PROVE  /\ BytesTaken(dg) \in Nat
         /\ total + BytesTaken(dg) <= count
         /\ total + BytesTaken(dg) < count => BytesTaken(dg) = dg.len
         /\ BytesTaken(dg) # dg.len => total + BytesTaken(dg) = count
BY DEF BytesTaken, Room

\* Accepting a datagram keeps the types.
LEMMA AcceptType ==
  ASSUME UdpTypeOK, total <= count, NEW dg \in Datagram, Accept(dg)
  PROVE  /\ heard' \in Seq(Piece) /\ total' \in Nat /\ discarded' \in 0..MaxDiscards
         /\ strangers' \in Nat /\ waiting' \in BOOLEAN
         /\ call' \in {"none", "recv", "recv_exact"} /\ result' \in Results
<1>1. dg.len \in Nat /\ dg.len \in Lengths
  BY UdpAssumption DEF Datagram
<1>2. BytesTaken(dg) \in Nat
  BY <1>1, BytesFit, CountType
<1>3. heard' \in Seq(Piece) /\ total' \in Nat
  <2>1. [len |-> dg.len, bytes |-> BytesTaken(dg)] \in Piece
    BY <1>1, <1>2 DEF Piece
  <2> QED BY <1>2, <2>1, CountType DEF Accept, UdpTypeOK
<1>4. discarded' \in 0..MaxDiscards /\ strangers' \in Nat
  BY CountType DEF Accept
<1>5. waiting' \in BOOLEAN
  BY DEF Accept, AnswerThere, UdpTypeOK
<1>6. call' \in {"none", "recv", "recv_exact"} /\ result' \in Results
  BY DEF Accept, Returns, UdpTypeOK, Results
<1> QED BY <1>3, <1>4, <1>5, <1>6

---------------------------------------------------------------------------
(* The inductive invariant.                                                *)

\* What a session holds follows from the step it has come to.
HeldAt(s) ==
  (IF platform = "win" /\ s \notin {"closed", "wsa"} THEN {"wsa"} ELSE {})
    \cup (IF s \in {"closed", "wsa", "socket"} THEN {} ELSE {"socket"})
    \cup (IF s = "open" THEN {"mutex"} ELSE {})

\* Only one of the twins has a step "wsa".
OwnStep(s) == s = "wsa" => platform = "win"

HeldByStage == held = HeldAt(stage) /\ OwnStep(stage)

\* Pieces taken so far are whole datagrams.
AllWhole == \A i \in DOMAIN heard : heard[i].bytes = heard[i].len

\* What holds while a receive function runs: it still misses bytes, has joined
\* whole datagrams, has budget left, and an answer that was there still is.
InCall ==
  call # "none" =>
    /\ stage = "open" /\ result = "none"
    /\ total < count /\ AllWhole /\ (call = "recv" => heard = <<>>)
    /\ discarded < MaxDiscards /\ strangers = discarded
    /\ waiting => AnswerThere(rx)

SessionInv ==
  /\ UdpTypeOK /\ HeldByStage
  /\ addr_remote = named
  /\ InCall /\ MessageWhole /\ TimeoutIsEarned

\* A session that is not open yet satisfies it.
LEMMA InitInv == Init => SessionInv
<1> SUFFICES ASSUME Init PROVE SessionInv
  OBVIOUS
<1>1. UdpTypeOK
  BY NothingTaken DEF Init, UdpTypeOK, Results
<1> QED
  BY <1>1 DEF Init, SessionInv, HeldByStage, HeldAt, OwnStep, InCall, MessageWhole, TimeoutIsEarned, Opening

---------------------------------------------------------------------------
(* Opening, closing, and naming the remote.                                *)

\* They leave the receive functions alone or forget what they left.
LEMMA SetupKeepsReceive ==
  ASSUME SessionInv, call = "none", call' = call,
         \/ UNCHANGED <<count, total, discarded, result, heard, strangers, waiting>>
         \/ Forget
  PROVE  InCall' /\ MessageWhole' /\ TimeoutIsEarned'
<1>1. CASE UNCHANGED <<count, total, discarded, result, heard, strangers, waiting>>
  BY <1>1 DEF SessionInv, InCall, MessageWhole, TimeoutIsEarned
<1>2. CASE Forget
  BY <1>2 DEF Forget, SessionInv, InCall, MessageWhole, TimeoutIsEarned
<1> QED BY <1>1, <1>2

\* Opening begins.
LEMMA InitCallInv ==
  ASSUME SessionInv, NEW t \in BOOLEAN, InitCall(t) PROVE SessionInv'
<1> USE DEF SessionInv
<1>1. UdpTypeOK'
  BY DEF InitCall, FirstStep, Opening, receive, UdpTypeOK
<1>2. HeldByStage'
  BY DEF InitCall, FirstStep, HeldByStage, HeldAt, OwnStep
<1>3. call = "none"
  BY DEF InitCall, InCall
<1>4. InCall' /\ MessageWhole' /\ TimeoutIsEarned'
  BY <1>3, SetupKeepsReceive DEF InitCall, receive
<1> QED
  BY <1>1, <1>2, <1>4 DEF InitCall

\* The step that follows is a step of opening, or the session is open.
LEMMA StepAfterType ==
  ASSUME stage \in Opening
  PROVE  /\ StepAfter(stage) \in Opening \cup {"open"}
         /\ StepAfter(stage) \notin {"closed", "wsa"}
         /\ StepAfter(stage) = "open" <=> stage = "mutex"
         /\ StepAfter(stage) = "socket" <=> stage = "wsa"
BY DEF StepAfter, Opening

\* A step of opening adds what it acquires.
LEMMA HeldAfterStep ==
  ASSUME NEW s \in Opening, OwnStep(s)
  PROVE  HeldAt(s) \cup Acquired(s) = HeldAt(StepAfter(s)) /\ OwnStep(StepAfter(s))
<1>1. CASE s = "wsa"
  BY <1>1 DEF HeldAt, Acquired, StepAfter, OwnStep
<1>2. CASE s = "socket"
  <2>1. StepAfter(s) \in {"bind", "reuseaddr"}
    BY <1>2 DEF StepAfter
  <2> QED BY <1>2, <2>1 DEF HeldAt, Acquired, OwnStep
<1>3. CASE s \in {"reuseaddr", "bind", "timeout", "remote"}
  <2>1. StepAfter(s) \in {"bind", "timeout", "remote", "mutex"}
    BY <1>3 DEF StepAfter
  <2> QED BY <1>3, <2>1 DEF HeldAt, Acquired, OwnStep
<1>4. CASE s = "mutex"
  <2>1. StepAfter(s) = "open"
    BY <1>4 DEF StepAfter
  <2> QED BY <1>4, <2>1 DEF HeldAt, Acquired, OwnStep
<1> QED BY <1>1, <1>2, <1>3, <1>4 DEF Opening

\* A failed step releases what the steps before it have acquired.
LEMMA HeldAfterFailure ==
  ASSUME NEW s \in Opening PROVE HeldAt(s) \ ReleasedOnFailure(s) = {}
BY DEF Opening, HeldAt, ReleasedOnFailure

\* Closing an open session releases everything.
LEMMA HeldAfterFini == HeldAt("open") \ ReleasedByFini = {}
BY DEF HeldAt, ReleasedByFini

\* A step of opening succeeds.
LEMMA InitStepInv ==
  ASSUME SessionInv, NEW a \in Address, InitStep(a) PROVE SessionInv'
<1> USE DEF SessionInv
<1>1. UdpTypeOK'
  BY StepAfterType DEF InitStep, Acquired, Resources, receive, UdpTypeOK
<1>2. HeldByStage'
  <2>1. held' = HeldAt(stage') /\ OwnStep(stage')
    BY HeldAfterStep DEF InitStep, HeldByStage
  <2> QED BY <2>1 DEF InitStep, HeldByStage, HeldAt, OwnStep
<1>3. call = "none"
  BY DEF InitStep, InCall, Opening
<1>4. InCall' /\ MessageWhole' /\ TimeoutIsEarned'
  BY <1>3, SetupKeepsReceive DEF InitStep, receive
<1> QED
  BY <1>1, <1>2, <1>4 DEF InitStep

\* Opening fails.
LEMMA InitFailsInv ==
  ASSUME SessionInv, InitFails PROVE SessionInv'
<1> USE DEF SessionInv
<1>1. UdpTypeOK'
  BY DEF InitFails, receive, UdpTypeOK
<1>2. HeldByStage'
  <2>1. held' = {}
    BY HeldAfterFailure DEF InitFails, HeldByStage
  <2> QED BY <2>1 DEF InitFails, HeldByStage, HeldAt, OwnStep
<1>3. call = "none"
  BY DEF InitFails, InCall, Opening
<1>4. InCall' /\ MessageWhole' /\ TimeoutIsEarned'
  BY <1>3, SetupKeepsReceive DEF InitFails, receive
<1> QED
  BY <1>1, <1>2, <1>4 DEF InitFails

\* The session is closed.
LEMMA FiniInv ==
  ASSUME SessionInv, Fini PROVE SessionInv'
<1> USE DEF SessionInv
<1>1. UdpTypeOK'
  BY NothingTaken DEF Fini, Forget, UdpTypeOK, Results
<1>2. HeldByStage'
  <2>1. held' = {}
    BY HeldAfterFini DEF Fini, Usable, HeldByStage
  <2> QED BY <2>1 DEF Fini, HeldByStage, HeldAt, OwnStep
<1>3. InCall' /\ MessageWhole' /\ TimeoutIsEarned'
  BY SetupKeepsReceive DEF Fini, Usable
<1> QED
  BY <1>1, <1>2, <1>3 DEF Fini

\* Naming and pinning the remote.
LEMMA RemoteInv ==
  ASSUME SessionInv, NEW a \in Address, SetRemote(a) \/ PinRemote PROVE SessionInv'
<1> USE DEF SessionInv
<1>1. UdpTypeOK'
  BY DEF SetRemote, PinRemote, setup, receive, UdpTypeOK
<1>2. HeldByStage'
  BY DEF SetRemote, PinRemote, setup, HeldByStage, HeldAt, OwnStep
<1>3. InCall' /\ MessageWhole' /\ TimeoutIsEarned'
  BY SetupKeepsReceive DEF SetRemote, PinRemote, Usable, receive
<1> QED
  BY <1>1, <1>2, <1>3 DEF SetRemote, PinRemote

---------------------------------------------------------------------------
(* Receiving.                                                              *)

\* A receive function begins with nothing taken.
LEMMA ReceiveCallInv ==
  ASSUME SessionInv, NEW kind \in {"recv", "recv_exact"}, NEW n \in Counts,
         ReceiveCall(kind, n)
  PROVE  SessionInv'
<1> USE DEF SessionInv
<1>1. UdpTypeOK'
  BY NothingTaken DEF ReceiveCall, setup, AnswerThere, UdpTypeOK, Results
<1>2. HeldByStage'
  BY DEF ReceiveCall, setup, HeldByStage, HeldAt, OwnStep
<1>3. n \in Nat /\ 0 < n /\ 0 < MaxDiscards
  BY UdpAssumption
<1>4. InCall'
  <2>1. AllWhole' /\ heard' = <<>>
    BY DEF ReceiveCall, AllWhole
  <2>2. stage' = "open" /\ result' = "none" /\ strangers' = discarded'
    BY DEF ReceiveCall, Usable, setup
  <2>3. total' < count' /\ discarded' < MaxDiscards
    BY <1>3 DEF ReceiveCall
  <2>4. waiting' => AnswerThere(rx)'
    BY DEF ReceiveCall, AnswerThere
  <2> QED BY <2>1, <2>2, <2>3, <2>4 DEF InCall
<1>5. MessageWhole' /\ TimeoutIsEarned'
  BY <1>3 DEF ReceiveCall, MessageWhole, TimeoutIsEarned
<1> QED
  BY <1>1, <1>2, <1>4, <1>5 DEF ReceiveCall

\* Accepting a datagram joins it to what was taken, or completes the message.
LEMMA AcceptKeeps ==
  ASSUME SessionInv, Receiving, rx # <<>>, Accept(Head(rx)),
         rx' = Tail(rx), stage' = stage, count' = count,
         remote_pinned => remote_pinned' /\ addr_remote' = addr_remote,
         ~remote_pinned => ~remote_pinned'
  PROVE  InCall' /\ MessageWhole' /\ TimeoutIsEarned'
<1> DEFINE dg == Head(rx)
           piece == [len |-> dg.len, bytes |-> BytesTaken(dg)]
<1> USE DEF SessionInv
<1>1. dg.len \in Nat /\ heard \in Seq(Piece) /\ count \in Nat /\ total \in Nat
  BY HeadDatagram, CountType DEF UdpTypeOK
<1>2. call # "none" /\ InCall /\ total < count /\ AllWhole
  BY DEF Receiving, InCall
<1>3. /\ BytesTaken(dg) \in Nat
      /\ total + BytesTaken(dg) <= count
      /\ total + BytesTaken(dg) < count => BytesTaken(dg) = dg.len
      /\ BytesTaken(dg) # dg.len => total + BytesTaken(dg) = count
  BY <1>1, <1>2, BytesFit
<1>4. heard' = Append(heard, piece) /\ total' = total + BytesTaken(dg)
  BY DEF Accept
<1>5. /\ Len(heard') = Len(heard) + 1 /\ heard'[Len(heard) + 1] = piece
      /\ \A i \in 1..Len(heard) : heard'[i] = heard[i]
      /\ Len(heard) \in Nat /\ DOMAIN heard' = 1..(Len(heard) + 1)
      /\ DOMAIN heard = 1..Len(heard)
  BY <1>1, <1>4, LenProperties, AppendProperties
<1> HIDE DEF dg, piece
<1>6. piece.len = dg.len /\ piece.bytes = BytesTaken(dg)
  BY DEF piece
<1>7. \A i \in DOMAIN heard' : i < Len(heard') => heard'[i].bytes = heard'[i].len
  BY <1>2, <1>5 DEF AllWhole
<1>8. BytesTaken(dg) = dg.len => AllWhole'
  BY <1>2, <1>5, <1>6 DEF AllWhole
<1>9. CASE Satisfied(total')
  <2>1. call' = "none" /\ result' = "ok"
    BY <1>9 DEF Accept, Returns
  <2>2. total' = count' \/ (Len(heard') = 1 /\ heard'[1].bytes = heard'[1].len)
    <3>1. CASE BytesTaken(dg) # dg.len
      BY <1>3, <1>4, <3>1
    <3>2. CASE BytesTaken(dg) = dg.len /\ call = "recv"
      <4>1. Len(heard) = 0
        BY <1>2, <3>2 DEF InCall
      <4> QED BY <1>5, <1>6, <3>2, <4>1
    <3>3. CASE total' >= count
      BY <1>1, <1>3, <1>4, <3>3
    <3> QED BY <1>9, <3>1, <3>2, <3>3 DEF Satisfied
  <2>3. MessageWhole'
    BY <1>3, <1>4, <1>7, <2>2 DEF MessageWhole
  <2> QED BY <2>1, <2>3 DEF InCall, TimeoutIsEarned
<1>10. CASE ~Satisfied(total')
  <2>1. call' = call /\ result' = result /\ result = "none" /\ call # "recv"
    BY <1>2, <1>10 DEF Accept, InCall, Satisfied
  <2>2. total' < count
    BY <1>1, <1>3, <1>4, <1>10 DEF Satisfied
  <2>3. MessageWhole'
    BY <1>3, <1>4, <1>7, <2>1 DEF MessageWhole
  <2>4. discarded' = 0 /\ strangers' = 0 /\ 0 < MaxDiscards
    BY CountType DEF Accept
  <2>5. waiting' => AnswerThere(rx)'
    BY DEF Accept, AnswerThere
  <2>6. AllWhole'
    BY <1>3, <1>4, <1>8, <2>2
  <2>7. InCall'
    BY <1>2, <2>1, <2>2, <2>4, <2>5, <2>6 DEF InCall
  <2> QED BY <2>1, <2>3, <2>7 DEF TimeoutIsEarned
<1> QED BY <1>9, <1>10

\* An error ends the call.
LEMMA ErrorKeeps ==
  ASSUME SessionInv, call' = "none", result' \in {"EINTR", "EMSGSIZE"},
         UNCHANGED <<count, total, heard>>
  PROVE  InCall' /\ MessageWhole' /\ TimeoutIsEarned'
BY DEF SessionInv, InCall, MessageWhole, TimeoutIsEarned

\* Discarding spends the budget and leaves what answers there are.
LEMMA DiscardKeeps ==
  ASSUME SessionInv, Receiving, rx # <<>>, remote_pinned,
         Head(rx).from.host # addr_remote.host, Discard(Head(rx)),
         rx' = Tail(rx), UNCHANGED <<stage, count, addr_remote, remote_pinned>>
  PROVE  InCall' /\ MessageWhole' /\ TimeoutIsEarned'
<1> USE DEF SessionInv
<1>1. call # "none" /\ InCall /\ discarded < MaxDiscards /\ strangers = discarded
  BY DEF Receiving, InCall
<1>2. discarded' = discarded + 1 /\ strangers' = strangers + 1
  BY DEF Discard
<1>3. waiting => AnswerThere(rx)'
  <2> SUFFICES ASSUME waiting PROVE AnswerThere(rx)'
    OBVIOUS
  <2>1. PICK i \in DOMAIN rx : rx[i].from.host = addr_remote.host
    BY <1>1 DEF InCall, AnswerThere
  <2>2. i # 1 /\ i \in 1..Len(rx) /\ Len(rx) \in Nat
    BY <2>1, HeadTailProperties, LenProperties DEF UdpTypeOK
  <2>3. Len(Tail(rx)) = Len(rx) - 1 /\ \A k \in 1..(Len(rx) - 1) : Tail(rx)[k] = rx[k + 1]
    BY HeadTailProperties DEF UdpTypeOK
  <2>4. i - 1 \in DOMAIN Tail(rx) /\ Tail(rx)[i - 1] = rx[i]
    BY <2>2, <2>3, HeadTailProperties, LenProperties DEF UdpTypeOK
  <2> QED BY <2>1, <2>4 DEF AnswerThere
<1>4. CASE BudgetSpent
  <2>1. call' = "none" /\ result' = "EAGAIN" /\ discarded' = MaxDiscards
    BY <1>2, <1>4 DEF Discard, Returns, BudgetSpent
  <2>2. strangers' = MaxDiscards
    BY <1>1, <1>2, <2>1
  <2> QED BY <2>1, <2>2 DEF Discard, InCall, MessageWhole, TimeoutIsEarned
<1>5. CASE ~BudgetSpent
  <2>1. call' = call /\ result' = result /\ result = "none"
    BY <1>1, <1>5 DEF Discard, InCall
  <2>2. discarded' < MaxDiscards
    BY <1>1, <1>2, <1>5, CountType DEF BudgetSpent
  <2>3. InCall'
    BY <1>1, <1>2, <1>3, <2>1, <2>2 DEF Discard, InCall, AllWhole
  <2> QED BY <2>1, <2>3 DEF Discard, MessageWhole, TimeoutIsEarned
<1> QED BY <1>4, <1>5

\* A step of a receive function on a pinned session.
LEMMA ReceivePinnedInv ==
  ASSUME SessionInv, ReceivePinned PROVE SessionInv'
<1> USE DEF SessionInv
<1>1. Head(rx) \in Datagram /\ Tail(rx) \in Seq(Datagram)
  BY HeadDatagram DEF ReceivePinned
<1>2. total <= count /\ discarded < MaxDiscards
  BY CountType DEF ReceivePinned, Receiving, InCall
<1>3. HeldByStage' /\ addr_remote' = named'
  BY DEF ReceivePinned, setup, HeldByStage, HeldAt, OwnStep
<1>4. CASE Accept(Head(rx))
  <2>1. UdpTypeOK'
    BY <1>1, <1>2, <1>4, AcceptType DEF ReceivePinned, setup, UdpTypeOK
  <2>2. InCall' /\ MessageWhole' /\ TimeoutIsEarned'
    BY <1>4, AcceptKeeps DEF ReceivePinned, setup
  <2> QED BY <1>3, <2>1, <2>2
<1>5. CASE Refuse(Head(rx))
  <2>1. UdpTypeOK'
    BY <1>1, <1>5 DEF ReceivePinned, Refuse, Returns, setup, UdpTypeOK, Results
  <2>2. InCall' /\ MessageWhole' /\ TimeoutIsEarned'
    BY <1>5, ErrorKeeps DEF ReceivePinned, Refuse, Returns
  <2> QED BY <1>3, <2>1, <2>2
<1>6. CASE ~FromPinnedRemote(Head(rx).from)
  <2>1. Discard(Head(rx))
    BY <1>6 DEF ReceivePinned
  <2>2. discarded' \in 0..MaxDiscards /\ strangers' \in Nat
    BY <1>2, <2>1, CountType DEF Discard, UdpTypeOK
  <2>3. call' \in {"none", "recv", "recv_exact"} /\ result' \in Results
    BY <2>1 DEF Discard, Returns, UdpTypeOK, Results
  <2>4. UdpTypeOK'
    BY <1>1, <2>1, <2>2, <2>3 DEF ReceivePinned, Discard, setup, UdpTypeOK
  <2>5. InCall' /\ MessageWhole' /\ TimeoutIsEarned'
    BY <1>6, <2>1, DiscardKeeps DEF ReceivePinned, FromPinnedRemote, setup
  <2> QED BY <1>3, <2>4, <2>5
<1> QED BY <1>4, <1>5, <1>6 DEF ReceivePinned

\* A step of a receive function on a session without a pin.
LEMMA ReceiveAdoptingInv ==
  ASSUME SessionInv, ReceiveAdopting PROVE SessionInv'
<1> USE DEF SessionInv
<1>1. /\ Head(rx) \in Datagram /\ Tail(rx) \in Seq(Datagram)
      /\ Head(rx).from \in Address
  BY HeadDatagram DEF ReceiveAdopting
<1>2. total <= count /\ ~remote_pinned
  BY CountType DEF ReceiveAdopting, Receiving, AdoptsSender, InCall
<1>3. HeldByStage' /\ addr_remote' = named'
  BY <1>2 DEF ReceiveAdopting, setup, HeldByStage, HeldAt, OwnStep
<1>4. CASE Accept(Head(rx))
  <2>1. UdpTypeOK'
    BY <1>1, <1>2, <1>4, AcceptType DEF ReceiveAdopting, setup, UdpTypeOK
  <2>2. InCall' /\ MessageWhole' /\ TimeoutIsEarned'
    BY <1>2, <1>4, AcceptKeeps DEF ReceiveAdopting, setup
  <2> QED BY <1>3, <2>1, <2>2
<1>5. CASE Refuse(Head(rx))
  <2>1. UdpTypeOK'
    BY <1>1, <1>2, <1>5 DEF ReceiveAdopting, Refuse, Returns, setup, UdpTypeOK, Results
  <2>2. InCall' /\ MessageWhole' /\ TimeoutIsEarned'
    BY <1>5, ErrorKeeps DEF ReceiveAdopting, Refuse, Returns
  <2> QED BY <1>3, <2>1, <2>2
<1> QED BY <1>4, <1>5 DEF ReceiveAdopting

\* A receive that times out had no answer waiting: the buffer is empty.
LEMMA ReceiveFailsInv ==
  ASSUME SessionInv, ReceiveTimesOut \/ ReceiveInterrupted PROVE SessionInv'
<1> USE DEF SessionInv
<1>1. UdpTypeOK'
  BY DEF ReceiveTimesOut, ReceiveInterrupted, Fails, Returns, setup, UdpTypeOK, Results
<1>2. HeldByStage' /\ addr_remote' = named'
  BY DEF ReceiveTimesOut, ReceiveInterrupted, Fails, setup, HeldByStage, HeldAt, OwnStep
<1>3. CASE ReceiveInterrupted
  BY <1>1, <1>2, <1>3, ErrorKeeps DEF ReceiveInterrupted, Fails, Returns
<1>4. CASE ReceiveTimesOut
  <2>1. ~waiting'
    BY <1>4 DEF ReceiveTimesOut, Fails, Receiving, InCall, AnswerThere
  <2> QED BY <1>1, <1>2, <1>4, <2>1
          DEF ReceiveTimesOut, Fails, Returns, InCall, MessageWhole, TimeoutIsEarned
<1> QED BY <1>3, <1>4

\* What arrives leaves what is there.
LEMMA ArrivesInv ==
  ASSUME SessionInv, NEW dg \in Traffic, Arrives(dg) PROVE SessionInv'
<1> USE DEF SessionInv
<1>1. rx \in Seq(Datagram) /\ rx' = Append(rx, dg)
  BY DEF Arrives, UdpTypeOK
<1>2. UdpTypeOK'
  BY <1>1, UdpAssumption DEF Arrives, setup, receive, UdpTypeOK
<1>3. HeldByStage' /\ addr_remote' = named'
  BY DEF Arrives, setup, HeldByStage, HeldAt, OwnStep
<1>4. AnswerThere(rx) => AnswerThere(rx)'
  BY <1>1, AppendProperties, LenProperties DEF AnswerThere, Arrives
<1>5. InCall'
  BY <1>4 DEF Arrives, setup, receive, InCall, AllWhole
<1>6. MessageWhole' /\ TimeoutIsEarned'
  BY DEF Arrives, receive, MessageWhole, TimeoutIsEarned
<1> QED BY <1>2, <1>3, <1>5, <1>6

---------------------------------------------------------------------------
(* The theorems.                                                           *)

\* Every step keeps the invariant.
LEMMA NextInv ==
  ASSUME SessionInv, [Next]_vars PROVE SessionInv'
<1>1. CASE Application
  <2>1. CASE \E t \in BOOLEAN : InitCall(t)
    BY <2>1, InitCallInv
  <2>2. CASE \E a \in Address : InitStep(a) \/ SetRemote(a)
    BY <2>2, InitStepInv, RemoteInv
  <2>3. CASE InitFails \/ Fini
    BY <2>3, InitFailsInv, FiniInv
  <2>4. CASE PinRemote
    BY <2>4, RemoteInv, UdpAssumption
  <2>5. CASE \E n \in Counts, kind \in {"recv", "recv_exact"} : ReceiveCall(kind, n)
    BY <2>5, ReceiveCallInv
  <2> QED BY <1>1, <2>1, <2>2, <2>3, <2>4, <2>5 DEF Application
<1>2. CASE ReceiveGoesOn \/ ReceiveInterrupted
  BY <1>2, ReceivePinnedInv, ReceiveAdoptingInv, ReceiveFailsInv DEF ReceiveGoesOn
<1>3. CASE \E dg \in Traffic : Arrives(dg)
  BY <1>3, ArrivesInv
<1>4. CASE UNCHANGED vars
  <2> USE <1>4 DEF vars, setup, receive, SessionInv
  <2>1. UdpTypeOK' /\ HeldByStage' /\ addr_remote' = named'
    BY DEF UdpTypeOK, HeldByStage, HeldAt, OwnStep
  <2>2. InCall' /\ MessageWhole' /\ TimeoutIsEarned'
    BY DEF InCall, AllWhole, AnswerThere, MessageWhole, TimeoutIsEarned
  <2> QED BY <2>1, <2>2
<1> QED BY <1>1, <1>2, <1>3, <1>4 DEF Next

\* The invariant holds in every state of a session.
THEOREM SessionInvariant == Spec => []SessionInv
BY InitInv, NextInv, PTL DEF Spec

\* A session keeps its types: the discards of a datagram stay within the
\* budget, whatever strangers send.
THEOREM SessionTypeCorrect == Spec => []UdpTypeOK
<1>1. SessionInv => UdpTypeOK
  BY DEF SessionInv
<1> QED BY <1>1, SessionInvariant, PTL

\* A session that could not be opened, or was closed, holds nothing.
THEOREM SessionLeaksNothing == Spec => []NoLeak
<1>1. SessionInv => NoLeak
  BY DEF SessionInv, HeldByStage, HeldAt, NoLeak
<1> QED BY <1>1, SessionInvariant, PTL

\* No stranger moves the remote of a pinned session.
THEOREM PinIsHeld == Spec => []PinHolds
<1>1. SessionInv => PinHolds
  BY DEF SessionInv, PinHolds
<1> QED BY <1>1, SessionInvariant, PTL

\* A message is whole and within its buffer, however it was cut.
THEOREM MessagesAreWhole == Spec => []MessageWhole
<1>1. SessionInv => MessageWhole
  BY DEF SessionInv
<1> QED BY <1>1, SessionInvariant, PTL

\* A time-out with an answer waiting has cost the whole discard budget.
THEOREM TimeoutsAreEarned == Spec => []TimeoutIsEarned
<1>1. SessionInv => TimeoutIsEarned
  BY DEF SessionInv
<1> QED BY <1>1, SessionInvariant, PTL

\* A pinned session hands over only what the host named last has sent.
THEOREM StrangersAreNotHeard == Spec => NoStrangerHeard
<1> DEFINE Heard == heard' # heard /\ heard' # <<>> /\ remote_pinned
                      => Head(rx).from.host = named.host
<1>1. ASSUME SessionInv, [Next]_vars PROVE Heard
  <2> SUFFICES ASSUME heard' # heard, heard' # <<>>, remote_pinned
               PROVE  Head(rx).from.host = named.host
    OBVIOUS
  <2>1. addr_remote = named
    BY <1>1 DEF SessionInv
  <2>2. ReceivePinned
    BY <1>1 DEF Next, Application, InitCall, InitStep, SetRemote, InitFails, Fini, Forget,
                PinRemote, ReceiveCall, ReceiveGoesOn, ReceiveAdopting, AdoptsSender,
                ReceiveTimesOut, ReceiveInterrupted, Fails, Arrives, vars, receive
  <2>3. CASE FromPinnedRemote(Head(rx).from)
    BY <2>1, <2>3 DEF FromPinnedRemote
  <2>4. CASE ~FromPinnedRemote(Head(rx).from)
    BY <2>2, <2>4 DEF ReceivePinned, Discard
  <2> QED BY <2>3, <2>4
<1>2. SessionInv /\ [Next]_vars => [Heard]_vars
  BY <1>1
<1> HIDE DEF Heard
<1>3. Spec => [][Heard]_vars
  BY <1>2, SessionInvariant, PTL DEF Spec
<1> QED BY <1>3 DEF Heard, NoStrangerHeard
=============================================================================
