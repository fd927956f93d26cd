--------------------------- MODULE ControlProofs ---------------------------
(***************************************************************************)
(* Theorems about ControlSession, for every number of threads, every set   *)
(* of functions, whatever is lost and however late responses come: the     *)
(* types, the bounds of the upload's counters and of the response queue,   *)
(* and the discipline of the control lock; then, as long as responses are  *)
(* not late, that responses belong to their commands, that success means   *)
(* effect and that uploads are closed.                                     *)
(***************************************************************************)
EXTENDS ControlSession, SequenceTheorems, TLAPS

\* A thread is inside of a function, past the lock.
Inside(t) == th[t].pc \notin {"idle", "lock"}

\* The lock is held by the thread that is inside of a function and by no
\* other: every path through a function that returns gives it back, and no
\* two threads send or receive at the same time.
LockDiscipline == \A t \in Threads : lock = t <=> Inside(t)

\* The counter of each phase of the upload stays within that phase.
PhaseBounds ==
  \A t \in Threads :
    /\ At(t, "chunks") => th[t].i \in 1..Chunks
    /\ At(t, "flood") => th[t].i \in 1..Fillers
    /\ At(t, "drain") => th[t].i \in 0..MaxDrain

ControlInv == TypeOK /\ LockDiscipline /\ PhaseBounds

---------------------------------------------------------------------------
(* The types of the parts of a step.                                       *)

\* The assumption on the constants, as arithmetic.
LEMMA Sizes ==
  /\ Chunks \in Nat \ {0} /\ ChunkWords \in Nat \ {0} /\ CmdWords \in Nat \ {0}
  /\ Fillers \in Nat \ {0} /\ MaxDrain \in Nat \ {0} /\ MaxAttempts \in Nat \ {0}
  /\ MaxAcks \in Nat \ {0} /\ QueueCap \in Nat \ {0} /\ Fillers < MaxDrain
BY SessionAssumption

\* A function of the library has its counts in range.
LEMMA FunctionType ==
  ASSUME NEW f \in Functions \cup {Upload}
  PROVE  /\ f.cmds \in Nat \ {0} /\ f.tries \in Nat \ {0}
         /\ f.attempts \in 0..MaxAttempts /\ f.acked \in BOOLEAN
<1>1. Upload \in Function
  <2>1. 0 \in 0..MaxAttempts /\ MaxAttempts \in 0..MaxAttempts
    BY Sizes
  <2>2. Exchanges(2) \in Function
    BY <2>1 DEF Exchanges, Function
  <2> QED BY <2>1, <2>2 DEF Upload, Function
<1> QED
  BY <1>1, SessionAssumption DEF Function

\* A sent datagram, or a failed send, keeps the types of the paths.
PathsTyped ==
  /\ c2r' \in Seq(Datagram) /\ inbox' \in Seq([to : Nat])
  /\ n_sent' \in Nat /\ n_late' \in Nat /\ n_loss' \in Nat
  /\ n_fail' \in Nat /\ n_calls' \in Nat
  /\ pairs' \subseteq Nat \X Nat /\ UNCHANGED readout

LEMMA SendType ==
  ASSUME TypeOK, NEW kind \in Kinds, NEW of \in Nat, NEW idx \in Nat, Send(kind, of, idx)
  PROVE  PathsTyped
<1>1. [kind |-> kind, id |-> n_sent + 1, of |-> of, idx |-> idx] \in Datagram
  BY DEF Datagram, TypeOK
<1> QED
  BY <1>1 DEF TypeOK, Send, PathsTyped, bounds

LEMMA SendFailsType ==
  ASSUME TypeOK, SendFails PROVE PathsTyped
BY DEF TypeOK, SendFails, PathsTyped

LEMMA SilenceType ==
  ASSUME TypeOK, Silence PROVE PathsTyped
BY DEF TypeOK, Silence, PathsTyped

\* A response that is taken, and paired with a command or discarded.
LEMMA TakeType ==
  ASSUME TypeOK, TakeResponse, NEW id \in Nat,
         pairs' = pairs \cup {<<id, Head(inbox).to>>} \/ UNCHANGED pairs
  PROVE  PathsTyped
<1>1. Head(inbox) \in [to : Nat] /\ Tail(inbox) \in Seq([to : Nat])
  BY HeadTailProperties DEF TypeOK, TakeResponse
<1> QED
  BY <1>1 DEF TypeOK, TakeResponse, PathsTyped, bounds

---------------------------------------------------------------------------
(* A step of a thread.                                                     *)

\* The phase of thread t after a step is one it may be in.
PhaseFits(thread) ==
  /\ thread.pc = "chunks" => thread.i \in 1..Chunks
  /\ thread.pc = "flood" => thread.i \in 1..Fillers
  /\ thread.pc = "drain" => thread.i \in 0..MaxDrain

\* A step changes one thread; it moves in or out of a function with the lock.
LEMMA ThreadStep ==
  ASSUME ControlInv, PathsTyped, NEW t \in Threads, NEW new \in Thread, PhaseFits(new),
         th' = [th EXCEPT ![t] = new],
         \/ /\ ~Inside(t) /\ new.pc \in {"idle", "lock"} /\ lock' = lock
         \/ /\ Inside(t) \/ lock = NoThread
            /\ lock' = IF new.pc \in {"idle", "lock"} THEN NoThread ELSE t
  PROVE  ControlInv'
<1>1. /\ th \in [Threads -> Thread] /\ lock \in Threads \cup {NoThread}
      /\ NoThread \notin Threads
  BY SessionAssumption DEF ControlInv, TypeOK
<1>2. th' \in [Threads -> Thread] /\ lock' \in Threads \cup {NoThread}
  BY <1>1
<1>3. th'[t] = new /\ \A u \in Threads \ {t} : th'[u] = th[u]
  BY <1>1
<1>4. TypeOK'
  BY <1>2 DEF ControlInv, TypeOK, PathsTyped, readout
<1>5. LockDiscipline'
  BY <1>1, <1>3 DEF ControlInv, LockDiscipline, Inside
<1>6. PhaseBounds'
  <2> SUFFICES ASSUME NEW u \in Threads
               PROVE  /\ At(u, "chunks")' => th'[u].i \in 1..Chunks
                      /\ At(u, "flood")' => th'[u].i \in 1..Fillers
                      /\ At(u, "drain")' => th'[u].i \in 0..MaxDrain
    BY DEF PhaseBounds
  <2>1. CASE u = t
    BY <1>3, <2>1 DEF PhaseFits, At
  <2>2. CASE u # t
    BY <1>3, <2>2 DEF ControlInv, PhaseBounds, At
  <2> QED BY <2>1, <2>2
<1> QED
  BY <1>4, <1>5, <1>6 DEF ControlInv

\* What is known of a thread before its step.
LEMMA ThreadFacts ==
  ASSUME ControlInv, NEW t \in Threads
  PROVE  /\ th \in [Threads -> Thread] /\ th[t] \in Thread
         /\ th[t].n \in Nat /\ th[t].waits \in Nat /\ th[t].id \in Nat
         /\ th[t].ids \subseteq Nat /\ th[t].func \in Functions \cup {Upload}
         /\ th[t].attempts \in 0..MaxAttempts /\ th[t].i \in 0..(MaxDrain + Chunks)
         /\ n_sent \in Nat
<1>1. th \in [Threads -> Thread] /\ n_sent \in Nat
  BY DEF ControlInv, TypeOK
<1>2. th[t] \in Thread
  BY <1>1
<1> QED
  BY <1>1, <1>2 DEF Thread

\* A function that returns.
LEMMA ReturnStep ==
  ASSUME ControlInv, PathsTyped, NEW t \in Threads, Inside(t),
         NEW res \in {"ok", "EAGAIN", "EIO", "none"}, Return(t, res)
  PROVE  ControlInv'
<1> DEFINE new == [th[t] EXCEPT !.pc = "idle", !.res = res]
<1>1. th' = [th EXCEPT ![t] = new] /\ lock' = NoThread
  BY ThreadFacts DEF Return
<1>2. new \in Thread /\ new.pc = "idle"
  BY ThreadFacts, ZenonT(60) DEF Thread, Pcs
<1> HIDE DEF new
<1>3. PhaseFits(new)
  BY <1>2 DEF PhaseFits
<1> QED
  BY <1>1, <1>2, <1>3, ThreadStep

\* One command of several is over.
LEMMA NextCommandStep ==
  ASSUME ControlInv, PathsTyped, NEW t \in Threads, Inside(t), NextCommand(t)
  PROVE  ControlInv'
<1>1. CASE th[t].n > 1
  <2> DEFINE new == [th[t] EXCEPT !.pc = "send", !.n = @ - 1]
  <2>1. th' = [th EXCEPT ![t] = new] /\ lock' = lock /\ lock = t
    BY <1>1, ThreadFacts DEF NextCommand, ControlInv, LockDiscipline
  <2>2. th[t].n - 1 \in Nat
    BY <1>1, ThreadFacts
  <2>3. new \in Thread /\ new.pc = "send"
    BY <2>2, ThreadFacts, ZenonT(60) DEF Thread, Pcs
  <2> HIDE DEF new
  <2>4. PhaseFits(new)
    BY <2>3 DEF PhaseFits
  <2> QED BY <2>1, <2>3, <2>4, ThreadStep
<1>2. CASE ~(th[t].n > 1)
  BY <1>2, ReturnStep DEF NextCommand
<1> QED
  BY <1>1, <1>2

\* A step inside of a function.
LEMMA StepInside ==
  ASSUME ControlInv, PathsTyped, NEW t \in Threads, Inside(t), NEW new \in Thread,
         PhaseFits(new), new.pc \notin {"idle", "lock"},
         th' = [th EXCEPT ![t] = new], UNCHANGED lock
  PROVE  ControlInv'
<1>1. lock = t
  BY DEF ControlInv, LockDiscipline
<1> QED
  BY <1>1, ThreadStep

\* The steps every function consists of.
LEMMA SimpleStep ==
  ASSUME ControlInv, NEW t \in Threads, Simple(t) PROVE ControlInv'
<1> USE DEF At, Inside
<1>1. CASE Call(t)
  <2>1. PICK f \in Called : th' = [th EXCEPT ![t] = [Idle EXCEPT !.pc = "lock", !.func = f]]
    BY <1>1 DEF Call
  <2> DEFINE new == [Idle EXCEPT !.pc = "lock", !.func = f]
  <2>2. f \in Functions \cup {Upload} /\ 0 \in 0..MaxAttempts /\ 0 \in 0..(MaxDrain + Chunks)
    BY Sizes DEF Called
  <2>3. new \in Thread /\ new.pc = "lock"
    BY <2>2 DEF Idle, Thread, Pcs
  <2>4. PathsTyped /\ UNCHANGED lock /\ th[t].pc = "idle"
    BY <1>1 DEF Call, PathsTyped, ControlInv, TypeOK
  <2> HIDE DEF new
  <2>5. PhaseFits(new)
    BY <2>3 DEF PhaseFits
  <2> QED BY <2>1, <2>3, <2>4, <2>5, ThreadStep DEF new
<1>2. CASE Locked(t)
  <2>1. PathsTyped /\ lock = NoThread /\ lock' = t
    BY <1>2 DEF Locked, LockFree, PathsTyped, ControlInv, TypeOK, bounds
  <2>2. CASE th[t].func.attempts > 0
    <3> DEFINE new == [th[t] EXCEPT !.pc = "attempt", !.attempts = th[t].func.attempts,
                                    !.res = "EAGAIN"]
    <3>1. th' = [th EXCEPT ![t] = new]
      BY <1>2, <2>2, ThreadFacts DEF Locked
    <3>2. new \in Thread /\ new.pc = "attempt"
      BY ThreadFacts, FunctionType, ZenonT(60) DEF Thread, Pcs
    <3> HIDE DEF new
    <3>3. PhaseFits(new)
      BY <3>2 DEF PhaseFits
    <3> QED BY <2>1, <3>1, <3>2, <3>3, ThreadStep
  <2>3. CASE ~(th[t].func.attempts > 0)
    <3> DEFINE new == [th[t] EXCEPT !.pc = "send", !.n = th[t].func.cmds]
    <3>1. th' = [th EXCEPT ![t] = new]
      BY <1>2, <2>3, ThreadFacts DEF Locked
    <3>2. new \in Thread /\ new.pc = "send"
      BY ThreadFacts, FunctionType, ZenonT(60) DEF Thread, Pcs
    <3> HIDE DEF new
    <3>3. PhaseFits(new)
      BY <3>2 DEF PhaseFits
    <3> QED BY <2>1, <3>1, <3>2, <3>3, ThreadStep
  <2> QED BY <2>2, <2>3
<1>3. CASE SendCommand(t)
  <2> DEFINE new == [th[t] EXCEPT !.pc = "wait", !.waits = th[t].func.tries,
                                  !.id = n_sent + 1, !.ids = @ \cup {n_sent + 1}]
  <2>1. th' = [th EXCEPT ![t] = new] /\ UNCHANGED lock /\ th[t].pc = "send"
    BY <1>3, ThreadFacts DEF SendCommand
  <2> DEFINE ids == th[t].ids \cup {n_sent + 1}
  <2>5. n_sent + 1 \in Nat /\ ids \in SUBSET Nat /\ th[t].func.tries \in Nat
    BY ThreadFacts, FunctionType
  <2>6. new = [th[t] EXCEPT !.pc = "wait", !.waits = th[t].func.tries,
                            !.id = n_sent + 1, !.ids = ids]
    BY ThreadFacts
  <2> HIDE DEF ids
  <2>2. new \in Thread /\ new.pc = "wait"
    BY <2>5, <2>6, ThreadFacts, ZenonT(60) DEF Thread, Pcs
  <2>3. PathsTyped
    BY <1>3, SendType DEF SendCommand, ControlInv, Kinds
  <2> HIDE DEF new
  <2>4. PhaseFits(new)
    BY <2>2 DEF PhaseFits
  <2> QED BY <2>1, <2>2, <2>3, <2>4, StepInside
<1>4. CASE SendMuteCommand(t)
  <2>1. PathsTyped /\ Inside(t)
    BY <1>4, SendType DEF SendMuteCommand, ControlInv, Kinds
  <2> QED BY <1>4, <2>1, NextCommandStep DEF SendMuteCommand
<1>5. CASE CommandSendFails(t)
  <2>1. PathsTyped /\ Inside(t)
    BY <1>5, SendFailsType DEF CommandSendFails, ControlInv
  <2> QED BY <1>5, <2>1, ReturnStep DEF CommandSendFails
<1>6. CASE ResponseArrives(t)
  <2>1. PathsTyped /\ Inside(t)
    BY <1>6, TakeType, ThreadFacts DEF ResponseArrives, ControlInv
  <2> QED BY <1>6, <2>1, NextCommandStep DEF ResponseArrives
<1>7. CASE ResponseMissing(t)
  <2>1. PathsTyped /\ Inside(t)
    BY <1>7, SilenceType DEF ResponseMissing, ControlInv
  <2>2. CASE th[t].waits > 1 /\ th' = [th EXCEPT ![t].waits = @ - 1] /\ UNCHANGED lock
    <3> DEFINE new == [th[t] EXCEPT !.waits = @ - 1]
    <3>1. th' = [th EXCEPT ![t] = new] /\ th[t].pc = "wait"
      BY <1>7, <2>2, ThreadFacts DEF ResponseMissing
    <3>2. th[t].waits - 1 \in Nat
      BY <2>2, ThreadFacts
    <3>3. new \in Thread /\ new.pc = "wait"
      BY <3>1, <3>2, ThreadFacts, ZenonT(60) DEF Thread, Pcs
    <3> HIDE DEF new
    <3>4. PhaseFits(new)
      BY <3>3 DEF PhaseFits
    <3> QED BY <2>1, <2>2, <3>1, <3>3, <3>4, StepInside
  <2> QED BY <1>7, <2>1, <2>2, ReturnStep DEF ResponseMissing
<1> QED
  BY <1>1, <1>2, <1>3, <1>4, <1>5, <1>6, <1>7 DEF Simple

\* The attempts, the chunks and the wait of the upload.
LEMMA AttemptStep ==
  ASSUME ControlInv, NEW t \in Threads,
         \/ AttemptStarts(t) \/ AttemptSendFails(t) \/ AttemptsExhausted(t)
         \/ ChunkSent(t) \/ ChunkSendFails(t)
  PROVE  ControlInv'
<1> USE DEF At, Inside
<1>1. CASE AttemptStarts(t)
  <2> DEFINE new == [th[t] EXCEPT !.pc = "chunks", !.attempts = AttemptsAfter(@),
                                  !.i = 1, !.id = n_sent + 1, !.ids = {n_sent + 1}]
  <2>1. th' = [th EXCEPT ![t] = new] /\ UNCHANGED lock /\ th[t].pc = "attempt"
    BY <1>1, ThreadFacts DEF AttemptStarts
  <2>2. PathsTyped
    BY <1>1, SendType DEF AttemptStarts, ControlInv, Kinds
  <2>3. /\ n_sent + 1 \in Nat /\ {n_sent + 1} \in SUBSET Nat
        /\ AttemptsAfter(th[t].attempts) \in 0..MaxAttempts
        /\ 1 \in 0..(MaxDrain + Chunks) /\ 1 \in 1..Chunks
    BY <1>1, ThreadFacts, Sizes DEF AttemptStarts, AttemptsAfter
  <2>4. new = [th[t] EXCEPT !.pc = "chunks", !.attempts = AttemptsAfter(th[t].attempts),
                            !.i = 1, !.id = n_sent + 1, !.ids = {n_sent + 1}]
    BY ThreadFacts
  <2>5. new \in Thread /\ new.pc = "chunks" /\ new.i = 1
    BY <2>3, <2>4, ThreadFacts, ZenonT(60) DEF Thread, Pcs
  <2> HIDE DEF new
  <2>6. PhaseFits(new)
    BY <2>3, <2>5 DEF PhaseFits
  <2> QED BY <2>1, <2>2, <2>5, <2>6, StepInside
<1>2. CASE AttemptSendFails(t)
  <2> DEFINE left == AttemptsAfter(th[t].attempts)
             new == [th[t] EXCEPT !.attempts = left, !.res = "EIO"]
  <2>1. th' = [th EXCEPT ![t] = new] /\ UNCHANGED lock /\ th[t].pc = "attempt"
    BY <1>2, ThreadFacts DEF AttemptSendFails
  <2>2. PathsTyped
    BY <1>2, SendFailsType DEF AttemptSendFails, ControlInv
  <2>3. left \in 0..MaxAttempts
    BY <1>2, ThreadFacts, Sizes DEF AttemptSendFails, AttemptsAfter
  <2> HIDE DEF left
  <2>4. new \in Thread /\ new.pc = "attempt"
    BY <2>1, <2>3, ThreadFacts, ZenonT(60) DEF Thread, Pcs
  <2> HIDE DEF new
  <2>5. PhaseFits(new)
    BY <2>4 DEF PhaseFits
  <2> QED BY <2>1, <2>2, <2>4, <2>5, StepInside
<1>3. CASE AttemptsExhausted(t)
  <2>1. PathsTyped /\ th[t].res \in {"ok", "EAGAIN", "EIO", "none"}
    BY <1>3, ThreadFacts DEF AttemptsExhausted, PathsTyped, ControlInv, TypeOK, bounds, Thread
  <2> QED BY <1>3, <2>1, ReturnStep DEF AttemptsExhausted
<1>4. CASE ChunkSent(t)
  <2> DEFINE pc1 == IF th[t].i = Chunks THEN "ack" ELSE "chunks"
             i1 == th[t].i + 1
             new == [th[t] EXCEPT !.i = i1, !.pc = pc1, !.waits = MaxAcks]
  <2>1. th' = [th EXCEPT ![t] = new] /\ UNCHANGED lock /\ th[t].pc = "chunks"
    BY <1>4, ThreadFacts DEF ChunkSent
  <2>2. th[t].i \in 1..Chunks
    BY <2>1 DEF ControlInv, PhaseBounds
  <2>3. PathsTyped
    BY <1>4, <2>2, SendType, ThreadFacts, Sizes DEF ChunkSent, ControlInv, Kinds
  <2>4. /\ i1 \in 0..(MaxDrain + Chunks) /\ pc1 \in {"ack", "chunks"}
        /\ pc1 = "chunks" => i1 \in 1..Chunks
    BY <2>2, Sizes
  <2> HIDE DEF pc1, i1
  <2>5. new \in Thread /\ new.pc = pc1 /\ new.i = i1
    <3>1. th[t] \in Thread /\ MaxAcks \in Nat
      BY ThreadFacts, Sizes
    <3>2. pc1 \in Pcs /\ i1 \in 0..(MaxDrain + Chunks)
      BY <2>4 DEF Pcs
    <3> QED BY ONLY <3>1, <3>2, ZenonT(60) DEF Thread, new
  <2> HIDE DEF new
  <2>6. PhaseFits(new)
    BY <2>4, <2>5 DEF PhaseFits
  <2> QED BY <2>1, <2>3, <2>4, <2>5, <2>6, StepInside
<1>5. CASE ChunkSendFails(t)
  <2> DEFINE new == [th[t] EXCEPT !.pc = "flood", !.i = 1, !.res = "EIO"]
  <2>1. th' = [th EXCEPT ![t] = new] /\ UNCHANGED lock /\ th[t].pc = "chunks"
    BY <1>5, ThreadFacts DEF ChunkSendFails
  <2>2. PathsTyped
    BY <1>5, SendFailsType DEF ChunkSendFails, ControlInv
  <2>3. 1 \in 0..(MaxDrain + Chunks) /\ 1 \in 1..Fillers
    BY Sizes
  <2>4. new \in Thread /\ new.pc = "flood" /\ new.i = 1
    BY <2>3, ThreadFacts, ZenonT(60) DEF Thread, Pcs
  <2> HIDE DEF new
  <2>5. PhaseFits(new)
    BY <2>3, <2>4 DEF PhaseFits
  <2> QED BY <2>1, <2>2, <2>4, <2>5, StepInside
<1> QED
  BY <1>1, <1>2, <1>3, <1>4, <1>5

\* The acknowledgement of the upload and its recovery.
LEMMA RecoveryStep ==
  ASSUME ControlInv, NEW t \in Threads,
         \/ UploadAcknowledged(t) \/ UploadNotAcknowledged(t) \/ FillerSent(t)
         \/ ResponseDiscarded(t) \/ DrainEnds(t)
  PROVE  ControlInv'
<1> USE DEF At, Inside
<1>1. CASE UploadAcknowledged(t)
  <2> DEFINE new == [th[t] EXCEPT !.pc = "send", !.n = th[t].func.cmds]
  <2>1. th' = [th EXCEPT ![t] = new] /\ UNCHANGED lock /\ th[t].pc = "ack"
    BY <1>1, ThreadFacts DEF UploadAcknowledged
  <2>2. PathsTyped
    BY <1>1, TakeType, ThreadFacts DEF UploadAcknowledged, ControlInv
  <2>3. new \in Thread /\ new.pc = "send"
    BY ThreadFacts, FunctionType, ZenonT(60) DEF Thread, Pcs
  <2> HIDE DEF new
  <2>4. PhaseFits(new)
    BY <2>3 DEF PhaseFits
  <2> QED BY <2>1, <2>2, <2>3, <2>4, StepInside
<1>2. CASE UploadNotAcknowledged(t)
  <2>1. PathsTyped /\ UNCHANGED lock /\ th[t].pc = "ack"
    BY <1>2, SilenceType DEF UploadNotAcknowledged, ControlInv
  <2>2. CASE th[t].waits > 1
    <3> DEFINE left == th[t].waits - 1
               new == [th[t] EXCEPT !.waits = left]
    <3>1. th' = [th EXCEPT ![t] = new]
      BY <1>2, <2>2, ThreadFacts DEF UploadNotAcknowledged
    <3>2. left \in Nat
      BY <2>2, ThreadFacts
    <3> HIDE DEF left
    <3>3. new \in Thread /\ new.pc = "ack"
      BY <2>1, <3>2, ThreadFacts, ZenonT(60) DEF Thread, Pcs
    <3> HIDE DEF new
    <3>4. PhaseFits(new)
      BY <3>3 DEF PhaseFits
    <3> QED BY <2>1, <3>1, <3>3, <3>4, StepInside
  <2>3. CASE ~(th[t].waits > 1)
    <3> DEFINE new == [th[t] EXCEPT !.pc = "flood", !.i = 1, !.res = "EAGAIN"]
    <3>1. th' = [th EXCEPT ![t] = new]
      BY <1>2, <2>3, ThreadFacts DEF UploadNotAcknowledged
    <3>2. 1 \in 0..(MaxDrain + Chunks) /\ 1 \in 1..Fillers
      BY Sizes
    <3>3. new \in Thread /\ new.pc = "flood" /\ new.i = 1
      BY <3>2, ThreadFacts, ZenonT(60) DEF Thread, Pcs
    <3> HIDE DEF new
    <3>4. PhaseFits(new)
      BY <3>2, <3>3 DEF PhaseFits
    <3> QED BY <2>1, <3>1, <3>3, <3>4, StepInside
  <2> QED BY <2>2, <2>3
<1>3. CASE FillerSent(t)
  <2>1. th[t].pc = "flood" /\ UNCHANGED lock /\ th[t].i \in 1..Fillers
    BY <1>3 DEF FillerSent, ControlInv, PhaseBounds
  <2>2. th[t].i \in Nat
    BY <2>1, Sizes
  <2>3. PathsTyped
    BY <1>3, <2>2, SendType, SendFailsType DEF FillerSent, ControlInv, Kinds
  <2>4. CASE FloodEnds(th[t].i)
    <3> DEFINE new == [th[t] EXCEPT !.pc = "drain", !.i = MaxDrain]
    <3>1. th' = [th EXCEPT ![t] = new]
      BY <1>3, <2>4, ThreadFacts DEF FillerSent
    <3>2. MaxDrain \in 0..(MaxDrain + Chunks) /\ MaxDrain \in 0..MaxDrain
      BY Sizes
    <3>3. new \in Thread /\ new.pc = "drain" /\ new.i = MaxDrain
      BY <3>2, ThreadFacts, ZenonT(60) DEF Thread, Pcs
    <3> HIDE DEF new
    <3>4. PhaseFits(new)
      BY <3>2, <3>3 DEF PhaseFits
    <3> QED BY <2>1, <2>3, <3>1, <3>3, <3>4, StepInside
  <2>5. CASE ~FloodEnds(th[t].i)
    <3> DEFINE i1 == th[t].i + 1
               new == [th[t] EXCEPT !.i = i1]
    <3>1. th' = [th EXCEPT ![t] = new]
      BY <1>3, <2>5, ThreadFacts DEF FillerSent
    <3>2. i1 \in 0..(MaxDrain + Chunks) /\ i1 \in 1..Fillers
      BY <2>1, <2>5, Sizes DEF FloodEnds
    <3> HIDE DEF i1
    <3>3. new \in Thread /\ new.pc = "flood" /\ new.i = i1
      BY <2>1, <3>2, ThreadFacts, ZenonT(60) DEF Thread, Pcs
    <3> HIDE DEF new
    <3>4. PhaseFits(new)
      BY <3>2, <3>3 DEF PhaseFits
    <3> QED BY <2>1, <2>3, <3>1, <3>3, <3>4, StepInside
  <2> QED BY <2>4, <2>5
<1>4. CASE ResponseDiscarded(t)
  <2> DEFINE i1 == th[t].i - 1
             new == [th[t] EXCEPT !.i = i1]
  <2>1. th' = [th EXCEPT ![t] = new] /\ UNCHANGED lock /\ th[t].pc = "drain"
    BY <1>4, ThreadFacts DEF ResponseDiscarded
  <2>2. PathsTyped
    BY <1>4, TakeType, ThreadFacts DEF ResponseDiscarded, ControlInv
  <2>3. i1 \in 0..(MaxDrain + Chunks) /\ i1 \in 0..MaxDrain
    BY <1>4, <2>1, Sizes DEF ResponseDiscarded, DrainGoesOn, ControlInv, PhaseBounds
  <2> HIDE DEF i1
  <2>4. new \in Thread /\ new.pc = "drain" /\ new.i = i1
    BY <2>1, <2>3, ThreadFacts, ZenonT(60) DEF Thread, Pcs
  <2> HIDE DEF new
  <2>5. PhaseFits(new)
    BY <2>3, <2>4 DEF PhaseFits
  <2> QED BY <2>1, <2>2, <2>4, <2>5, StepInside
<1>5. CASE DrainEnds(t)
  <2> DEFINE new == [th[t] EXCEPT !.pc = "attempt", !.i = 0]
  <2>1. th' = [th EXCEPT ![t] = new] /\ UNCHANGED lock /\ th[t].pc = "drain"
    BY <1>5, ThreadFacts DEF DrainEnds
  <2>2. PathsTyped
    <3>1. CASE Silence
      BY <3>1, SilenceType DEF ControlInv
    <3>2. CASE UNCHANGED <<pairs, readout, c2r, inbox, n_sent, bounds>>
      BY <3>2 DEF PathsTyped, ControlInv, TypeOK, bounds
    <3> QED BY <1>5, <3>1, <3>2 DEF DrainEnds
  <2>3. 0 \in 0..(MaxDrain + Chunks)
    BY Sizes
  <2>4. new \in Thread /\ new.pc = "attempt"
    BY <2>3, ThreadFacts, ZenonT(60) DEF Thread, Pcs
  <2> HIDE DEF new
  <2>5. PhaseFits(new)
    BY <2>4 DEF PhaseFits
  <2> QED BY <2>1, <2>2, <2>4, <2>5, StepInside
<1> QED
  BY <1>1, <1>2, <1>3, <1>4, <1>5

---------------------------------------------------------------------------
(* A step of the readout or of the path.                                   *)

\* The queue takes a response if there is room for it.
LEMMA QueueType ==
  ASSUME TypeOK, NEW id \in Nat, QueueResponse(id)
  PROVE  crd' \in Seq([to : Nat]) /\ Len(crd') <= QueueCap
<1>1. crd \in Seq([to : Nat]) /\ Len(crd) \in Nat /\ Len(crd) <= QueueCap
      /\ [to |-> id] \in [to : Nat]
  BY LenProperties DEF TypeOK
<1>2. CASE QueueFull
  BY <1>1, <1>2 DEF QueueResponse
<1>3. CASE ~QueueFull
  <2>1. crd' = Append(crd, [to |-> id]) /\ Len(crd) # QueueCap
    BY <1>3 DEF QueueResponse, QueueFull
  <2>2. crd' \in Seq([to : Nat]) /\ Len(crd') = Len(crd) + 1
    BY <1>1, <2>1, AppendProperties
  <2> QED BY <1>1, <2>1, <2>2, Sizes
<1> QED
  BY <1>2, <1>3

\* The head of a path, and what is left of it.
LEMMA PathHeads ==
  ASSUME TypeOK
  PROVE  /\ c2r # <<>> => /\ Head(c2r) \in Datagram /\ Tail(c2r) \in Seq(Datagram)
                          /\ Head(c2r).id \in Nat /\ Head(c2r).of \in Nat
                          /\ Head(c2r).idx \in Nat
         /\ crd # <<>> => /\ Head(crd) \in [to : Nat] /\ Tail(crd) \in Seq([to : Nat])
                          /\ Len(Tail(crd)) <= QueueCap
<1>1. ASSUME c2r # <<>> PROVE Head(c2r) \in Datagram /\ Tail(c2r) \in Seq(Datagram)
  BY <1>1, HeadTailProperties DEF TypeOK
<1>2. ASSUME crd # <<>>
      PROVE  /\ Head(crd) \in [to : Nat] /\ Tail(crd) \in Seq([to : Nat])
             /\ Len(Tail(crd)) <= QueueCap
  <2>1. Len(crd) \in Nat /\ Len(crd) <= QueueCap /\ crd \in Seq([to : Nat])
    BY LenProperties DEF TypeOK
  <2>2. /\ Head(crd) \in [to : Nat] /\ Tail(crd) \in Seq([to : Nat])
        /\ Len(Tail(crd)) = Len(crd) - 1
    BY <1>2, <2>1, HeadTailProperties
  <2> QED BY <2>1, <2>2, Sizes
<1> QED
  BY <1>1, <1>2 DEF Datagram

ReadoutTyped ==
  /\ crd' \in Seq([to : Nat]) /\ Len(crd') <= QueueCap
  /\ px_upload_active' \in BOOLEAN /\ px_upload_words' \in 0..(Chunks * ChunkWords)
  /\ matrix' \in Seq(Nat \X Nat) /\ upload_id' \in Nat /\ executed' \subseteq Nat

\* What the readout does with a datagram keeps its types.
LEMMA CmdInType ==
  ASSUME TypeOK, CmdIn PROVE TypeOK'
<1> DEFINE d == Head(c2r)
<1>1. d.id \in Nat /\ d.of \in Nat /\ d.idx \in Nat /\ c2r' \in Seq(Datagram)
  BY PathHeads DEF CmdIn
<1>2. /\ UNCHANGED <<th, lock, pairs, inbox, n_sent, n_loss, n_fail, n_calls, n_late>>
      /\ ConsumePxConfig(d) \/ HandleCmd(d)
  BY DEF CmdIn, client, bounds
<1> HIDE DEF d
<1>3. /\ crd \in Seq([to : Nat]) /\ Len(crd) <= QueueCap /\ upload_id \in Nat
      /\ px_upload_words \in 0..(Chunks * ChunkWords) /\ executed \subseteq Nat
      /\ px_upload_active \in BOOLEAN /\ matrix \in Seq(Nat \X Nat)
  BY DEF TypeOK
<1>4. Chunks * ChunkWords \in Nat /\ Words(d.kind) \in Nat \ {0}
  BY Sizes DEF Words
<1>5. ASSUME ConsumePxConfig(d) PROVE ReadoutTyped
  <2>1. matrix' \in Seq(Nat \X Nat) /\ upload_id' \in Nat
    BY <1>1, <1>3, <1>5, AppendProperties DEF ConsumePxConfig
  <2>2. CASE Words(d.kind) >= px_upload_words
    <3>1. px_upload_words' = 0 /\ px_upload_active' = FALSE /\ QueueResponse(upload_id)
          /\ (executed' = executed \cup {upload_id} \/ executed' = executed)
      BY <1>5, <2>2 DEF ConsumePxConfig
    <3>2. crd' \in Seq([to : Nat]) /\ Len(crd') <= QueueCap
      BY <1>3, <3>1, QueueType
    <3>3. px_upload_words' \in 0..(Chunks * ChunkWords)
      BY <1>4, <3>1
    <3> QED BY <1>3, <2>1, <3>1, <3>2, <3>3 DEF ReadoutTyped
  <2>3. CASE ~(Words(d.kind) >= px_upload_words)
    <3>1. px_upload_words' = px_upload_words - Words(d.kind)
          /\ UNCHANGED <<px_upload_active, crd, executed>>
      BY <1>5, <2>3 DEF ConsumePxConfig
    <3>2. px_upload_words' \in 0..(Chunks * ChunkWords)
      BY <1>3, <1>4, <2>3, <3>1
    <3> QED BY <1>3, <2>1, <3>1, <3>2 DEF ReadoutTyped
  <2> QED BY <2>2, <2>3
<1>6. ASSUME HandleCmd(d) PROVE ReadoutTyped
  <2>1. ASSUME Executes(d), QueueResponse(d.id) \/ UNCHANGED crd PROVE ReadoutTyped
    <3>1. crd' \in Seq([to : Nat]) /\ Len(crd') <= QueueCap
      BY <1>1, <1>3, <2>1, QueueType
    <3> QED BY <1>1, <1>3, <2>1, <3>1 DEF Executes, ReadoutTyped
  <2>2. ASSUME UploadBegins(d) PROVE ReadoutTyped
    <3>1. <<>> \in Seq(Nat \X Nat)
      BY EmptySeq
    <3>2. Chunks * ChunkWords \in 0..(Chunks * ChunkWords)
      BY <1>4
    <3> QED BY <1>1, <1>3, <2>2, <3>1, <3>2 DEF UploadBegins, ReadoutTyped
  <2> QED BY <1>6, <2>1, <2>2 DEF HandleCmd
<1> QED
  BY <1>1, <1>2, <1>5, <1>6 DEF ReadoutTyped, TypeOK

\* A step of the readout or of the path does not touch the threads.
LEMMA OtherStep ==
  ASSUME ControlInv, CmdIn \/ CrdOut \/ CommandLost \/ ResponseLost
  PROVE  ControlInv'
<1>1. UNCHANGED <<th, lock>>
  BY DEF CmdIn, CrdOut, CommandLost, ResponseLost, Loss, client
<1>2. LockDiscipline' /\ PhaseBounds'
  BY <1>1 DEF ControlInv, LockDiscipline, Inside, PhaseBounds, At
<1>3. CASE CmdIn
  BY <1>2, <1>3, CmdInType DEF ControlInv
<1>4. CASE CrdOut
  <2>1. TypeOK'
    <3>1. inbox' \in Seq([to : Nat])
      BY <1>4, PathHeads, AppendProperties DEF CrdOut, ControlInv, TypeOK
    <3> QED BY <1>4, <3>1, PathHeads DEF CrdOut, ControlInv, TypeOK, client, bounds
  <2> QED BY <1>2, <2>1 DEF ControlInv
<1>5. CASE CommandLost
  <2>1. /\ c2r' \in Seq(Datagram) /\ n_loss' \in Nat /\ UNCHANGED crd
        /\ UNCHANGED <<pairs, inbox, px_upload_active, px_upload_words, matrix,
                       upload_id, executed, n_sent, n_fail, n_calls, n_late>>
    BY <1>5, PathHeads DEF CommandLost, Loss, ControlInv, TypeOK, client
  <2> QED BY <1>1, <1>2, <2>1 DEF ControlInv, TypeOK
<1>6. CASE ResponseLost
  <2>1. /\ crd' \in Seq([to : Nat]) /\ Len(crd') <= QueueCap /\ n_loss' \in Nat
        /\ UNCHANGED <<pairs, inbox, c2r, px_upload_active, px_upload_words, matrix,
                       upload_id, executed, n_sent, n_fail, n_calls, n_late>>
    BY <1>6, PathHeads DEF ResponseLost, Loss, ControlInv, TypeOK, client
  <2> QED BY <1>1, <1>2, <2>1 DEF ControlInv, TypeOK
<1> QED
  BY <1>3, <1>4, <1>5, <1>6

---------------------------------------------------------------------------
(* The invariant and the theorems.                                         *)

LEMMA ControlInvInit == Init => ControlInv
<1> SUFFICES ASSUME Init PROVE ControlInv
  OBVIOUS
<1>1. Idle \in Thread /\ Idle.pc = "idle"
  <2>1. 0 \in 0..MaxAttempts /\ 0 \in 0..(MaxDrain + Chunks)
    BY Sizes
  <2> QED BY <2>1 DEF Idle, Thread, Pcs
<1>2. th = [t \in Threads |-> Idle] /\ lock = NoThread /\ NoThread \notin Threads
  BY SessionAssumption DEF Init
<1>3. LockDiscipline /\ PhaseBounds
  BY <1>1, <1>2 DEF LockDiscipline, PhaseBounds, Inside, At
<1>4. Len(crd) <= QueueCap /\ px_upload_words \in 0..(Chunks * ChunkWords)
  <2>1. Chunks * ChunkWords \in Nat /\ QueueCap \in Nat
    BY Sizes
  <2> QED BY <2>1, EmptySeq DEF Init
<1>5. TypeOK
  BY <1>1, <1>2, <1>4, EmptySeq DEF Init, TypeOK
<1> QED
  BY <1>3, <1>5 DEF ControlInv

LEMMA ControlInvStep == ControlInv /\ [Next]_vars => ControlInv'
<1> SUFFICES ASSUME ControlInv, [Next]_vars PROVE ControlInv'
  OBVIOUS
<1>1. ASSUME NEW t \in Threads, UploadStep(t) PROVE ControlInv'
  BY <1>1, AttemptStep, RecoveryStep DEF UploadStep
<1>2. CASE UNCHANGED vars
  BY <1>2 DEF vars, client, readout, bounds, ControlInv, TypeOK, LockDiscipline, Inside,
       PhaseBounds, At
<1> QED
  BY <1>1, <1>2, SimpleStep, OtherStep DEF Next

\* The invariant holds whatever is lost, fails or comes late.
THEOREM ControlInvariant == Spec => []ControlInv
BY ControlInvInit, ControlInvStep, PTL DEF Spec

\* Threads, paths and readout keep their types, and the response queue its
\* capacity, for any number of threads, chunks and fillers (TypeOK).
THEOREM ControlTypeCorrect == Spec => []TypeOK
<1>1. ControlInv => TypeOK
  BY DEF ControlInv
<1> QED
  BY <1>1, ControlInvariant, PTL

\* Every function returns with the lock released, on each of its error
\* paths as well, and only one thread at a time is inside of one
\* (katherine_udp_mutex_lock and _unlock throughout config.c and status.c).
THEOREM LockIsKept == Spec => []LockDiscipline
<1>1. ControlInv => LockDiscipline
  BY DEF ControlInv
<1> QED
  BY <1>1, ControlInvariant, PTL

---------------------------------------------------------------------------
(* What is on the paths.                                                   *)
(* While responses are not late, the place where the holder of the lock is *)
(* tells what may be on its way: nothing that will be answered, one        *)
(* command or its response, an upload and its chunks, or the fillers that  *)
(* close it.  From this follow the properties of ControlSession.           *)

\* Faults the path and the sends have left.
FaultsLeft == (MaxLoss - n_loss) + (MaxFail - n_fail)

\* Nothing on its way that the readout answers, and no answer on its way.
Silent == crd = <<>> /\ inbox = <<>>

Quiet ==
  /\ Silent /\ ~px_upload_active
  /\ \A k \in 1..Len(c2r) : c2r[k].kind = "mute"

\* Command id is on its way, behind commands that are not answered.
Asked(id) ==
  /\ Silent /\ ~px_upload_active /\ c2r # <<>>
  /\ c2r[Len(c2r)].kind = "cmd" /\ c2r[Len(c2r)].id = id
  /\ \A k \in 1..(Len(c2r) - 1) : c2r[k].kind = "mute"

\* It is done and its response is on its way, alone.
Answered(id) ==
  /\ c2r = <<>> /\ ~px_upload_active /\ id \in executed
  /\ \/ crd = <<[to |-> id]>> /\ inbox = <<>>
     \/ crd = <<>> /\ inbox = <<[to |-> id]>>

\* Upload id is open and waits for left datagrams: it is in progress (p = 0),
\* or it opens when the readout gets to datagram p.
Open(id, p, left) ==
  /\ Silent
  /\ \A k \in (p + 1)..Len(c2r) : c2r[k].kind \in {"chunk", "filler"}
  /\ p = 0 => /\ px_upload_active /\ upload_id = id
              /\ px_upload_words = left * ChunkWords
  /\ p > 0 => /\ ~px_upload_active /\ left = Chunks
              /\ c2r[p].kind = "upload" /\ c2r[p].id = id
              /\ \A k \in 1..(p - 1) : c2r[k].kind = "mute"

\* Datagrams it will still wait for when all that was sent has arrived.
Missing(p, left) == left - (Len(c2r) - p)

\* The chunks before i have been sent; so many of them are lost.
LostChunks(i, p, left) == Missing(p, left) - (Chunks + 1 - i)

\* What is on its way are the last chunks sent.  If none is lost, those before
\* them are in the matrix.
InOrder(id, i, p, left) ==
  /\ LostChunks(i, p, left) \in 0..n_loss
  /\ \A k \in (p + 1)..Len(c2r) :
       c2r[k].kind = "chunk" /\ c2r[k].of = id /\ c2r[k].idx = i - 1 - (Len(c2r) - k)
  /\ p = 0 /\ LostChunks(i, p, left) = 0 =>
       matrix = [k \in 1..(Chunks - left) |-> <<id, k>>]

Sending(id, i) ==
  \E p \in 0..Len(c2r), left \in 1..Chunks : Open(id, p, left) /\ InOrder(id, i, p, left)

\* need more fillers will be sent, and room is how many responses more than
\* those on their way the recovery can still discard.
Closing(id, p, left, need, room) ==
  /\ Missing(p, left) + FaultsLeft <= need
  /\ 1 - Missing(p, left) <= room
  /\ \A k \in (p + 1)..Len(c2r) : c2r[k].kind = "chunk" => k - p <= left

Closed(room) ==
  /\ ~px_upload_active
  /\ \A k \in 1..Len(c2r) : c2r[k].kind = "filler"
  /\ Len(c2r) + Len(crd) + Len(inbox) <= room

Recovering(id, need, room) ==
  \/ \E p \in 0..Len(c2r), left \in 1..Chunks :
       Open(id, p, left) /\ Closing(id, p, left, need, room)
  \/ Closed(room)

\* The paths and the readout while thread x is inside of a function.
Pipe(x) ==
  /\ x.pc \in {"send", "attempt"} => Quiet
  /\ x.pc = "wait" => Quiet \/ Asked(x.id) \/ Answered(x.id)
  /\ x.pc = "chunks" => Sending(x.id, x.i)
  /\ x.pc = "ack" => \/ Sending(x.id, Chunks + 1) \/ Answered(x.id)
                     \/ Quiet /\ c2r = <<>>
  /\ x.pc = "flood" => Recovering(x.id, Fillers + 1 - x.i, x.i)
  /\ x.pc = "drain" => Recovering(x.id, 0, x.i - 1)

\* What a thread has done is recorded.
Recorded(x) ==
  /\ x.pc = "idle" /\ x.res = "ok" => x.ids \subseteq executed
  /\ x.pc \in {"lock", "send"} => x.ids \subseteq executed
  /\ x.pc = "wait" => x.ids \ {x.id} \subseteq executed
  /\ x.pc \in {"chunks", "ack"} => x.ids = {x.id}
  /\ x.pc \in {"attempt", "chunks", "ack", "flood", "drain"} => x.res # "ok"
  /\ x.pc = "ack" => x.i = Chunks + 1

\* The function a thread is inside of, and the paths, agree.
PipeInv ==
  /\ \A p \in pairs : p[1] = p[2]
  /\ lock = NoThread => Quiet
  /\ \A t \in Threads, x \in Thread :
       x = th[t] => Recorded(x) /\ (lock = t => Pipe(x))

FaultsBounded == n_loss \in 0..MaxLoss /\ n_fail \in 0..MaxFail

PairingInv == FaultsBounded /\ (n_late = 0 => PipeInv)

\* The command that opens an upload is not lost, and there are fillers enough
\* for a whole upload and all but one of the faults.
FaultsCovered ==
  "upload" \notin Lossy /\ MaxLoss + MaxFail <= Fillers - Chunks + 1
---------------------------------------------------------------------------
(* Steps of the readout and of the path.                                   *)

PathStep == CmdIn \/ CrdOut \/ CommandLost \/ ResponseLost

LEMMA TailAt ==
  ASSUME NEW S, NEW s \in Seq(S), s # <<>>
  PROVE  /\ Len(s) \in Nat /\ Len(s) >= 1 /\ Tail(s) \in Seq(S)
         /\ Len(Tail(s)) = Len(s) - 1 /\ Head(s) = s[1]
         /\ \A k \in 1..(Len(s) - 1) : Tail(s)[k] = s[k + 1]
<1>1. Len(s) \in Nat /\ Len(s) >= 1
  BY LenProperties, EmptySeq
<1> QED
  BY <1>1, HeadTailProperties

\* Without commands that are answered the paths stay quiet.
LEMMA QuietStays ==
  ASSUME TypeOK, Quiet, PathStep
  PROVE  Quiet' /\ (c2r = <<>> => c2r' = <<>>) /\ executed \subseteq executed'
<1>1. ~CrdOut /\ ~ResponseLost
  BY DEF Quiet, Silent, CrdOut, ResponseLost
<1>2. c2r # <<>> /\ c2r' = Tail(c2r) /\ c2r \in Seq(Datagram)
  BY <1>1 DEF PathStep, CmdIn, CommandLost, TypeOK
<1>3. /\ Len(c2r) \in Nat /\ Len(c2r) >= 1 /\ Len(c2r') = Len(c2r) - 1
      /\ Head(c2r) = c2r[1] /\ \A k \in 1..(Len(c2r) - 1) : c2r'[k] = c2r[k + 1]
  BY <1>2, TailAt
<1>4. \A k \in 1..Len(c2r') : c2r'[k].kind = "mute"
  BY <1>3 DEF Quiet
<1>5. Head(c2r).kind = "mute"
  BY <1>3 DEF Quiet
<1>6. CASE CmdIn
  <2>1. ~px_upload_active /\ HandleCmd(Head(c2r)) /\ UNCHANGED inbox
    BY <1>6 DEF CmdIn, ConsumePxConfig, Quiet
  <2>2. Executes(Head(c2r)) /\ UNCHANGED crd
    BY <1>5, <2>1 DEF HandleCmd
  <2> QED BY <1>2, <1>4, <2>1, <2>2 DEF Executes, Quiet, Silent
<1>7. CASE CommandLost
  BY <1>2, <1>4, <1>7 DEF CommandLost, Loss, Quiet, Silent
<1> QED
  BY <1>1, <1>6, <1>7 DEF PathStep

\* A command is executed and answered, or lost.
LEMMA AskedStep ==
  ASSUME TypeOK, NEW id, Asked(id), PathStep
  PROVE  (Quiet' \/ Asked(id)' \/ Answered(id)') /\ executed \subseteq executed'
<1>1. ~CrdOut /\ ~ResponseLost
  BY DEF Asked, Silent, CrdOut, ResponseLost
<1>2. c2r # <<>> /\ c2r' = Tail(c2r) /\ c2r \in Seq(Datagram)
  BY <1>1 DEF PathStep, CmdIn, CommandLost, TypeOK
<1>3. /\ Len(c2r) \in Nat /\ Len(c2r) >= 1 /\ Len(c2r') = Len(c2r) - 1
      /\ Head(c2r) = c2r[1] /\ \A k \in 1..(Len(c2r) - 1) : c2r'[k] = c2r[k + 1]
      /\ c2r' \in Seq(Datagram)
  BY <1>2, TailAt
<1>4. CASE Len(c2r) = 1
  <2>1. c2r' = <<>>
    BY <1>3, <1>4, EmptySeq
  <2>2. Head(c2r).kind = "cmd" /\ Head(c2r).id = id
    BY <1>3, <1>4 DEF Asked
  <2>3. CASE CmdIn
    <3>1. ~px_upload_active /\ HandleCmd(Head(c2r)) /\ UNCHANGED inbox
      BY <2>3 DEF CmdIn, ConsumePxConfig, Asked
    <3>2. Executes(Head(c2r)) /\ QueueResponse(id)
      BY <2>2, <3>1 DEF HandleCmd
    <3>3. crd' = <<[to |-> id]>>
      <4>1. crd = <<>> /\ Len(crd) # QueueCap
        BY Sizes, EmptySeq DEF Asked, Silent
      <4> QED BY <3>2, <4>1 DEF QueueResponse, QueueFull
    <3> QED BY <2>1, <2>2, <3>1, <3>2, <3>3 DEF Executes, Answered, Asked, Silent
  <2>4. CASE CommandLost
    <3>1. \A k \in 1..Len(c2r') : FALSE
      BY <2>1
    <3> QED BY <3>1, <2>4 DEF CommandLost, Loss, Quiet, Asked, Silent
  <2> QED BY <1>1, <2>3, <2>4 DEF PathStep
<1>5. CASE Len(c2r) # 1
  <2>1. /\ Head(c2r).kind = "mute" /\ c2r' # <<>>
        /\ c2r'[Len(c2r')] = c2r[Len(c2r)]
        /\ \A k \in 1..(Len(c2r') - 1) : c2r'[k].kind = "mute"
    BY <1>3, <1>5, EmptySeq DEF Asked
  <2>2. CASE CmdIn
    <3>1. ~px_upload_active /\ HandleCmd(Head(c2r)) /\ UNCHANGED inbox
      BY <2>2 DEF CmdIn, ConsumePxConfig, Asked
    <3>2. Executes(Head(c2r)) /\ UNCHANGED crd
      BY <2>1, <3>1 DEF HandleCmd
    <3> QED BY <2>1, <3>1, <3>2 DEF Executes, Asked, Silent
  <2>3. CASE CommandLost
    BY <2>1, <2>3 DEF CommandLost, Loss, Asked, Silent
  <2> QED BY <1>1, <2>2, <2>3 DEF PathStep
<1> QED
  BY <1>4, <1>5

\* A response moves on, or is lost.
LEMMA AnsweredStep ==
  ASSUME TypeOK, NEW id, Answered(id), PathStep
  PROVE  (Answered(id)' \/ (Quiet' /\ c2r' = <<>>)) /\ executed \subseteq executed'
<1>1. ~CmdIn /\ ~CommandLost
  BY DEF Answered, CmdIn, CommandLost
<1>2. crd = <<[to |-> id]>> /\ inbox = <<>>
  BY <1>1 DEF PathStep, Answered, CrdOut, ResponseLost
<1>3. Head(crd) = [to |-> id] /\ Tail(crd) = <<>>
  BY <1>2
<1>4. CASE CrdOut
  <2>1. inbox' = <<[to |-> id]>> /\ crd' = <<>>
    BY <1>2, <1>3, <1>4 DEF CrdOut
  <2> QED BY <1>4, <2>1 DEF CrdOut, Answered
<1>5. CASE ResponseLost
  <2>1. crd' = <<>> /\ c2r' = <<>> /\ inbox' = <<>> /\ ~px_upload_active'
        /\ executed' = executed
    BY <1>2, <1>3, <1>5 DEF ResponseLost, Loss, Answered
  <2>2. \A k \in 1..Len(c2r') : FALSE
    BY <2>1
  <2> QED BY <2>1, <2>2 DEF Quiet, Silent
<1> QED
  BY <1>1, <1>4, <1>5 DEF PathStep

\* The readout comes closer to an open upload, takes one datagram for it, takes
\* the last; or a datagram is lost.
Approached(id, p, left) ==
  /\ p > 0 /\ Open(id, p - 1, left)' /\ n_loss' \in {n_loss, n_loss + 1}
  /\ p = 1 => matrix' = <<>> /\ left = Chunks

Taken(id, p, left) ==
  /\ p = 0 /\ left > 1 /\ Open(id, 0, left - 1)' /\ n_loss' = n_loss
  /\ matrix' = Append(matrix, <<c2r[1].of, c2r[1].idx>>)

Completed(id, p, left) ==
  /\ p = 0 /\ left = 1 /\ ~px_upload_active' /\ n_loss' = n_loss
  /\ crd' = <<[to |-> id]>> /\ inbox' = <<>>
  /\ Append(matrix, <<c2r[1].of, c2r[1].idx>>) = [k \in 1..Chunks |-> <<id, k>>]
       => id \in executed'

Missed(id, p, left) ==
  /\ p = 0 /\ Open(id, 0, left)' /\ n_loss' = n_loss + 1
  /\ matrix' = matrix

LEMMA OpenStep ==
  ASSUME TypeOK, "upload" \notin Lossy, NEW id, NEW p \in 0..Len(c2r),
         NEW left \in 1..Chunks, Open(id, p, left), PathStep
  PROVE  /\ c2r # <<>> /\ c2r' = Tail(c2r) /\ executed \subseteq executed'
         /\ n_fail' = n_fail
         /\ \/ Approached(id, p, left) \/ Taken(id, p, left)
            \/ Completed(id, p, left) \/ Missed(id, p, left)
<1>1. ~CrdOut /\ ~ResponseLost
  BY DEF Open, Silent, CrdOut, ResponseLost
<1>2. c2r # <<>> /\ c2r' = Tail(c2r) /\ c2r \in Seq(Datagram)
  BY <1>1 DEF PathStep, CmdIn, CommandLost, TypeOK
<1>3. /\ Len(c2r) \in Nat /\ Len(c2r) >= 1 /\ Len(c2r') = Len(c2r) - 1
      /\ Head(c2r) = c2r[1] /\ \A k \in 1..(Len(c2r) - 1) : c2r'[k] = c2r[k + 1]
      /\ c2r' \in Seq(Datagram)
  BY <1>2, TailAt
<1>4. CASE p > 0
  <2>1. /\ \A k \in ((p - 1) + 1)..Len(c2r') : c2r'[k].kind \in {"chunk", "filler"}
        /\ \A k \in 1..((p - 1) - 1) : c2r'[k].kind = "mute"
        /\ p > 1 => c2r'[p - 1] = c2r[p]
    <3>1. ASSUME NEW k \in ((p - 1) + 1)..Len(c2r')
          PROVE  c2r'[k].kind \in {"chunk", "filler"}
      <4>1. k + 1 \in (p + 1)..Len(c2r) /\ c2r'[k] = c2r[k + 1]
        BY <1>3, <1>4
      <4> QED BY <4>1 DEF Open
    <3>2. ASSUME NEW k \in 1..((p - 1) - 1) PROVE c2r'[k].kind = "mute"
      <4>1. k + 1 \in 1..(p - 1) /\ c2r'[k] = c2r[k + 1]
        BY <1>3, <1>4
      <4> QED BY <1>4, <4>1 DEF Open
    <3>3. ASSUME p > 1 PROVE c2r'[p - 1] = c2r[p]
      BY <1>3, <3>3
    <3> QED BY <3>1, <3>2, <3>3
  <2>2. /\ ~px_upload_active /\ left = Chunks /\ Silent
        /\ c2r[p].kind = "upload" /\ c2r[p].id = id
    BY <1>4 DEF Open
  <2>3. CASE p = 1
    <3>1. ~CommandLost
      BY <1>3, <2>2, <2>3 DEF CommandLost
    <3>2. CmdIn /\ HandleCmd(Head(c2r)) /\ UNCHANGED inbox
      BY <1>1, <2>2, <3>1 DEF PathStep, CmdIn, ConsumePxConfig
    <3>3. UploadBegins(Head(c2r))
      BY <1>3, <2>2, <2>3, <3>2 DEF HandleCmd
    <3>4. Open(id, 0, left)'
      BY <1>3, <2>1, <2>2, <2>3, <3>2, <3>3 DEF UploadBegins, Open, Silent
    <3>5. matrix' = <<>> /\ executed' = executed /\ n_loss' = n_loss /\ n_fail' = n_fail
      BY <3>2, <3>3 DEF UploadBegins, CmdIn, bounds
    <3>6. Approached(id, p, left)
      BY <2>2, <2>3, <3>4, <3>5 DEF Approached
    <3> QED BY <1>2, <3>5, <3>6
  <2>4. CASE p > 1
    <3>1. Head(c2r).kind = "mute"
      BY <1>3, <2>4 DEF Open
    <3>2. /\ UNCHANGED <<crd, inbox, px_upload_active>> /\ executed \subseteq executed'
          /\ n_fail' = n_fail /\ n_loss' \in {n_loss, n_loss + 1}
      <4>1. CASE CmdIn
        <5>1. HandleCmd(Head(c2r)) /\ UNCHANGED <<inbox, n_loss, n_fail>>
          BY <2>2, <4>1 DEF CmdIn, ConsumePxConfig, bounds
        <5>2. Executes(Head(c2r)) /\ UNCHANGED crd
          BY <3>1, <5>1 DEF HandleCmd
        <5> QED BY <5>1, <5>2 DEF Executes
      <4>2. CASE CommandLost
        BY <4>2 DEF CommandLost, Loss
      <4> QED BY <1>1, <4>1, <4>2 DEF PathStep
    <3>3. Open(id, p - 1, left)'
      BY <2>1, <2>2, <2>4, <3>2 DEF Open, Silent
    <3>4. Approached(id, p, left)
      BY <2>4, <3>2, <3>3 DEF Approached
    <3> QED BY <1>2, <3>2, <3>4
  <2> QED BY <1>4, <2>3, <2>4
<1>5. CASE p = 0
  <2>1. /\ px_upload_active /\ upload_id = id /\ px_upload_words = left * ChunkWords
        /\ Silent /\ Head(c2r).kind \in {"chunk", "filler"}
        /\ \A k \in 1..Len(c2r') : c2r'[k].kind \in {"chunk", "filler"}
    BY <1>3, <1>5 DEF Open
  <2>2. CASE CommandLost
    <3>1. /\ UNCHANGED <<crd, inbox, px_upload_active, px_upload_words, matrix,
                         upload_id, executed, n_fail>>
          /\ n_loss' = n_loss + 1
      BY <2>2 DEF CommandLost, Loss
    <3>2. Open(id, 0, left)'
      BY <2>1, <3>1 DEF Open, Silent
    <3>3. Missed(id, p, left)
      BY <1>5, <3>1, <3>2 DEF Missed
    <3> QED BY <1>2, <3>1, <3>3
  <2>3. CASE CmdIn
    <3>1. /\ ConsumePxConfig(Head(c2r)) /\ UNCHANGED <<inbox, n_loss, n_fail>>
          /\ Words(Head(c2r).kind) = ChunkWords
      BY <2>1, <2>3 DEF CmdIn, HandleCmd, bounds, Words
    <3>2. matrix' = Append(matrix, <<c2r[1].of, c2r[1].idx>>) /\ upload_id' = id
      BY <1>3, <2>1, <3>1 DEF ConsumePxConfig
    <3>3. CASE left = 1
      <4>1. px_upload_words = ChunkWords
        BY <2>1, <3>3, Sizes
      <4>2. /\ px_upload_active' = FALSE /\ QueueResponse(id)
            /\ executed' = IF matrix' = WholeMatrix THEN executed \cup {id} ELSE executed
        <5>1. Words(Head(c2r).kind) >= px_upload_words
          BY <3>1, <4>1, Sizes
        <5> QED BY <2>1, <3>1, <5>1 DEF ConsumePxConfig
      <4>3. crd' = <<[to |-> id]>>
        <5>1. crd = <<>> /\ Len(crd) # QueueCap
          BY <2>1, Sizes DEF Silent
        <5> QED BY <4>2, <5>1 DEF QueueResponse, QueueFull
      <4>4. WholeMatrix = [k \in 1..Chunks |-> <<id, k>>]
        BY <2>1 DEF WholeMatrix
      <4>5. executed \subseteq executed' /\ inbox' = <<>>
        BY <2>1, <3>1, <4>2 DEF Silent
      <4>6. matrix' = [k \in 1..Chunks |-> <<id, k>>] => id \in executed'
        BY <4>2, <4>4
      <4>7. Completed(id, p, left)
        BY <1>5, <3>1, <3>2, <3>3, <4>2, <4>3, <4>5, <4>6 DEF Completed
      <4> QED BY <1>2, <3>1, <4>5, <4>7
    <3>4. CASE left > 1
      <4>1. /\ left * ChunkWords - ChunkWords = (left - 1) * ChunkWords
            /\ ~(ChunkWords >= left * ChunkWords)
        <5>1. (left - 1) * ChunkWords = left * ChunkWords - ChunkWords
          BY Sizes
        <5>2. (left - 1) * ChunkWords > 0
          BY <3>4, Sizes
        <5> QED BY <5>1, <5>2, Sizes
      <4>2. /\ px_upload_words' = (left - 1) * ChunkWords
            /\ UNCHANGED <<px_upload_active, crd, executed>>
        BY <2>1, <3>1, <4>1 DEF ConsumePxConfig
      <4>3. Open(id, 0, left - 1)'
        BY <2>1, <3>1, <3>2, <4>2 DEF Open, Silent
      <4>4. Taken(id, p, left)
        BY <1>5, <3>1, <3>2, <3>4, <4>3 DEF Taken
      <4> QED BY <1>2, <3>1, <4>2, <4>4
    <3> QED BY <3>3, <3>4
  <2> QED BY <1>1, <2>2, <2>3 DEF PathStep
<1> QED
  BY <1>4, <1>5

\* A row of chunks, and one more.
LEMMA RowGrows ==
  ASSUME NEW id, NEW n \in Nat
  PROVE  Append([k \in 1..n |-> <<id, k>>], <<id, n + 1>>) = [k \in 1..(n + 1) |-> <<id, k>>]
<1> DEFINE row == [k \in 1..n |-> <<id, k>>]
           more == [k \in 1..(n + 1) |-> <<id, k>>]
<1>1. row \in Seq({id} \X Nat) /\ Len(row) = n
  OBVIOUS
<1>2. more \in Seq({id} \X Nat) /\ Len(more) = n + 1
  OBVIOUS
<1>3. Append(row, <<id, n + 1>>) \in Seq({id} \X Nat) /\ Len(Append(row, <<id, n + 1>>)) = n + 1
  BY <1>1
<1>4. \A k \in 1..(n + 1) : Append(row, <<id, n + 1>>)[k] = more[k]
  BY <1>1, AppendProperties
<1> QED
  BY <1>2, <1>3, <1>4, SeqEqual

\* While it is sent, an upload stays in order until it is whole.
LEMMA SendingStep ==
  ASSUME TypeOK, FaultsBounded, "upload" \notin Lossy, NEW id, NEW i \in 1..(Chunks + 1),
         Sending(id, i), PathStep
  PROVE  /\ Sending(id, i)' \/ (i = Chunks + 1 /\ Answered(id)')
         /\ executed \subseteq executed'
<1>1. PICK p \in 0..Len(c2r), left \in 1..Chunks : Open(id, p, left) /\ InOrder(id, i, p, left)
  BY DEF Sending
<1> DEFINE m == LostChunks(i, p, left)
<1>2. /\ c2r # <<>> /\ c2r' = Tail(c2r) /\ executed \subseteq executed' /\ c2r \in Seq(Datagram)
  BY <1>1, OpenStep DEF TypeOK
<1>3. /\ Len(c2r) \in Nat /\ Len(c2r) >= 1 /\ Len(c2r') = Len(c2r) - 1
      /\ \A k \in 1..(Len(c2r) - 1) : c2r'[k] = c2r[k + 1]
  BY <1>2, TailAt
<1>4. n_loss \in Nat /\ matrix \in Seq(Nat \X Nat)
  BY DEF TypeOK
<1>5. /\ m \in 0..n_loss /\ m = left - (Len(c2r) - p) - (Chunks + 1 - i)
      /\ \A k \in (p + 1)..Len(c2r) :
           c2r[k].kind = "chunk" /\ c2r[k].of = id /\ c2r[k].idx = i - 1 - (Len(c2r) - k)
      /\ p = 0 /\ m = 0 => matrix = [k \in 1..(Chunks - left) |-> <<id, k>>]
  BY <1>1 DEF InOrder, LostChunks, Missing
<1> HIDE DEF m
<1>6. ASSUME NEW q \in 0..Len(c2r'), q = p - 1 \/ (p = 0 /\ q = 0)
      PROVE  \A k \in (q + 1)..Len(c2r') :
               c2r'[k].kind = "chunk" /\ c2r'[k].of = id /\ c2r'[k].idx = i - 1 - (Len(c2r') - k)
  <2> TAKE k \in (q + 1)..Len(c2r')
  <2>1. k + 1 \in (p + 1)..Len(c2r) /\ c2r'[k] = c2r[k + 1]
    BY <1>3, <1>6
  <2>2. i - 1 - (Len(c2r) - (k + 1)) = i - 1 - (Len(c2r') - k)
    BY <1>3, <2>1, Sizes
  <2> QED BY <1>5, <2>1, <2>2
<1>7. CASE Approached(id, p, left)
  <2> USE <1>7 DEF Approached
  <2>1. p - 1 \in 0..Len(c2r') /\ left - (Len(c2r') - (p - 1)) - (Chunks + 1 - i) = m
    BY <1>3, <1>5, <1>7, Sizes
  <2>2. m \in 0..n_loss'
    BY <1>4, <1>5, <1>7
  <2>3. p - 1 = 0 => matrix' = [k \in 1..(Chunks - left) |-> <<id, k>>]
    <3> SUFFICES ASSUME p = 1 PROVE <<>> = [k \in 1..(Chunks - left) |-> <<id, k>>]
      BY <1>7
    <3>1. 1..(Chunks - left) = {}
      BY <1>7, Sizes
    <3> QED BY <3>1
  <2>4. InOrder(id, i, p - 1, left)'
    BY <1>6, <2>1, <2>2, <2>3 DEF InOrder, LostChunks, Missing
  <2> QED BY <1>2, <1>7, <2>1, <2>4 DEF Sending
<1>8. CASE Taken(id, p, left)
  <2> USE <1>8 DEF Taken
  <2>1. 0 \in 0..Len(c2r') /\ left - 1 \in 1..Chunks
        /\ (left - 1) - (Len(c2r') - 0) - (Chunks + 1 - i) = m
    BY <1>3, <1>5, Sizes
  <2>2. ASSUME m = 0 PROVE matrix' = [k \in 1..(Chunks - (left - 1)) |-> <<id, k>>]
    <3>1. c2r[1].of = id /\ c2r[1].idx = Chunks - left + 1
      <4>1. 1 \in (p + 1)..Len(c2r)
        BY <1>3, <1>8
      <4>2. c2r[1].of = id /\ c2r[1].idx = i - 1 - (Len(c2r) - 1)
        BY <1>5, <4>1
      <4>3. 0 = left - Len(c2r) - (Chunks + 1 - i)
        BY <1>3, <1>5, <2>2, Sizes
      <4>4. i - 1 - (Len(c2r) - 1) = Chunks - left + 1
        BY <1>3, <4>3, Sizes
      <4> QED BY <4>2, <4>4
    <3>2. matrix = [k \in 1..(Chunks - left) |-> <<id, k>>]
      BY <1>5, <2>2
    <3>3. Chunks - left \in Nat /\ (Chunks - left) + 1 = Chunks - (left - 1)
      BY <1>5, Sizes
    <3> QED BY <3>1, <3>2, <3>3, RowGrows
  <2>3. InOrder(id, i, 0, left - 1)'
    BY <1>5, <1>6, <2>1, <2>2 DEF InOrder, LostChunks, Missing
  <2> QED BY <1>2, <2>1, <2>3 DEF Sending
<1>9. CASE Completed(id, p, left)
  <2> USE <1>9 DEF Completed
  <2>1. i = Chunks + 1 /\ m = 0 /\ Len(c2r) = 1
    BY <1>3, <1>5, Sizes
  <2>2. c2r[1].of = id /\ c2r[1].idx = Chunks
    BY <1>3, <1>5, <2>1, Sizes
  <2>3. matrix = [k \in 1..(Chunks - 1) |-> <<id, k>>]
    BY <1>5, <2>1
  <2>4. Append(matrix, <<id, Chunks>>) = [k \in 1..Chunks |-> <<id, k>>]
    BY <2>3, Sizes, RowGrows
  <2>5. c2r' = <<>>
    BY <1>2, <1>3, <2>1, TailAt, EmptySeq
  <2>6. id \in executed'
    BY <2>2, <2>3, <2>4
  <2> QED BY <1>2, <2>1, <2>5, <2>6 DEF Answered
<1>10. CASE Missed(id, p, left)
  <2> USE <1>10 DEF Missed
  <2>1. 0 \in 0..Len(c2r') /\ left - (Len(c2r') - 0) - (Chunks + 1 - i) = m + 1
    BY <1>3, <1>5, Sizes
  <2>2. m + 1 \in 0..n_loss' /\ m + 1 # 0
    BY <1>4, <1>5, <1>10
  <2>3. InOrder(id, i, 0, left)'
    BY <1>6, <2>1, <2>2 DEF InOrder, LostChunks, Missing
  <2> QED BY <1>2, <2>1, <2>3 DEF Sending
<1> QED
  BY <1>1, <1>7, <1>8, <1>9, <1>10, OpenStep

\* Bounded faults leave a whole number of them.
LEMMA FaultsAreWhole ==
  ASSUME FaultsBounded, FaultsBounded'
  PROVE  FaultsLeft \in Int /\ FaultsLeft' \in Int
<1>1. MaxLoss \in Nat /\ MaxFail \in Nat
  BY SessionAssumption
<1>2. n_loss \in Nat /\ n_fail \in Nat /\ n_loss' \in Nat /\ n_fail' \in Nat
  BY <1>1 DEF FaultsBounded
<1> QED BY ONLY <1>1, <1>2 DEF FaultsLeft

\* A loss is one of the faults that were left.
LEMMA LessFaults ==
  ASSUME n_loss \in Nat, n_fail \in Nat, MaxLoss \in Nat, MaxFail \in Nat,
         n_loss' = n_loss \/ n_loss' = n_loss + 1, n_fail' = n_fail
  PROVE  /\ FaultsLeft' <= FaultsLeft /\ FaultsLeft \in Int /\ FaultsLeft' \in Int
         /\ n_loss' = n_loss + 1 => FaultsLeft' = FaultsLeft - 1
<1>1. CASE n_loss' = n_loss
  BY <1>1 DEF FaultsLeft
<1>2. CASE n_loss' = n_loss + 1
  BY <1>2 DEF FaultsLeft
<1> QED
  BY <1>1, <1>2

\* The recovery keeps fillers enough to close the upload, and room enough to
\* discard every response.
LEMMA RecoveringStep ==
  ASSUME TypeOK, FaultsBounded, FaultsBounded', "upload" \notin Lossy, NEW id,
         NEW need \in Int, NEW room \in Int, Recovering(id, need, room), PathStep
  PROVE  Recovering(id, need, room)' /\ executed \subseteq executed'
<1>1. /\ Len(c2r) \in Nat /\ Len(crd) \in Nat /\ Len(inbox) \in Nat
      /\ n_loss \in Nat /\ n_fail \in Nat /\ MaxLoss \in Nat /\ MaxFail \in Nat
  BY SessionAssumption, LenProperties DEF TypeOK
<1>2. ASSUME NEW p \in 0..Len(c2r), NEW left \in 1..Chunks, Open(id, p, left),
             Closing(id, p, left, need, room)
      PROVE  Recovering(id, need, room)' /\ executed \subseteq executed'
  <2>1. /\ c2r # <<>> /\ c2r' = Tail(c2r) /\ executed \subseteq executed' /\ n_fail' = n_fail
        /\ \/ Approached(id, p, left) \/ Taken(id, p, left)
           \/ Completed(id, p, left) \/ Missed(id, p, left)
    BY <1>2, OpenStep
  <2>2. /\ Len(c2r) >= 1 /\ Len(c2r') = Len(c2r) - 1
        /\ \A k \in 1..(Len(c2r) - 1) : c2r'[k] = c2r[k + 1]
    BY <2>1, TailAt DEF TypeOK
  <2>3. /\ (left - (Len(c2r) - p)) + FaultsLeft <= need
        /\ 1 - (left - (Len(c2r) - p)) <= room
        /\ \A k \in (p + 1)..Len(c2r) : c2r[k].kind = "chunk" => k - p <= left
        /\ \A k \in (p + 1)..Len(c2r) : c2r[k].kind \in {"chunk", "filler"}
    BY <1>2 DEF Closing, Missing, Open
  <2>4. ASSUME NEW q \in 0..Len(c2r'), NEW rest \in 1..Chunks, Open(id, q, rest)',
               (rest - (Len(c2r') - q)) + FaultsLeft' <= (left - (Len(c2r) - p)) + FaultsLeft,
               rest - (Len(c2r') - q) >= left - (Len(c2r) - p),
               \/ q = p - 1 /\ rest = left
               \/ q = 0 /\ p = 0 /\ rest >= left - 1
        PROVE  Recovering(id, need, room)'
    <3>1. FaultsLeft \in Int /\ FaultsLeft' \in Int
      BY FaultsAreWhole
    <3>2. /\ (rest - (Len(c2r') - q)) + FaultsLeft' <= need
          /\ 1 - (rest - (Len(c2r') - q)) <= room
      <4>1. PICK a \in Int : a = rest - (Len(c2r') - q)
        <5>1. rest \in Int /\ q \in Int /\ Len(c2r') \in Int
          BY <1>1, <2>2, Sizes
        <5> QED BY <5>1
      <4>2. PICK b \in Int : b = left - (Len(c2r) - p)
        BY <1>1, Sizes
      <4>3. PICK f \in Int, g \in Int : f = FaultsLeft /\ g = FaultsLeft'
        BY <3>1
      <4>4. a + g <= b + f /\ a >= b /\ b + f <= need /\ 1 - b <= room
        BY <2>3, <2>4, <4>1, <4>2, <4>3
      <4>5. a + g <= need /\ 1 - a <= room
        BY <4>4
      <4> QED BY <4>1, <4>3, <4>5
    <3>3. ASSUME NEW k \in (q + 1)..Len(c2r'), c2r'[k].kind = "chunk" PROVE k - q <= rest
      <4>1. k + 1 \in (p + 1)..Len(c2r) /\ c2r'[k] = c2r[k + 1]
        <5>1. k \in Int /\ k >= q + 1 /\ k <= Len(c2r) - 1 /\ p \in Int
          BY <1>1, <2>2, <2>4
        <5>2. k \in 1..(Len(c2r) - 1) /\ k + 1 \in (p + 1)..Len(c2r)
          BY <1>1, <2>4, <5>1
        <5> QED BY <2>2, <5>2
      <4>2. (k + 1) - p <= left
        BY <2>3, <3>3, <4>1
      <4> QED BY <2>4, <4>2, Sizes
    <3>4. Closing(id, q, rest, need, room)'
      BY <3>2, <3>3 DEF Closing, Missing
    <3> QED BY <2>4, <3>4 DEF Recovering
  <2>5. ASSUME Approached(id, p, left) PROVE Recovering(id, need, room)'
    <3>1. /\ p - 1 \in 0..Len(c2r') /\ Open(id, p - 1, left)'
          /\ left - (Len(c2r') - (p - 1)) = left - (Len(c2r) - p)
      BY <2>2, <2>5, Sizes DEF Approached
    <3>2. FaultsLeft' <= FaultsLeft /\ FaultsLeft \in Int /\ FaultsLeft' \in Int
      <4>1. (n_loss' = n_loss \/ n_loss' = n_loss + 1) /\ n_fail' = n_fail
        BY <2>1, <2>5 DEF Approached
      <4> QED BY <1>1, <4>1, LessFaults
    <3>3. left - (Len(c2r) - p) \in Int
      BY <1>1, Sizes
    <3>4. (left - (Len(c2r') - (p - 1))) + FaultsLeft' <= (left - (Len(c2r) - p)) + FaultsLeft
      BY <3>1, <3>2, <3>3
    <3> QED BY <2>4, <3>1, <3>3, <3>4
  <2>6. ASSUME Taken(id, p, left) PROVE Recovering(id, need, room)'
    <3>1. /\ 0 \in 0..Len(c2r') /\ Open(id, 0, left - 1)' /\ left - 1 \in 1..Chunks /\ p = 0
          /\ (left - 1) - (Len(c2r') - 0) = left - (Len(c2r) - p)
      BY <2>2, <2>6, Sizes DEF Taken
    <3>2. FaultsLeft' = FaultsLeft /\ FaultsLeft \in Int
      BY <1>1, <2>1, <2>6 DEF FaultsLeft, Taken
    <3>3. left - (Len(c2r) - p) \in Int
      BY <1>1, Sizes
    <3> QED BY <2>4, <3>1, <3>2, <3>3
  <2>7. ASSUME Missed(id, p, left) PROVE Recovering(id, need, room)'
    <3>1. /\ 0 \in 0..Len(c2r') /\ Open(id, 0, left)' /\ p = 0
          /\ left - (Len(c2r') - 0) = (left - (Len(c2r) - p)) + 1
      BY <2>2, <2>7, Sizes DEF Missed
    <3>2. FaultsLeft' = FaultsLeft - 1 /\ FaultsLeft \in Int
      <4>1. n_loss' = n_loss + 1 /\ n_fail' = n_fail
        BY <2>1, <2>7 DEF Missed
      <4> QED BY <1>1, <4>1 DEF FaultsLeft
    <3>3. left - (Len(c2r) - p) \in Int
      BY <1>1, Sizes
    <3>4. /\ (left - (Len(c2r') - 0)) + FaultsLeft' <= (left - (Len(c2r) - p)) + FaultsLeft
          /\ left - (Len(c2r') - 0) >= left - (Len(c2r) - p) /\ left >= left - 1
      BY <3>1, <3>2, <3>3
    <3> QED BY <2>4, <3>1, <3>4
  <2>8. ASSUME Completed(id, p, left) PROVE Recovering(id, need, room)'
    <3>1. \A k \in 1..Len(c2r') : c2r'[k].kind = "filler"
      <4> TAKE k \in 1..Len(c2r')
      <4>1. /\ p = 0 /\ left = 1 /\ k + 1 \in (p + 1)..Len(c2r) /\ c2r'[k] = c2r[k + 1]
            /\ ~(k + 1 - p <= left)
        BY <2>2, <2>8 DEF Completed
      <4> QED BY <2>3, <4>1
    <3>2. Len(c2r') + Len(crd') + Len(inbox') <= room
      <4>1. Len(crd') = 1 /\ Len(inbox') = 0 /\ p = 0 /\ left = 1
        BY <2>8 DEF Completed
      <4> QED BY <1>1, <2>2, <2>3, <4>1
    <3> QED BY <2>8, <3>1, <3>2 DEF Completed, Closed, Recovering
  <2> QED BY <2>1, <2>5, <2>6, <2>7, <2>8
<1>3. ASSUME Closed(room) PROVE Closed(room)' /\ executed \subseteq executed'
  <2>1. ASSUME c2r # <<>>, c2r' = Tail(c2r)
        PROVE  /\ Len(c2r') = Len(c2r) - 1 /\ Head(c2r).kind = "filler"
               /\ \A k \in 1..Len(c2r') : c2r'[k].kind = "filler"
    BY <1>3, <2>1, TailAt DEF TypeOK, Closed
  <2>2. ASSUME crd # <<>> PROVE Len(Tail(crd)) = Len(crd) - 1
    BY <2>2, TailAt DEF TypeOK
  <2>3. CASE CmdIn
    <3>1. /\ c2r # <<>> /\ c2r' = Tail(c2r) /\ HandleCmd(Head(c2r)) /\ UNCHANGED inbox
      BY <1>3, <2>3 DEF CmdIn, ConsumePxConfig, Closed
    <3>2. Executes(Head(c2r)) /\ QueueResponse(Head(c2r).id)
      BY <2>1, <3>1 DEF HandleCmd
    <3>3. Len(crd') <= Len(crd) + 1 /\ Len(crd') \in Nat
      BY <1>1, <3>2, AppendProperties DEF QueueResponse, TypeOK
    <3>4. Len(c2r') + Len(crd') + Len(inbox') <= room
      BY <1>1, <1>3, <2>1, <3>1, <3>3 DEF Closed
    <3> QED BY <1>3, <2>1, <3>1, <3>2, <3>4 DEF Executes, Closed
  <2>4. CASE CrdOut
    <3>1. Len(inbox') = Len(inbox) + 1 /\ Len(crd') = Len(crd) - 1
      BY <2>2, <2>4, AppendProperties DEF CrdOut, TypeOK
    <3> QED BY <1>1, <1>3, <2>4, <3>1 DEF CrdOut, Closed
  <2>5. CASE CommandLost
    BY <1>1, <1>3, <2>1, <2>5 DEF CommandLost, Loss, Closed
  <2>6. CASE ResponseLost
    BY <1>1, <1>3, <2>2, <2>6 DEF ResponseLost, Loss, Closed
  <2> QED BY <2>3, <2>4, <2>5, <2>6 DEF PathStep
<1> QED
  BY <1>2, <1>3 DEF Recovering

\* A step of the readout or of the path keeps the invariant.
LEMMA OtherPipeStep ==
  ASSUME ControlInv, PairingInv, FaultsCovered, PathStep
  PROVE  PairingInv'
<1>1. /\ UNCHANGED <<th, lock, pairs, n_late>> /\ FaultsBounded'
      /\ TypeOK /\ FaultsBounded /\ "upload" \notin Lossy
  <2>1. UNCHANGED <<th, lock, pairs, n_late, n_fail>>
    BY DEF PathStep, CmdIn, CrdOut, CommandLost, ResponseLost, Loss, client, bounds
  <2>2. n_loss' = n_loss \/ (n_loss < MaxLoss /\ n_loss' = n_loss + 1)
    BY DEF PathStep, CmdIn, CrdOut, CommandLost, ResponseLost, Loss, bounds
  <2> QED BY <2>1, <2>2, SessionAssumption
          DEF PairingInv, FaultsBounded, ControlInv, FaultsCovered
<1> SUFFICES ASSUME n_late = 0 PROVE PipeInv'
  BY <1>1 DEF PairingInv
<1>2. PipeInv
  BY DEF PairingInv
<1>3. executed \subseteq executed'
  <2>1. CASE lock = NoThread
    BY <1>1, <1>2, <2>1, QuietStays DEF PipeInv
  <2>2. ASSUME NEW t \in Threads, lock = t PROVE executed \subseteq executed'
    BY DEF PathStep, CmdIn, ConsumePxConfig, HandleCmd, Executes, UploadBegins, CrdOut,
           CommandLost, ResponseLost, Loss
  <2> QED BY <1>1, <2>1, <2>2 DEF TypeOK
<1>4. lock' = NoThread => Quiet'
  BY <1>1, <1>2, QuietStays DEF PipeInv
<1>5. ASSUME NEW t \in Threads, NEW x \in Thread, x = th'[t]
      PROVE  Recorded(x)' /\ (lock' = t => Pipe(x)')
  <2>1. x = th[t] /\ Recorded(x) /\ (lock = t => Pipe(x))
    BY <1>1, <1>2, <1>5 DEF PipeInv
  <2>2. Recorded(x)'
    BY <1>3, <2>1 DEF Recorded
  <2>3. ASSUME lock = t PROVE Pipe(x)'
    <3>1. Pipe(x)
      BY <2>1, <2>3
    <3>2. x.pc \in {"send", "attempt"} => Quiet'
      BY <1>1, <3>1, QuietStays DEF Pipe
    <3>3. x.pc = "wait" => Quiet' \/ Asked(x.id)' \/ Answered(x.id)'
      BY <1>1, <3>1, QuietStays, AskedStep, AnsweredStep DEF Pipe
    <3>4. x.pc = "chunks" => Sending(x.id, x.i)'
      <4>1. x.pc = "chunks" => x.i \in 1..Chunks
        BY <2>1 DEF ControlInv, PhaseBounds, At
      <4>2. x.pc = "chunks" => x.i \in 1..(Chunks + 1) /\ x.i # Chunks + 1
        BY <4>1, Sizes
      <4> QED BY <1>1, <3>1, <4>2, SendingStep DEF Pipe
    <3>5. x.pc = "ack" => \/ Sending(x.id, Chunks + 1)' \/ Answered(x.id)'
                          \/ Quiet' /\ c2r' = <<>>
      <4>1. Chunks + 1 \in 1..(Chunks + 1)
        BY Sizes
      <4> QED BY <1>1, <3>1, <4>1, SendingStep, AnsweredStep, QuietStays DEF Pipe
    <3>6. x.pc = "flood" => Recovering(x.id, Fillers + 1 - x.i, x.i)'
      <4>1. x.i \in Int /\ Fillers + 1 - x.i \in Int
        BY <1>5, Sizes DEF Thread
      <4> QED BY <1>1, <3>1, <4>1, RecoveringStep DEF Pipe
    <3>7. x.pc = "drain" => Recovering(x.id, 0, x.i - 1)'
      <4>1. 0 \in Int /\ x.i - 1 \in Int
        BY <1>5, Sizes DEF Thread
      <4> QED BY <1>1, <3>1, <4>1, RecoveringStep DEF Pipe
    <3> QED BY <3>2, <3>3, <3>4, <3>5, <3>6, <3>7 DEF Pipe
  <2> QED BY <1>1, <2>2, <2>3
<1>6. \A p \in pairs' : p[1] = p[2]
  BY <1>1, <1>2 DEF PipeInv
<1> QED
  BY <1>4, <1>5, <1>6 DEF PipeInv

---------------------------------------------------------------------------
(* What a thread sends and receives.                                       *)

\* A datagram behind those that are on their way.
LEMMA SentAt ==
  ASSUME TypeOK, NEW kind \in Kinds, NEW of \in Nat, NEW idx \in Nat, Send(kind, of, idx)
  PROVE  /\ Len(c2r) \in Nat /\ Len(c2r') = Len(c2r) + 1
         /\ \A k \in 1..Len(c2r) : c2r'[k] = c2r[k]
         /\ c2r'[Len(c2r')] = [kind |-> kind, id |-> n_sent + 1, of |-> of, idx |-> idx]
<1>1. [kind |-> kind, id |-> n_sent + 1, of |-> of, idx |-> idx] \in Datagram
  BY DEF Datagram, TypeOK
<1> QED
  BY <1>1, AppendProperties, LenProperties DEF Send, TypeOK

\* The first datagram behind a quiet path.
LEMMA FirstSent ==
  ASSUME TypeOK, Quiet, NEW kind \in Kinds, Send(kind, 0, 0), NEW id, id = n_sent + 1
  PROVE  /\ kind = "mute" => Quiet'
         /\ kind = "cmd" => Asked(id)'
         /\ kind = "upload" => Sending(id, 1)'
<1>0. PICK m \in Nat : m = Len(c2r')
  BY SentAt
<1>1. /\ m \in Nat /\ m = Len(c2r) + 1
      /\ \A k \in 1..(m - 1) : c2r'[k].kind = "mute"
      /\ c2r'[m].kind = kind /\ c2r'[m].id = id
  <2>1. 0 \in Nat /\ Len(c2r) \in Nat
    BY LenProperties DEF TypeOK
  <2>2. /\ Len(c2r') = Len(c2r) + 1 /\ \A k \in 1..Len(c2r) : c2r'[k] = c2r[k]
        /\ c2r'[Len(c2r')] = [kind |-> kind, id |-> n_sent + 1, of |-> 0, idx |-> 0]
    BY <2>1, SentAt
  <2> QED BY <1>0, <2>1, <2>2 DEF Quiet
<1>2. UNCHANGED <<crd, inbox, px_upload_active>>
  BY DEF Send, readout
<1>3. ASSUME kind = "mute" PROVE Quiet'
  <2>1. \A k \in 1..m : c2r'[k].kind = "mute"
    BY <1>1, <1>3
  <2> QED BY <1>2, <2>1, <1>0 DEF Quiet, Silent
<1>4. ASSUME kind = "cmd" PROVE Asked(id)'
  <2>1. c2r' # <<>>
    BY <1>1, <1>0
  <2> QED BY <1>1, <1>2, <1>4, <2>1, <1>0 DEF Quiet, Silent, Asked
<1>5. ASSUME kind = "upload" PROVE Sending(id, 1)'
  <2>1. m \in 0..m /\ m > 0 /\ Chunks \in 1..Chunks /\ \A k \in (m + 1)..m : FALSE
    BY <1>1, Sizes
  <2>2. Open(id, m, Chunks)'
    BY <1>1, <1>2, <1>5, <2>1, <1>0 DEF Quiet, Silent, Open
  <2>3. (Chunks - (m - m)) - (Chunks + 1 - 1) = 0 /\ 0 \in 0..n_loss'
    BY <1>1, Sizes DEF TypeOK, Send, bounds
  <2>4. InOrder(id, 1, m, Chunks)'
    BY <2>1, <2>3, <1>0 DEF InOrder, LostChunks, Missing
  <2> QED BY <2>1, <2>2, <2>4, <1>0 DEF Sending
<1> QED
  BY <1>3, <1>4, <1>5

\* One more chunk.
LEMMA NextChunkSent ==
  ASSUME TypeOK, NEW id \in Nat, NEW i \in 1..Chunks, Sending(id, i), Send("chunk", id, i)
  PROVE  Sending(id, i + 1)'
<1>1. PICK p \in 0..Len(c2r), left \in 1..Chunks : Open(id, p, left) /\ InOrder(id, i, p, left)
  BY DEF Sending
<1> DEFINE m == Len(c2r')
<1>2. /\ Len(c2r) \in Nat /\ m = Len(c2r) + 1
      /\ \A k \in 1..Len(c2r) : c2r'[k] = c2r[k]
      /\ c2r'[m] = [kind |-> "chunk", id |-> n_sent + 1, of |-> id, idx |-> i]
  BY SentAt, Sizes DEF Kinds
<1>3. UNCHANGED <<crd, inbox, px_upload_active, upload_id, px_upload_words, matrix, n_loss>>
  BY DEF Send, readout, bounds
<1> HIDE DEF m
<1>4. /\ p \in 0..m /\ (left - (m - p)) - (Chunks + 1 - (i + 1)) = LostChunks(i, p, left)
  BY <1>2, Sizes DEF LostChunks, Missing
<1>5. ASSUME NEW k \in (p + 1)..m
      PROVE  c2r'[k].kind = "chunk" /\ c2r'[k].of = id /\ c2r'[k].idx = (i + 1) - 1 - (m - k)
  <2>1. CASE k = m
    BY <1>2, <2>1, Sizes
  <2>2. CASE k # m
    <3>1. k \in (p + 1)..Len(c2r) /\ c2r'[k] = c2r[k]
      BY <1>2, <2>2
    <3>2. c2r[k].kind = "chunk" /\ c2r[k].of = id /\ c2r[k].idx = i - 1 - (Len(c2r) - k)
      BY <1>1, <3>1 DEF InOrder
    <3>3. (i + 1) - 1 - (m - k) = i - 1 - (Len(c2r) - k)
      BY <1>2, <3>1, Sizes
    <3> QED BY <3>1, <3>2, <3>3
  <2> QED BY <2>1, <2>2
<1>6. Open(id, p, left)'
  <2>1. p > 0 => c2r'[p] = c2r[p] /\ \A k \in 1..(p - 1) : c2r'[k] = c2r[k]
    BY <1>2
  <2> QED BY <1>1, <1>3, <1>5, <2>1 DEF Open, Silent, m
<1>7. InOrder(id, i + 1, p, left)'
  BY <1>1, <1>3, <1>4, <1>5 DEF InOrder, LostChunks, Missing, m
<1> QED
  BY <1>4, <1>6, <1>7 DEF Sending, m

\* A chunk cannot be sent: fillers enough remain, as this is one of the faults.
LEMMA FloodStarts ==
  ASSUME TypeOK, FaultsBounded, FaultsCovered, NEW id, NEW i \in 1..Chunks,
         Sending(id, i), SendFails
  PROVE  Recovering(id, Fillers, 1)'
<1>1. PICK p \in 0..Len(c2r), left \in 1..Chunks : Open(id, p, left) /\ InOrder(id, i, p, left)
  BY DEF Sending
<1>2. /\ UNCHANGED <<crd, inbox, px_upload_active, upload_id, px_upload_words, c2r, n_loss>>
      /\ n_fail' = n_fail + 1
  BY DEF SendFails, readout
<1>3. Open(id, p, left)'
  BY <1>1, <1>2 DEF Open, Silent
<1> DEFINE lost == LostChunks(i, p, left)
<1>4. /\ Len(c2r) \in Nat /\ n_loss \in Nat /\ n_fail \in Nat
      /\ MaxLoss \in Nat /\ MaxFail \in Nat /\ MaxLoss + MaxFail <= Fillers - Chunks + 1
  BY SessionAssumption, LenProperties DEF TypeOK, FaultsCovered
<1>5. lost \in 0..n_loss /\ left - (Len(c2r) - p) = lost + (Chunks + 1 - i)
  <2>1. lost \in 0..n_loss /\ lost = (left - (Len(c2r) - p)) - (Chunks + 1 - i)
    BY <1>1 DEF InOrder, LostChunks, Missing
  <2> QED BY <1>4, <2>1, Sizes
<1> HIDE DEF lost
<1>6. FaultsLeft' = (MaxLoss - n_loss) + (MaxFail - (n_fail + 1))
  BY <1>2 DEF FaultsLeft
<1>7. /\ lost + (Chunks + 1 - i) + ((MaxLoss - n_loss) + (MaxFail - (n_fail + 1))) <= Fillers
      /\ 1 - (lost + (Chunks + 1 - i)) <= 1
  BY <1>4, <1>5, Sizes
<1>8. \A k \in (p + 1)..Len(c2r) : k - p <= left
  BY <1>4, <1>5, Sizes
<1>9. Closing(id, p, left, Fillers, 1)'
  BY <1>2, <1>5, <1>6, <1>7, <1>8 DEF Closing, Missing
<1> QED
  BY <1>2, <1>3, <1>9 DEF Recovering

\* Nothing more comes of an upload: a chunk or the response has been lost.
LEMMA SilenceAfterUpload ==
  ASSUME TypeOK, FaultsBounded, FaultsCovered, NEW id, c2r = <<>>, inbox = <<>>, crd = <<>>,
         Sending(id, Chunks + 1) \/ Answered(id) \/ Quiet
  PROVE  Recovering(id, Fillers, 1)
<1>1. Len(c2r) = 0 /\ Len(crd) = 0 /\ Len(inbox) = 0 /\ \A k \in 1..Len(c2r) : FALSE
  OBVIOUS
<1>2. CASE ~px_upload_active
  BY <1>1, <1>2 DEF Recovering, Closed
<1>3. CASE px_upload_active
  <2>1. PICK p \in 0..Len(c2r), left \in 1..Chunks :
          Open(id, p, left) /\ InOrder(id, Chunks + 1, p, left)
    BY <1>3 DEF Sending, Answered, Quiet
  <2>2. p = 0 /\ left - (Len(c2r) - p) = left
    BY <1>1, <2>1, Sizes
  <2>3. left \in 0..n_loss
    <3>1. (left - (Len(c2r) - p)) - (Chunks + 1 - (Chunks + 1)) \in 0..n_loss
      BY <2>1 DEF InOrder, LostChunks, Missing
    <3> QED BY <2>2, <3>1, Sizes
  <2>4. /\ n_loss \in Nat /\ n_fail \in Nat /\ MaxLoss \in Nat /\ MaxFail \in Nat
        /\ MaxLoss + MaxFail <= Fillers - Chunks + 1
    BY SessionAssumption DEF TypeOK, FaultsCovered
  <2>5. left + ((MaxLoss - n_loss) + (MaxFail - n_fail)) <= Fillers /\ 1 - left <= 1
    BY <2>3, <2>4, Sizes
  <2>6. Closing(id, p, left, Fillers, 1)
    BY <1>1, <2>2, <2>5 DEF Closing, Missing, FaultsLeft
  <2> QED BY <2>1, <2>6 DEF Recovering
<1> QED
  BY <1>2, <1>3

\* One filler fewer is needed, and one response more may come.
LEMMA OneFiller ==
  ASSUME TypeOK, FaultsBounded, NEW id, NEW need \in Int, NEW room \in Int,
         Recovering(id, need, room), NEW i \in Nat, Send("filler", 0, i) \/ SendFails
  PROVE  Recovering(id, need - 1, room + 1)'
<1>1. /\ Len(c2r) \in Nat /\ Len(crd) \in Nat /\ Len(inbox) \in Nat
      /\ n_loss \in Nat /\ n_fail \in Nat /\ MaxLoss \in Nat /\ MaxFail \in Nat
  BY SessionAssumption, LenProperties DEF TypeOK
<1>2. UNCHANGED <<crd, inbox, px_upload_active, upload_id, px_upload_words, n_loss>>
  BY DEF Send, SendFails, readout, bounds
<1>3. FaultsLeft \in Int
  BY <1>1, LessFaults DEF FaultsLeft
<1>4. CASE Send("filler", 0, i)
  <2> DEFINE m == Len(c2r')
  <2>1. /\ m = Len(c2r) + 1 /\ \A k \in 1..Len(c2r) : c2r'[k] = c2r[k]
        /\ c2r'[m].kind = "filler" /\ n_fail' = n_fail
    BY <1>4, SentAt DEF Kinds, Send, bounds
  <2>2. FaultsLeft' = FaultsLeft
    BY <1>2, <2>1 DEF FaultsLeft
  <2> HIDE DEF m
  <2>3. ASSUME NEW p \in 0..Len(c2r), NEW left \in 1..Chunks, Open(id, p, left),
               Closing(id, p, left, need, room)
        PROVE  Recovering(id, need - 1, room + 1)'
    <3>1. p \in 0..m /\ left - (m - p) = (left - (Len(c2r) - p)) - 1
      BY <1>1, <2>1, Sizes
    <3>2. /\ (left - (Len(c2r) - p)) + FaultsLeft <= need
          /\ 1 - (left - (Len(c2r) - p)) <= room /\ left - (Len(c2r) - p) \in Int
      BY <1>1, <2>3, Sizes DEF Closing, Missing
    <3>3. (left - (m - p)) + FaultsLeft' <= need - 1 /\ 1 - (left - (m - p)) <= room + 1
      BY <1>3, <2>2, <3>1, <3>2
    <3>4. ASSUME NEW k \in (p + 1)..m
          PROVE  c2r'[k].kind \in {"chunk", "filler"} /\ (c2r'[k].kind = "chunk" => k - p <= left)
      <4>1. CASE k = m
        BY <2>1, <4>1
      <4>2. CASE k # m
        <5>1. k \in (p + 1)..Len(c2r) /\ c2r'[k] = c2r[k]
          BY <1>1, <2>1, <4>2
        <5> QED BY <2>3, <5>1 DEF Open, Closing
      <4> QED BY <4>1, <4>2
    <3>5. p > 0 => c2r'[p] = c2r[p] /\ \A k \in 1..(p - 1) : c2r'[k] = c2r[k]
      BY <1>1, <2>1
    <3>6. Open(id, p, left)'
      BY <1>2, <2>3, <3>4, <3>5 DEF Open, Silent, m
    <3>7. Closing(id, p, left, need - 1, room + 1)'
      BY <3>3, <3>4 DEF Closing, Missing, m
    <3> QED BY <3>1, <3>6, <3>7 DEF Recovering, m
  <2>4. ASSUME Closed(room) PROVE Closed(room + 1)'
    <3>1. \A k \in 1..m : c2r'[k].kind = "filler"
      <4> TAKE k \in 1..m
      <4>1. k = m \/ k \in 1..Len(c2r)
        BY <1>1, <2>1
      <4> QED BY <2>1, <2>4, <4>1 DEF Closed
    <3>2. m + Len(crd) + Len(inbox) <= room + 1
      BY <1>1, <2>1, <2>4 DEF Closed
    <3> QED BY <1>2, <2>4, <3>1, <3>2 DEF Closed, m
  <2> QED BY <2>3, <2>4 DEF Recovering
<1>5. CASE SendFails
  <2>1. c2r' = c2r /\ n_fail' = n_fail + 1
    BY <1>5 DEF SendFails
  <2>2. FaultsLeft' = FaultsLeft - 1
    BY <1>1, <1>2, <2>1 DEF FaultsLeft
  <2>3. ASSUME NEW p \in 0..Len(c2r), NEW left \in 1..Chunks, Open(id, p, left),
               Closing(id, p, left, need, room)
        PROVE  Recovering(id, need - 1, room + 1)'
    <3>1. Open(id, p, left)'
      BY <1>2, <2>1, <2>3 DEF Open, Silent
    <3>2. /\ (left - (Len(c2r) - p)) + FaultsLeft <= need
          /\ 1 - (left - (Len(c2r) - p)) <= room /\ left - (Len(c2r) - p) \in Int
      BY <1>1, <2>3, Sizes DEF Closing, Missing
    <3>3. (left - (Len(c2r) - p)) + (FaultsLeft - 1) <= need - 1
          /\ 1 - (left - (Len(c2r) - p)) <= room + 1
      BY <1>3, <3>2
    <3>4. Closing(id, p, left, need - 1, room + 1)'
      BY <2>1, <2>2, <2>3, <3>3 DEF Closing, Missing
    <3> QED BY <2>1, <3>1, <3>4 DEF Recovering
  <2>4. ASSUME Closed(room) PROVE Closed(room + 1)'
    BY <1>1, <1>2, <2>1, <2>4 DEF Closed
  <2> QED BY <2>3, <2>4 DEF Recovering
<1> QED
  BY <1>4, <1>5

\* All fillers are sent: the upload closes, and the drain has room enough.
LEMMA FloodDone ==
  ASSUME TypeOK', NEW id, Recovering(id, 0, Fillers + 1)'
  PROVE  Recovering(id, 0, MaxDrain - 1)'
<1>1. Fillers + 1 <= MaxDrain - 1 /\ Fillers \in Nat /\ MaxDrain \in Nat
  BY SessionAssumption
<1>2. Len(c2r') \in Nat /\ Len(crd') \in Nat /\ Len(inbox') \in Nat
  BY LenProperties DEF TypeOK
<1>3. ASSUME Closed(Fillers + 1)' PROVE Closed(MaxDrain - 1)'
  BY <1>1, <1>2, <1>3 DEF Closed
<1>4. ASSUME NEW p \in 0..Len(c2r'), NEW left \in 1..Chunks, Closing(id, p, left, 0, Fillers + 1)'
      PROVE  Closing(id, p, left, 0, MaxDrain - 1)'
  <2>1. left - (Len(c2r') - p) \in Int
    BY <1>2, Sizes
  <2> QED BY <1>1, <1>4, <2>1 DEF Closing, Missing
<1> QED
  BY <1>3, <1>4 DEF Recovering

\* A discarded response makes room.
LEMMA OneDiscarded ==
  ASSUME TypeOK, NEW id, NEW room \in Int, Recovering(id, 0, room), TakeResponse
  PROVE  Recovering(id, 0, room - 1)'
<1>1. Closed(room)
  BY DEF Recovering, Open, Silent, TakeResponse
<1>2. UNCHANGED <<crd, px_upload_active, c2r>> /\ inbox' = Tail(inbox) /\ inbox # <<>>
  BY DEF TakeResponse, readout
<1>3. Len(c2r) \in Nat /\ Len(crd) \in Nat /\ Len(inbox) \in Nat /\ Len(inbox') = Len(inbox) - 1
  BY <1>2, LenProperties, TailAt DEF TypeOK
<1> QED
  BY <1>1, <1>2, <1>3 DEF Closed, Recovering

\* The recovery ends with nothing on the paths and the upload closed, and it
\* does not end for want of room.
LEMMA RecoveryOver ==
  ASSUME TypeOK, FaultsBounded, NEW id, NEW room \in Int, Recovering(id, 0, room)
  PROVE  /\ room >= 0
         /\ c2r = <<>> /\ crd = <<>> /\ inbox = <<>> => Quiet
<1>1. /\ Len(c2r) \in Nat /\ Len(crd) \in Nat /\ Len(inbox) \in Nat
      /\ FaultsLeft \in Int /\ FaultsLeft >= 0
  BY SessionAssumption, LenProperties DEF TypeOK, FaultsLeft, FaultsBounded
<1>2. ASSUME NEW p \in 0..Len(c2r), NEW left \in 1..Chunks, Open(id, p, left),
             Closing(id, p, left, 0, room)
      PROVE  room >= 0 /\ Len(c2r) # 0
  BY <1>1, <1>2, Sizes DEF Closing, Missing
<1>3. ASSUME Closed(room) PROVE room >= 0 /\ ~px_upload_active
  BY <1>1, <1>3 DEF Closed
<1>4. c2r = <<>> => Len(c2r) = 0 /\ \A k \in 1..Len(c2r) : FALSE
  OBVIOUS
<1> QED
  BY <1>2, <1>3, <1>4 DEF Recovering, Quiet, Silent

---------------------------------------------------------------------------
(* A step of a thread.                                                     *)

\* A thread that returns leaves the paths quiet; one that goes on, as its new
\* place requires.
LEMMA PipeAfter ==
  ASSUME ControlInv, PipeInv, NEW t \in Threads, NEW new \in Thread, new = th'[t],
         \A u \in Threads \ {t} : th'[u] = th[u], executed' = executed,
         \A p \in pairs' : p[1] = p[2], Recorded(new),
         \/ lock' = NoThread /\ Quiet'
         \/ lock' = t /\ Pipe(new)'
  PROVE  PipeInv'
<1>1. NoThread \notin Threads
  BY SessionAssumption
<1>2. ASSUME NEW u \in Threads, NEW x \in Thread, x = th'[u]
      PROVE  Recorded(x)' /\ (lock' = u => Pipe(x)')
  <2>1. Recorded(x)
    BY <1>2 DEF PipeInv
  <2>2. Recorded(x)'
    BY <2>1 DEF Recorded
  <2>3. ASSUME lock' = u PROVE Pipe(x)'
    BY <1>1, <1>2, <2>3
  <2> QED BY <2>2, <2>3
<1> QED
  BY <1>1, <1>2 DEF PipeInv

\* What a silent receive says when responses are not late.
LEMMA SilenceMeans ==
  ASSUME TypeOK, n_late' = 0, Silence
  PROVE  /\ c2r = <<>> /\ crd = <<>> /\ inbox = <<>>
         /\ UNCHANGED <<readout, c2r, inbox, pairs>>
BY DEF TypeOK, Silence

\* Quiet paths stay quiet when nothing is sent.
LEMMA QuietKept ==
  ASSUME Quiet, UNCHANGED <<readout, c2r, inbox>> PROVE Quiet'
BY DEF Quiet, Silent, readout

LEMMA PipeKept ==
  ASSUME NEW x, Pipe(x), UNCHANGED <<readout, c2r, inbox, n_loss, n_fail>>
  PROVE  Pipe(x)'
<1>1. /\ UNCHANGED <<crd, px_upload_active, px_upload_words, matrix, upload_id, executed>>
      /\ UNCHANGED <<c2r, inbox, n_loss, n_fail>>
  BY DEF readout
<1>2. Quiet => Quiet'
  BY QuietKept
<1>3. \A id : (Asked(id) => Asked(id)') /\ (Answered(id) => Answered(id)')
  BY <1>1 DEF Asked, Answered, Silent
<1>4. \A id, p, left : Open(id, p, left) => Open(id, p, left)'
  BY <1>1 DEF Open, Silent
<1>5. ASSUME NEW id, NEW i, Sending(id, i) PROVE Sending(id, i)'
  <2>1. \A p, left : InOrder(id, i, p, left) => InOrder(id, i, p, left)'
    BY <1>1 DEF InOrder, LostChunks, Missing
  <2> QED BY <1>1, <1>4, <1>5, <2>1 DEF Sending
<1>6. ASSUME NEW id, NEW need, NEW room, Recovering(id, need, room)
      PROVE  Recovering(id, need, room)'
  <2>1. \A p, left : Closing(id, p, left, need, room) => Closing(id, p, left, need, room)'
    BY <1>1 DEF Closing, Missing, FaultsLeft
  <2>2. Closed(room) => Closed(room)'
    BY <1>1 DEF Closed
  <2> QED BY <1>1, <1>4, <1>6, <2>1, <2>2 DEF Recovering
<1> QED
  BY <1>1, <1>2, <1>3, <1>5, <1>6 DEF Pipe

\* One command of several is over, and its effect recorded.
LEMMA NextPipe ==
  ASSUME ControlInv, PipeInv, NEW t \in Threads, NEW new \in Thread, new = th'[t],
         lock = t, NextCommand(t), th[t].ids \subseteq executed, executed' = executed,
         \A p \in pairs' : p[1] = p[2], Quiet'
  PROVE  PipeInv'
<1>1. th \in [Threads -> Thread] /\ th[t] \in Thread
  BY ThreadFacts
<1>2. /\ \A u \in Threads \ {t} : th'[u] = th[u]
      /\ new.ids = th[t].ids
      /\ \/ new.pc = "send" /\ lock' = t
         \/ new.pc = "idle" /\ lock' = NoThread
  BY <1>1 DEF NextCommand, Return, Thread
<1>3. Recorded(new)
  BY <1>2 DEF Recorded
<1>4. new.pc = "send" => Pipe(new)'
  BY DEF Pipe
<1> QED
  BY <1>2, <1>3, <1>4, PipeAfter

\* The steps every function consists of.
LEMMA SimplePipe ==
  ASSUME ControlInv, ControlInv', PipeInv, n_late' = 0, NEW t \in Threads, Simple(t)
  PROVE  PipeInv'
<1> USE DEF At
<1>1. PICK new \in Thread : new = th'[t]
  BY DEF ControlInv, TypeOK
<1>2. PICK old \in Thread : old = th[t]
  BY DEF ControlInv, TypeOK
<1>3. /\ th \in [Threads -> Thread] /\ TypeOK /\ NoThread \notin Threads
      /\ Recorded(old) /\ (lock = t => Pipe(old))
      /\ old.pc \in {"send", "wait"} => lock = t
      /\ \A p \in pairs : p[1] = p[2]
  BY <1>2, SessionAssumption DEF ControlInv, TypeOK, PipeInv, LockDiscipline, Inside
<1>4. ~Call(t) => executed' = executed
  BY DEF Simple, Locked, SendCommand, SendMuteCommand, CommandSendFails, ResponseArrives,
         ResponseMissing, Send, SendFails, TakeResponse, Silence, readout
<1>5. CASE Call(t)
  <2>1. /\ UNCHANGED <<lock, pairs, readout, c2r, inbox, n_loss, n_fail>> /\ lock # t
        /\ \A u \in Threads \ {t} : th'[u] = th[u]
        /\ new.pc = "lock" /\ new.ids = {}
    BY <1>1, <1>3, <1>5 DEF Call, Idle, ControlInv, LockDiscipline, Inside
  <2>2. ASSUME NEW u \in Threads, NEW x \in Thread, x = th'[u]
        PROVE  Recorded(x)' /\ (lock' = u => Pipe(x)')
    <3>1. CASE u = t
      BY <1>1, <2>1, <2>2, <3>1 DEF Recorded
    <3>2. CASE u # t
      <4>1. Recorded(x) /\ (lock = u => Pipe(x))
        BY <2>1, <2>2, <3>2 DEF PipeInv
      <4>2. Recorded(x)'
        BY <2>1, <4>1 DEF Recorded, readout
      <4>3. Pipe(x) => Pipe(x)'
        BY <2>1, PipeKept
      <4> QED BY <2>1, <4>1, <4>2, <4>3
    <3> QED BY <3>1, <3>2
  <2>3. lock' = NoThread => Quiet'
    BY <2>1, QuietKept DEF PipeInv
  <2> QED BY <1>3, <2>1, <2>2, <2>3 DEF PipeInv
<1>6. CASE Locked(t)
  <2>1. /\ UNCHANGED <<pairs, readout, c2r, inbox>> /\ lock' = t /\ Quiet
        /\ \A u \in Threads \ {t} : th'[u] = th[u]
    BY <1>3, <1>6 DEF Locked, LockFree, PipeInv
  <2>2. /\ new.ids = old.ids /\ old.pc = "lock"
        /\ new.pc = "send" \/ (new.pc = "attempt" /\ new.res = "EAGAIN")
    BY <1>1, <1>2, <1>3, <1>6 DEF Locked, Thread
  <2>3. Recorded(new)
    BY <1>3, <2>2 DEF Recorded
  <2>4. Pipe(new)'
    BY <2>1, <2>2, QuietKept DEF Pipe
  <2>5. executed' = executed /\ \A p \in pairs' : p[1] = p[2]
    BY <1>3, <2>1 DEF readout
  <2> QED BY <1>1, <2>1, <2>3, <2>4, <2>5, PipeAfter
<1>7. CASE SendCommand(t)
  <2>1. PICK id \in Nat : id = n_sent + 1
    BY <1>3 DEF TypeOK
  <2>2. /\ \A u \in Threads \ {t} : th'[u] = th[u]
        /\ new.pc = "wait" /\ new.id = id /\ new.ids = old.ids \cup {id}
        /\ old.pc = "send" /\ lock' = t /\ Send("cmd", 0, 0) /\ UNCHANGED pairs
    BY <1>1, <1>2, <1>3, <1>7, <2>1 DEF SendCommand, Send, Thread
  <2>3. Recorded(new)
    BY <1>3, <2>2 DEF Recorded
  <2>4. Asked(id)'
    BY <1>3, <2>1, <2>2, FirstSent DEF Pipe, Kinds
  <2>5. Pipe(new)'
    BY <2>2, <2>4 DEF Pipe
  <2> QED BY <1>1, <1>3, <1>4, <1>7, <2>2, <2>3, <2>5, PipeAfter DEF Call, SendCommand
<1>8. CASE SendMuteCommand(t)
  <2>1. /\ NextCommand(t) /\ old.pc = "send" /\ Send("mute", 0, 0) /\ UNCHANGED pairs
        /\ UNCHANGED executed
    BY <1>2, <1>8 DEF SendMuteCommand, Send, readout
  <2>2. old.ids \subseteq executed
    BY <1>3, <2>1 DEF Recorded
  <2>3. Quiet'
    <3>1. Quiet
      BY <1>3, <2>1 DEF Pipe
    <3>2. PICK id \in Nat : id = n_sent + 1
      BY <1>3 DEF TypeOK
    <3> QED BY <1>3, <2>1, <3>1, <3>2, FirstSent DEF Kinds
  <2> QED BY <1>1, <1>2, <1>3, <2>1, <2>2, <2>3, NextPipe
<1>9. CASE CommandSendFails(t)
  <2>1. /\ \A u \in Threads \ {t} : th'[u] = th[u]
        /\ new.pc = "idle" /\ new.res = "EIO" /\ old.pc = "send" /\ lock' = NoThread
        /\ UNCHANGED <<readout, c2r, inbox, pairs>>
    BY <1>1, <1>2, <1>3, <1>9 DEF CommandSendFails, SendFails, Return, Thread
  <2>2. Quiet'
    BY <1>3, <2>1, QuietKept DEF Pipe
  <2>3. Recorded(new)
    BY <2>1 DEF Recorded
  <2> QED BY <1>1, <1>3, <1>9, <2>1, <2>2, <2>3, PipeAfter DEF readout
<1>10. CASE ResponseArrives(t)
  <2>1. /\ NextCommand(t) /\ TakeResponse /\ old.pc = "wait"
        /\ pairs' = pairs \cup {<<old.id, Head(inbox).to>>}
    BY <1>2, <1>10 DEF ResponseArrives
  <2>2. Answered(old.id) /\ crd = <<>> /\ inbox = <<[to |-> old.id]>>
    BY <1>3, <2>1 DEF TakeResponse, Pipe, Quiet, Silent, Asked, Answered
  <2>3. Head(inbox).to = old.id /\ Tail(inbox) = <<>>
    BY <2>2
  <2>4. old.ids \subseteq executed /\ UNCHANGED executed
    BY <1>3, <2>1, <2>2 DEF Recorded, Answered, TakeResponse, readout
  <2>5. Quiet'
    <3>1. \A k \in 1..Len(c2r) : FALSE
      BY <2>2 DEF Answered
    <3> QED BY <2>1, <2>2, <2>3, <3>1 DEF Answered, TakeResponse, readout, Quiet, Silent
  <2>6. \A p \in pairs' : p[1] = p[2]
    BY <1>3, <2>1, <2>3
  <2> QED BY <1>1, <1>2, <1>3, <2>1, <2>4, <2>5, <2>6, NextPipe
<1>11. CASE ResponseMissing(t)
  <2>1. /\ Silence /\ old.pc = "wait" /\ \A u \in Threads \ {t} : th'[u] = th[u]
        /\ \/ new = [old EXCEPT !.waits = @ - 1] /\ lock' = t
           \/ new.pc = "idle" /\ new.res = "EAGAIN" /\ lock' = NoThread
    BY <1>1, <1>2, <1>3, <1>11 DEF ResponseMissing, Return, Thread
  <2>2. /\ c2r = <<>> /\ crd = <<>> /\ inbox = <<>> /\ UNCHANGED <<readout, c2r, inbox, pairs>>
    BY <1>3, <2>1, SilenceMeans
  <2>3. Quiet'
    <3>1. Quiet
      BY <1>3, <2>1, <2>2 DEF Pipe, Asked, Answered
    <3> QED BY <2>2, <3>1, QuietKept
  <2>4. CASE new = [old EXCEPT !.waits = @ - 1] /\ lock' = t
    <3>1. new.pc = "wait" /\ new.ids = old.ids /\ new.id = old.id
      BY <1>2, <2>1, <2>4 DEF Thread
    <3>2. Recorded(new) /\ Pipe(new)'
      BY <1>3, <2>1, <2>3, <3>1 DEF Recorded, Pipe
    <3> QED BY <1>1, <1>3, <2>1, <2>2, <2>4, <3>2, PipeAfter DEF readout
  <2>5. CASE new.pc = "idle" /\ new.res = "EAGAIN" /\ lock' = NoThread
    <3>1. Recorded(new)
      BY <2>5 DEF Recorded
    <3> QED BY <1>1, <1>3, <2>1, <2>2, <2>3, <2>5, <3>1, PipeAfter DEF readout
  <2> QED BY <2>1, <2>4, <2>5
<1> QED
  BY <1>5, <1>6, <1>7, <1>8, <1>9, <1>10, <1>11 DEF Simple

\* The upload and its recovery.
LEMMA UploadPipe ==
  ASSUME ControlInv, ControlInv', PipeInv, FaultsBounded, FaultsCovered,
         n_late' = 0, NEW t \in Threads, UploadStep(t)
  PROVE  PipeInv'
<1> USE DEF At
<1>1. PICK new \in Thread : new = th'[t]
  BY DEF ControlInv, TypeOK
<1>2. PICK old \in Thread : old = th[t]
  BY DEF ControlInv, TypeOK
<1>3. /\ th \in [Threads -> Thread] /\ TypeOK /\ lock = t /\ Recorded(old) /\ Pipe(old)
      /\ \A p \in pairs : p[1] = p[2]
  <2>1. lock = t
    BY DEF UploadStep, AttemptStarts, AttemptSendFails, AttemptsExhausted, ChunkSent,
           ChunkSendFails, UploadAcknowledged, UploadNotAcknowledged, FillerSent,
           ResponseDiscarded, DrainEnds, ControlInv, LockDiscipline, Inside
  <2> QED BY <1>2, <2>1 DEF ControlInv, TypeOK, PipeInv
<1>4. executed' = executed
  BY DEF UploadStep, AttemptStarts, AttemptSendFails, AttemptsExhausted, ChunkSent,
         ChunkSendFails, UploadAcknowledged, UploadNotAcknowledged, FillerSent,
         ResponseDiscarded, DrainEnds, Send, SendFails, TakeResponse, Silence, readout
<1>5. \A u \in Threads \ {t} : th'[u] = th[u]
  BY <1>3 DEF UploadStep, AttemptStarts, AttemptSendFails, AttemptsExhausted, ChunkSent,
         ChunkSendFails, UploadAcknowledged, UploadNotAcknowledged, FillerSent,
         ResponseDiscarded, DrainEnds, Return
<1>6. ASSUME Recorded(new), \A p \in pairs' : p[1] = p[2],
             (lock' = NoThread /\ Quiet') \/ (lock' = t /\ Pipe(new)')
      PROVE  PipeInv'
  BY <1>1, <1>4, <1>5, <1>6, PipeAfter
<1>7. CASE AttemptStarts(t)
  <2>1. PICK id \in Nat : id = n_sent + 1
    BY <1>3 DEF TypeOK
  <2>2. /\ new.pc = "chunks" /\ new.i = 1 /\ new.id = id /\ new.ids = {id} /\ new.res = old.res
        /\ old.pc = "attempt" /\ Send("upload", 0, 0) /\ UNCHANGED <<lock, pairs>>
    BY <1>1, <1>2, <1>3, <1>7, <2>1 DEF AttemptStarts, Send, Thread
  <2>3. Sending(id, 1)'
    BY <1>3, <2>1, <2>2, FirstSent DEF Pipe, Kinds
  <2>4. Recorded(new) /\ Pipe(new)'
    BY <1>3, <2>2, <2>3 DEF Recorded, Pipe
  <2> QED BY <1>3, <1>6, <2>2, <2>4
<1>8. CASE AttemptSendFails(t)
  <2>1. /\ new.pc = "attempt" /\ new.res = "EIO" /\ old.pc = "attempt"
        /\ UNCHANGED <<lock, readout, c2r, inbox, pairs>>
    BY <1>1, <1>2, <1>3, <1>8 DEF AttemptSendFails, SendFails, Thread
  <2>2. Recorded(new) /\ Pipe(new)'
    BY <1>3, <2>1, QuietKept DEF Recorded, Pipe
  <2> QED BY <1>3, <1>6, <2>1, <2>2
<1>9. CASE AttemptsExhausted(t)
  <2>1. /\ new.pc = "idle" /\ new.res = old.res /\ old.pc = "attempt" /\ lock' = NoThread
        /\ UNCHANGED <<readout, c2r, inbox, pairs>>
    BY <1>1, <1>2, <1>3, <1>9 DEF AttemptsExhausted, Return, Thread
  <2>2. Recorded(new) /\ Quiet'
    BY <1>3, <2>1, QuietKept DEF Recorded, Pipe
  <2> QED BY <1>3, <1>6, <2>1, <2>2
<1>10. CASE ChunkSent(t)
  <2>1. /\ new.i = old.i + 1 /\ new.pc = IF old.i = Chunks THEN "ack" ELSE "chunks"
        /\ new.id = old.id /\ new.ids = old.ids /\ new.res = old.res
        /\ old.pc = "chunks" /\ Send("chunk", old.id, old.i) /\ UNCHANGED <<lock, pairs>>
    BY <1>1, <1>2, <1>3, <1>10 DEF ChunkSent, Send, Thread
  <2>2. old.i \in 1..Chunks /\ old.id \in Nat
    BY <1>2, <2>1 DEF ControlInv, PhaseBounds, Thread
  <2>3. Sending(old.id, old.i)
    BY <1>3, <2>1 DEF Pipe
  <2>4. Sending(new.id, new.i)'
    BY <1>3, <2>1, <2>2, <2>3, NextChunkSent
  <2>5. new.pc = "ack" => new.i = Chunks + 1
    BY <2>1
  <2>6. Recorded(new) /\ Pipe(new)'
    BY <1>3, <2>1, <2>4, <2>5 DEF Recorded, Pipe
  <2> QED BY <1>3, <1>6, <2>1, <2>6
<1>11. CASE ChunkSendFails(t)
  <2>1. /\ new.pc = "flood" /\ new.i = 1 /\ new.res = "EIO" /\ new.id = old.id
        /\ old.pc = "chunks" /\ SendFails /\ UNCHANGED <<lock, pairs>>
    BY <1>1, <1>2, <1>3, <1>11 DEF ChunkSendFails, SendFails, Thread
  <2>2. old.i \in 1..Chunks
    BY <1>2, <2>1 DEF ControlInv, PhaseBounds
  <2>3. Sending(old.id, old.i)
    BY <1>3, <2>1 DEF Pipe
  <2>4. Recovering(old.id, Fillers, 1)'
    BY <1>3, <2>1, <2>2, <2>3, FloodStarts
  <2>5. Fillers + 1 - 1 = Fillers
    BY Sizes
  <2>6. Recorded(new) /\ Pipe(new)'
    BY <2>1, <2>4, <2>5 DEF Recorded, Pipe
  <2> QED BY <1>3, <1>6, <2>1, <2>6
<1>12. CASE UploadAcknowledged(t)
  <2>1. /\ new.pc = "send" /\ new.ids = old.ids /\ old.pc = "ack" /\ TakeResponse
        /\ pairs' = pairs \cup {<<old.id, Head(inbox).to>>} /\ UNCHANGED lock
    BY <1>1, <1>2, <1>3, <1>12 DEF UploadAcknowledged, Thread
  <2>2. Answered(old.id) /\ crd = <<>> /\ inbox = <<[to |-> old.id]>>
    BY <1>3, <2>1 DEF TakeResponse, Pipe, Quiet, Silent, Sending, Open, Answered
  <2>3. Head(inbox).to = old.id /\ Tail(inbox) = <<>> /\ \A k \in 1..Len(c2r) : FALSE
    BY <2>2 DEF Answered
  <2>4. Quiet'
    BY <2>1, <2>2, <2>3 DEF Answered, TakeResponse, readout, Quiet, Silent
  <2>5. Recorded(new) /\ Pipe(new)'
    BY <1>3, <2>1, <2>2, <2>4 DEF Recorded, Pipe, Answered
  <2>6. \A p \in pairs' : p[1] = p[2]
    BY <1>3, <2>1, <2>3
  <2> QED BY <1>3, <1>6, <2>1, <2>5, <2>6
<1>13. CASE UploadNotAcknowledged(t)
  <2>1. /\ old.pc = "ack" /\ Silence /\ UNCHANGED lock
        /\ new.id = old.id /\ new.ids = old.ids
        /\ \/ new.pc = "ack" /\ new.i = old.i /\ new.res = old.res
           \/ new.pc = "flood" /\ new.i = 1 /\ new.res = "EAGAIN"
    BY <1>1, <1>2, <1>3, <1>13 DEF UploadNotAcknowledged, Thread
  <2>2. /\ c2r = <<>> /\ crd = <<>> /\ inbox = <<>>
        /\ UNCHANGED <<readout, c2r, inbox, pairs, n_loss, n_fail>>
    BY <1>3, <2>1, SilenceMeans DEF Silence
  <2>3. CASE new.pc = "ack" /\ new.i = old.i /\ new.res = old.res
    <3>1. Pipe(old)'
      BY <1>3, <2>2, PipeKept
    <3>2. Recorded(new) /\ Pipe(new)'
      BY <1>3, <2>1, <2>3, <3>1 DEF Recorded, Pipe
    <3> QED BY <1>3, <1>6, <2>1, <2>2, <3>2
  <2>4. CASE new.pc = "flood" /\ new.i = 1 /\ new.res = "EAGAIN"
    <3>1. Recovering(old.id, Fillers, 1)
      BY <1>3, <2>1, <2>2, SilenceAfterUpload DEF Pipe
    <3>2. Fillers + 1 - 1 = Fillers
      BY Sizes
    <3>3. Pipe(new)
      BY <2>1, <2>4, <3>1, <3>2 DEF Pipe
    <3>4. Recorded(new) /\ Pipe(new)'
      BY <2>2, <2>4, <3>3, PipeKept DEF Recorded
    <3> QED BY <1>3, <1>6, <2>1, <2>2, <3>4
  <2> QED BY <2>1, <2>3, <2>4
<1>14. CASE FillerSent(t)
  <2>1. /\ old.pc = "flood" /\ (Send("filler", 0, old.i) \/ SendFails) /\ UNCHANGED <<lock, pairs>>
        /\ new.id = old.id /\ new.res = old.res
        /\ \/ old.i = Fillers /\ new.pc = "drain" /\ new.i = MaxDrain
           \/ new.pc = "flood" /\ new.i = old.i + 1
    BY <1>1, <1>2, <1>3, <1>14 DEF FillerSent, FloodEnds, Send, SendFails, Thread
  <2>2. old.i \in Nat /\ old.i \in Int /\ Fillers + 1 - old.i \in Int
    BY <1>2, Sizes DEF Thread
  <2>3. PICK need \in Int : need = Fillers + 1 - old.i
    BY <2>2
  <2>4. Recovering(old.id, need - 1, old.i + 1)'
    <3>1. Recovering(old.id, need, old.i)
      BY <1>3, <2>1, <2>3 DEF Pipe
    <3> QED BY <1>3, <2>1, <2>2, <3>1, OneFiller
  <2>5. CASE old.i = Fillers /\ new.pc = "drain" /\ new.i = MaxDrain
    <3>1. need - 1 = 0
      BY <2>2, <2>3, <2>5, Sizes
    <3>2. Recovering(old.id, 0, Fillers + 1)'
      BY <2>4, <2>5, <3>1
    <3>3. Recovering(old.id, 0, MaxDrain - 1)'
      BY <3>2, FloodDone DEF ControlInv
    <3>4. Recorded(new) /\ Pipe(new)'
      BY <1>3, <2>1, <2>5, <3>3 DEF Recorded, Pipe
    <3> QED BY <1>3, <1>6, <2>1, <3>4
  <2>6. CASE new.pc = "flood" /\ new.i = old.i + 1
    <3>1. need - 1 = Fillers + 1 - new.i
      BY <2>2, <2>3, <2>6, Sizes
    <3>2. Recorded(new) /\ Pipe(new)'
      BY <1>3, <2>1, <2>4, <2>6, <3>1 DEF Recorded, Pipe
    <3> QED BY <1>3, <1>6, <2>1, <3>2
  <2> QED BY <2>1, <2>5, <2>6
<1>15. CASE ResponseDiscarded(t)
  <2>1. /\ old.pc = "drain" /\ TakeResponse /\ UNCHANGED <<lock, pairs>>
        /\ new.pc = "drain" /\ new.i = old.i - 1 /\ new.id = old.id /\ new.res = old.res
    BY <1>1, <1>2, <1>3, <1>15 DEF ResponseDiscarded, Thread
  <2>2. old.i - 1 \in Int /\ old.i - 1 - 1 = new.i - 1
    BY <1>2, <2>1, Sizes DEF Thread
  <2>3. Recovering(old.id, 0, old.i - 1)
    BY <1>3, <2>1 DEF Pipe
  <2>4. Recovering(old.id, 0, old.i - 1 - 1)'
    BY <1>3, <2>1, <2>2, <2>3, OneDiscarded
  <2>5. Recorded(new) /\ Pipe(new)'
    BY <1>3, <2>1, <2>2, <2>4 DEF Recorded, Pipe
  <2> QED BY <1>3, <1>6, <2>1, <2>5
<1>16. CASE DrainEnds(t)
  <2>1. /\ old.pc = "drain" /\ UNCHANGED lock
        /\ new.pc = "attempt" /\ new.res = old.res
        /\ Silence \/ (~(old.i > 0) /\ UNCHANGED <<pairs, readout, c2r, inbox>>)
    BY <1>1, <1>2, <1>3, <1>16 DEF DrainEnds, DrainGoesOn, Thread
  <2>2. old.i - 1 \in Int /\ (~(old.i > 0) => ~(old.i - 1 >= 0))
    BY <1>2, Sizes DEF Thread
  <2>3. Recovering(old.id, 0, old.i - 1)
    BY <1>3, <2>1 DEF Pipe
  <2>4. Silence
    BY <1>3, <2>1, <2>2, <2>3, RecoveryOver
  <2>5. c2r = <<>> /\ crd = <<>> /\ inbox = <<>> /\ UNCHANGED <<readout, c2r, inbox, pairs>>
    BY <1>3, <2>4, SilenceMeans
  <2>6. Quiet'
    BY <1>3, <2>2, <2>3, <2>5, RecoveryOver, QuietKept
  <2>7. Recorded(new) /\ Pipe(new)'
    BY <1>3, <2>1, <2>6 DEF Recorded, Pipe
  <2> QED BY <1>3, <1>6, <2>1, <2>5, <2>7
<1> QED
  BY <1>7, <1>8, <1>9, <1>10, <1>11, <1>12, <1>13, <1>14, <1>15, <1>16 DEF UploadStep

---------------------------------------------------------------------------
(* The invariant of the paths and its theorems.                            *)

LEMMA PairingInit == Init => PairingInv
<1> SUFFICES ASSUME Init PROVE PairingInv
  OBVIOUS
<1>1. FaultsBounded
  BY SessionAssumption DEF Init, FaultsBounded
<1>2. Quiet
  <2>1. \A k \in 1..Len(c2r) : FALSE
    BY DEF Init
  <2> QED BY <2>1 DEF Init, Quiet, Silent
<1>3. ASSUME NEW t \in Threads, NEW x \in Thread, x = th[t] PROVE Recorded(x) /\ lock # t
  <2>1. x = Idle /\ lock # t
    BY <1>3, SessionAssumption DEF Init
  <2> QED BY <2>1 DEF Idle, Recorded
<1>4. \A p \in pairs : p[1] = p[2]
  BY DEF Init
<1> QED
  BY <1>1, <1>2, <1>3, <1>4 DEF PairingInv, PipeInv

LEMMA PairingStep ==
  FaultsCovered /\ ControlInv /\ ControlInv' /\ PairingInv /\ [Next]_vars => PairingInv'
<1> SUFFICES ASSUME FaultsCovered, ControlInv, ControlInv', PairingInv, [Next]_vars
             PROVE  PairingInv'
  OBVIOUS
<1>1. CASE UNCHANGED vars
  <2>1. UNCHANGED <<readout, c2r, inbox, n_loss, n_fail, n_late, th, lock, pairs, executed>>
    BY <1>1 DEF vars, client, readout, bounds
  <2>2. ASSUME PipeInv PROVE PipeInv'
    <3>1. ASSUME NEW t \in Threads, NEW x \in Thread, x = th'[t]
          PROVE  Recorded(x)' /\ (lock' = t => Pipe(x)')
      BY <2>1, <2>2, <3>1, PipeKept DEF PipeInv, Recorded
    <3> QED BY <2>1, <2>2, <3>1, QuietKept DEF PipeInv
  <2> QED BY <2>1, <2>2 DEF PairingInv, FaultsBounded
<1>2. CASE PathStep
  BY <1>2, OtherPipeStep
<1>3. ASSUME NEW t \in Threads, Simple(t) \/ UploadStep(t) PROVE PairingInv'
  <2>1. /\ n_loss' = n_loss /\ n_late \in Nat /\ n_late' \in {n_late, n_late + 1}
        /\ n_fail' = n_fail \/ (n_fail < MaxFail /\ n_fail' = n_fail + 1)
    BY <1>3 DEF ControlInv, TypeOK, Simple, Call, Locked, SendCommand, SendMuteCommand,
         CommandSendFails, ResponseArrives, ResponseMissing, UploadStep, AttemptStarts,
         AttemptSendFails, AttemptsExhausted, ChunkSent, ChunkSendFails, UploadAcknowledged,
         UploadNotAcknowledged, FillerSent, ResponseDiscarded, DrainEnds,
         Send, SendFails, TakeResponse, Silence, bounds
  <2>2. FaultsBounded'
    BY <2>1, SessionAssumption DEF PairingInv, FaultsBounded
  <2>3. n_late' = 0 => n_late = 0
    BY <2>1
  <2>4. n_late' = 0 => PipeInv'
    BY <1>3, <2>3, SimplePipe, UploadPipe DEF PairingInv
  <2> QED BY <2>2, <2>4 DEF PairingInv
<1> QED
  BY <1>1, <1>2, <1>3 DEF Next, PathStep

\* Responses and their commands agree as long as the faults stay within what
\* the fillers cover.
THEOREM PairingInvariant == FaultsCovered /\ Spec => []PairingInv
<1>1. FaultsCovered /\ Init => PairingInv
  BY PairingInit
<1>2. FaultsCovered /\ ControlInv /\ ControlInv' /\ PairingInv /\ [Next]_vars => PairingInv'
  BY PairingStep
<1>3. CASE FaultsCovered
  BY <1>1, <1>2, <1>3, ControlInvariant, PTL DEF Spec
<1>4. CASE ~FaultsCovered
  BY <1>4
<1> QED
  BY <1>3, <1>4

\* While responses arrive within the receive timeout, every response that a
\* function accepts answers its own command, although katherine_cmd_wait_ack
\* does not look at the operation code: whatever else is lost, no function
\* leaves a response behind, and the recovery of the upload discards them all.
\* Two premises: command 0x12 is not lost, and sends that fail and datagrams
\* that are lost do not outnumber the fillers that an upload can spare.
THEOREM ResponsesArePaired == FaultsCovered /\ Spec => []AckIsOwn
<1>1. PairingInv => AckIsOwn
  BY DEF PairingInv, PipeInv, AckIsOwn
<1> QED
  BY <1>1, PairingInvariant, PTL

\* A function that has returned 0 has had its effect: each of its commands is
\* executed, and the pixel configuration of its upload was taken whole and in
\* order (the sequence number of the upload is executed only then).
THEOREM SuccessMeansEffect == FaultsCovered /\ Spec => []OkMeansDone
<1>1. ControlInv /\ PairingInv => OkMeansDone
  <2> SUFFICES ASSUME ControlInv, PairingInv, n_late = 0, NEW t \in Threads,
                      At(t, "idle"), th[t].res = "ok"
               PROVE  th[t].ids \subseteq executed
    BY DEF OkMeansDone
  <2>1. PICK x \in Thread : x = th[t]
    BY DEF ControlInv, TypeOK
  <2> QED BY <2>1 DEF PairingInv, PipeInv, Recorded, At
<1> QED
  BY <1>1, ControlInvariant, PairingInvariant, PTL

\* However an upload ended, the readout is not left inside of it: the fillers
\* of the recovery complete it, also when some of them are lost.
THEOREM UploadsAreClosed == FaultsCovered /\ Spec => []UploadClosed
<1>1. ControlInv /\ PairingInv => UploadClosed
  <2> SUFFICES ASSUME ControlInv, PairingInv, n_late = 0, \A t \in Threads : At(t, "idle")
               PROVE  ~px_upload_active
    BY DEF UploadClosed
  <2>1. lock = NoThread
    BY DEF ControlInv, TypeOK, LockDiscipline, Inside, At
  <2> QED BY <2>1 DEF PairingInv, PipeInv, Quiet
<1> QED
  BY <1>1, ControlInvariant, PairingInvariant, PTL
=============================================================================
