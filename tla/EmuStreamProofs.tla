--------------------------- MODULE EmuStreamProofs ---------------------------
(***************************************************************************)
(* Theorems about EmuStream, for every staging buffer, rate, burst, word   *)
(* size and frame geometry.                                                *)
(***************************************************************************)
EXTENDS EmuStream, SequenceTheorems, FiniteSetTheorems, TLAPS

---------------------------------------------------------------------------
(* Arithmetic.                                                             *)

\* Division rounds down.
LEMMA DivFloor ==
  ASSUME NEW x \in Nat, NEW d \in Nat \ {0}
  PROVE  /\ x \div d \in Nat /\ x % d \in 0..(d - 1)
         /\ x = (x \div d) * d + (x % d)
         /\ (x \div d) * d <= x
<1>1. x % d \in 0..(d - 1) /\ x = d * (x \div d) + (x % d) /\ x \div d \in Int
  OBVIOUS
<1>2. x \div d >= 0
  BY <1>1
<1> QED BY <1>1, <1>2

\* Products of natural numbers are natural numbers, ...
LEMMA ProductNat == ASSUME NEW x \in Nat, NEW y \in Nat PROVE x * y \in Nat
OBVIOUS

\* ... distribute over sums ...
LEMMA Distribute ==
  ASSUME NEW x \in Nat, NEW y \in Nat, NEW z \in Nat
  PROVE  (x + y) * z = x * z + y * z
OBVIOUS

\* ... and are monotonic.
LEMMA Monotonic ==
  ASSUME NEW x \in Nat, NEW y \in Nat, NEW z \in Nat, x <= y
  PROVE  x * z <= y * z
OBVIOUS

\* One more of a number.
LEMMA OneMore ==
  ASSUME NEW x \in Nat, NEW z \in Nat PROVE (x + 1) * z = x * z + z
OBVIOUS

\* The quotient is the largest number whose product does not exceed x.
LEMMA DivGreatest ==
  ASSUME NEW x \in Nat, NEW d \in Nat \ {0}, NEW n \in Nat
  PROVE  n <= x \div d <=> n * d <= x
<1> DEFINE q == x \div d
<1>1. q \in Nat /\ q * d <= x /\ x < q * d + d /\ q * d \in Nat
  <2>1. q \in Nat /\ x % d \in 0..(d - 1) /\ x = q * d + (x % d)
    BY DivFloor
  <2>2. q * d \in Nat
    BY <2>1, ProductNat
  <2> QED BY <2>1, <2>2
<1> HIDE DEF q
<1>2. ASSUME n <= q PROVE n * d <= x
  <2>1. n * d <= q * d /\ n * d \in Nat
    BY <1>1, <1>2, Monotonic, ProductNat
  <2> QED BY <1>1, <2>1
<1>3. ASSUME n > q PROVE n * d > x
  <2>1. (q + 1) * d <= n * d
    BY <1>1, <1>3, Monotonic
  <2>2. (q + 1) * d = q * d + d
    BY <1>1, OneMore
  <2>3. n * d \in Nat
    BY ProductNat
  <2> QED BY <1>1, <2>1, <2>2, <2>3
<1>4. n * d \in Nat
  BY ProductNat
<1> QED BY <1>1, <1>2, <1>3, <1>4 DEF q

\* A machine word holds what fits it.
LEMMA WordFits ==
  ASSUME NEW x \in 0..WordMax PROVE Word(x) = x
BY StreamAssumption DEF Word

\* The smaller of two numbers.
LEMMA LeastBound ==
  ASSUME NEW a \in Nat, NEW b \in Nat
  PROVE  /\ LeastOf(a, b) \in Nat /\ LeastOf(a, b) <= a /\ LeastOf(a, b) <= b
         /\ LeastOf(a, b) = a \/ LeastOf(a, b) = b
BY DEF LeastOf

---------------------------------------------------------------------------
(* The parts of a step.                                                    *)

\* A datum made in a well-typed state is well typed.
LEMMA MdType ==
  ASSUME TypeOK, NEW h \in MdHeaders, NEW v \in Nat, NEW t \in Nat
  PROVE  Md(h, v, t) \in StreamMD
<1>1. arms \in Nat /\ frame_index \in Nat
  BY DEF TypeOK
<1> QED
  BY <1>1 DEF Md, StreamMD

\* Emitting keeps the staging buffer within its capacity.
LEMMA EmitType ==
  ASSUME TypeOK, NEW md \in StreamMD, Emit(md), UNCHANGED buf_pos
  PROVE  buf' \in Seq(StreamMD) /\ Len(buf') <= StageCap /\ buf_pos' \in 0..Len(buf')
<1>1. /\ buf \in Seq(StreamMD) /\ Len(buf) \in Nat /\ Len(buf) <= StageCap
      /\ buf_pos \in 0..Len(buf) /\ StageCap \in Nat
  BY LenProperties, StreamAssumption DEF TypeOK
<1>2. CASE HasRoom
  <2>1. buf' = Append(buf, md) /\ Len(buf) < StageCap
    BY <1>2 DEF Emit, HasRoom
  <2>2. buf' \in Seq(StreamMD) /\ Len(buf') = Len(buf) + 1
    BY <1>1, <2>1
  <2> QED BY <1>1, <2>1, <2>2
<1>3. CASE ~HasRoom
  BY <1>1, <1>3 DEF Emit
<1> QED BY <1>2, <1>3

\* The time of a hit since its frame opened is a natural number.
LEMMA HitTime ==
  ASSUME TypeOK, NEW i \in Nat
  PROVE  HitDue(i) - frame_open \in Nat
<1>1. frame_open \in Nat /\ frame_len \in Nat /\ Hits + 1 \in Nat \ {0}
  BY StreamAssumption DEF TypeOK
<1>2. frame_len \div (Hits + 1) \in Nat
  BY <1>1, DivFloor
<1>3. (frame_len \div (Hits + 1)) * (i + 1) \in Nat
  BY <1>2, ProductNat
<1> QED BY <1>1, <1>3 DEF HitDue

\* data_out copies whole staged data, within the capacity and the credit.
LEMMA CopyBound ==
  ASSUME TypeOK, NEW cap \in Nat
  PROVE  /\ CopyCount(cap) \in 0..(Len(buf) - buf_pos)
         /\ CopyCount(cap) * MdSize \in Nat
         /\ Rate > 0 => CopyCount(cap) * MdSize <= tokens
<1> DEFINE room == Len(buf) - buf_pos
           staged == LeastOf(room * MdSize, cap)
           shaped == IF Rate > 0 THEN LeastOf(staged, tokens) ELSE staged
<1>1. room \in Nat /\ tokens \in Nat /\ MdSize \in Nat \ {0} /\ Rate \in Nat
  BY LenProperties, StreamAssumption DEF TypeOK
<1> HIDE DEF room
<1>2. room * MdSize \in Nat
  BY <1>1, ProductNat
<1>3. staged \in Nat /\ staged <= room * MdSize
  BY <1>2, LeastBound
<1> HIDE DEF staged
<1>4. shaped \in Nat /\ shaped <= staged /\ (Rate > 0 => shaped <= tokens)
  <2>1. CASE Rate > 0
    BY <1>1, <1>3, <2>1, LeastBound
  <2>2. CASE ~(Rate > 0)
    BY <1>1, <1>3, <2>2
  <2> QED BY <2>1, <2>2
<1>5. CopyCount(cap) = shaped \div MdSize
  BY DEF CopyCount, staged, room
<1> HIDE DEF shaped
<1>6. /\ shaped \div MdSize \in Nat /\ (shaped \div MdSize) * MdSize <= shaped
      /\ (shaped \div MdSize) * MdSize \in Nat
  BY <1>1, <1>4, DivFloor, ProductNat
<1>7. CopyCount(cap) <= room
  <2>1. ASSUME room + 1 <= shaped \div MdSize PROVE FALSE
    <3>1. (room + 1) * MdSize <= shaped /\ room + 1 \in Nat
      BY <1>1, <1>4, <2>1, DivGreatest
    <3>2. (room + 1) * MdSize = room * MdSize + MdSize
      BY <1>1, OneMore
    <3> QED BY <1>1, <1>2, <1>3, <1>4, <3>1, <3>2
  <2> QED BY <1>1, <1>5, <1>6, <2>1
<1> QED BY <1>1, <1>4, <1>5, <1>6, <1>7 DEF room

\* Turning a credit of e into whole tokens, carrying the fraction f, neither
\* makes credit up nor loses any below the bound.
LEMMA WholeTokens ==
  ASSUME NEW t \in Nat, NEW f \in Nat, NEW e \in Nat, NEW s \in Nat \ {0}, NEW b \in Nat
  PROVE  /\ LeastOf(t + ((f + e) \div s), b) \in 0..b
         /\ (f + e) % s \in 0..(s - 1)
         /\ LeastOf(t + ((f + e) \div s), b) * s + ((f + e) % s) <= t * s + f + e
         /\ LeastOf(t + ((f + e) \div s), b) * s + ((f + e) % s) >= LeastOf(t * s + f + e, b * s)
<1> DEFINE q == (f + e) \div s
           r == (f + e) % s
           u == LeastOf(t + q, b)
<1>1. q \in Nat /\ r \in 0..(s - 1) /\ f + e = q * s + r /\ q * s \in Nat
  <2>1. f + e \in Nat
    OBVIOUS
  <2>2. q \in Nat /\ r \in 0..(s - 1) /\ f + e = q * s + r
    BY <2>1, DivFloor
  <2>3. q * s \in Nat
    BY <2>2, ProductNat
  <2> QED BY <2>2, <2>3
<1> HIDE DEF q, r
<1>4. u \in Nat /\ u <= t + q /\ u <= b
  BY <1>1, LeastBound
<1>5. u = t + q \/ u = b
  BY DEF LeastOf
<1> HIDE DEF u
<1>6. u * s <= t * s + q * s /\ u * s \in Nat /\ t * s \in Nat
  <2>1. u * s <= (t + q) * s
    BY <1>1, <1>4, Monotonic
  <2>2. (t + q) * s = t * s + q * s
    BY <1>1, Distribute
  <2>3. u * s \in Nat /\ t * s \in Nat
    BY <1>4, ProductNat
  <2> QED BY <2>1, <2>2, <2>3
<1>7. u * s + r <= t * s + f + e
  BY <1>1, <1>6
<1>8. u * s + r >= LeastOf(t * s + f + e, b * s)
  <2>1. PICK k \in Nat : k = t * s + f + e
    BY <1>6
  <2>2. PICK c \in Nat : c = b * s
    BY ProductNat
  <2>3. LeastOf(k, c) <= k /\ LeastOf(k, c) <= c /\ LeastOf(k, c) \in Nat
    BY LeastBound
  <2>4. PICK x \in Nat : x = u * s
    BY <1>6
  <2>5. CASE u = t + q
    <3>1. x = t * s + q * s
      BY <1>1, <2>4, <2>5, Distribute
    <3>2. x + r = k
      BY <1>1, <1>6, <2>1, <3>1
    <3> QED BY <2>1, <2>2, <2>3, <2>4, <3>2
  <2>6. CASE u = b
    <3>1. x = c
      BY <2>2, <2>4, <2>6
    <3>2. x + r >= c
      BY <1>1, <3>1
    <3>3. x + r >= LeastOf(k, c)
      BY <1>1, <2>3, <3>2
    <3> QED BY <2>1, <2>2, <2>4, <3>3
  <2> QED BY <1>5, <2>5, <2>6
<1> QED BY <1>1, <1>4, <1>7, <1>8 DEF u, q, r

\* A clock step earns the credit of the rate, up to the burst, also when the
\* product of step and rate does not fit a machine word.
LEMMA AccrueExact ==
  ASSUME TypeOK, NEW ns \in Nat, Rate > 0, Accrue(ns)
  PROVE  /\ tokens' \in 0..Burst /\ token_frac' \in 0..(Second - 1)
         /\ \/ tokens' * Second + token_frac' <= tokens * Second + token_frac + ns * Rate
            \/ tokens' = Burst /\ token_frac' = 0 /\ Burst * Second <= ns * Rate
         /\ Credit' >= LeastOf(Credit + ns * Rate, Burst * Second)
<1>1. /\ Rate \in Nat \ {0} /\ Second \in Nat \ {0} /\ Burst \in Nat /\ WordMax \in Nat
      /\ tokens \in Nat /\ token_frac \in Nat /\ token_frac < Second
      /\ WordMax >= Burst * Second + Second
  BY StreamAssumption DEF TypeOK
<1> DEFINE e == ns * Rate
           c == Burst * Second
<1>2. e \in Nat /\ c \in Nat /\ Credit \in Nat
  <2>1. e \in Nat /\ c \in Nat /\ tokens * Second \in Nat
    BY <1>1, ProductNat
  <2> QED BY <1>1, <2>1 DEF Credit
<1>3. WordMax - Second \in Nat /\ c <= WordMax - Second
  BY <1>1, <1>2
<1>4. (WordMax - Second) \div Rate \in Nat
  BY <1>1, <1>3, DivFloor
<1>5. ns <= (WordMax - Second) \div Rate <=> e <= WordMax - Second
  BY <1>1, <1>3, DivGreatest
<1>6. CASE ns > (WordMax - Second) \div Rate
  <2>1. tokens' = Burst /\ token_frac' = 0
    BY <1>6 DEF Accrue
  <2>2. ~(e <= WordMax - Second)
    BY <1>4, <1>5, <1>6
  <2> HIDE DEF e, c
  <2>3. c <= e
    BY <1>1, <1>2, <1>3, <2>2
  <2>4. Credit' >= LeastOf(Credit + e, c)
    <3>1. Credit + e \in Nat /\ Credit' = c
      BY <1>2, <2>1 DEF Credit, c
    <3> QED BY <1>2, <3>1, LeastBound
  <2> QED BY <1>1, <2>1, <2>3, <2>4 DEF e, c
<1>7. CASE ~(ns > (WordMax - Second) \div Rate)
  <2>1. e <= WordMax - Second
    BY <1>4, <1>5, <1>7
  <2> HIDE DEF e
  <2>2. e \in 0..WordMax /\ token_frac + e \in 0..WordMax
    BY <1>1, <1>2, <1>3, <2>1
  <2>3. Word(token_frac + Word(e)) = token_frac + e
    BY <2>2, WordFits
  <2>4. /\ tokens' = LeastOf(tokens + ((token_frac + e) \div Second), Burst)
        /\ token_frac' = (token_frac + e) % Second
    BY <1>7, <2>3, Zenon DEF Accrue, e
  <2> QED BY <1>1, <1>2, <2>4, WholeTokens DEF e, Credit
<1> QED BY <1>6, <1>7

---------------------------------------------------------------------------
(* Type correctness.                                                       *)

\* Every step of pump keeps the types.
LEMMA PumpType ==
  ASSUME TypeOK, Pump PROVE TypeOK'
<1> USE DEF PumpAt, bucket, history
<1>1. CASE PumpNewFrame
  <2>1. Md("new_frame", 0, 0) \in StreamMD
    BY MdType DEF MdHeaders
  <2>2. buf' \in Seq(StreamMD) /\ Len(buf') <= StageCap /\ buf_pos' \in 0..Len(buf')
    BY <1>1, <2>1, EmitType DEF PumpNewFrame
  <2>3. px_index' \in 0..Hits /\ stage' \in Stages
    BY <1>1, StreamAssumption DEF PumpNewFrame, Stages
  <2> QED BY <1>1, <2>2, <2>3 DEF PumpNewFrame, TypeOK
<1>2. CASE PumpStamp
  <2>1. frame_open \in Nat /\ FrameClose \in Nat
    BY DEF FrameClose, TypeOK
  <2>2. /\ Md("start_lsb", frame_open, 0) \in StreamMD /\ Md("start_msb", 0, 0) \in StreamMD
        /\ Md("end_lsb", FrameClose, 0) \in StreamMD /\ Md("end_msb", 0, 0) \in StreamMD
    BY <2>1, MdType DEF MdHeaders
  <2>3. UNCHANGED buf_pos
    BY <1>2 DEF PumpStamp
  <2>4. buf' \in Seq(StreamMD) /\ Len(buf') <= StageCap /\ buf_pos' \in 0..Len(buf')
    BY <1>2, <2>2, <2>3, EmitType DEF PumpStamp
  <2>5. stage' \in Stages
    BY <1>2 DEF PumpStamp, Stages
  <2> QED BY <1>2, <2>4, <2>5 DEF PumpStamp, TypeOK
<1>3. CASE PumpPixelsDone
  BY <1>3 DEF PumpPixelsDone, Stages, TypeOK
<1>4. CASE PumpOffset
  <2> DEFINE t == HitDue(px_index) - frame_open
  <2>1. t \in Nat
    <3>1. px_index \in Nat
      BY StreamAssumption DEF TypeOK
    <3> QED BY <3>1, HitTime
  <2> HIDE DEF t
  <2>2. Window(t) \in Nat
    BY <2>1, DivFloor, StreamAssumption DEF Window
  <2>3. Md("offset", Window(t), t) \in StreamMD
    BY <2>1, <2>2, MdType DEF MdHeaders
  <2>4. Emit(Md("offset", Window(t), t)) /\ UNCHANGED buf_pos
    BY <1>4 DEF PumpOffset, t
  <2>5. buf' \in Seq(StreamMD) /\ Len(buf') <= StageCap /\ buf_pos' \in 0..Len(buf')
    BY <2>3, <2>4, EmitType
  <2> QED BY <1>4, <2>5 DEF PumpOffset, TypeOK
<1>5. CASE PumpHit
  <2> DEFINE t == HitDue(px_index) - frame_open
  <2>1. t \in Nat
    <3>1. px_index \in Nat
      BY StreamAssumption DEF TypeOK
    <3> QED BY <3>1, HitTime
  <2> HIDE DEF t
  <2>2. t % ToaSpan \in Nat
    BY <2>1, DivFloor, StreamAssumption
  <2>3. Md("px", t % ToaSpan, t) \in StreamMD
    BY <2>1, <2>2, MdType DEF MdHeaders
  <2>4. Emit(Md("px", t % ToaSpan, t)) /\ UNCHANGED buf_pos
    BY <1>5 DEF PumpHit, t
  <2>5. buf' \in Seq(StreamMD) /\ Len(buf') <= StageCap /\ buf_pos' \in 0..Len(buf')
    BY <2>3, <2>4, EmitType
  <2>6. px_index' \in 0..Hits
    BY <1>5, StreamAssumption DEF PumpHit, TypeOK
  <2> QED BY <1>5, <2>5, <2>6 DEF PumpHit, TypeOK
<1>6. CASE PumpLost
  <2>1. Md("lost", Lost, 0) \in StreamMD
    BY MdType, StreamAssumption DEF MdHeaders
  <2>2. buf' \in Seq(StreamMD) /\ Len(buf') <= StageCap /\ buf_pos' \in 0..Len(buf')
    <3>1. CASE Emit(Md("lost", Lost, 0))
      BY <1>6, <2>1, <3>1, EmitType DEF PumpLost
    <3>2. CASE UNCHANGED buf
      BY <1>6, <3>2 DEF PumpLost, TypeOK
    <3> QED BY <1>6, <3>1, <3>2 DEF PumpLost
  <2>3. stage' \in Stages
    BY <1>6 DEF PumpLost, Stages
  <2> QED BY <1>6, <2>2, <2>3 DEF PumpLost, TypeOK
<1>7. CASE PumpFinished
  <2>1. px_index \in Nat /\ frame_open' \in Nat /\ frame_index' \in Nat
    BY <1>7, StreamAssumption DEF PumpFinished, TypeOK
  <2>2. Md("finished", px_index, 0) \in StreamMD
    BY <2>1, MdType DEF MdHeaders
  <2>3. buf' \in Seq(StreamMD) /\ Len(buf') <= StageCap /\ buf_pos' \in 0..Len(buf')
    BY <1>7, <2>2, EmitType DEF PumpFinished
  <2>4. stage' \in Stages /\ armed' \in BOOLEAN
    BY <1>7 DEF PumpFinished, Stages, TypeOK
  <2> QED BY <1>7, <2>1, <2>3, <2>4 DEF PumpFinished, TypeOK
<1> QED
  BY <1>1, <1>2, <1>3, <1>4, <1>5, <1>6, <1>7 DEF Pump

\* pump keeps the types when it is entered.
LEMMA EnterType ==
  ASSUME TypeOK, PumpEnter
  PROVE  buf' \in Seq(StreamMD) /\ Len(buf') <= StageCap /\ buf_pos' \in 0..Len(buf')
<1>1. CASE buf' = <<>> /\ buf_pos' = 0
  <2>1. buf' \in Seq(StreamMD) /\ Len(buf') = 0
    BY <1>1, EmptySeq
  <2> QED BY <1>1, <2>1, StreamAssumption
<1>2. CASE UNCHANGED staging
  BY <1>2 DEF staging, TypeOK
<1> QED
  BY <1>1, <1>2 DEF PumpEnter

\* data_out keeps the types when it returns.
LEMMA DataOutType ==
  ASSUME TypeOK, NEW cap \in Caps, DataOutReturn(cap) PROVE TypeOK'
<1> DEFINE n == CopyCount(cap)
<1>1. n \in 0..(Len(buf) - buf_pos) /\ n * MdSize \in Nat /\ (Rate > 0 => n * MdSize <= tokens)
  <2>1. cap \in Nat
    BY StreamAssumption
  <2> QED BY <2>1, CopyBound
<1>2. /\ out' = out \o SubSeq(buf, buf_pos + 1, buf_pos + n) /\ buf_pos' = buf_pos + n
      /\ tokens' = IF Rate > 0 THEN tokens - n * MdSize ELSE tokens
      /\ sent' = sent + n * MdSize /\ call' = "none"
      /\ UNCHANGED <<now, stream, buf, token_frac, arms>>
  BY DEF DataOutReturn
<1> HIDE DEF n
<1>3. /\ buf \in Seq(StreamMD) /\ Len(buf) \in Nat /\ buf_pos \in 0..Len(buf)
      /\ out \in Seq(StreamMD) /\ tokens \in 0..Burst /\ sent \in Nat /\ Burst \in Nat
  BY LenProperties, StreamAssumption DEF TypeOK
<1>4. SubSeq(buf, buf_pos + 1, buf_pos + n) \in Seq(StreamMD)
  <2>1. \A i \in (buf_pos + 1)..(buf_pos + n) : buf[i] \in StreamMD
    BY <1>1, <1>3, ElementOfSeq
  <2> QED BY <1>1, <1>3, <2>1, SubSeqProperties
<1>5. out' \in Seq(StreamMD)
  BY <1>2, <1>3, <1>4, ConcatProperties
<1>6. buf_pos' \in 0..Len(buf')
  BY <1>1, <1>2, <1>3
<1> DEFINE taken == n * MdSize
<1>7. taken \in Nat /\ (Rate > 0 => taken <= tokens) /\ sent' = sent + taken
      /\ tokens' = IF Rate > 0 THEN tokens - taken ELSE tokens
  BY <1>1, <1>2
<1> HIDE DEF taken
<1>8. tokens' \in 0..Burst /\ sent' \in Nat
  BY <1>3, <1>7
<1> QED BY <1>2, <1>5, <1>6, <1>8 DEF stream, TypeOK

\* Every step keeps the types.
LEMMA TypeStep ==
  ASSUME TypeOK, [Next]_vars PROVE TypeOK'
<1>1. CASE Start
  <2>1. PICK mode \in Modes, n \in FrameCounts, len \in FrameLens : Arm(mode, n, len)
    BY <1>1 DEF Start
  <2>2. n \in Nat /\ len \in Nat
    BY StreamAssumption
  <2>3. armed' \in BOOLEAN /\ stage' \in Stages
    BY <2>1 DEF Arm, Stages
  <2>4. /\ buf' \in Seq(StreamMD) /\ Len(buf') <= StageCap /\ buf_pos' \in 0..Len(buf')
        /\ out' \in Seq(StreamMD) /\ px_index' \in 0..Hits
    BY <2>1, StreamAssumption DEF Arm
  <2>5. frame_active' \in BOOLEAN /\ offset_sent' \in BOOLEAN
    BY <2>1 DEF Arm
  <2>6. /\ readout_mode' \in Modes /\ frames_total' \in Nat /\ frame_len' \in Nat
        /\ frame_index' \in Nat /\ frame_open' \in Nat /\ arms' \in Nat
    BY <2>1, <2>2 DEF Arm, TypeOK
  <2>7. UNCHANGED <<now, call, tokens, token_frac, sent>>
    BY <2>1 DEF Arm, bucket
  <2> QED BY <2>3, <2>4, <2>5, <2>6, <2>7 DEF TypeOK
<1>2. CASE StopCall \/ DataOutCall
  <2>1. buf' \in Seq(StreamMD) /\ Len(buf') <= StageCap /\ buf_pos' \in 0..Len(buf')
    BY <1>2, EnterType DEF StopCall, DataOutCall
  <2>2. call' \in {"none", "stop", "data_out"}
    BY <1>2 DEF StopCall, DataOutCall
  <2> QED BY <1>2, <2>1, <2>2 DEF StopCall, DataOutCall, stream, bucket, history, TypeOK
<1>3. CASE StopReturn
  <2>1. Md("aborted", 0, 0) \in StreamMD
    BY MdType DEF MdHeaders
  <2>2. buf' \in Seq(StreamMD) /\ Len(buf') <= StageCap /\ buf_pos' \in 0..Len(buf')
    <3>1. CASE Emit(Md("aborted", 0, 0))
      BY <1>3, <2>1, <3>1, EmitType DEF StopReturn
    <3>2. CASE UNCHANGED buf
      BY <1>3, <3>2 DEF StopReturn, TypeOK
    <3> QED BY <1>3, <3>1, <3>2 DEF StopReturn
  <2>3. stage' \in Stages
    BY <1>3 DEF StopReturn, Stages
  <2> QED BY <1>3, <2>2, <2>3 DEF StopReturn, bucket, history, TypeOK
<1>4. ASSUME NEW cap \in Caps, DataOutReturn(cap) PROVE TypeOK'
  BY <1>4, DataOutType
<1>5. CASE Pump
  BY <1>5, PumpType
<1>6. CASE Tick
  <2>1. PICK ns \in Steps : Advance(ns)
    BY <1>6 DEF Tick
  <2>2. ns \in Nat
    BY StreamAssumption
  <2>3. tokens' \in 0..Burst /\ token_frac' \in 0..(Second - 1)
    <3>1. CASE Rate > 0
      BY <2>1, <2>2, <3>1, AccrueExact DEF Advance
    <3>2. CASE ~(Rate > 0)
      BY <2>1, <3>2 DEF Advance, bucket, TypeOK
    <3> QED BY <3>1, <3>2
  <2> QED BY <2>1, <2>2, <2>3 DEF Advance, stream, staging, history, TypeOK
<1>7. CASE UNCHANGED vars
  BY <1>7 DEF vars, stream, staging, bucket, history, TypeOK
<1> QED
  BY <1>1, <1>2, <1>3, <1>4, <1>5, <1>6, <1>7 DEF Next, Stop, DataOut

\* The generator's variables keep their C types, the staging buffer never
\* overflows and the token bucket never underflows or exceeds the burst
\* (TypeOK).
THEOREM StreamTypeCorrect == Spec => []TypeOK
<1>1. Init => TypeOK
  <2> SUFFICES ASSUME Init PROVE TypeOK
    OBVIOUS
  <2>1. buf \in Seq(StreamMD) /\ out \in Seq(StreamMD) /\ Len(buf) = 0
    BY DEF Init
  <2>2. stage \in Stages /\ armed \in BOOLEAN /\ frame_active \in BOOLEAN /\ offset_sent \in BOOLEAN
    BY DEF Init, Stages
  <2> QED BY <2>1, <2>2, StreamAssumption DEF Init, TypeOK
<1> QED
  BY <1>1, TypeStep, PTL DEF Spec

---------------------------------------------------------------------------
(* Rate shaping.                                                           *)

\* What was handed over and what is still in the bucket were both earned.
CreditInv ==
  Rate > 0 => sent * Second + tokens * Second + token_frac <= Rate * now

\* The sum behind a clock step: s bytes sent, credit b + f before the step and
\* c + g after it, an allowance of w, and e earned.
LEMMA EarnedSum ==
  ASSUME NEW s \in Nat, NEW b \in Nat, NEW f \in Nat, NEW c \in Nat, NEW g \in Nat,
         NEW w \in Nat, NEW e \in Nat,
         s + b + f <= w, c + g <= b + f + e \/ c + g <= e
  PROVE  s + c + g <= w + e
OBVIOUS

\* Every step keeps CreditInv.
LEMMA CreditStep ==
  ASSUME TypeOK, CreditInv, [Next]_vars PROVE CreditInv'
<1> SUFFICES ASSUME Rate > 0 PROVE CreditInv'
  BY DEF CreditInv
<1>1. /\ Rate \in Nat /\ Second \in Nat /\ Burst \in Nat /\ MdSize \in Nat /\ now \in Nat
      /\ sent \in Nat /\ tokens \in Nat /\ token_frac \in Nat
      /\ sent * Second + tokens * Second + token_frac <= Rate * now
  BY StreamAssumption DEF TypeOK, CreditInv
<1>2. sent * Second \in Nat /\ tokens * Second \in Nat /\ Rate * now \in Nat
  BY <1>1, ProductNat
<1>3. ASSUME UNCHANGED <<now, sent, bucket>> PROVE CreditInv'
  BY <1>3 DEF CreditInv, bucket
<1>4. ASSUME NEW cap \in Caps, DataOutReturn(cap) PROVE CreditInv'
  <2> DEFINE taken == CopyCount(cap) * MdSize
  <2>1. taken \in Nat /\ taken <= tokens
    <3>1. cap \in Nat
      BY StreamAssumption
    <3> QED BY <3>1, CopyBound
  <2>2. /\ sent' = sent + taken /\ tokens' = tokens - taken
        /\ now' = now /\ token_frac' = token_frac
    BY <1>4 DEF DataOutReturn
  <2> HIDE DEF taken
  <2>3. sent' * Second = sent * Second + taken * Second
    BY <1>1, <2>1, <2>2, Distribute
  <2>4. tokens * Second = tokens' * Second + taken * Second
    <3>1. tokens' \in Nat /\ tokens = tokens' + taken
      BY <1>1, <2>1, <2>2
    <3>2. (tokens' + taken) * Second = tokens' * Second + taken * Second
      BY <1>1, <2>1, <3>1, Distribute
    <3> QED BY <3>1, <3>2
  <2>5. taken * Second \in Nat /\ tokens' * Second \in Nat
    <3>1. tokens' \in Nat
      BY <1>1, <2>1, <2>2
    <3> QED BY <1>1, <2>1, <3>1, ProductNat
  <2>6. sent' * Second + tokens' * Second + token_frac' <= Rate * now'
    BY <1>1, <1>2, <2>2, <2>3, <2>4, <2>5
  <2> QED BY <2>6 DEF CreditInv
<1>5. CASE Tick
  <2>1. PICK ns \in Steps : Advance(ns)
    BY <1>5 DEF Tick
  <2>2. ns \in Nat
    BY StreamAssumption
  <2>3. now' = now + ns /\ sent' = sent /\ Accrue(ns)
    BY <2>1 DEF Advance, history
  <2> DEFINE earned == ns * Rate
  <2>4. /\ earned \in Nat /\ tokens' \in Nat /\ token_frac' \in Nat
        /\ \/ tokens' * Second + token_frac' <= tokens * Second + token_frac + earned
           \/ tokens' = Burst /\ token_frac' = 0 /\ Burst * Second <= earned
    BY <1>1, <2>2, <2>3, AccrueExact, ProductNat
  <2> HIDE DEF earned
  <2>5. Rate * now' = Rate * now + earned
    <3>1. (now + ns) * Rate = now * Rate + ns * Rate
      BY <1>1, <2>2, Distribute
    <3>2. Rate * (now + ns) = (now + ns) * Rate /\ Rate * now = now * Rate
      BY <1>1, <2>2
    <3> QED BY <2>3, <3>1, <3>2 DEF earned
  <2>6. tokens' * Second \in Nat
    BY <1>1, <2>4, ProductNat
  <2>7. tokens' * Second + token_frac' <= tokens * Second + token_frac + earned
        \/ tokens' * Second + token_frac' <= earned
    BY <2>4, <2>6
  <2>8. sent' * Second = sent * Second
    BY <2>3
  <2>9. sent' * Second + tokens' * Second + token_frac' <= Rate * now + earned
    BY <1>1, <1>2, <2>4, <2>6, <2>7, <2>8, EarnedSum
  <2> QED BY <2>5, <2>9 DEF CreditInv
<1>6. CASE Start \/ StopCall \/ DataOutCall \/ StopReturn \/ Pump \/ UNCHANGED vars
  <2>1. UNCHANGED <<now, sent, bucket>>
    BY <1>6 DEF Start, Arm, StopCall, DataOutCall, StopReturn, Pump, PumpNewFrame, PumpStamp,
         PumpPixelsDone, PumpOffset, PumpHit, PumpLost, PumpFinished, PumpAt, vars, history
  <2> QED BY <1>3, <2>1
<1> QED
  BY <1>4, <1>5, <1>6 DEF Next, Stop, DataOut

\* For every rate, burst, word size and capacity, and however the clock is
\* advanced: no more is handed over than the rate allows for the virtual time
\* that has passed (RateRespected).
THEOREM ShapingSound == Spec => []RateRespected
<1>1. Init => CreditInv
  BY StreamAssumption DEF Init, CreditInv
<1>2. TypeOK /\ CreditInv => RateRespected
  <2> SUFFICES ASSUME TypeOK, CreditInv, Rate > 0 PROVE sent * Second <= Rate * now
    BY DEF RateRespected
  <2>1. /\ Rate \in Nat /\ Second \in Nat /\ now \in Nat /\ sent \in Nat
        /\ tokens \in Nat /\ token_frac \in Nat
    BY StreamAssumption DEF TypeOK
  <2>2. sent * Second \in Nat /\ tokens * Second \in Nat /\ Rate * now \in Nat
    BY <2>1, ProductNat
  <2> QED BY <2>1, <2>2 DEF CreditInv
<1> QED
  BY <1>1, <1>2, StreamTypeCorrect, CreditStep, PTL DEF Spec

\* A step of the clock earns the credit of the rate, up to the burst.
LEMMA CreditEarned ==
  ASSUME TypeOK, [Next]_vars, now' > now, Rate > 0
  PROVE  Credit' >= LeastOf(Credit + (now' - now) * Rate, Burst * Second)
<1>1. now \in Nat
  BY DEF TypeOK
<1>2. CASE Tick
  <2>1. PICK ns \in Steps : Advance(ns)
    BY <1>2 DEF Tick
  <2>2. ns \in Nat /\ now' - now = ns
    BY <1>1, <2>1, StreamAssumption DEF Advance
  <2>3. Accrue(ns)
    BY <2>1 DEF Advance
  <2> QED BY <2>2, <2>3, AccrueExact
<1>3. CASE UNCHANGED now
  BY <1>1, <1>3
<1> QED
  BY <1>2, <1>3 DEF Next, Start, Arm, Stop, StopCall, StopReturn, DataOut, DataOutCall,
    DataOutReturn, Pump, PumpNewFrame, PumpStamp, PumpPixelsDone, PumpOffset, PumpHit,
    PumpLost, PumpFinished, PumpAt, vars

\* Shaping withholds nothing: for every step of the clock, also one whose
\* product with the rate does not fit a machine word, all the credit of the
\* rate is earned up to the burst, fractions of a token included
\* (CreditAccrues).
THEOREM ShapingLive == Spec => CreditAccrues
<1>1. TypeOK /\ [Next]_vars =>
        [now' > now /\ Rate > 0 =>
           Credit' >= LeastOf(Credit + (now' - now) * Rate, Burst * Second)]_vars
  BY CreditEarned
<1> QED
  BY <1>1, StreamTypeCorrect, PTL DEF Spec, CreditAccrues
---------------------------------------------------------------------------
(* The stream of an acquisition, by the stage pump is in.                  *)

\* The datum generated last.
Newest == Generated[Len(Generated)]

\* pump waits for the next frame to open.
BetweenFrames ==
  /\ ~frame_active
  /\ frame_index = 0 => Generated = <<>>
  /\ frame_index > 0 =>
       /\ Generated # <<>> /\ Newest.hdr = "finished"
       /\ Newest.tag = <<arms, frame_index - 1>>

\* pump is inside of a frame.
InsideFrame ==
  /\ frame_active /\ Generated # <<>> /\ Newest.tag = <<arms, frame_index>>
  /\ stage \in {"start_lsb", "start_msb"} => ~offset_sent
  /\ stage = "start_lsb" => Newest.hdr = "new_frame"
  /\ stage = "start_msb" => Newest.hdr = "start_lsb"
  /\ stage = "pixels" =>
       /\ Newest.hdr \in {"start_msb", "offset", "px"}
       /\ offset_sent <=> Newest.hdr = "offset"
       /\ offset_sent => px_index < Hits
  /\ stage = "end_lsb" => Newest.hdr \in {"start_msb", "px"}
  /\ stage = "end_msb" => Newest.hdr = "end_lsb"
  /\ stage = "lost" => Newest.hdr = "end_msb"
  /\ stage = "finished" => Newest.hdr \in {"end_msb", "lost"}

StageInv ==
  armed => /\ stage # "idle"
           /\ IF stage = "new_frame" THEN BetweenFrames ELSE InsideFrame

\* A datum of frame k of the acquisition.
OfFrame(j, k) == Generated[j].tag = <<arms, k>>

\* Nothing was generated yet of the frame that pump waits for.
TagsInv ==
  armed => \A j \in 1..Len(Generated) : \E k \in 0..frame_index :
             OfFrame(j, k) /\ (stage = "new_frame" => k < frame_index)

FrameHits == {j \in 1..Len(Generated) : Generated[j].hdr = "px" /\ OfFrame(j, frame_index)}

\* The hit counter of pump counts the hits generated of the frame.
CountInv == armed /\ stage # "new_frame" => px_index = Cardinality(FrameHits)

\* The datum that a decoder takes the window from, for the data after i.
Mark(m, i) ==
  /\ m \in 1..i /\ Generated[m].hdr \in {"offset", "new_frame"}
  /\ \A k \in 1..i : Generated[k].hdr \in {"offset", "new_frame"} => k <= m

\* That window has begun when any hit to come happens.
MarkInv ==
  armed /\ stage # "new_frame" =>
    \E m \in 1..Len(Generated) :
      /\ Mark(m, Len(Generated))
      /\ \A k \in Nat : k >= px_index => Generated[m].v <= Window(HitDue(k) - frame_open)

\* Data of a frame, and what pump has generated of it in a stage, at most.
FrameData == 7 + 2 * Hits

Begun ==
  CASE stage = "start_lsb" -> 1
    [] stage = "start_msb" -> 2
    [] stage = "pixels" -> 3 + 2 * px_index + IF offset_sent THEN 1 ELSE 0
    [] stage = "end_lsb" -> 3 + 2 * Hits
    [] stage = "end_msb" -> 4 + 2 * Hits
    [] stage = "lost" -> 5 + 2 * Hits
    [] stage = "finished" -> 6 + 2 * Hits
    [] OTHER -> 0

\* Frames are left to do, and what was generated are those that are done and
\* what has begun.
LengthInv ==
  /\ buf_pos <= Len(out)
  /\ armed => /\ frames_total \in FrameCounts /\ frame_index < frames_total
              /\ Len(Generated) <= frame_index * FrameData + Begun

\* An acquisition that is over has closed or aborted its last frame.
OverInv == ~armed /\ Generated # <<>> => Newest.hdr \in {"finished", "aborted"}

\* The staging buffer holds a whole acquisition.
StageHoldsAll == \A n \in FrameCounts : n * FrameData <= StageCap
---------------------------------------------------------------------------
(* What the steps do to the data of the acquisition.                       *)

\* The data of an acquisition are data.
LEMMA GeneratedType ==
  ASSUME TypeOK
  PROVE  /\ Generated \in Seq(StreamMD) /\ Len(Generated) \in Nat
         /\ Len(Generated) = Len(out) + (Len(buf) - buf_pos)
         /\ \A j \in 1..Len(Generated) : Generated[j] \in StreamMD
<1>1. /\ out \in Seq(StreamMD) /\ buf \in Seq(StreamMD) /\ Len(out) \in Nat
      /\ Len(buf) \in Nat /\ buf_pos \in 0..Len(buf)
  BY LenProperties DEF TypeOK
<1> DEFINE rest == SubSeq(buf, buf_pos + 1, Len(buf))
<1>2. rest \in Seq(StreamMD) /\ Len(rest) = Len(buf) - buf_pos
  <2>1. \A i \in (buf_pos + 1)..Len(buf) : buf[i] \in StreamMD
    BY <1>1, ElementOfSeq
  <2> QED BY <1>1, <2>1, SubSeqProperties
<1>3. Generated = out \o rest
  BY DEF Generated
<1> HIDE DEF rest
<1>4. out \o rest \in Seq(StreamMD) /\ Len(out \o rest) = Len(out) + Len(rest)
  BY <1>1, <1>2, ConcatProperties
<1>5. Generated \in Seq(StreamMD) /\ Len(Generated) = Len(out) + (Len(buf) - buf_pos)
  BY <1>2, <1>3, <1>4
<1> QED
  BY <1>5, LenProperties, ElementOfSeq

\* A datum is added to them.
Grown(md) ==
  /\ Generated' = Append(Generated, md)
  /\ Generated' \in Seq(StreamMD) /\ Len(Generated') = Len(Generated) + 1
  /\ \A j \in 1..Len(Generated) : Generated'[j] = Generated[j]
  /\ Generated'[Len(Generated) + 1] = md

\* What is emitted into a staging buffer with room is added.
LEMMA EmitGrows ==
  ASSUME TypeOK, NEW md \in StreamMD, HasRoom, Emit(md), UNCHANGED <<out, buf_pos>>
  PROVE  Grown(md)
<1>1. /\ out \in Seq(StreamMD) /\ buf \in Seq(StreamMD) /\ Len(out) \in Nat
      /\ Len(buf) \in Nat /\ buf_pos \in 0..Len(buf)
  BY LenProperties DEF TypeOK
<1> DEFINE rest == SubSeq(buf, buf_pos + 1, Len(buf))
           more == SubSeq(Append(buf, md), buf_pos + 1, Len(buf) + 1)
<1>2. /\ Append(buf, md) \in Seq(StreamMD) /\ Len(Append(buf, md)) = Len(buf) + 1
      /\ \A i \in 1..Len(buf) : Append(buf, md)[i] = buf[i]
      /\ Append(buf, md)[Len(buf) + 1] = md
  BY <1>1, AppendProperties
<1>3. /\ rest \in Seq(StreamMD) /\ Len(rest) = Len(buf) - buf_pos
      /\ \A i \in 1..(Len(buf) - buf_pos) : rest[i] = buf[buf_pos + i]
  <2>1. \A i \in (buf_pos + 1)..Len(buf) : buf[i] \in StreamMD
    BY <1>1, ElementOfSeq
  <2>2. /\ rest \in Seq(StreamMD) /\ Len(rest) = Len(buf) - buf_pos
        /\ \A i \in 1..(Len(buf) - (buf_pos + 1) + 1) : rest[i] = buf[(buf_pos + 1) + i - 1]
    BY <1>1, <2>1, SubSeqProperties
  <2> QED BY <1>1, <2>2
<1>4. /\ more \in Seq(StreamMD) /\ Len(more) = Len(buf) + 1 - buf_pos
      /\ \A i \in 1..(Len(buf) + 1 - buf_pos) : more[i] = Append(buf, md)[buf_pos + i]
  <2> DEFINE b == Append(buf, md)
  <2> HIDE DEF b
  <2>1. \A i \in (buf_pos + 1)..(Len(buf) + 1) : b[i] \in StreamMD
    BY <1>1, <1>2, ElementOfSeq DEF b
  <2>2. /\ SubSeq(b, buf_pos + 1, Len(buf) + 1) \in Seq(StreamMD)
        /\ Len(SubSeq(b, buf_pos + 1, Len(buf) + 1)) = Len(buf) + 1 - buf_pos
        /\ \A i \in 1..((Len(buf) + 1) - (buf_pos + 1) + 1) :
             SubSeq(b, buf_pos + 1, Len(buf) + 1)[i] = b[(buf_pos + 1) + i - 1]
    BY <1>1, <2>1, SubSeqProperties
  <2> QED BY <1>1, <2>2 DEF b
<1>5. more = Append(rest, md)
  <2> HIDE DEF rest, more
  <2>1. /\ Append(rest, md) \in Seq(StreamMD) /\ Len(Append(rest, md)) = Len(rest) + 1
        /\ \A i \in 1..Len(rest) : Append(rest, md)[i] = rest[i]
        /\ Append(rest, md)[Len(rest) + 1] = md
    BY <1>3, AppendProperties
  <2>2. ASSUME NEW i \in 1..Len(more) PROVE more[i] = Append(rest, md)[i]
    <3>1. CASE i <= Len(rest)
      <4>1. i \in 1..Len(rest) /\ buf_pos + i \in 1..Len(buf)
        BY <1>1, <1>3, <1>4, <2>2, <3>1
      <4> QED BY <1>1, <1>2, <1>3, <1>4, <2>1, <4>1
    <3>2. CASE i = Len(rest) + 1
      <4>1. buf_pos + i = Len(buf) + 1
        BY <1>1, <1>3, <3>2
      <4> QED BY <1>2, <1>4, <2>1, <2>2, <3>2, <4>1
    <3> QED BY <1>1, <1>3, <1>4, <2>2, <3>1, <3>2
  <2>3. Len(more) = Len(Append(rest, md))
    BY <1>1, <1>3, <1>4, <2>1
  <2> QED BY <1>4, <2>1, <2>2, <2>3, SeqEqual
<1>6. Generated = out \o rest /\ Generated' = out \o more
  <2>1. buf' = Append(buf, md)
    BY DEF Emit
  <2> QED BY <1>2, <2>1 DEF Generated
<1> HIDE DEF rest, more
<1>7. <<md>> \in Seq(StreamMD)
  OBVIOUS
<1>8. Append(rest, md) = rest \o <<md>> /\ (out \o rest) \o <<md>> = out \o (rest \o <<md>>)
  <2>1. Append(rest, md) = rest \o <<md>>
    BY <1>3, AppendIsConcat
  <2>2. (out \o rest) \o <<md>> = out \o (rest \o <<md>>)
    <3>1. out \in Seq(StreamMD) /\ rest \in Seq(StreamMD)
      BY <1>1, <1>3
    <3> QED BY ONLY <1>7, <3>1, ConcatAssociative
  <2> QED BY <2>1, <2>2
<1>9. out \o rest \in Seq(StreamMD)
  BY <1>1, <1>3, ConcatProperties
<1>10. Generated' = Append(Generated, md) /\ Generated \in Seq(StreamMD)
  BY <1>5, <1>6, <1>8, <1>9, AppendIsConcat
<1> QED
  BY <1>10, AppendProperties DEF Grown

\* Entering pump drops what was handed over only.
LEMMA EnterKeeps ==
  ASSUME TypeOK, PumpEnter, UNCHANGED out PROVE Generated' = Generated
<1>1. CASE buf_pos = Len(buf) /\ buf' = <<>> /\ buf_pos' = 0
  <2>1. Len(buf) \in Nat
    BY LenProperties DEF TypeOK
  <2>2. SubSeq(buf, buf_pos + 1, Len(buf)) = <<>> /\ SubSeq(buf', buf_pos' + 1, Len(buf')) = <<>>
    <3>1. Len(buf') = 0
      BY <1>1
    <3> QED BY <1>1, <2>1, <3>1, SubSeqEmpty
  <2> QED BY <2>2 DEF Generated
<1>2. CASE UNCHANGED staging
  BY <1>2 DEF staging, Generated
<1> QED
  BY <1>1, <1>2 DEF PumpEnter

\* data_out hands data over in their order, without a gap.
LEMMA HandOverKeeps ==
  ASSUME TypeOK, NEW cap \in Caps, DataOutReturn(cap)
  PROVE  /\ Generated' = Generated /\ UNCHANGED <<stream, arms>>
         /\ Len(out') - buf_pos' = Len(out) - buf_pos
<1> DEFINE n == CopyCount(cap)
<1>1. n \in 0..(Len(buf) - buf_pos)
  <2>1. cap \in Nat
    BY StreamAssumption
  <2> QED BY <2>1, CopyBound
<1>2. /\ out' = out \o SubSeq(buf, buf_pos + 1, buf_pos + n)
      /\ buf_pos' = buf_pos + n /\ buf' = buf /\ UNCHANGED <<stream, arms>>
  BY DEF DataOutReturn
<1> HIDE DEF n
<1>3. /\ out \in Seq(StreamMD) /\ buf \in Seq(StreamMD) /\ Len(out) \in Nat
      /\ Len(buf) \in Nat /\ buf_pos \in 0..Len(buf)
  BY LenProperties DEF TypeOK
<1> DEFINE first == SubSeq(buf, buf_pos + 1, buf_pos + n)
           second == SubSeq(buf, (buf_pos + n) + 1, Len(buf))
<1>4. first \in Seq(StreamMD) /\ second \in Seq(StreamMD) /\ Len(first) = n
  <2>1. /\ \A i \in (buf_pos + 1)..(buf_pos + n) : buf[i] \in StreamMD
        /\ \A i \in ((buf_pos + n) + 1)..Len(buf) : buf[i] \in StreamMD
    BY <1>1, <1>3, ElementOfSeq
  <2>2. first \in Seq(StreamMD) /\ Len(first) = n
    BY <1>1, <1>3, <2>1, SubSeqProperties
  <2>3. second \in Seq(StreamMD)
    BY <1>1, <1>3, <2>1, SubSeqProperties
  <2> QED BY <2>2, <2>3
<1>5. first \o second = SubSeq(buf, buf_pos + 1, Len(buf))
  <2>1. /\ buf_pos + 1 \in 1..(Len(buf) + 1) /\ Len(buf) \in (buf_pos + n)..Len(buf)
        /\ buf_pos + n \in ((buf_pos + 1) - 1)..Len(buf)
    BY <1>1, <1>3
  <2> QED BY <1>3, <2>1, ConcatAdjacentSubSeq
<1>6. Generated' = (out \o first) \o second /\ Generated = out \o (first \o second)
  BY <1>2, <1>5 DEF Generated
<1> HIDE DEF first, second
<1>7. Len(out') = Len(out) + n
  BY <1>2, <1>3, <1>4, ConcatProperties DEF first
<1>8. Len(out') - buf_pos' = Len(out) - buf_pos
  BY <1>1, <1>2, <1>3, <1>7
<1>9. (out \o first) \o second = out \o (first \o second)
  <2> HIDE DEF first, second
  <2>1. out \in Seq(StreamMD) /\ first \in Seq(StreamMD) /\ second \in Seq(StreamMD)
    BY <1>3, <1>4
  <2> QED BY ONLY <2>1, ConcatAssociative
<1> QED
  BY <1>2, <1>6, <1>8, <1>9

\* The datum a step of pump generates.
Emits(md) ==
  /\ md \in StreamMD /\ md.tag = <<arms, frame_index>>
  /\ \/ PumpNewFrame /\ md.hdr = "new_frame" /\ md.v = 0
     \/ PumpStamp /\ md.hdr = stage
     \/ PumpOffset /\ md.hdr = "offset" /\ md.v = Window(HitDue(px_index) - frame_open)
     \/ /\ PumpHit /\ md.hdr = "px" /\ md.time = HitDue(px_index) - frame_open
        /\ md.v = md.time % ToaSpan
     \/ PumpLost /\ md.hdr = "lost"
     \/ PumpFinished /\ md.hdr = "finished" /\ md.v = px_index

\* A step of pump adds its datum to the acquisition, or adds nothing.
LEMMA PumpGrows ==
  ASSUME TypeOK, Pump
  PROVE  /\ armed /\ HasRoom /\ UNCHANGED <<out, arms, buf_pos>>
         /\ \/ \E md \in StreamMD : Emits(md) /\ Grown(md)
            \/ (PumpPixelsDone \/ PumpLost) /\ Generated' = Generated
<1>1. armed /\ HasRoom /\ UNCHANGED <<out, arms, buf_pos>>
  BY DEF Pump, PumpNewFrame, PumpStamp, PumpPixelsDone, PumpOffset, PumpHit, PumpLost,
         PumpFinished, PumpAt, PumpGoesOn, history
<1>2. ASSUME NEW h \in MdHeaders, NEW v \in Nat, NEW t \in Nat, Emit(Md(h, v, t))
      PROVE  /\ Md(h, v, t) \in StreamMD /\ Grown(Md(h, v, t))
             /\ Md(h, v, t).hdr = h /\ Md(h, v, t).v = v /\ Md(h, v, t).time = t
             /\ Md(h, v, t).tag = <<arms, frame_index>>
  <2>1. Md(h, v, t) \in StreamMD
    BY MdType
  <2> QED BY <1>1, <1>2, <2>1, EmitGrows DEF Md
<1>3. CASE UNCHANGED buf /\ (PumpPixelsDone \/ PumpLost)
  BY <1>1, <1>3 DEF Generated
<1>4. CASE PumpNewFrame
  <2>1. Emit(Md("new_frame", 0, 0)) /\ "new_frame" \in MdHeaders
    BY <1>4 DEF PumpNewFrame, MdHeaders
  <2>2. Emits(Md("new_frame", 0, 0))
    BY <1>2, <1>4, <2>1 DEF Emits
  <2> QED BY <1>1, <1>2, <2>1, <2>2
<1>5. CASE PumpStamp
  <2>1. frame_open \in Nat /\ FrameClose \in Nat
    BY DEF FrameClose, TypeOK
  <2>2. PICK v \in Nat : stage \in MdHeaders /\ Emit(Md(stage, v, 0))
    BY <1>5, <2>1 DEF PumpStamp, PumpAt, MdHeaders
  <2>3. Emits(Md(stage, v, 0))
    BY <1>2, <1>5, <2>2 DEF Emits
  <2> QED BY <1>1, <1>2, <2>2, <2>3
<1>6. CASE PumpOffset \/ PumpHit
  <2>1. px_index \in Nat
    BY StreamAssumption DEF TypeOK
  <2>2. PICK t \in Nat : t = HitDue(px_index) - frame_open
    BY <2>1, HitTime
  <2>3. Window(t) \in Nat /\ t % ToaSpan \in Nat
    BY DivFloor, StreamAssumption DEF Window
  <2>4. CASE PumpOffset
    <3>1. Emit(Md("offset", Window(t), t)) /\ "offset" \in MdHeaders
      BY <2>2, <2>4 DEF PumpOffset, MdHeaders
    <3>2. Emits(Md("offset", Window(t), t))
      BY <1>2, <2>2, <2>3, <2>4, <3>1 DEF Emits
    <3> QED BY <1>1, <1>2, <2>3, <3>1, <3>2
  <2>5. CASE PumpHit
    <3>1. Emit(Md("px", t % ToaSpan, t)) /\ "px" \in MdHeaders
      BY <2>2, <2>5 DEF PumpHit, MdHeaders
    <3>2. Emits(Md("px", t % ToaSpan, t))
      BY <1>2, <2>2, <2>3, <2>5, <3>1 DEF Emits
    <3> QED BY <1>1, <1>2, <2>3, <3>1, <3>2
  <2> QED BY <1>6, <2>4, <2>5
<1>7. CASE PumpLost /\ Lost > 0
  <2>1. Emit(Md("lost", Lost, 0)) /\ "lost" \in MdHeaders /\ Lost \in Nat
    BY <1>7, StreamAssumption DEF PumpLost, MdHeaders
  <2>2. Emits(Md("lost", Lost, 0))
    BY <1>2, <1>7, <2>1 DEF Emits
  <2> QED BY <1>1, <1>2, <2>1, <2>2
<1>8. CASE PumpFinished
  <2>1. Emit(Md("finished", px_index, 0)) /\ "finished" \in MdHeaders /\ px_index \in Nat
    BY <1>8, StreamAssumption DEF PumpFinished, MdHeaders, TypeOK
  <2>2. PICK md \in StreamMD : /\ Grown(md) /\ md.hdr = "finished" /\ md.v = px_index
                               /\ md.tag = <<arms, frame_index>>
    BY <1>2, <2>1
  <2>3. Emits(md)
    BY <1>8, <2>2 DEF Emits
  <2> QED BY <1>1, <2>2, <2>3
<1>9. CASE PumpPixelsDone
  <2>1. UNCHANGED buf
    BY <1>9 DEF PumpPixelsDone
  <2> QED BY <1>3, <1>9, <2>1
<1>10. CASE PumpLost
  <2>1. Lost > 0 \/ UNCHANGED buf
    BY <1>10 DEF PumpLost
  <2> QED BY <1>3, <1>7, <1>10, <2>1
<1> QED
  <2>1. \/ PumpNewFrame \/ PumpStamp \/ PumpPixelsDone \/ (PumpOffset \/ PumpHit)
        \/ PumpLost \/ PumpFinished
    BY DEF Pump
  <2> QED BY <1>4, <1>5, <1>6, <1>8, <1>9, <1>10, <2>1

\* A stop that finds a frame open ends it, where the staging buffer has room.
Aborts(md) ==
  /\ StopReturn /\ FrameLeftOpen
  /\ md \in StreamMD /\ md.hdr = "aborted" /\ md.tag = <<arms, frame_index>>

\* Nothing was generated yet.
LEMMA StreamStarts ==
  ASSUME Init PROVE Generated = <<>> /\ Len(Generated) = 0
<1>1. SubSeq(buf, buf_pos + 1, Len(buf)) = <<>> /\ out = <<>>
  BY SubSeqEmpty DEF Init
<1>2. <<>> \o <<>> = <<>>
  BY ConcatEmptySeq, EmptySeq
<1>3. Generated = <<>>
  BY <1>1, <1>2 DEF Generated
<1> QED BY <1>3, EmptySeq

\* What a step does to the data of the acquisition.
LEMMA StreamStep ==
  ASSUME TypeOK, [Next]_vars
  PROVE  \/ Start /\ Generated' = <<>> /\ arms' = arms + 1
         \/ Pump
         \/ \E md \in StreamMD : Aborts(md) /\ HasRoom /\ Grown(md)
         \/ StopReturn /\ Generated' = Generated /\ (FrameLeftOpen => ~HasRoom)
         \/ /\ Generated' = Generated /\ UNCHANGED <<stream, arms>>
            /\ StopReturn \/ Len(out') - buf_pos' = Len(out) - buf_pos \/ buf_pos' = 0
<1>1. CASE Start
  <2>1. out' = <<>> /\ buf' = <<>> /\ buf_pos' = 0 /\ arms' = arms + 1
    BY <1>1 DEF Start, Arm
  <2>2. SubSeq(buf', buf_pos' + 1, Len(buf')) = <<>>
    BY <2>1, SubSeqEmpty
  <2>3. Generated' = <<>>
    BY <2>1, <2>2 DEF Generated
  <2> QED BY <1>1, <2>1, <2>3
<1>2. CASE StopCall \/ DataOutCall
  <2>1. PumpEnter /\ UNCHANGED <<out, stream, arms>>
    BY <1>2 DEF StopCall, DataOutCall, history
  <2>2. buf_pos' = 0 \/ buf_pos' = buf_pos
    BY <2>1 DEF PumpEnter, staging
  <2> QED BY <2>1, <2>2, EnterKeeps
<1>3. CASE StopReturn
  <2>1. UNCHANGED <<out, buf_pos>>
    BY <1>3 DEF StopReturn, history
  <2>2. CASE FrameLeftOpen /\ HasRoom
    <3>1. Md("aborted", 0, 0) \in StreamMD
      BY MdType DEF MdHeaders
    <3>2. Grown(Md("aborted", 0, 0))
      BY <1>3, <2>1, <2>2, <3>1, EmitGrows DEF StopReturn
    <3>3. Aborts(Md("aborted", 0, 0))
      BY <1>3, <2>2, <3>1 DEF Aborts, Md
    <3> QED BY <2>2, <3>1, <3>2, <3>3
  <2>3. CASE ~(FrameLeftOpen /\ HasRoom)
    <3>1. buf' = buf
      BY <1>3, <2>3 DEF StopReturn, Emit
    <3> QED BY <1>3, <2>1, <2>3, <3>1 DEF Generated
  <2> QED BY <2>2, <2>3
<1>4. ASSUME NEW cap \in Caps, DataOutReturn(cap)
      PROVE  /\ Generated' = Generated /\ UNCHANGED <<stream, arms>>
             /\ Len(out') - buf_pos' = Len(out) - buf_pos
  BY <1>4, HandOverKeeps
<1>5. CASE Tick \/ UNCHANGED vars
  BY <1>5 DEF Tick, Advance, vars, staging, history, Generated
<1> QED
  BY <1>1, <1>2, <1>3, <1>4, <1>5 DEF Next, Stop, DataOut
---------------------------------------------------------------------------
(* The data of an acquisition are its frames.                              *)

WellFormedInv == StageInv /\ StreamWellFormed

\* A datum that may follow the newest one extends a well-formed stream.
LEMMA FollowsStep ==
  ASSUME TypeOK, StreamWellFormed, NEW md \in StreamMD, Grown(md),
         arms' = arms,
         \/ Generated = <<>> /\ md.hdr = "new_frame" /\ md.tag = <<arms, 0>>
         \/ Generated # <<>> /\ FollowsWell(Newest, md)
  PROVE  StreamWellFormed'
<1>1. Generated \in Seq(StreamMD) /\ Len(Generated) \in Nat
  BY GeneratedType
<1>2. PICK g \in Seq(StreamMD), h \in Seq(StreamMD) :
        g = Generated /\ h = Generated'
  BY <1>1 DEF Grown
<1>3. /\ Len(g) \in Nat /\ Len(h) = Len(g) + 1 /\ h[Len(g) + 1] = md
      /\ \A j \in 1..Len(g) : h[j] = g[j]
  BY <1>1, <1>2 DEF Grown
<1>4. /\ g # <<>> => Head(g).hdr = "new_frame" /\ Head(g).tag = <<arms, 0>>
      /\ \A i \in 1..(Len(g) - 1) : FollowsWell(g[i], g[i + 1])
  BY <1>2 DEF StreamWellFormed
<1>5. g # <<>> <=> Len(g) >= 1
  BY <1>3, EmptySeq
<1>6. Head(h) = h[1] /\ (g # <<>> => Head(g) = g[1])
  BY <1>3, <1>5, EmptySeq
<1>7. Head(h).hdr = "new_frame" /\ Head(h).tag = <<arms', 0>>
  BY <1>2, <1>3, <1>4, <1>5, <1>6, EmptySeq
<1>8. ASSUME NEW i \in 1..(Len(h) - 1) PROVE FollowsWell(h[i], h[i + 1])
  <2>1. CASE i < Len(g)
    BY <1>3, <1>4, <2>1
  <2>2. CASE i = Len(g)
    <3>1. Generated # <<>>
      BY <1>2, <1>3, <1>5, <1>8, <2>2
    <3>2. Newest = g[Len(g)] /\ h[i] = g[Len(g)] /\ h[i + 1] = md
      BY <1>2, <1>3, <1>8, <2>2 DEF Newest
    <3> QED BY <3>1, <3>2, EmptySeq
  <2> QED BY <1>3, <2>1, <2>2
<1> QED
  BY <1>2, <1>7, <1>8 DEF StreamWellFormed

\* A step of pump adds a datum that may follow, and enters the stage after it.
LEMMA WellFormedPump ==
  ASSUME TypeOK, WellFormedInv, Pump PROVE WellFormedInv'
<1>1. armed /\ arms' = arms /\ StageInv /\ StreamWellFormed
  BY PumpGrows DEF WellFormedInv
<1>2. ASSUME NEW md \in StreamMD, Emits(md), Grown(md) PROVE WellFormedInv'
  <2>1. Generated' # <<>> /\ Newest' = md
    <3>1. Len(Generated) \in Nat
      BY GeneratedType
    <3> QED BY <1>2, <3>1, EmptySeq DEF Grown, Newest
  <2>2. frame_index \in Nat /\ arms \in Nat /\ md.tag = <<arms, frame_index>>
    BY <1>2 DEF TypeOK, Emits
  <2> USE DEF PumpAt, FollowsWell, MayFollow
  <2>3. CASE PumpNewFrame /\ md.hdr = "new_frame"
    <3>1. BetweenFrames
      BY <1>1, <2>3 DEF StageInv, PumpNewFrame
    <3>2. frame_index = 0 \/ FollowsWell(Newest, md)
      BY <2>2, <2>3, <3>1 DEF BetweenFrames
    <3>3. StreamWellFormed'
      BY <1>1, <1>2, <2>2, <2>3, <3>1, <3>2, FollowsStep DEF BetweenFrames
    <3>4. StageInv'
      BY <1>1, <2>1, <2>2, <2>3 DEF PumpNewFrame, StageInv, InsideFrame
    <3> QED BY <3>3, <3>4 DEF WellFormedInv
  <2>4. CASE PumpStamp /\ md.hdr = stage
    <3>1. InsideFrame
      BY <1>1, <2>4 DEF StageInv, PumpStamp
    <3>2. FollowsWell(Newest, md)
      BY <2>2, <2>4, <3>1 DEF PumpStamp, InsideFrame
    <3>3. StreamWellFormed'
      BY <1>1, <1>2, <3>1, <3>2, FollowsStep DEF InsideFrame
    <3>4. StageInv'
      <4>1. armed' /\ stage' \notin {"idle", "new_frame"}
        BY <1>1, <2>4 DEF PumpStamp
      <4>2. InsideFrame'
        BY <1>1, <2>1, <2>2, <2>4, <3>1 DEF PumpStamp, InsideFrame
      <4> QED BY <4>1, <4>2 DEF StageInv
    <3> QED BY <3>3, <3>4 DEF WellFormedInv
  <2>5. CASE (PumpOffset /\ md.hdr = "offset") \/ (PumpHit /\ md.hdr = "px")
    <3>1. InsideFrame /\ stage = "pixels"
      BY <1>1, <2>5 DEF StageInv, PumpOffset, PumpHit
    <3>2. FollowsWell(Newest, md)
      <4>1. Newest.hdr \in {"start_msb", "offset", "px"} /\ Newest.tag = md.tag
        BY <2>2, <3>1 DEF InsideFrame
      <4>2. PumpOffset => Newest.hdr # "offset"
        BY <3>1 DEF PumpOffset, OffsetDue, InsideFrame
      <4> QED BY <2>5, <4>1, <4>2
    <3>3. StreamWellFormed'
      BY <1>1, <1>2, <3>1, <3>2, FollowsStep DEF InsideFrame
    <3>4. StageInv'
      <4>1. armed' /\ stage' = "pixels"
        BY <1>1, <2>5 DEF PumpOffset, PumpHit
      <4>2. InsideFrame'
        BY <1>1, <2>1, <2>2, <2>5, <3>1 DEF PumpOffset, PumpHit, InsideFrame
      <4> QED BY <4>1, <4>2 DEF StageInv
    <3> QED BY <3>3, <3>4 DEF WellFormedInv
  <2>6. CASE PumpLost /\ md.hdr = "lost"
    <3>1. InsideFrame /\ stage = "lost"
      BY <1>1, <2>6 DEF StageInv, PumpLost
    <3>2. FollowsWell(Newest, md)
      BY <2>2, <2>6, <3>1 DEF InsideFrame
    <3>3. StreamWellFormed'
      BY <1>1, <1>2, <3>1, <3>2, FollowsStep DEF InsideFrame
    <3>4. StageInv'
      BY <1>1, <2>1, <2>2, <2>6, <3>1 DEF PumpLost, StageInv, InsideFrame
    <3> QED BY <3>3, <3>4 DEF WellFormedInv
  <2>7. CASE PumpFinished /\ md.hdr = "finished"
    <3>1. InsideFrame /\ stage = "finished"
      BY <1>1, <2>7 DEF StageInv, PumpFinished
    <3>2. FollowsWell(Newest, md)
      BY <2>2, <2>7, <3>1 DEF InsideFrame
    <3>3. StreamWellFormed'
      BY <1>1, <1>2, <3>1, <3>2, FollowsStep DEF InsideFrame
    <3>4. frame_index' = frame_index + 1 /\ frame_index' # 0 /\ frame_index' - 1 = frame_index
      BY <2>2, <2>7 DEF PumpFinished
    <3>5. ~armed' \/ stage' = "new_frame"
      BY <2>7 DEF PumpFinished
    <3>6. StageInv'
      BY <1>1, <2>1, <2>2, <2>7, <3>4, <3>5 DEF PumpFinished, StageInv, BetweenFrames
    <3> QED BY <3>3, <3>6 DEF WellFormedInv
  <2> QED BY <1>2, <2>3, <2>4, <2>5, <2>6, <2>7 DEF Emits
<1>3. ASSUME Generated' = Generated, PumpPixelsDone \/ PumpLost PROVE WellFormedInv'
  <2>1. InsideFrame
    BY <1>1, <1>3 DEF StageInv, PumpPixelsDone, PumpLost, PumpAt
  <2>2. Newest' = Newest
    BY <1>3 DEF Newest
  <2>3. px_index >= Hits /\ stage = "pixels" => ~offset_sent
    BY <2>1, StreamAssumption DEF InsideFrame, TypeOK
  <2>4. StageInv'
    BY <1>1, <1>3, <2>1, <2>2, <2>3
    DEF PumpPixelsDone, PumpLost, PumpAt, StageInv, InsideFrame
  <2> QED BY <1>1, <1>3, <2>4 DEF WellFormedInv, StreamWellFormed
<1> QED
  BY <1>2, <1>3, PumpGrows

\* Every step keeps the frames well formed.
LEMMA WellFormedStep ==
  ASSUME TypeOK, WellFormedInv, [Next]_vars PROVE WellFormedInv'
<1>1. ASSUME Start, Generated' = <<>> PROVE WellFormedInv'
  <2>1. StageInv'
    <3>1. PICK mode \in Modes, n \in FrameCounts, len \in FrameLens : Arm(mode, n, len)
      BY <1>1 DEF Start
    <3>2. frame_index' = 0 /\ frame_active' = FALSE
      BY <3>1 DEF Arm
    <3>3. armed' => stage' = "new_frame"
      BY <3>1 DEF Arm
    <3> QED BY <1>1, <3>2, <3>3 DEF StageInv, BetweenFrames
  <2>2. Len(Generated') = 0
    BY <1>1
  <2>3. StreamWellFormed'
    BY <1>1, <2>2 DEF StreamWellFormed
  <2> QED BY <2>1, <2>3 DEF WellFormedInv
<1>2. ASSUME NEW md \in StreamMD, Aborts(md), Grown(md) PROVE WellFormedInv'
  <2>1. InsideFrame /\ UNCHANGED arms /\ ~armed'
    BY <1>2 DEF Aborts, FrameLeftOpen, WellFormedInv, StageInv, BetweenFrames, StopReturn, history
  <2>2. Newest.hdr # "finished" /\ Newest.tag = md.tag
    BY <1>2, <2>1 DEF InsideFrame, Aborts, WellFormedInv, StageInv, FrameLeftOpen, TypeOK, Stages,
       BetweenFrames
  <2>3. FollowsWell(Newest, md)
    BY <1>2, <2>2 DEF FollowsWell, Aborts
  <2>4. StreamWellFormed'
    BY <1>2, <2>1, <2>3, FollowsStep DEF InsideFrame, WellFormedInv
  <2> QED BY <2>1, <2>4 DEF WellFormedInv, StageInv
<1>3. ASSUME StopReturn, Generated' = Generated PROVE WellFormedInv'
  <2>1. ~armed' /\ UNCHANGED arms
    BY <1>3 DEF StopReturn, history
  <2> QED BY <1>3, <2>1 DEF WellFormedInv, StageInv, StreamWellFormed
<1>4. ASSUME Generated' = Generated, UNCHANGED <<stream, arms>> PROVE WellFormedInv'
  <2>1. StageInv'
    <3>1. Newest' = Newest
      BY <1>4 DEF Newest
    <3> QED BY <1>4, <3>1 DEF WellFormedInv, StageInv, BetweenFrames, InsideFrame, stream
  <2>2. StreamWellFormed'
    BY <1>4 DEF WellFormedInv, StreamWellFormed
  <2> QED BY <2>1, <2>2 DEF WellFormedInv
<1> QED
  BY <1>1, <1>2, <1>3, <1>4, StreamStep, WellFormedPump

\* However the calls of data_out chop the stream and whenever the commands
\* come: the data of an acquisition are its frames one after another, complete
\* and in order, with nothing missing, repeated or left over
\* (StreamWellFormed).
THEOREM FramesWellFormed == Spec => []StreamWellFormed
<1>1. Init => WellFormedInv
  <2> SUFFICES ASSUME Init PROVE WellFormedInv
    OBVIOUS
  <2>1. Generated = <<>> /\ Len(Generated) = 0
    BY StreamStarts
  <2> QED BY <2>1 DEF Init, WellFormedInv, StageInv, StreamWellFormed
<1> QED
  BY <1>1, StreamTypeCorrect, WellFormedStep, PTL DEF Spec, WellFormedInv
---------------------------------------------------------------------------
(* A frame is closed by the number of its hits.                            *)

HitsInv == TagsInv /\ CountInv /\ FinishedCountsHits

\* The hits of a frame, when a datum is added.
LEMMA GrownHits ==
  ASSUME TypeOK, NEW md \in StreamMD, Grown(md), UNCHANGED <<arms, frame_index>>,
         md.tag = <<arms, frame_index>>
  PROVE  /\ FrameHits' = IF md.hdr = "px" THEN FrameHits \cup {Len(Generated) + 1} ELSE FrameHits
         /\ IsFiniteSet(FrameHits) /\ Len(Generated) + 1 \notin FrameHits
<1>1. Len(Generated) \in Nat
  BY GeneratedType
<1>2. PICK n \in Nat : n = Len(Generated)
  BY <1>1
<1>3. IsFiniteSet(1..n) /\ FrameHits \subseteq 1..n /\ n + 1 \notin FrameHits
  <2>1. IsFiniteSet(1..n)
    BY FS_Interval
  <2>2. FrameHits \subseteq 1..n /\ n + 1 \notin 1..n
    BY <1>2 DEF FrameHits
  <2> QED BY <2>1, <2>2
<1>4. IsFiniteSet(FrameHits)
  BY <1>3, FS_Subset
<1>5. ASSUME NEW j PROVE j \in FrameHits' <=> j \in FrameHits \/ (j = n + 1 /\ md.hdr = "px")
  <2>1. Len(Generated') = n + 1 /\ Generated'[n + 1] = md
        /\ \A k \in 1..n : Generated'[k] = Generated[k]
    BY <1>2 DEF Grown
  <2>2. j \in 1..(n + 1) <=> j \in 1..n \/ j = n + 1
    BY <1>2
  <2>3. CASE j = n + 1
    BY <1>2, <1>3, <2>1, <2>2, <2>3 DEF FrameHits, OfFrame
  <2>4. CASE j # n + 1
    BY <1>2, <2>1, <2>2, <2>4 DEF FrameHits, OfFrame
  <2> QED BY <2>3, <2>4
<1> QED
  BY <1>2, <1>3, <1>4, <1>5

\* What was counted before a datum was added still counts.
LEMMA GrownCounts ==
  ASSUME TypeOK, NEW md \in StreamMD, Grown(md), FinishedCountsHits,
         md.hdr = "finished" =>
           md.v = Cardinality({j \in 1..Len(Generated) :
                                 Generated[j].hdr = "px" /\ Generated[j].tag = md.tag})
  PROVE  FinishedCountsHits'
<1>1. Generated \in Seq(StreamMD) /\ Len(Generated) \in Nat
  BY GeneratedType
<1>2. PICK n \in Nat : n = Len(Generated)
  BY <1>1
<1>3. /\ Len(Generated') = n + 1 /\ Generated'[n + 1] = md
      /\ \A k \in 1..n : Generated'[k] = Generated[k]
      /\ DOMAIN Generated' = 1..(n + 1) /\ DOMAIN Generated = 1..n
  BY <1>1, <1>2, LenProperties DEF Grown
<1>4. ASSUME NEW i \in 1..(n + 1), Generated'[i].hdr = "finished"
      PROVE  Generated'[i].v =
               Cardinality({j \in 1..(i - 1) :
                              Generated'[j].hdr = "px" /\ Generated'[j].tag = Generated'[i].tag})
  <2> DEFINE hits == {j \in 1..(i - 1) :
                        Generated'[j].hdr = "px" /\ Generated'[j].tag = Generated'[i].tag}
  <2>1. CASE i = n + 1
    <3>1. hits = {j \in 1..n : Generated[j].hdr = "px" /\ Generated[j].tag = md.tag}
      BY <1>3, <2>1
    <3> QED BY <1>2, <1>3, <1>4, <2>1, <3>1
  <2>2. CASE i \in 1..n
    <3>1. \A j \in 1..(i - 1) : j \in 1..n
      BY <2>2
    <3>2. hits = HitsBefore(i)
      BY <1>3, <2>2, <3>1 DEF HitsBefore
    <3>3. Generated[i].v = Cardinality(HitsBefore(i))
      BY <1>3, <1>4, <2>2 DEF FinishedCountsHits
    <3> QED BY <1>3, <2>2, <3>2, <3>3
  <2>3. i = n + 1 \/ i \in 1..n
    OBVIOUS
  <2> QED BY <2>1, <2>2, <2>3
<1> QED
  BY <1>3, <1>4 DEF FinishedCountsHits, HitsBefore

\* Tags stay those of the frames so far.
LEMMA GrownTags ==
  ASSUME TypeOK, NEW md \in StreamMD, Grown(md), TagsInv, armed, UNCHANGED arms,
         md.tag = <<arms, frame_index>>, frame_index' \in {frame_index, frame_index + 1},
         armed' /\ stage' = "new_frame" => frame_index' = frame_index + 1
  PROVE  TagsInv'
<1>1. Len(Generated) \in Nat /\ frame_index \in Nat
  BY GeneratedType DEF TypeOK
<1>2. ASSUME armed', NEW j \in 1..(Len(Generated) + 1)
      PROVE  \E k \in 0..frame_index' :
               Generated'[j].tag = <<arms, k>> /\ (stage' = "new_frame" => k < frame_index')
  <2>1. CASE j = Len(Generated) + 1
    <3>1. Generated'[j].tag = <<arms, frame_index>>
      BY <2>1 DEF Grown
    <3> QED BY <1>1, <1>2, <3>1
  <2>2. CASE j \in 1..Len(Generated)
    <3>1. PICK k \in 0..frame_index : Generated[j].tag = <<arms, k>>
      BY <2>2 DEF TagsInv, OfFrame
    <3>2. Generated'[j] = Generated[j]
      BY <2>2 DEF Grown
    <3> QED BY <1>1, <1>2, <3>1, <3>2
  <2> QED BY <1>1, <2>1, <2>2
<1> QED
  BY <1>2 DEF TagsInv, OfFrame, Grown

\* A step of pump counts a hit exactly when it adds one.
LEMMA HitsPump ==
  ASSUME TypeOK, HitsInv, Pump PROVE HitsInv'
<1>1. armed /\ arms' = arms /\ TagsInv /\ CountInv /\ FinishedCountsHits
      /\ frame_index \in Nat /\ Len(Generated) \in Nat
  BY PumpGrows, GeneratedType DEF HitsInv, TypeOK
<1>2. ASSUME NEW md \in StreamMD, Emits(md), Grown(md) PROVE HitsInv'
  <2>1. md.tag = <<arms, frame_index>>
    BY <1>2 DEF Emits
  <2>2. CASE ~PumpFinished
    <3>1. /\ UNCHANGED frame_index /\ armed' = armed /\ stage' # "new_frame"
          /\ md.hdr # "finished"
      BY <1>2, <2>2 DEF Emits, PumpNewFrame, PumpStamp, PumpOffset, PumpHit, PumpLost, PumpAt
    <3>2. TagsInv'
      BY <1>1, <1>2, <2>1, <3>1, GrownTags
    <3>3. FinishedCountsHits'
      BY <1>1, <1>2, <3>1, GrownCounts
    <3>4. /\ FrameHits' = IF md.hdr = "px" THEN FrameHits \cup {Len(Generated) + 1} ELSE FrameHits
          /\ IsFiniteSet(FrameHits) /\ Len(Generated) + 1 \notin FrameHits
      BY <1>1, <1>2, <2>1, <3>1, GrownHits
    <3>5. px_index' = Cardinality(FrameHits')
      <4>1. CASE PumpNewFrame
        <5>1. FrameHits = {}
          BY <1>1, <4>1 DEF TagsInv, PumpNewFrame, PumpAt, FrameHits, OfFrame
        <5>2. md.hdr = "new_frame" /\ px_index' = 0
          BY <1>2, <4>1 DEF Emits, PumpNewFrame, PumpStamp, PumpOffset, PumpHit, PumpLost,
             PumpFinished, PumpAt
        <5> QED BY <3>4, <5>1, <5>2, FS_EmptySet
      <4>2. CASE PumpHit
        <5>1. md.hdr = "px" /\ px_index' = px_index + 1 /\ px_index = Cardinality(FrameHits)
          BY <1>1, <1>2, <4>2 DEF CountInv, Emits, PumpNewFrame, PumpStamp, PumpOffset, PumpHit,
             PumpLost, PumpFinished, PumpAt
        <5> QED BY <3>4, <5>1, FS_AddElement
      <4>3. CASE PumpStamp \/ PumpOffset \/ PumpLost
        <5>1. md.hdr # "px" /\ px_index' = px_index /\ px_index = Cardinality(FrameHits)
          BY <1>1, <1>2, <4>3 DEF CountInv, Emits, PumpNewFrame, PumpStamp, PumpOffset, PumpHit,
             PumpLost, PumpFinished, PumpAt
        <5> QED BY <3>4, <5>1
      <4> QED BY <1>2, <2>2, <4>1, <4>2, <4>3 DEF Emits
    <3>6. CountInv'
      BY <3>5 DEF CountInv
    <3> QED BY <3>2, <3>3, <3>6 DEF HitsInv
  <2>3. CASE PumpFinished
    <3>1. /\ frame_index' = frame_index + 1 /\ (armed' => stage' = "new_frame")
          /\ md.hdr = "finished" /\ md.v = px_index /\ px_index = Cardinality(FrameHits)
      BY <1>1, <1>2, <2>3 DEF CountInv, Emits, PumpNewFrame, PumpStamp, PumpOffset, PumpHit,
         PumpLost, PumpFinished, PumpAt
    <3>2. TagsInv'
      BY <1>1, <1>2, <2>1, <3>1, GrownTags
    <3>3. FrameHits = {j \in 1..Len(Generated) :
                         Generated[j].hdr = "px" /\ Generated[j].tag = md.tag}
      BY <2>1 DEF FrameHits, OfFrame
    <3>4. FinishedCountsHits'
      BY <1>1, <1>2, <3>1, <3>3, GrownCounts
    <3>5. CountInv'
      BY <3>1 DEF CountInv
    <3> QED BY <3>2, <3>4, <3>5 DEF HitsInv
  <2> QED BY <2>2, <2>3
<1>3. ASSUME Generated' = Generated, PumpPixelsDone \/ PumpLost PROVE HitsInv'
  <2>1. /\ UNCHANGED <<frame_index, px_index>> /\ armed' = armed
        /\ stage # "new_frame" /\ stage' # "new_frame"
    BY <1>3 DEF PumpPixelsDone, PumpLost, PumpAt
  <2>2. TagsInv' /\ CountInv'
    BY <1>1, <1>3, <2>1 DEF TagsInv, CountInv, OfFrame, FrameHits
  <2>3. FinishedCountsHits'
    BY <1>1, <1>3 DEF FinishedCountsHits, HitsBefore
  <2> QED BY <2>2, <2>3 DEF HitsInv
<1> QED
  BY <1>2, <1>3, PumpGrows

\* Every step keeps the count.
LEMMA HitsStep ==
  ASSUME TypeOK, HitsInv, [Next]_vars PROVE HitsInv'
<1>1. ASSUME Start, Generated' = <<>> PROVE HitsInv'
  <2>1. Len(Generated') = 0 /\ DOMAIN Generated' = {}
    BY <1>1
  <2>2. armed' => stage' = "new_frame"
    BY <1>1 DEF Start, Arm
  <2> QED BY <2>1, <2>2 DEF HitsInv, TagsInv, CountInv, FinishedCountsHits
<1>2. ASSUME NEW md \in StreamMD, Aborts(md), Grown(md) PROVE HitsInv'
  <2>1. ~armed' /\ md.hdr # "finished"
    BY <1>2 DEF Aborts, StopReturn
  <2>2. FinishedCountsHits'
    BY <1>2, <2>1, GrownCounts DEF HitsInv
  <2> QED BY <2>1, <2>2 DEF HitsInv, TagsInv, CountInv
<1>3. ASSUME StopReturn, Generated' = Generated PROVE HitsInv'
  <2>1. ~armed'
    BY <1>3 DEF StopReturn
  <2> QED BY <1>3, <2>1 DEF HitsInv, TagsInv, CountInv, FinishedCountsHits, HitsBefore
<1>4. ASSUME Generated' = Generated, UNCHANGED <<stream, arms>> PROVE HitsInv'
  <2>1. TagsInv' /\ CountInv'
    BY <1>4 DEF HitsInv, TagsInv, CountInv, OfFrame, FrameHits, stream
  <2>2. FinishedCountsHits'
    BY <1>4 DEF HitsInv, FinishedCountsHits, HitsBefore
  <2> QED BY <2>1, <2>2 DEF HitsInv
<1> QED
  BY <1>1, <1>2, <1>3, <1>4, StreamStep, HitsPump

\* However full the staging buffer and in however many calls a frame is
\* generated: the datum that closes it carries the number of hits sent in it
\* (FinishedCountsHits).
THEOREM FinishedCounted == Spec => []FinishedCountsHits
<1>1. Init => HitsInv
  <2> SUFFICES ASSUME Init PROVE HitsInv
    OBVIOUS
  <2>1. Generated = <<>> /\ ~armed
    BY StreamStarts DEF Init
  <2>2. DOMAIN Generated = {}
    BY <2>1
  <2> QED BY <2>1, <2>2 DEF HitsInv, TagsInv, CountInv, FinishedCountsHits
<1> QED
  BY <1>1, StreamTypeCorrect, HitsStep, PTL DEF Spec, HitsInv
---------------------------------------------------------------------------
(* The time a decoder gives a hit.                                         *)

\* A multiple leaves no remainder.
LEMMA ModMultiple ==
  ASSUME NEW n \in Nat, NEW d \in Nat \ {0} PROVE (n * d) % d = 0
<1> DEFINE x == n * d
           q == x \div d
           r == x % d
<1>1. x \in Nat
  BY ProductNat
<1>2. q \in Nat /\ r \in 0..(d - 1) /\ x = q * d + r /\ n <= q
  <2> HIDE DEF x
  <2>1. q \in Nat /\ r \in 0..(d - 1) /\ x = q * d + r
    BY <1>1, DivFloor
  <2>2. n <= q
    BY <1>1, DivGreatest DEF x
  <2> QED BY <2>1, <2>2
<1> HIDE DEF q, r
<1>3. n * d <= q * d /\ q * d \in Nat
  BY <1>2, Monotonic, ProductNat
<1> QED
  BY <1>2, <1>3 DEF r

\* Later times fall into later windows.
LEMMA WindowMonotonic ==
  ASSUME NEW s \in Nat, NEW t \in Nat, s <= t
  PROVE  Window(s) \in Nat /\ Window(t) \in Nat /\ Window(s) <= Window(t)
<1>1. /\ s \div ToaSpan \in Nat /\ t \div ToaSpan \in Nat
      /\ (s \div ToaSpan) * ToaSpan <= s /\ (s \div ToaSpan) * ToaSpan \in Nat
  BY DivFloor, ProductNat, StreamAssumption
<1>2. (s \div ToaSpan) * ToaSpan <= t
  BY <1>1
<1>3. s \div ToaSpan <= t \div ToaSpan
  BY <1>1, <1>2, DivGreatest, StreamAssumption
<1> QED
  BY <1>1, <1>3 DEF Window

\* Later hits happen later.
LEMMA HitsInOrder ==
  ASSUME TypeOK, NEW i \in Nat, NEW k \in Nat, i <= k
  PROVE  /\ HitDue(i) - frame_open \in Nat /\ HitDue(k) - frame_open \in Nat
         /\ HitDue(i) - frame_open <= HitDue(k) - frame_open
<1>1. frame_open \in Nat /\ frame_len \in Nat /\ Hits + 1 \in Nat \ {0}
  BY StreamAssumption DEF TypeOK
<1> DEFINE gap == frame_len \div (Hits + 1)
<1>2. gap \in Nat
  BY <1>1, DivFloor
<1>3. HitDue(i) = frame_open + gap * (i + 1) /\ HitDue(k) = frame_open + gap * (k + 1)
  BY DEF HitDue
<1> HIDE DEF gap
<1>4. (i + 1) * gap <= (k + 1) * gap /\ (i + 1) * gap \in Nat /\ (k + 1) * gap \in Nat
  BY <1>2, Monotonic, ProductNat
<1>5. gap * (i + 1) = (i + 1) * gap /\ gap * (k + 1) = (k + 1) * gap
  BY <1>2
<1> QED
  BY <1>1, <1>3, <1>4, <1>5

\* A window that has begun and the time of arrival within a window make a time
\* that is not ahead, and wrong by whole windows.
LEMMA DecodedNotAhead ==
  ASSUME NEW t \in Nat, NEW w \in Nat, w <= Window(t)
  PROVE  /\ w * ToaSpan + (t % ToaSpan) <= t
         /\ (t - (w * ToaSpan + (t % ToaSpan))) % ToaSpan = 0
<1> DEFINE q == t \div ToaSpan
           r == t % ToaSpan
<1>1. ToaSpan \in Nat \ {0}
  BY StreamAssumption
<1>2. q \in Nat /\ r \in Nat /\ t = q * ToaSpan + r /\ w <= q
  BY <1>1, DivFloor DEF Window
<1> HIDE DEF q, r
<1>3. PICK e \in Nat : q = w + e
  BY <1>2
<1>4. q * ToaSpan = w * ToaSpan + e * ToaSpan
  BY <1>1, <1>3, Distribute
<1>5. w * ToaSpan \in Nat /\ e * ToaSpan \in Nat
  BY <1>1, ProductNat
<1>6. w * ToaSpan + r <= t /\ t - (w * ToaSpan + r) = e * ToaSpan
  BY <1>2, <1>4, <1>5
<1>7. (e * ToaSpan) % ToaSpan = 0
  BY <1>1, ModMultiple
<1> QED
  BY <1>6, <1>7 DEF r

\* The window before i is that of its mark.
LEMMA WindowOfMark ==
  ASSUME NEW i \in Nat, NEW m, Mark(m, i - 1), i > 1
  PROVE  WindowBefore(i) = Generated[m].v
<1> DEFINE js == {j \in 1..(i - 1) : Generated[j].hdr \in {"offset", "new_frame"}}
<1>1. m \in js /\ \A k \in js : k <= m
  BY DEF Mark
<1>2. \A j \in js : (\A k \in js : k <= j) => j = m
  <2>1. \A j \in js : j \in Int
    OBVIOUS
  <2> QED BY <1>1, <2>1
<1>3. (CHOOSE j \in js : \A k \in js : k <= j) = m
  BY <1>1, <1>2
<1>4. WindowBefore(i) = IF js = {} THEN 0 ELSE Generated[CHOOSE j \in js : \A k \in js : k <= j].v
  BY DEF WindowBefore
<1> HIDE DEF js
<1> QED
  BY <1>1, <1>3, <1>4

\* A mark stays one, and a new one is the last.
LEMMA GrownMark ==
  ASSUME TypeOK, NEW md \in StreamMD, Grown(md), NEW n \in Nat, n = Len(Generated)
  PROVE  /\ \A i \in 0..n, m \in Nat :
              (Mark(m, i) => Mark(m, i)' /\ Generated'[m] = Generated[m])
         /\ md.hdr \in {"offset", "new_frame"} => Mark(n + 1, n + 1)'
         /\ md.hdr \notin {"offset", "new_frame"} =>
              \A m \in Nat : Mark(m, n) => Mark(m, n + 1)'
<1>1. /\ Len(Generated') = n + 1 /\ Generated'[n + 1] = md
      /\ \A k \in 1..n : Generated'[k] = Generated[k]
  BY DEF Grown
<1>3. ASSUME NEW i \in 0..n, NEW m \in Nat, Mark(m, i)
      PROVE  Mark(m, i)' /\ Generated'[m] = Generated[m]
  <2>1. \A k \in 1..i : k \in 1..n
    BY <1>3
  <2> QED BY <1>1, <1>3, <2>1 DEF Mark
<1>4. ASSUME md.hdr \in {"offset", "new_frame"} PROVE Mark(n + 1, n + 1)'
  <2>1. n + 1 \in 1..(n + 1) /\ \A k \in 1..(n + 1) : k <= n + 1
    OBVIOUS
  <2> QED BY <1>1, <1>4, <2>1 DEF Mark
<1>5. ASSUME md.hdr \notin {"offset", "new_frame"}, NEW m \in Nat, Mark(m, n)
      PROVE  Mark(m, n + 1)'
  <2>1. m \in 1..(n + 1) /\ Generated'[m] = Generated[m]
    BY <1>1, <1>5 DEF Mark
  <2>2. ASSUME NEW k \in 1..(n + 1), Generated'[k].hdr \in {"offset", "new_frame"}
        PROVE  k <= m
    <3>1. k # n + 1
      BY <1>1, <1>5, <2>2
    <3>2. k \in 1..n
      BY <3>1
    <3> QED BY <1>1, <1>5, <2>2, <3>2 DEF Mark
  <2>3. Generated'[m].hdr \in {"offset", "new_frame"}
    BY <1>5, <2>1 DEF Mark
  <2> QED BY <2>1, <2>2, <2>3 DEF Mark
<1> QED
  BY <1>3, <1>4, <1>5

\* Every hit is preceded by a mark whose window has begun.
DecodedInv ==
  \A n \in Nat : n = Len(Generated) =>
    \A i \in 1..n : Generated[i].hdr = "px" =>
      /\ Generated[i].v = Generated[i].time % ToaSpan
      /\ \E m \in 1..(i - 1) :
           Mark(m, i - 1) /\ Generated[m].v <= Window(Generated[i].time)

MarksInv == MarkInv /\ DecodedInv

\* A datum added that is not a hit ahead of its mark is decoded well.
LEMMA GrownDecoded ==
  ASSUME TypeOK, NEW md \in StreamMD, Grown(md), DecodedInv,
         NEW n \in Nat, n = Len(Generated),
         md.hdr = "px" =>
           /\ md.v = md.time % ToaSpan
           /\ \E m \in 1..n : Mark(m, n) /\ Generated[m].v <= Window(md.time)
  PROVE  DecodedInv'
<1>1. /\ Len(Generated') = n + 1 /\ Generated'[n + 1] = md
      /\ \A k \in 1..n : Generated'[k] = Generated[k]
  BY DEF Grown
<1>2. \A i \in 0..n, m \in Nat : (Mark(m, i) => Mark(m, i)' /\ Generated'[m] = Generated[m])
  BY GrownMark
<1>3. ASSUME NEW i \in 1..(n + 1), Generated'[i].hdr = "px"
      PROVE  /\ Generated'[i].v = Generated'[i].time % ToaSpan
             /\ \E m \in 1..(i - 1) :
                  Mark(m, i - 1)' /\ Generated'[m].v <= Window(Generated'[i].time)
  <2>1. CASE i = n + 1
    <3>1. PICK m \in 1..n : Mark(m, n) /\ Generated[m].v <= Window(md.time)
      BY <1>1, <1>3, <2>1
    <3>2. Mark(m, n)' /\ Generated'[m] = Generated[m]
      BY <1>2, <3>1
    <3>3. i - 1 = n
      BY <2>1
    <3> QED BY <1>1, <1>3, <2>1, <3>1, <3>2, <3>3
  <2>2. CASE i \in 1..n
    <3>1. /\ Generated[i].v = Generated[i].time % ToaSpan
          /\ Generated'[i] = Generated[i]
      BY <1>1, <1>3, <2>2 DEF DecodedInv
    <3>2. PICK m \in 1..(i - 1) : Mark(m, i - 1) /\ Generated[m].v <= Window(Generated[i].time)
      BY <1>1, <1>3, <2>2 DEF DecodedInv
    <3>3. Mark(m, i - 1)' /\ Generated'[m] = Generated[m]
      BY <1>2, <2>2, <3>2
    <3> QED BY <3>1, <3>2, <3>3
  <2> QED BY <2>1, <2>2
<1> QED
  BY <1>1, <1>3 DEF DecodedInv, Window

\* A step of pump dates a hit by the window of its mark.
LEMMA MarksPump ==
  ASSUME TypeOK, MarksInv, Pump PROVE MarksInv'
<1>1. armed /\ MarkInv /\ DecodedInv
  BY PumpGrows DEF MarksInv
<1>2. PICK n \in Nat : n = Len(Generated)
  BY GeneratedType
<1>3. (px_index \in Nat /\ UNCHANGED <<frame_open, frame_len>>) \/ PumpFinished
  BY StreamAssumption DEF TypeOK, Pump, PumpNewFrame, PumpStamp, PumpPixelsDone, PumpOffset,
     PumpHit, PumpLost, PumpAt
<1>4. ASSUME ~PumpFinished
      PROVE  \A k : Window(HitDue(k) - frame_open)' = Window(HitDue(k) - frame_open)
  BY <1>3, <1>4 DEF Window, HitDue
<1>5. ASSUME NEW md \in StreamMD, Emits(md), Grown(md) PROVE MarksInv'
  <2>1. /\ Len(Generated') = n + 1 /\ Generated'[n + 1] = md
        /\ \A m \in 1..n : Generated'[m] = Generated[m]
    BY <1>2, <1>5 DEF Grown
  <2>2. CASE PumpNewFrame /\ md.hdr = "new_frame" /\ md.v = 0
    <3>1. DecodedInv'
      BY <1>1, <1>2, <1>5, <2>2, GrownDecoded
    <3>2. px_index' = 0 /\ px_index' \in Nat
      BY <2>2 DEF PumpNewFrame
    <3>3. Mark(n + 1, n + 1)'
      BY <1>2, <1>5, <2>2, GrownMark
    <3>4. ASSUME NEW k \in Nat PROVE 0 <= Window(HitDue(k) - frame_open)
      <4>1. HitDue(k) - frame_open \in Nat
        BY HitTime
      <4> QED BY <4>1, WindowMonotonic
    <3>5. ASSUME NEW k \in Nat PROVE Generated'[n + 1].v <= Window(HitDue(k) - frame_open)'
      <4>1. ~PumpFinished
        BY <2>2 DEF PumpNewFrame, PumpFinished, PumpAt
      <4> QED BY <1>4, <2>1, <2>2, <3>4, <4>1
    <3>6. MarkInv'
      BY <2>1, <3>3, <3>5 DEF MarkInv
    <3> QED BY <3>1, <3>6 DEF MarksInv
  <2>3. CASE PumpOffset /\ md.hdr = "offset" /\ md.v = Window(HitDue(px_index) - frame_open)
    <3>1. DecodedInv'
      BY <1>1, <1>2, <1>5, <2>3, GrownDecoded
    <3>2. px_index' = px_index /\ px_index \in Nat
      BY <2>3, StreamAssumption DEF PumpOffset, TypeOK
    <3>3. Mark(n + 1, n + 1)'
      BY <1>2, <1>5, <2>3, GrownMark
    <3>4. ASSUME NEW k \in Nat, k >= px_index
          PROVE  Generated'[n + 1].v <= Window(HitDue(k) - frame_open)'
      <4>1. ~PumpFinished
        BY <2>3 DEF PumpOffset, PumpFinished, PumpAt
      <4>2. Window(HitDue(px_index) - frame_open) <= Window(HitDue(k) - frame_open)
        BY <3>2, <3>4, HitsInOrder, WindowMonotonic
      <4> QED BY <1>4, <2>1, <2>3, <4>1, <4>2
    <3>5. MarkInv'
      BY <2>1, <3>2, <3>3, <3>4 DEF MarkInv
    <3> QED BY <3>1, <3>5 DEF MarksInv
  <2>4. CASE ~PumpFinished /\ md.hdr \notin {"new_frame", "offset"}
    <3>1. /\ stage # "new_frame" /\ px_index \in Nat /\ px_index' \in {px_index, px_index + 1}
      <4>1. px_index \in Nat
        BY StreamAssumption DEF TypeOK
      <4>2. PumpStamp \/ PumpOffset \/ PumpHit \/ PumpLost
        BY <1>5, <2>4 DEF Emits
      <4>3. px_index' = px_index \/ px_index' = px_index + 1
        BY <4>2 DEF PumpStamp, PumpOffset, PumpHit, PumpLost
      <4>4. stage # "new_frame"
        BY <4>2 DEF PumpStamp, PumpOffset, PumpHit, PumpLost, PumpAt
      <4> QED BY <4>1, <4>3, <4>4
    <3>2. PICK m \in 1..n : /\ Mark(m, n)
                            /\ \A k \in Nat : k >= px_index =>
                                 Generated[m].v <= Window(HitDue(k) - frame_open)
      BY <1>1, <1>2, <3>1 DEF MarkInv
    <3>3. md.hdr = "px" => md.v = md.time % ToaSpan /\ md.time = HitDue(px_index) - frame_open
      BY <1>5, <2>4 DEF Emits, PumpStamp, PumpAt, Stages
    <3>4. DecodedInv'
      <4>1. md.hdr = "px" => Generated[m].v <= Window(md.time)
        BY <3>1, <3>2, <3>3
      <4> QED BY <1>1, <1>2, <1>5, <3>2, <3>3, <4>1, GrownDecoded
    <3>5. Mark(m, n + 1)'
      BY <1>2, <1>5, <2>4, <3>2, GrownMark
    <3>6. ASSUME NEW k \in Nat, k >= px_index'
          PROVE  Generated'[m].v <= Window(HitDue(k) - frame_open)'
      BY <1>4, <2>1, <2>4, <3>1, <3>2, <3>6
    <3>7. MarkInv'
      BY <2>1, <3>2, <3>5, <3>6 DEF MarkInv
    <3> QED BY <3>4, <3>7 DEF MarksInv
  <2>5. CASE PumpFinished
    <3>1. md.hdr # "px" /\ (armed' => stage' = "new_frame")
      BY <1>5, <2>5 DEF Emits, PumpNewFrame, PumpStamp, PumpOffset, PumpHit, PumpLost,
         PumpFinished, PumpAt
    <3>2. DecodedInv'
      BY <1>1, <1>2, <1>5, <3>1, GrownDecoded
    <3> QED BY <3>1, <3>2 DEF MarksInv, MarkInv
  <2>6. \/ ~PumpFinished /\ md.hdr \notin {"new_frame", "offset"}
        \/ PumpNewFrame /\ md.hdr = "new_frame" /\ md.v = 0
        \/ PumpOffset /\ md.hdr = "offset" /\ md.v = Window(HitDue(px_index) - frame_open)
        \/ PumpFinished
    BY <1>5 DEF Emits, PumpStamp, PumpAt
  <2> QED BY <2>2, <2>3, <2>4, <2>5, <2>6
<1>6. ASSUME Generated' = Generated, PumpPixelsDone \/ PumpLost PROVE MarksInv'
  <2>1. stage # "new_frame" /\ UNCHANGED px_index /\ ~PumpFinished
    BY <1>6 DEF PumpPixelsDone, PumpLost, PumpFinished, PumpAt
  <2>2. PICK m \in 1..n : /\ Mark(m, n)
                          /\ \A k \in Nat : k >= px_index =>
                               Generated[m].v <= Window(HitDue(k) - frame_open)
    BY <1>1, <1>2, <2>1 DEF MarkInv
  <2>3. Mark(m, n)' /\ n = Len(Generated')
    BY <1>2, <1>6, <2>2 DEF Mark
  <2>4. \A k \in Nat : k >= px_index' => Generated'[m].v <= Window(HitDue(k) - frame_open)'
    BY <1>4, <1>6, <2>1, <2>2
  <2>5. MarkInv'
    BY <2>2, <2>3, <2>4 DEF MarkInv
  <2>6. DecodedInv'
    BY <1>1, <1>6 DEF DecodedInv, Mark, Window
  <2> QED BY <2>5, <2>6 DEF MarksInv
<1> QED
  BY <1>5, <1>6, PumpGrows

\* Every step keeps the dates.
LEMMA MarksStep ==
  ASSUME TypeOK, MarksInv, [Next]_vars PROVE MarksInv'
<1>1. ASSUME Start, Generated' = <<>> PROVE MarksInv'
  <2>1. Len(Generated') = 0 /\ (armed' => stage' = "new_frame")
    BY <1>1 DEF Start, Arm
  <2>2. \A n \in Nat : n = Len(Generated') => 1..n = {}
    BY <2>1
  <2>3. DecodedInv'
    BY <2>2 DEF DecodedInv
  <2> QED BY <2>1, <2>3 DEF MarksInv, MarkInv
<1>2. ASSUME NEW md \in StreamMD, Aborts(md), Grown(md) PROVE MarksInv'
  <2>1. ~armed' /\ md.hdr # "px"
    BY <1>2 DEF Aborts, StopReturn
  <2>2. PICK n \in Nat : n = Len(Generated)
    BY GeneratedType
  <2>3. DecodedInv'
    BY <1>2, <2>1, <2>2, GrownDecoded DEF MarksInv
  <2> QED BY <2>1, <2>3 DEF MarksInv, MarkInv
<1>3. ASSUME Generated' = Generated PROVE DecodedInv'
  BY <1>3 DEF MarksInv, DecodedInv, Mark, Window
<1>4. ASSUME StopReturn, Generated' = Generated PROVE MarksInv'
  <2>1. ~armed'
    BY <1>4 DEF StopReturn
  <2> QED BY <1>3, <1>4, <2>1 DEF MarksInv, MarkInv
<1>5. ASSUME Generated' = Generated, UNCHANGED <<stream, arms>> PROVE MarksInv'
  <2>1. \A k : Window(HitDue(k) - frame_open)' = Window(HitDue(k) - frame_open)
    BY <1>5 DEF Window, HitDue, stream
  <2>2. \A m, n : Mark(m, n)' <=> Mark(m, n)
    BY <1>5 DEF Mark
  <2>3. PICK n \in Nat : n = Len(Generated)
    BY GeneratedType
  <2>4. MarkInv'
    BY <1>5, <2>1, <2>2, <2>3 DEF MarksInv, MarkInv, stream
  <2> QED BY <1>3, <1>5, <2>4 DEF MarksInv
<1> QED
  BY <1>1, <1>2, <1>4, <1>5, StreamStep, MarksPump

\* For every offset period, window and frame geometry: the time a decoder gives
\* a hit of the data driven readout is never ahead of the time it happened, and
\* wrong by whole windows only (HitTimesNeverAhead).
THEOREM HitTimesSound == Spec => []HitTimesNeverAhead
<1>1. Init => MarksInv
  <2> SUFFICES ASSUME Init PROVE MarksInv
    OBVIOUS
  <2>1. Len(Generated) = 0 /\ ~armed
    BY StreamStarts DEF Init
  <2>2. \A n \in Nat : n = Len(Generated) => 1..n = {}
    BY <2>1
  <2> QED BY <2>1, <2>2 DEF MarksInv, MarkInv, DecodedInv
<1>2. TypeOK /\ MarksInv => HitTimesNeverAhead
  <2> SUFFICES ASSUME TypeOK, MarksInv, NEW i \in HitPositions
               PROVE  /\ DecodedTime(i) <= Generated[i].time
                      /\ (Generated[i].time - DecodedTime(i)) % ToaSpan = 0
    BY DEF HitTimesNeverAhead
  <2>1. PICK n \in Nat : n = Len(Generated)
    BY GeneratedType
  <2>2. i \in 1..n /\ Generated[i].hdr = "px" /\ Generated[i] \in StreamMD
    BY <2>1, GeneratedType, LenProperties DEF HitPositions
  <2>3. Generated[i].time \in Nat
    BY <2>2 DEF StreamMD
  <2>4. PICK m \in 1..(i - 1) : Mark(m, i - 1) /\ Generated[m].v <= Window(Generated[i].time)
    BY <2>1, <2>2 DEF MarksInv, DecodedInv
  <2>5. Generated[m].v \in Nat
    <3>1. m \in 1..Len(Generated)
      BY <2>1, <2>2, <2>4
    <3> QED BY <3>1, GeneratedType DEF StreamMD
  <2>6. WindowBefore(i) = Generated[m].v
    <3>1. i \in Nat /\ i > 1
      BY <2>2, <2>4
    <3> QED BY <2>4, <3>1, WindowOfMark
  <2>7. DecodedTime(i) = Generated[m].v * ToaSpan + (Generated[i].time % ToaSpan)
    BY <2>1, <2>2, <2>6 DEF DecodedTime, MarksInv, DecodedInv
  <2> QED BY <2>3, <2>4, <2>5, <2>7, DecodedNotAhead
<1> QED
  BY <1>1, <1>2, StreamTypeCorrect, MarksStep, PTL DEF Spec
---------------------------------------------------------------------------
(* An acquisition that is over has said so.                                *)

OverAllInv == WellFormedInv /\ LengthInv /\ OverInv

\* What has begun of a frame is less than the frame.
LEMMA BegunBound ==
  ASSUME TypeOK, armed, StageInv
  PROVE  Begun \in Nat /\ Begun < FrameData /\ FrameData \in Nat /\ (stage = "new_frame" => Begun = 0)
<1>1. Hits \in Nat /\ px_index \in 0..Hits /\ stage \in Stages
  BY StreamAssumption DEF TypeOK
<1>2. CASE stage = "pixels"
  <2>1. offset_sent => px_index < Hits
    BY <1>2 DEF StageInv, InsideFrame
  <2> QED BY <1>1, <1>2, <2>1 DEF Begun, FrameData
<1>3. CASE stage # "pixels"
  BY <1>1, <1>3 DEF Begun, FrameData, Stages
<1> QED
  BY <1>2, <1>3

\* One datum more, of a frame that has begun.
LEMMA OneDatumMore ==
  ASSUME NEW l \in Nat, NEW p \in Nat, NEW b \in Nat, NEW c \in Nat,
         l <= p + b, b + 1 <= c
  PROVE  l + 1 <= p + c
OBVIOUS

\* A step of pump generates no more than what has begun.
LEMMA OverPump ==
  ASSUME TypeOK, TypeOK', OverAllInv, WellFormedInv', Pump PROVE OverAllInv'
<1>1. /\ armed /\ UNCHANGED <<out, arms, buf_pos>> /\ StageInv
      /\ LengthInv /\ Len(Generated) \in Nat
      /\ frame_index \in Nat /\ frames_total \in Nat /\ px_index \in Nat /\ Hits \in Nat
      /\ px_index <= Hits /\ StageInv'
  BY PumpGrows, GeneratedType, StreamAssumption DEF OverAllInv, WellFormedInv, TypeOK
<1>2. /\ frames_total \in FrameCounts /\ frame_index < frames_total
      /\ Len(Generated) <= frame_index * FrameData + Begun /\ buf_pos <= Len(out)
  BY <1>1 DEF LengthInv
<1>3. Begun \in Nat /\ Begun < FrameData /\ FrameData \in Nat
  BY <1>1, BegunBound
<1>4. frame_index * FrameData \in Nat
  BY <1>1, <1>3, ProductNat
<1>5. FrameData' = FrameData
  BY DEF FrameData
<1>6. UNCHANGED frames_total
  BY DEF Pump, PumpNewFrame, PumpStamp, PumpPixelsDone, PumpOffset, PumpHit, PumpLost,
         PumpFinished
<1>7. CASE ~PumpFinished
  <2>1. UNCHANGED <<armed, frame_index>>
    BY <1>7 DEF Pump, PumpNewFrame, PumpStamp, PumpPixelsDone, PumpOffset, PumpHit, PumpLost
  <2>2. Begun' \in Nat
    <3>1. px_index' \in Nat /\ Hits \in Nat
      BY StreamAssumption DEF TypeOK
    <3> QED BY <3>1 DEF Begun
  <2>3. ASSUME NEW md \in StreamMD, Emits(md), Grown(md)
        PROVE  Len(Generated') <= frame_index' * FrameData' + Begun'
    <3>1. Begun + 1 <= Begun'
      <4>1. CASE PumpNewFrame
        BY <4>1 DEF PumpNewFrame, PumpAt, Begun
      <4>2. CASE PumpStamp
        BY <1>1, <4>2 DEF PumpStamp, PumpAt, Begun, StageInv, InsideFrame
      <4>3. CASE PumpOffset
        BY <1>1, <4>3 DEF PumpOffset, OffsetDue, PumpAt, Begun
      <4>4. CASE PumpHit
        BY <1>1, <4>4 DEF PumpHit, PumpAt, Begun
      <4>5. CASE PumpLost
        BY <1>1, <4>5 DEF PumpLost, PumpAt, Begun
      <4> QED BY <1>7, <2>3, <4>1, <4>2, <4>3, <4>4, <4>5 DEF Emits
    <3>2. Len(Generated') = Len(Generated) + 1
      BY <2>3 DEF Grown
    <3>3. Len(Generated) + 1 <= frame_index * FrameData + Begun'
      BY <1>1, <1>2, <1>3, <1>4, <2>2, <3>1, OneDatumMore
    <3> QED BY <1>5, <2>1, <3>2, <3>3
  <2>4. ASSUME PumpPixelsDone \/ PumpLost, Generated' = Generated
        PROVE  Len(Generated') <= frame_index' * FrameData' + Begun'
    <3>1. Begun <= Begun'
      <4>1. CASE PumpPixelsDone
        <5>1. stage = "pixels" /\ px_index = Hits /\ ~offset_sent
          BY <1>1, <4>1 DEF PumpPixelsDone, PumpAt, StageInv, InsideFrame
        <5> QED BY <1>1, <4>1, <5>1 DEF PumpPixelsDone, Begun
      <4>2. CASE PumpLost
        BY <1>1, <4>2 DEF PumpLost, PumpAt, Begun
      <4> QED BY <2>4, <4>1, <4>2
    <3> QED BY <1>1, <1>2, <1>3, <1>4, <1>5, <2>1, <2>2, <2>4, <3>1
  <2>5. Len(Generated') <= frame_index' * FrameData' + Begun'
    BY <2>3, <2>4, PumpGrows
  <2> QED BY <1>1, <1>2, <1>6, <2>1, <2>5 DEF OverAllInv, LengthInv, OverInv
<1>8. CASE PumpFinished
  <2>1. PICK md \in StreamMD : md.hdr = "finished" /\ Grown(md)
    <3>1. ~PumpPixelsDone /\ ~PumpLost
      BY <1>8 DEF PumpFinished, PumpPixelsDone, PumpLost, PumpAt
    <3>2. PICK md \in StreamMD : Emits(md) /\ Grown(md)
      BY <3>1, PumpGrows
    <3>3. md.hdr = "finished"
      BY <1>8, <3>2 DEF Emits, PumpNewFrame, PumpStamp, PumpOffset, PumpHit, PumpLost,
         PumpFinished, PumpAt
    <3> QED BY <3>2, <3>3
  <2>2. OverInv'
    <3>1. Newest' = md
      BY <1>1, <2>1 DEF Grown, Newest
    <3> QED BY <2>1, <3>1 DEF OverInv
  <2>3. ASSUME armed'
        PROVE  /\ frame_index' < frames_total'
               /\ Len(Generated') <= frame_index' * FrameData' + Begun'
    <3>1. /\ frame_index' = frame_index + 1 /\ frame_index + 1 < frames_total
          /\ stage' = "new_frame"
      BY <1>8, <2>3 DEF PumpFinished
    <3>2. Len(Generated') = Len(Generated) + 1
      BY <2>1 DEF Grown
    <3>3. (frame_index + 1) * FrameData = frame_index * FrameData + FrameData
      BY <1>1, <1>3, OneMore
    <3>4. Len(Generated) + 1 <= frame_index * FrameData + FrameData
      BY <1>1, <1>2, <1>3, <1>4, OneDatumMore
    <3>5. Begun' = 0 /\ frame_index * FrameData + FrameData \in Nat
      BY <1>3, <1>4, <3>1 DEF Begun
    <3>6. frame_index' * FrameData' = frame_index * FrameData + FrameData
      BY <1>5, <3>1, <3>3
    <3> QED BY <1>6, <3>1, <3>2, <3>4, <3>5, <3>6
  <2> QED BY <1>1, <1>2, <1>6, <2>2, <2>3 DEF OverAllInv, LengthInv
<1> QED
  BY <1>7, <1>8

\* A frame that is open leaves room in a staging buffer that holds a whole
\* acquisition.
LEMMA RoomLeft ==
  ASSUME TypeOK, LengthInv, StageInv, StageHoldsAll, armed PROVE HasRoom
<1>1. /\ Len(out) \in Nat /\ Len(buf) \in Nat /\ buf_pos \in Nat /\ buf_pos <= Len(out)
      /\ Len(Generated) = Len(out) + (Len(buf) - buf_pos)
      /\ frames_total \in Nat /\ frame_index \in Nat /\ StageCap \in Nat
  BY GeneratedType, LenProperties, StreamAssumption DEF TypeOK, LengthInv
<1>2. Begun \in Nat /\ Begun < FrameData /\ FrameData \in Nat
  BY BegunBound
<1>3. Len(Generated) <= frame_index * FrameData + Begun /\ frame_index + 1 <= frames_total
  BY <1>1 DEF LengthInv
<1>4. (frame_index + 1) * FrameData <= frames_total * FrameData
  BY <1>1, <1>2, <1>3, Monotonic
<1>5. (frame_index + 1) * FrameData = frame_index * FrameData + FrameData
  BY <1>1, <1>2, OneMore
<1>6. frames_total * FrameData <= StageCap
  BY DEF StageHoldsAll, LengthInv
<1>7. frame_index * FrameData \in Nat /\ frames_total * FrameData \in Nat
  BY <1>1, <1>2, ProductNat
<1>8. Len(buf) <= Len(Generated)
  BY <1>1
<1>9. Len(Generated) < StageCap
  BY <1>1, <1>2, <1>3, <1>4, <1>5, <1>6, <1>7
<1> QED
  BY <1>1, <1>8, <1>9 DEF HasRoom

\* Every step keeps the invariant, where the staging buffer holds a whole
\* acquisition.
LEMMA OverStep ==
  ASSUME StageHoldsAll, TypeOK, TypeOK', OverAllInv, WellFormedInv', [Next]_vars
  PROVE  OverAllInv'
<1>1. /\ Len(out) \in Nat /\ Len(out') \in Nat /\ buf_pos \in Nat /\ buf_pos' \in Nat
      /\ buf_pos <= Len(out) /\ WellFormedInv /\ LengthInv /\ OverInv /\ StageInv
  BY LenProperties DEF TypeOK, OverAllInv, LengthInv, WellFormedInv
<1>2. ASSUME Start, Generated' = <<>> PROVE OverAllInv'
  <2>1. PICK mode \in Modes, n \in FrameCounts, len \in FrameLens : Arm(mode, n, len)
    BY <1>2 DEF Start
  <2>2. /\ frames_total' = n /\ frame_index' = 0 /\ buf_pos' = 0
        /\ armed' => 0 < n /\ stage' = "new_frame"
    BY <2>1 DEF Arm
  <2>3. Len(Generated') = 0 /\ FrameData' \in Nat
    BY <1>2, StreamAssumption DEF FrameData
  <2>4. armed' => Len(Generated') <= frame_index' * FrameData' + Begun'
    <3>1. 0 * FrameData' = 0
      BY <2>3
    <3> QED BY <2>2, <2>3, <3>1 DEF Begun
  <2> QED BY <1>1, <1>2, <2>2, <2>4 DEF OverAllInv, LengthInv, OverInv
<1>3. ASSUME NEW md \in StreamMD, Aborts(md), Grown(md) PROVE OverAllInv'
  <2>1. ~armed' /\ UNCHANGED <<out, buf_pos>>
    BY <1>3 DEF Aborts, StopReturn, history
  <2>2. Newest' = md /\ md.hdr = "aborted"
    BY <1>3, GeneratedType DEF Grown, Newest, Aborts
  <2> QED BY <1>1, <2>1, <2>2 DEF OverAllInv, LengthInv, OverInv
<1>4. ASSUME StopReturn, Generated' = Generated, FrameLeftOpen => ~HasRoom PROVE OverAllInv'
  <2>1. ~armed' /\ UNCHANGED <<out, buf_pos>>
    BY <1>4 DEF StopReturn, history
  <2>2. Generated # <<>> => Newest.hdr \in {"finished", "aborted"}
    <3>1. CASE armed
      <4>1. ~frame_active
        BY <1>1, <1>4, <3>1, RoomLeft DEF FrameLeftOpen
      <4>2. BetweenFrames
        BY <1>1, <3>1, <4>1 DEF StageInv, InsideFrame
      <4>3. frame_index = 0 \/ frame_index > 0
        BY DEF TypeOK
      <4> QED BY <4>2, <4>3 DEF BetweenFrames
    <3>2. CASE ~armed
      BY <1>1, <3>2 DEF OverInv
    <3> QED BY <3>1, <3>2
  <2>3. OverInv'
    BY <1>4, <2>2 DEF OverInv, Newest
  <2> QED BY <1>1, <2>1, <2>3 DEF OverAllInv, LengthInv
<1>5. ASSUME Generated' = Generated, UNCHANGED <<stream, arms>>,
             StopReturn \/ Len(out') - buf_pos' = Len(out) - buf_pos \/ buf_pos' = 0
      PROVE  OverAllInv'
  <2>1. buf_pos' <= Len(out')
    <3>1. StopReturn => UNCHANGED <<out, buf_pos>>
      BY DEF StopReturn, history
    <3> QED BY <1>1, <1>5, <3>1
  <2>2. Begun' = Begun /\ FrameData' = FrameData /\ Newest' = Newest
    BY <1>5 DEF Begun, FrameData, Newest, stream
  <2>3. LengthInv'
    BY <1>1, <1>5, <2>1, <2>2 DEF LengthInv, stream
  <2>4. OverInv'
    BY <1>1, <1>5, <2>2 DEF OverInv, stream
  <2> QED BY <2>3, <2>4 DEF OverAllInv
<1> QED
  BY <1>2, <1>3, <1>4, <1>5, StreamStep, OverPump

\* An acquisition that is over has closed its last frame or aborted it, where
\* the staging buffer holds a whole acquisition (StopTerminates).  The run
\* EmuStreamFullStop shows that it need not be so where it does not.
THEOREM StopClosesFrame == StageHoldsAll /\ Spec => []StopTerminates
<1>1. Init => OverAllInv
  <2> SUFFICES ASSUME Init PROVE OverAllInv
    OBVIOUS
  <2>1. Generated = <<>> /\ Len(Generated) = 0 /\ ~armed /\ buf_pos <= Len(out)
    <3>1. buf_pos = 0 /\ out = <<>> /\ ~armed
      BY DEF Init
    <3>2. Len(out) = 0
      BY <3>1, EmptySeq
    <3> QED BY <3>1, <3>2, StreamStarts
  <2> QED BY <2>1 DEF OverAllInv, WellFormedInv, StageInv, StreamWellFormed, LengthInv, OverInv
<1>2. StageHoldsAll /\ TypeOK /\ TypeOK' /\ OverAllInv /\ [Next]_vars => OverAllInv'
  <2> SUFFICES ASSUME StageHoldsAll, TypeOK, TypeOK', OverAllInv, [Next]_vars PROVE OverAllInv'
    OBVIOUS
  <2>1. WellFormedInv'
    BY WellFormedStep DEF OverAllInv
  <2> QED BY <2>1, OverStep
<1>3. OverAllInv => StopTerminates
  BY DEF OverAllInv, OverInv, StopTerminates, Newest
<1>4. ASSUME StageHoldsAll PROVE Spec => []StopTerminates
  BY <1>1, <1>2, <1>3, <1>4, StreamTypeCorrect, PTL DEF Spec
<1> QED
  BY <1>4
==============================================================================
