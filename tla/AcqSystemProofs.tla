-------------------------- MODULE AcqSystemProofs --------------------------
(***************************************************************************)
(* Theorems about AcqSystem: the client's decoder follows the stream of    *)
(* the readout from end to end.                                            *)
(*                                                                         *)
(* The stream is the sequence g of all data generated since the start      *)
(* command.  A decoder that reads g from its start (Decoder, After) is in  *)
(* state r[i] after i data.  The readout is always in step with r[Len(g)], *)
(* the client with r[p] for the p data it has decoded, and what is pending *)
(* or on the way are the data of g in between (InStep).  When data are     *)
(* lost the client only stays behind r[p]; the frames it counts are still  *)
(* frames the readout has closed.                                          *)
(*                                                                         *)
(* The theorems are about the first call of begin (FirstAcquisition).  Of  *)
(* a later one TLC refutes them: data of an acquisition that was given up  *)
(* may still be on the way when the next begins.                           *)
(***************************************************************************)
EXTENDS AcqSystem, SequenceTheorems, TLAPS

FirstAcquisition == n_begin <= 1

---------------------------------------------------------------------------
(* A decoder that follows the protocol.                                    *)

\* What it knows after some data: whether a frame is open, the hits of that
\* frame, the frames that were finished, the window that hits are dated by
\* and the position of the datum that named it.
Decoder == [active : BOOLEAN, hits : Nat, frames : Nat, window : Nat, mark : Nat]

Fresh == [active |-> FALSE, hits |-> 0, frames |-> 0, window |-> 0, mark |-> 0]

Marks == {"offset", "new_frame"}

\* One datum later.
After(d, md, i) ==
  [active |-> md.hdr = "new_frame" \/ (d.active /\ md.hdr # "finished"),
   hits |-> IF md.hdr = "new_frame" THEN 0
            ELSE IF md.hdr = "px" THEN d.hits + 1 ELSE d.hits,
   frames |-> IF md.hdr = "finished" THEN d.frames + 1 ELSE d.frames,
   window |-> IF md.hdr \in Marks THEN md.v ELSE d.window,
   mark |-> IF md.hdr \in Marks THEN i ELSE d.mark]

\* What a readout that was asked for total frames may send it next.
Legal(d, md, total) ==
  /\ md.hdr # "new_frame" => d.active
  /\ md.hdr = "new_frame" => md.v = 0 /\ ~d.active
  /\ md.hdr = "finished" => d.hits = Hits /\ md.v = Hits
  /\ d.frames < total

\* Its window is the one the last datum that names a window has named.
WindowAt(g, d, i) ==
  /\ d.mark \in 0..i /\ (d.mark = 0 => d.window = 0)
  /\ d.mark > 0 => g[d.mark].hdr \in Marks /\ g[d.mark].v = d.window
  /\ \A j \in 1..i : g[j].hdr \in Marks => j <= d.mark

\* r is what it knows after each datum of the stream g.
IsRun(g, total, r) ==
  /\ r \in [0..Len(g) -> Decoder] /\ r[0] = Fresh
  /\ \A i \in 1..Len(g) : r[i] = After(r[i - 1], g[i], i) /\ Legal(r[i - 1], g[i], total)
  /\ \A i, j \in 0..Len(g) : i <= j => r[i].frames <= r[j].frames
  /\ \A i \in 0..Len(g) : WindowAt(g, r[i], i)

\* The stream h and its run q go on where g and r end.
GoesOn(g, r, h, q) ==
  /\ Len(g) <= Len(h)
  /\ \A i \in 1..Len(g) : h[i] = g[i]
  /\ \A i \in 0..Len(g) : q[i] = r[i]

LEMMA DatumType ==
  ASSUME NEW md \in E!StreamMD
  PROVE  md.hdr \in E!MdHeaders /\ md.v \in Nat
BY DEF E!StreamMD

LEMMA AfterType ==
  ASSUME NEW d \in Decoder, NEW md \in E!StreamMD, NEW i \in Nat
  PROVE  /\ After(d, md, i) \in Decoder
         /\ d.frames <= After(d, md, i).frames
BY DatumType DEF After, Decoder

\* No datum, no knowledge.
LEMMA RunStarts ==
  ASSUME NEW total
  PROVE  IsRun(<<>>, total, [i \in 0..0 |-> Fresh])
<1>1. Len(<<>>) = 0 /\ Fresh \in Decoder
  BY DEF Fresh, Decoder
<1>2. WindowAt(<<>>, Fresh, 0)
  BY DEF WindowAt, Fresh
<1>3. Fresh.frames = 0
  BY DEF Fresh
<1> QED
  BY <1>1, <1>2, <1>3 DEF IsRun

\* One datum more.
LEMMA RunGoesOn ==
  ASSUME NEW g \in Seq(E!StreamMD), NEW total, NEW r, IsRun(g, total, r),
         NEW md \in E!StreamMD, Legal(r[Len(g)], md, total)
  PROVE  \E q : /\ IsRun(Append(g, md), total, q) /\ GoesOn(g, r, Append(g, md), q)
                /\ q[Len(g) + 1] = After(r[Len(g)], md, Len(g) + 1)
<1> DEFINE h == Append(g, md)
           n == Len(g)
           last == After(r[n], md, n + 1)
           q == [i \in 0..(n + 1) |-> IF i <= n THEN r[i] ELSE last]
<1>1. /\ n \in Nat /\ Len(h) = n + 1
      /\ \A i \in 1..n : h[i] = g[i]
      /\ h[n + 1] = md
  BY LenProperties, AppendProperties
<1>2. r \in [0..n -> Decoder] /\ r[n] \in Decoder
  BY <1>1 DEF IsRun
<1>3. last \in Decoder /\ r[n].frames <= last.frames
  BY <1>1, <1>2, AfterType
<1>4. q \in [0..(n + 1) -> Decoder] /\ (\A i \in 0..n : q[i] = r[i]) /\ q[n + 1] = last
  <2> HIDE DEF last, n
  <2> QED BY <1>1, <1>2, <1>3
<1>5. \A i, j \in 0..(n + 1) : i <= j => q[i].frames <= q[j].frames
  <2>1. \A i, j \in 0..n : i <= j => r[i].frames <= r[j].frames
    BY DEF IsRun
  <2>2. \A i \in 0..n : r[i].frames \in Nat /\ r[i].frames <= r[n].frames
    <3> HIDE DEF n
    <3> SUFFICES ASSUME NEW i \in 0..n PROVE r[i].frames \in Nat /\ r[i].frames <= r[n].frames
      OBVIOUS
    <3>1. n \in 0..n /\ i <= n
      BY <1>1
    <3>2. r[i] \in Decoder
      BY <1>2
    <3> QED BY <2>1, <3>1, <3>2 DEF Decoder
  <2>3. last.frames \in Nat /\ r[n].frames \in Nat
    BY <1>2, <1>3 DEF Decoder
  <2> HIDE DEF last, q, n
  <2>4. ASSUME NEW i \in 0..(n + 1), NEW j \in 0..(n + 1), i <= j
        PROVE  q[i].frames <= q[j].frames
    <3>1. CASE j <= n
      BY <1>1, <1>4, <2>1, <2>4, <3>1
    <3>2. CASE j = n + 1 /\ i <= n
      BY <1>1, <1>3, <1>4, <2>2, <2>3, <3>2
    <3>3. CASE j = n + 1 /\ i = n + 1
      BY <1>4, <2>3, <3>3
    <3> QED BY <1>1, <2>4, <3>1, <3>2, <3>3
  <2> QED BY <2>4
<1>6. \A i \in 1..(n + 1) : q[i] = After(q[i - 1], h[i], i) /\ Legal(q[i - 1], h[i], total)
  <2>1. \A i \in 1..n : r[i] = After(r[i - 1], g[i], i) /\ Legal(r[i - 1], g[i], total)
    BY DEF IsRun
  <2>2. ASSUME NEW i \in 1..(n + 1)
        PROVE  q[i] = After(q[i - 1], h[i], i) /\ Legal(q[i - 1], h[i], total)
    <3>1. CASE i \in 1..n
      <4>1. i \in 0..n /\ i - 1 \in 0..n
        BY <1>1, <3>1
      <4> HIDE DEF q, h, n
      <4> QED BY <1>1, <1>4, <2>1, <3>1, <4>1
    <3>2. CASE i = n + 1
      <4>1. i - 1 = n /\ n \in 0..n
        BY <1>1, <3>2
      <4>2. q[n] = r[n]
        BY <1>4, <4>1
      <4> HIDE DEF q, h, n
      <4> QED BY <1>1, <1>4, <3>2, <4>1, <4>2 DEF n
    <3> QED BY <1>1, <2>2, <3>1, <3>2
  <2> QED BY <2>2
<1>7. \A i \in 0..(n + 1) : WindowAt(h, q[i], i)
  <2>1. \A i \in 0..n : WindowAt(g, r[i], i)
    BY DEF IsRun
  <2>2. ASSUME NEW i \in 0..n PROVE WindowAt(h, q[i], i)
    <3>1. WindowAt(g, r[i], i) /\ q[i] = r[i] /\ i <= n
      BY <1>1, <1>4, <2>1
    <3> HIDE DEF q, h, n
    <3>2. r[i].mark \in 0..i /\ (r[i].mark > 0 => r[i].mark \in 1..n)
      BY <1>1, <3>1 DEF WindowAt
    <3>3. r[i].mark > 0 => h[r[i].mark] = g[r[i].mark]
      BY <1>1, <3>2
    <3>4. \A j \in 1..i : h[j] = g[j]
      BY <1>1, <3>1
    <3> QED BY <3>1, <3>2, <3>3, <3>4 DEF WindowAt
  <2>3. WindowAt(h, last, n + 1)
    <3>1. WindowAt(g, r[n], n)
      BY <1>1, <2>1
    <3> HIDE DEF h, n
    <3>2. PICK d : d = r[n]
      OBVIOUS
    <3>3. /\ d.mark \in 0..n /\ (d.mark = 0 => d.window = 0)
          /\ d.mark > 0 => g[d.mark].hdr \in Marks /\ g[d.mark].v = d.window
          /\ \A j \in 1..n : g[j].hdr \in Marks => j <= d.mark
      BY <3>1, <3>2 DEF WindowAt
    <3>4. last.mark = (IF md.hdr \in Marks THEN n + 1 ELSE d.mark)
          /\ last.window = (IF md.hdr \in Marks THEN md.v ELSE d.window)
      BY <3>2 DEF After
    <3> HIDE DEF last
    <3>5. CASE md.hdr \in Marks
      BY <1>1, <3>4, <3>5 DEF WindowAt
    <3>6. CASE md.hdr \notin Marks
      <4>1. last.mark = d.mark /\ last.window = d.window
        BY <3>4, <3>6
      <4>2. d.mark > 0 => h[d.mark] = g[d.mark]
        BY <1>1, <3>3
      <4>3. \A j \in 1..(n + 1) : h[j].hdr \in Marks => j <= d.mark
        BY <1>1, <3>3, <3>6
      <4>4. d.mark \in 0..(n + 1)
        BY <1>1, <3>3
      <4> QED BY <3>3, <4>1, <4>2, <4>3, <4>4 DEF WindowAt
    <3> QED BY <3>5, <3>6
  <2> HIDE DEF q, h, n, last
  <2>4. \A i \in 0..(n + 1) : i \in 0..n \/ i = n + 1
    BY <1>1
  <2> QED BY <1>1, <1>4, <2>2, <2>3, <2>4
<1>8. q[0] = Fresh
  BY <1>1, <1>4 DEF IsRun
<1>9. IsRun(h, total, q)
  <2> HIDE DEF q, h, n, last
  <2> QED BY <1>1, <1>4, <1>5, <1>6, <1>7, <1>8 DEF IsRun
<1>10. GoesOn(g, r, h, q)
  <2> HIDE DEF q, h, last
  <2> QED BY <1>1, <1>4 DEF GoesOn
<1> QED
  BY <1>4, <1>9, <1>10
---------------------------------------------------------------------------
(* The readout and its stream.                                             *)

\* The data of the acquisition: those handed over, then those staged.
Count == Len(e_out) + (Len(e_buf) - e_buf_pos)

Datum(i) == IF i <= Len(e_out) THEN e_out[i] ELSE e_buf[e_buf_pos + (i - Len(e_out))]

IsStream(g) ==
  /\ g \in Seq(E!StreamMD) /\ Len(g) = Count
  /\ \A i \in 1..Count : g[i] = Datum(i)

ReadoutType ==
  /\ e_now \in Nat /\ e_arms \in Nat /\ e_frames_total \in Nat /\ e_frame_index \in Nat
  /\ e_frame_open \in Nat /\ e_frame_len \in Nat /\ e_px_index \in 0..Hits
  /\ e_armed \in BOOLEAN /\ e_frame_active \in BOOLEAN
  /\ e_tokens \in Nat /\ e_token_frac \in Nat
  /\ e_out \in Seq(E!StreamMD) /\ e_buf \in Seq(E!StreamMD) /\ e_buf_pos \in 0..Len(e_buf)

\* The readout knows what a decoder of its data knows.
ReadoutKnows(d) ==
  /\ e_frame_index = d.frames
  /\ e_armed =>
       /\ e_frame_index < e_frames_total /\ e_stage # "idle"
       /\ e_frame_active = d.active /\ (e_stage = "new_frame" <=> ~d.active)
       /\ d.active => e_px_index = d.hits
       /\ e_stage \in {"end_lsb", "end_msb", "lost", "finished"} => e_px_index = Hits

ReadoutAt(g, r) ==
  IsStream(g) /\ IsRun(g, e_frames_total, r) /\ ReadoutKnows(r[Len(g)])

\* What stays as it is unless a command arrives or data are handed over.
Quiet == UNCHANGED <<e_out, e_arms, e_frames_total>>

LEMMA StreamType ==
  ASSUME ReadoutType
  PROVE  /\ Len(e_out) \in Nat /\ Len(e_buf) \in Nat /\ e_buf_pos \in Nat
         /\ e_buf_pos <= Len(e_buf) /\ Count \in Nat /\ Len(e_out) <= Count
         /\ \A i \in 1..Len(e_out) : e_out[i] \in E!StreamMD
         /\ \A i \in 1..Len(e_buf) : e_buf[i] \in E!StreamMD
<1>1. Len(e_out) \in Nat /\ Len(e_buf) \in Nat /\ e_buf_pos \in 0..Len(e_buf)
  BY LenProperties DEF ReadoutType
<1> QED
  BY <1>1, ElementOfSeq DEF Count, ReadoutType

\* What is emitted into a staging buffer with room is added to the stream.
LEMMA EmitGrows ==
  ASSUME ReadoutType, NEW g, IsStream(g), NEW md \in E!StreamMD,
         e_buf' = Append(e_buf, md), UNCHANGED <<e_out, e_buf_pos>>
  PROVE  /\ IsStream(Append(g, md))'
         /\ e_buf' \in Seq(E!StreamMD) /\ e_buf_pos' \in 0..Len(e_buf')
<1>1. /\ Len(e_out) \in Nat /\ Len(e_buf) \in Nat /\ e_buf_pos \in Nat
      /\ e_buf_pos <= Len(e_buf) /\ Count \in Nat
  BY StreamType
<1>2. g \in Seq(E!StreamMD) /\ Len(g) = Count /\ \A i \in 1..Count : g[i] = Datum(i)
  BY DEF IsStream
<1>3. /\ e_buf' \in Seq(E!StreamMD) /\ Len(e_buf') = Len(e_buf) + 1
      /\ \A i \in 1..Len(e_buf) : e_buf'[i] = e_buf[i]
      /\ e_buf'[Len(e_buf) + 1] = md
  BY AppendProperties DEF ReadoutType
<1>4. /\ Append(g, md) \in Seq(E!StreamMD) /\ Len(Append(g, md)) = Count + 1
      /\ \A i \in 1..Count : Append(g, md)[i] = g[i]
      /\ Append(g, md)[Count + 1] = md
  BY <1>2, AppendProperties
<1>5. Count' = Count + 1
  BY <1>1, <1>3 DEF Count
<1>6. \A i \in 1..(Count + 1) : Append(g, md)[i] = Datum(i)'
  <2>1. PICK lo \in Nat, lb \in Nat, ps \in Nat, n \in Nat :
          /\ lo = Len(e_out) /\ lb = Len(e_buf) /\ ps = e_buf_pos /\ n = Count
          /\ ps <= lb /\ n = lo + (lb - ps)
    BY <1>1 DEF Count
  <2>2. ASSUME NEW i \in 1..(n + 1) PROVE Append(g, md)[i] = Datum(i)'
    <3>1. CASE i <= lo
      <4>1. i \in 1..n
        BY <2>1, <3>1
      <4> QED BY <1>2, <1>4, <2>1, <3>1, <4>1 DEF Datum
    <3>2. CASE i > lo /\ i <= n
      <4>1. ps + (i - lo) \in 1..lb /\ i \in 1..n /\ ~(i <= lo)
        BY <2>1, <3>2
      <4>2. Datum(i) = e_buf[ps + (i - lo)] /\ Datum(i)' = e_buf'[ps + (i - lo)]
        BY <2>1, <4>1 DEF Datum
      <4>3. PICK k \in 1..Len(e_buf) : k = ps + (i - lo)
        BY <2>1, <4>1
      <4>4. Append(g, md)[i] = Datum(i)
        BY <1>2, <1>4, <2>1, <4>1
      <4>5. e_buf'[k] = e_buf[k]
        BY <1>3
      <4>6. Datum(i)' = e_buf'[k] /\ Datum(i) = e_buf[k]
        BY <4>2, <4>3
      <4>7. Datum(i)' = e_buf[k]
        BY <4>5, <4>6
      <4> QED BY <4>4, <4>6, <4>7
    <3>3. CASE i = n + 1
      <4>1. ps + (i - lo) = lb + 1 /\ ~(i <= lo)
        BY <2>1, <3>3
      <4>2. Datum(i)' = e_buf'[lb + 1]
        BY <2>1, <4>1 DEF Datum
      <4> QED BY <1>3, <1>4, <2>1, <3>3, <4>2
    <3>4. i <= lo \/ (i > lo /\ i <= n) \/ i = n + 1
      BY <2>2
    <3> QED BY <3>1, <3>2, <3>3, <3>4
  <2> QED BY <2>1, <2>2
<1>7. e_buf_pos' \in 0..Len(e_buf')
  BY <1>1, <1>3
<1> QED
  BY <1>3, <1>4, <1>5, <1>6, <1>7 DEF IsStream

\* A legal datum that is emitted is the next of the stream and of its run.
LEMMA EmitStep ==
  ASSUME ReadoutType, NEW g, NEW r, ReadoutAt(g, r), NEW md \in E!StreamMD,
         E!HasRoom, E!Emit(md), UNCHANGED <<e_out, e_buf_pos, e_frames_total>>,
         Legal(r[Len(g)], md, e_frames_total)
  PROVE  /\ e_buf' \in Seq(E!StreamMD) /\ e_buf_pos' \in 0..Len(e_buf')
         /\ \E h, q : /\ IsStream(h)' /\ IsRun(h, e_frames_total, q)' /\ GoesOn(g, r, h, q)
                      /\ q[Len(h)] = After(r[Len(g)], md, Len(h))
<1>1. e_buf' = Append(e_buf, md)
  BY DEF E!Emit, E!HasRoom
<1>2. /\ IsStream(Append(g, md))'
      /\ e_buf' \in Seq(E!StreamMD) /\ e_buf_pos' \in 0..Len(e_buf')
  BY <1>1, EmitGrows DEF ReadoutAt
<1>3. PICK total : total = e_frames_total /\ total = e_frames_total'
  OBVIOUS
<1>4. g \in Seq(E!StreamMD) /\ IsRun(g, total, r) /\ Legal(r[Len(g)], md, total)
  BY <1>3 DEF ReadoutAt, IsStream
<1>5. PICK q : /\ IsRun(Append(g, md), total, q) /\ GoesOn(g, r, Append(g, md), q)
               /\ q[Len(g) + 1] = After(r[Len(g)], md, Len(g) + 1)
  BY <1>4, RunGoesOn
<1>6. Len(Append(g, md)) = Len(g) + 1
  BY <1>4, AppendProperties
<1>7. IsRun(Append(g, md), e_frames_total, q)'
  BY <1>3, <1>5
<1> QED
  BY <1>2, <1>5, <1>6, <1>7

\* Nothing is emitted, nothing handed over.
LEMMA StreamKept ==
  ASSUME NEW g, NEW r, IsStream(g), IsRun(g, e_frames_total, r),
         UNCHANGED <<e_out, e_buf, e_buf_pos, e_frames_total>>
  PROVE  IsStream(g)' /\ IsRun(g, e_frames_total, r)' /\ GoesOn(g, r, g, r)
<1>1. IsStream(g)'
  BY DEF IsStream, Count, Datum
<1>2. IsRun(g, e_frames_total, r)'
  OBVIOUS
<1>3. Len(g) \in Nat
  BY LenProperties DEF IsStream
<1> QED
  BY <1>1, <1>2, <1>3 DEF GoesOn
---------------------------------------------------------------------------
(* The steps of the readout.                                               *)

\* The stream goes on, and the readout still knows it.
Continues(g, r) == \E h, q : ReadoutAt(h, q)' /\ GoesOn(g, r, h, q)

\* What the decoder knows after a datum with header h.
Becomes(d, e, h) ==
  /\ e.active <=> (h = "new_frame" \/ (d.active /\ h # "finished"))
  /\ e.hits = IF h = "new_frame" THEN 0 ELSE IF h = "px" THEN d.hits + 1 ELSE d.hits
  /\ e.frames = IF h = "finished" THEN d.frames + 1 ELSE d.frames

LEMMA LastKnown ==
  ASSUME ReadoutType, NEW g, NEW r, ReadoutAt(g, r)
  PROVE  /\ Len(g) \in Nat /\ r[Len(g)] \in Decoder /\ ReadoutKnows(r[Len(g)])
         /\ IsStream(g) /\ IsRun(g, e_frames_total, r)
<1>1. Len(g) \in Nat
  BY LenProperties DEF ReadoutAt, IsStream
<1> QED
  BY <1>1 DEF ReadoutAt, IsRun

\* The armed readout emits a datum.
LEMMA ArmedEmits ==
  ASSUME ReadoutType, NEW g, NEW r, ReadoutAt(g, r), e_armed,
         NEW h \in E!MdHeaders, NEW v \in Nat, NEW t \in Nat,
         E!HasRoom, E!Emit(E!Md(h, v, t)), UNCHANGED <<e_out, e_buf_pos, e_frames_total>>,
         h # "new_frame" => r[Len(g)].active,
         h = "new_frame" => v = 0 /\ ~r[Len(g)].active,
         h = "finished" => r[Len(g)].hits = Hits /\ v = Hits
  PROVE  /\ e_buf' \in Seq(E!StreamMD) /\ e_buf_pos' \in 0..Len(e_buf')
         /\ \E s, q : /\ IsStream(s)' /\ IsRun(s, e_frames_total, q)' /\ GoesOn(g, r, s, q)
                      /\ Becomes(r[Len(g)], q[Len(s)], h)
<1>1. PICK md : md = E!Md(h, v, t)
  OBVIOUS
<1>2. md.hdr = h /\ md.v = v /\ md \in E!StreamMD
  BY <1>1 DEF E!Md, E!StreamMD, ReadoutType
<1>3. Legal(r[Len(g)], md, e_frames_total)
  <2>1. r[Len(g)].frames < e_frames_total
    BY LastKnown DEF ReadoutKnows
  <2> QED BY <1>2, <2>1 DEF Legal
<1>4. /\ e_buf' \in Seq(E!StreamMD) /\ e_buf_pos' \in 0..Len(e_buf')
      /\ \E s, q : /\ IsStream(s)' /\ IsRun(s, e_frames_total, q)' /\ GoesOn(g, r, s, q)
                   /\ q[Len(s)] = After(r[Len(g)], md, Len(s))
  BY <1>1, <1>2, <1>3, EmitStep
<1>5. ASSUME NEW e, NEW i, e = After(r[Len(g)], md, i) PROVE Becomes(r[Len(g)], e, h)
  BY <1>2, <1>5 DEF After, Becomes
<1> QED
  BY <1>4, <1>5

\* A hit is some time after its frame opened.
LEMMA HitTime ==
  ASSUME ReadoutType, NEW i \in Nat
  PROVE  E!HitDue(i) - e_frame_open \in Nat
<1>1. e_frame_open \in Nat /\ e_frame_len \in Nat /\ Hits + 1 \in Nat \ {0}
  BY SystemAssumption DEF ReadoutType
<1>2. e_frame_len \div (Hits + 1) \in Nat
  <2>1. PICK n \in Nat \ {0}, l \in Nat : n = Hits + 1 /\ l = e_frame_len
    BY <1>1
  <2>2. l \div n \in Nat
    <3>1. l % n \in 0..(n - 1) /\ l = n * (l \div n) + (l % n) /\ l \div n \in Int
      BY <2>1
    <3> QED BY <3>1
  <2> QED BY <2>1, <2>2
<1>3. (e_frame_len \div (Hits + 1)) * (i + 1) \in Nat
  BY <1>2
<1> QED BY <1>1, <1>3 DEF E!HitDue

LEMMA PumpStep ==
  ASSUME ReadoutType, NEW g, NEW r, ReadoutAt(g, r), E!Pump
  PROVE  ReadoutType' /\ Quiet /\ Continues(g, r)
<1>1. /\ e_armed /\ E!HasRoom /\ UNCHANGED <<e_out, e_arms, e_buf_pos>>
      /\ UNCHANGED <<e_now, e_tokens, e_token_frac, e_frames_total, e_frame_len>>
  BY DEF E!Pump, E!PumpNewFrame, E!PumpStamp, E!PumpPixelsDone, E!PumpOffset, E!PumpHit,
         E!PumpLost, E!PumpFinished, E!PumpAt, E!PumpGoesOn, E!history, E!bucket
<1>2. PICK d \in Decoder : d = r[Len(g)]
  BY LastKnown
<1>3. ReadoutKnows(d) /\ IsStream(g) /\ IsRun(g, e_frames_total, r)
  BY <1>2, LastKnown
<1>4. /\ e_frame_index = d.frames /\ e_frame_index < e_frames_total /\ e_stage # "idle"
      /\ e_frame_active = d.active /\ (e_stage = "new_frame" <=> ~d.active)
      /\ d.active => e_px_index = d.hits
      /\ e_stage \in {"end_lsb", "end_msb", "lost", "finished"} => e_px_index = Hits
  BY <1>1, <1>3 DEF ReadoutKnows
<1>5. ASSUME NEW h \in E!MdHeaders, NEW v \in Nat, NEW t \in Nat, E!Emit(E!Md(h, v, t)),
             h # "new_frame" => d.active, h = "new_frame" => v = 0 /\ ~d.active,
             h = "finished" => d.hits = Hits /\ v = Hits
      PROVE  /\ e_buf' \in Seq(E!StreamMD) /\ e_buf_pos' \in 0..Len(e_buf')
             /\ \E s, q, e : /\ IsStream(s)' /\ IsRun(s, e_frames_total, q)'
                             /\ GoesOn(g, r, s, q) /\ Becomes(d, e, h) /\ e = q[Len(s)]
  BY <1>1, <1>2, <1>5, ArmedEmits
<1>6. ASSUME \E s, q, e : /\ IsStream(s)' /\ IsRun(s, e_frames_total, q)'
                          /\ GoesOn(g, r, s, q) /\ e = q[Len(s)] /\ ReadoutKnows(e)'
      PROVE  Continues(g, r)
  BY <1>6 DEF Continues, ReadoutAt
<1>7. ASSUME UNCHANGED e_buf, ReadoutKnows(d)' PROVE Continues(g, r)
  <2>1. IsStream(g)' /\ IsRun(g, e_frames_total, r)' /\ GoesOn(g, r, g, r)
    BY <1>1, <1>3, <1>7, StreamKept
  <2> QED BY <1>2, <1>6, <1>7, <2>1
<1> DEFINE Typed == /\ e_frame_index' \in Nat /\ e_frame_open' \in Nat /\ e_px_index' \in 0..Hits
                    /\ e_armed' \in BOOLEAN /\ e_frame_active' \in BOOLEAN
                    /\ e_buf' \in Seq(E!StreamMD) /\ e_buf_pos' \in 0..Len(e_buf')
<1>8. ASSUME Typed PROVE ReadoutType'
  BY <1>1, <1>8 DEF ReadoutType
<1>9. /\ e_frame_index \in Nat /\ e_frame_open \in Nat /\ e_px_index \in 0..Hits /\ Hits \in Nat
      /\ e_frames_total \in Nat /\ e_frame_len \in Nat
      /\ e_buf \in Seq(E!StreamMD) /\ e_buf_pos \in 0..Len(e_buf) /\ e_frame_active \in BOOLEAN
  BY SystemAssumption DEF ReadoutType
<1>17. e_px_index \in Nat
  BY <1>9
<1>10. CASE E!PumpNewFrame
  <2>1. /\ E!Emit(E!Md("new_frame", 0, 0)) /\ e_stage = "new_frame"
        /\ e_stage' = "start_lsb" /\ e_frame_active' = TRUE /\ e_px_index' = 0
        /\ UNCHANGED <<e_armed, e_frame_index, e_frame_open>>
    BY <1>10 DEF E!PumpNewFrame, E!PumpAt
  <2>2. "new_frame" \in E!MdHeaders /\ ~d.active
    BY <1>4, <2>1 DEF E!MdHeaders
  <2>3. PICK s, q, e : /\ IsStream(s)' /\ IsRun(s, e_frames_total, q)'
                       /\ GoesOn(g, r, s, q) /\ Becomes(d, e, "new_frame") /\ e = q[Len(s)]
    BY <1>5, <2>1, <2>2
  <2>4. ReadoutKnows(e)'
    BY <1>1, <1>4, <2>1, <2>3 DEF Becomes, ReadoutKnows
  <2>5. Typed
    BY <1>1, <1>5, <1>9, <2>1, <2>2
  <2> QED BY <1>1, <1>6, <1>8, <2>3, <2>4, <2>5 DEF Quiet
<1>11. CASE E!PumpStamp
  <2>1. /\ e_stage \in {"start_lsb", "start_msb", "end_lsb", "end_msb"}
        /\ \E v \in Nat : E!Emit(E!Md(e_stage, v, 0))
        /\ e_stage' \in {"start_msb", "pixels", "end_msb", "lost"}
        /\ e_stage' \in {"end_msb", "lost"} => e_stage \in {"end_lsb", "end_msb"}
        /\ UNCHANGED <<e_armed, e_frame_active, e_frame_index, e_frame_open, e_px_index>>
    BY <1>9, <1>11 DEF E!PumpStamp, E!PumpAt, E!FrameClose
  <2>2. PICK h \in E!MdHeaders, v \in Nat : h = e_stage /\ E!Emit(E!Md(h, v, 0))
    BY <2>1 DEF E!MdHeaders
  <2>3. d.active /\ h # "new_frame" /\ h # "finished" /\ h # "px"
    BY <1>4, <2>1, <2>2
  <2>4. PICK s, q, e : /\ IsStream(s)' /\ IsRun(s, e_frames_total, q)'
                       /\ GoesOn(g, r, s, q) /\ Becomes(d, e, h) /\ e = q[Len(s)]
    BY <1>5, <2>2, <2>3
  <2>5. ReadoutKnows(e)'
    BY <1>1, <1>4, <2>1, <2>3, <2>4 DEF Becomes, ReadoutKnows
  <2>6. Typed
    BY <1>1, <1>5, <1>9, <2>1, <2>2, <2>3
  <2> QED BY <1>1, <1>6, <1>8, <2>4, <2>5, <2>6 DEF Quiet
<1>12. CASE E!PumpPixelsDone
  <2>1. /\ e_stage = "pixels" /\ e_stage' = "end_lsb" /\ e_px_index >= Hits
        /\ UNCHANGED <<e_armed, e_frame_active, e_frame_index, e_frame_open, e_px_index, e_buf>>
    BY <1>12 DEF E!PumpPixelsDone, E!PumpAt
  <2>2. e_px_index = Hits
    BY <1>9, <2>1
  <2>3. ReadoutKnows(d)'
    BY <1>1, <1>4, <2>1, <2>2 DEF ReadoutKnows
  <2>4. Typed
    BY <1>1, <1>9, <2>1
  <2> QED BY <1>1, <1>7, <1>8, <2>1, <2>3, <2>4 DEF Quiet
<1>13. CASE E!PumpOffset
  <2>1. /\ e_stage = "pixels" /\ e_stage' = e_stage
        /\ \E v, t : E!Emit(E!Md("offset", v, t)) /\ v = E!Window(t)
                     /\ t = E!HitDue(e_px_index) - e_frame_open
        /\ UNCHANGED <<e_armed, e_frame_active, e_frame_index, e_frame_open, e_px_index>>
    BY <1>13 DEF E!PumpOffset, E!PumpAt
  <2>2. PICK t \in Nat, v \in Nat : E!Emit(E!Md("offset", v, t))
    <3>1. \A t \in Nat : E!Window(t) \in Nat
      <4>1. ASSUME NEW t \in Nat PROVE t \div ToaSpan \in Nat
        <5>1. ToaSpan \in Nat \ {0}
          BY AcqAssumption
        <5>2. /\ t % ToaSpan \in 0..(ToaSpan - 1) /\ t = ToaSpan * (t \div ToaSpan) + (t % ToaSpan)
              /\ t \div ToaSpan \in Int
          BY <5>1
        <5> QED BY <5>1, <5>2
      <4> QED BY <4>1 DEF E!Window
    <3>2. E!HitDue(e_px_index) - e_frame_open \in Nat
      BY <1>17, HitTime
    <3> QED BY <2>1, <3>1, <3>2
  <2>3. "offset" \in E!MdHeaders /\ d.active
    BY <1>4, <2>1 DEF E!MdHeaders
  <2>4. PICK s, q, e : /\ IsStream(s)' /\ IsRun(s, e_frames_total, q)'
                       /\ GoesOn(g, r, s, q) /\ Becomes(d, e, "offset") /\ e = q[Len(s)]
    BY <1>5, <2>2, <2>3
  <2>5. ReadoutKnows(e)'
    BY <1>1, <1>4, <2>1, <2>3, <2>4 DEF Becomes, ReadoutKnows
  <2>6. Typed
    BY <1>1, <1>5, <1>9, <2>1, <2>2, <2>3
  <2> QED BY <1>1, <1>6, <1>8, <2>4, <2>5, <2>6 DEF Quiet
<1>14. CASE E!PumpHit
  <2>1. /\ e_stage = "pixels" /\ e_stage' = e_stage /\ e_px_index < Hits
        /\ \E v, t : E!Emit(E!Md("px", v, t)) /\ v = t % ToaSpan
                     /\ t = E!HitDue(e_px_index) - e_frame_open
        /\ e_px_index' = e_px_index + 1
        /\ UNCHANGED <<e_armed, e_frame_active, e_frame_index, e_frame_open>>
    BY <1>14 DEF E!PumpHit, E!PumpAt
  <2>2. PICK t \in Nat, v \in Nat : E!Emit(E!Md("px", v, t))
    <3>1. \A t \in Nat : t % ToaSpan \in Nat
      BY AcqAssumption
    <3>2. E!HitDue(e_px_index) - e_frame_open \in Nat
      BY <1>17, HitTime
    <3> QED BY <2>1, <3>1, <3>2
  <2>3. "px" \in E!MdHeaders /\ d.active
    BY <1>4, <2>1 DEF E!MdHeaders
  <2>4. PICK s, q, e : /\ IsStream(s)' /\ IsRun(s, e_frames_total, q)'
                       /\ GoesOn(g, r, s, q) /\ Becomes(d, e, "px") /\ e = q[Len(s)]
    BY <1>5, <2>2, <2>3
  <2>5. ReadoutKnows(e)'
    BY <1>1, <1>4, <2>1, <2>3, <2>4 DEF Becomes, ReadoutKnows
  <2>6. Typed
    BY <1>1, <1>5, <1>9, <2>1, <2>2, <2>3
  <2> QED BY <1>1, <1>6, <1>8, <2>4, <2>5, <2>6 DEF Quiet
<1>15. CASE E!PumpLost
  <2>1. /\ e_stage = "lost" /\ e_stage' = "finished"
        /\ (Lost > 0 /\ E!Emit(E!Md("lost", Lost, 0))) \/ UNCHANGED e_buf
        /\ UNCHANGED <<e_armed, e_frame_active, e_frame_index, e_frame_open, e_px_index>>
    BY <1>15 DEF E!PumpLost, E!PumpAt
  <2>2. d.active /\ e_px_index = Hits
    BY <1>4, <2>1
  <2>3. CASE UNCHANGED e_buf
    <3>1. ReadoutKnows(d)'
      BY <1>1, <1>4, <2>1, <2>2 DEF ReadoutKnows
    <3>2. Typed
      BY <1>1, <1>9, <2>1, <2>3
    <3> QED BY <1>1, <1>7, <1>8, <2>3, <3>1, <3>2 DEF Quiet
  <2>4. CASE E!Emit(E!Md("lost", Lost, 0))
    <3>1. "lost" \in E!MdHeaders /\ Lost \in Nat
      BY SystemAssumption DEF E!MdHeaders
    <3>2. PICK s, q, e : /\ IsStream(s)' /\ IsRun(s, e_frames_total, q)'
                         /\ GoesOn(g, r, s, q) /\ Becomes(d, e, "lost") /\ e = q[Len(s)]
      BY <1>5, <2>2, <2>4, <3>1
    <3>3. ReadoutKnows(e)'
      BY <1>1, <1>4, <2>1, <2>2, <3>2 DEF Becomes, ReadoutKnows
    <3>4. Typed
      BY <1>1, <1>5, <1>9, <2>1, <2>2, <2>4, <3>1
    <3> QED BY <1>1, <1>6, <1>8, <3>2, <3>3, <3>4 DEF Quiet
  <2> QED BY <2>1, <2>3, <2>4
<1>16. CASE E!PumpFinished
  <2>1. /\ E!Emit(E!Md("finished", e_px_index, 0)) /\ e_stage = "finished"
        /\ e_frame_active' = FALSE /\ e_frame_index' = e_frame_index + 1
        /\ \/ /\ e_frame_index + 1 < e_frames_total /\ e_frame_open' = e_frame_open + e_frame_len
              /\ e_stage' = "new_frame" /\ UNCHANGED e_armed
           \/ e_armed' = FALSE /\ UNCHANGED e_frame_open
        /\ UNCHANGED e_px_index
    BY <1>16 DEF E!PumpFinished, E!PumpAt
  <2>2. d.active /\ e_px_index = Hits /\ d.hits = Hits /\ "finished" \in E!MdHeaders
    BY <1>4, <2>1 DEF E!MdHeaders
  <2>3. PICK s, q, e : /\ IsStream(s)' /\ IsRun(s, e_frames_total, q)'
                       /\ GoesOn(g, r, s, q) /\ Becomes(d, e, "finished") /\ e = q[Len(s)]
    BY <1>5, <1>9, <2>1, <2>2
  <2>4. e.active = FALSE /\ e.frames = d.frames + 1
    BY <1>1, <2>1, <2>3, <1>2 DEF Becomes, IsRun
  <2>5. ReadoutKnows(e)'
    <3>1. CASE e_frame_index + 1 < e_frames_total /\ e_stage' = "new_frame" /\ UNCHANGED e_armed
      BY <1>1, <1>4, <2>1, <2>4, <3>1 DEF ReadoutKnows
    <3>2. CASE e_armed' = FALSE
      BY <1>4, <2>1, <2>4, <3>2 DEF ReadoutKnows
    <3> QED BY <2>1, <3>1, <3>2
  <2>6. /\ e_frame_index' \in Nat /\ e_frame_active' \in BOOLEAN
        /\ e_frame_open' \in Nat /\ e_armed' \in BOOLEAN
    <3>1. e_frame_index' \in Nat
      BY <1>9, <2>1
    <3>4. e_frame_active' \in BOOLEAN
      BY ONLY <2>1
    <3>2. e_frame_open' \in Nat
      BY <1>9, <2>1
    <3>3. e_armed' \in BOOLEAN
      BY <1>1, <2>1
    <3> QED BY <3>1, <3>2, <3>3, <3>4
  <2>7. e_buf' \in Seq(E!StreamMD) /\ e_buf_pos' \in 0..Len(e_buf')
    BY <1>5, <1>9, <2>1, <2>2
  <2>8. Typed
    BY <1>9, <2>1, <2>6, <2>7
  <2> QED BY <1>1, <1>6, <1>8, <2>3, <2>5, <2>8 DEF Quiet
<1> QED
  BY <1>10, <1>11, <1>12, <1>13, <1>14, <1>15, <1>16 DEF E!Pump

\* The end of a stop command: what is open is closed by an aborted datum, if
\* there is room for it.
LEMMA StopStep ==
  ASSUME ReadoutType, NEW g, NEW r, ReadoutAt(g, r), E!StopReturn
  PROVE  ReadoutType' /\ Quiet /\ Continues(g, r)
<1>1. /\ UNCHANGED <<e_out, e_arms, e_buf_pos, e_now, e_tokens, e_token_frac>>
      /\ UNCHANGED <<e_frames_total, e_frame_len, e_frame_index, e_frame_open, e_px_index>>
      /\ e_armed' = FALSE /\ e_frame_active' = FALSE
  BY DEF E!StopReturn, E!history, E!bucket
<1>2. PICK d \in Decoder : d = r[Len(g)]
  BY LastKnown
<1>3. ReadoutKnows(d) /\ IsStream(g) /\ IsRun(g, e_frames_total, r)
  BY <1>2, LastKnown
<1>4. ASSUME NEW e, e.frames = d.frames PROVE ReadoutKnows(e)'
  BY <1>1, <1>3, <1>4 DEF ReadoutKnows
<1>5. ASSUME e_buf' \in Seq(E!StreamMD), e_buf_pos' \in 0..Len(e_buf') PROVE ReadoutType'
  <2>1. e_armed' \in BOOLEAN /\ e_frame_active' \in BOOLEAN
    BY ONLY <1>1
  <2> QED BY <1>1, <1>5, <2>1 DEF ReadoutType
<1>6. CASE E!FrameLeftOpen /\ E!HasRoom
  <2>1. e_armed /\ e_frame_active /\ E!Emit(E!Md("aborted", 0, 0)) /\ "aborted" \in E!MdHeaders
    BY <1>6 DEF E!StopReturn, E!FrameLeftOpen, E!MdHeaders
  <2>2. d.active
    BY <1>3, <2>1 DEF ReadoutKnows
  <2>3. /\ e_buf' \in Seq(E!StreamMD) /\ e_buf_pos' \in 0..Len(e_buf')
        /\ \E s, q : /\ IsStream(s)' /\ IsRun(s, e_frames_total, q)' /\ GoesOn(g, r, s, q)
                     /\ Becomes(r[Len(g)], q[Len(s)], "aborted")
    BY <1>1, <1>2, <1>6, <2>1, <2>2, ArmedEmits
  <2>4. PICK s, q, e : /\ IsStream(s)' /\ IsRun(s, e_frames_total, q)' /\ GoesOn(g, r, s, q)
                       /\ Becomes(d, e, "aborted") /\ e = q[Len(s)]
    BY <1>2, <2>3
  <2>5. ReadoutKnows(e)'
    BY <1>4, <2>4 DEF Becomes
  <2>6. Continues(g, r)
    BY <2>4, <2>5 DEF Continues, ReadoutAt
  <2> QED BY <1>1, <1>5, <2>3, <2>6 DEF Quiet
<1>7. CASE ~(E!FrameLeftOpen /\ E!HasRoom)
  <2>1. UNCHANGED e_buf
    BY <1>7 DEF E!StopReturn, E!Emit
  <2>2. IsStream(g)' /\ IsRun(g, e_frames_total, r)' /\ GoesOn(g, r, g, r)
    BY <1>1, <1>3, <2>1, StreamKept
  <2>3. ReadoutKnows(d)'
    BY <1>4
  <2>4. Continues(g, r)
    BY <1>2, <2>2, <2>3 DEF Continues, ReadoutAt
  <2>5. e_buf' \in Seq(E!StreamMD) /\ e_buf_pos' \in 0..Len(e_buf')
    BY <1>1, <2>1 DEF ReadoutType
  <2> QED BY <1>1, <1>5, <2>4, <2>5 DEF Quiet
<1> QED
  BY <1>6, <1>7

\* A call of the emulator first drops what it has handed over.
LEMMA CallStep ==
  ASSUME ReadoutType, NEW g, NEW r, ReadoutAt(g, r), E!StopCall \/ E!DataOutCall
  PROVE  ReadoutType' /\ Quiet /\ Continues(g, r) /\ Count' = Count /\ UNCHANGED e_armed
<1>1. /\ UNCHANGED <<e_out, e_arms, e_now, e_tokens, e_token_frac>>
      /\ UNCHANGED <<e_frames_total, e_frame_len, e_frame_index, e_frame_open, e_px_index>>
      /\ UNCHANGED <<e_armed, e_stage, e_frame_active>> /\ E!PumpEnter
  BY DEF E!StopCall, E!DataOutCall, E!stream, E!history, E!bucket
<1>2. /\ Len(e_out) \in Nat /\ Len(e_buf) \in Nat /\ e_buf_pos \in Nat /\ e_buf_pos <= Len(e_buf)
  BY StreamType
<1>3. /\ e_buf' \in Seq(E!StreamMD) /\ e_buf_pos' \in 0..Len(e_buf')
      /\ Count' = Count /\ \A i \in 1..Count : Datum(i)' = Datum(i)
  <2>1. CASE e_buf_pos = Len(e_buf) /\ e_buf' = <<>> /\ e_buf_pos' = 0
    <3>1. e_buf' \in Seq(E!StreamMD) /\ Len(e_buf') = 0 /\ Len(e_out') = Len(e_out)
      BY <1>1, <2>1, EmptySeq
    <3>2. Count = Len(e_out) /\ Count' = Len(e_out)
      BY <1>2, <2>1, <3>1 DEF Count
    <3>3. \A i \in 1..Count : Datum(i)' = Datum(i)
      BY <1>1, <1>2, <3>2 DEF Datum
    <3> QED BY <2>1, <3>1, <3>2, <3>3
  <2>2. CASE UNCHANGED <<e_buf, e_buf_pos>>
    BY <1>1, <2>2 DEF Count, Datum, ReadoutType
  <2> QED BY <1>1, <2>1, <2>2 DEF E!PumpEnter, E!staging
<1>4. IsStream(g)'
  BY <1>3 DEF ReadoutAt, IsStream
<1>5. ReadoutType'
  BY <1>1, <1>3 DEF ReadoutType
<1>6. IsRun(g, e_frames_total, r)' /\ ReadoutKnows(r[Len(g)])'
  BY <1>1 DEF ReadoutAt, ReadoutKnows
<1>7. GoesOn(g, r, g, r)
  BY LastKnown DEF GoesOn
<1> QED
  BY <1>1, <1>3, <1>4, <1>5, <1>6, <1>7 DEF Continues, ReadoutAt, Quiet

\* A start command begins a stream without data.
LEMMA ArmStep ==
  ASSUME ReadoutType, NEW mode, NEW n \in Nat, NEW len \in Nat, E!Arm(mode, n, len)
  PROVE  /\ ReadoutType' /\ ReadoutAt(<<>>, [i \in 0..0 |-> Fresh])'
         /\ e_arms' = e_arms + 1 /\ e_out' = <<>> /\ e_frames_total' = n
<1>1. /\ e_buf' = <<>> /\ e_buf_pos' = 0 /\ e_out' = <<>> /\ e_arms' = e_arms + 1
      /\ e_frames_total' = n /\ e_frame_len' = len /\ e_frame_index' = 0 /\ e_frame_open' = e_now
      /\ e_frame_active' = FALSE /\ e_px_index' = 0 /\ e_armed' = (n > 0)
      /\ e_stage' = (IF n > 0 THEN "new_frame" ELSE "idle")
      /\ UNCHANGED <<e_now, e_tokens, e_token_frac>>
  BY DEF E!Arm, E!bucket
<1>2. /\ <<>> \in Seq(E!StreamMD) /\ Len(<<>>) = 0
  OBVIOUS
<1>3. Count' = 0
  BY <1>1, <1>2 DEF Count
<1>4. IsStream(<<>>)'
  BY <1>1, <1>2, <1>3 DEF IsStream
<1>5. IsRun(<<>>, e_frames_total, [i \in 0..0 |-> Fresh])'
  BY RunStarts
<1>6. /\ e_frame_active' \in BOOLEAN /\ e_armed' \in BOOLEAN
  <2>1. (n > 0) \in BOOLEAN
    OBVIOUS
  <2>2. e_frame_active' = FALSE /\ e_armed' = (n > 0)
    BY <1>1
  <2> QED BY ONLY <2>1, <2>2, Zenon
<1>7. ReadoutType'
  BY <1>1, <1>2, <1>6, SystemAssumption DEF ReadoutType
<1>8. ReadoutKnows(Fresh)'
  <2>1. Fresh.frames = 0 /\ Fresh.active = FALSE
    BY DEF Fresh
  <2>2. CASE n > 0
    BY <1>1, <2>1, <2>2 DEF ReadoutKnows
  <2>3. CASE ~(n > 0)
    BY <1>1, <2>1, <2>3 DEF ReadoutKnows
  <2> QED BY <2>2, <2>3
<1>9. [i \in 0..0 |-> Fresh][Len(<<>>)] = Fresh
  BY <1>2
<1>10. ReadoutAt(<<>>, [i \in 0..0 |-> Fresh])'
  BY <1>4, <1>5, <1>8, <1>9 DEF ReadoutAt
<1> QED
  BY <1>1, <1>7, <1>10

---------------------------------------------------------------------------
(* Time and the rate.                                                      *)

\* Division rounds down.
LEMMA DivFloor ==
  ASSUME NEW x \in Nat, NEW d \in Nat \ {0}
  PROVE  /\ x \div d \in Nat /\ x % d \in Nat
         /\ (x \div d) * d \in Nat /\ (x \div d) * d <= x
<1>1. x % d \in 0..(d - 1) /\ x = d * (x \div d) + (x % d) /\ x \div d \in Int
  OBVIOUS
<1>2. x \div d >= 0
  BY <1>1
<1> QED BY <1>1, <1>2

\* The smaller of two numbers.
LEMMA LeastBound ==
  ASSUME NEW a \in Nat, NEW b \in Nat
  PROVE  E!LeastOf(a, b) \in Nat /\ E!LeastOf(a, b) <= a /\ E!LeastOf(a, b) <= b
BY DEF E!LeastOf

\* What fits into m as a multiple of d and is at most k * d is at most k.
LEMMA FewerWhole ==
  ASSUME NEW m \in Nat, NEW k \in Nat, NEW d \in Nat \ {0}, m * d <= k * d
  PROVE  m <= k
<1>1. ASSUME m >= k + 1 PROVE FALSE
  <2>1. (k + 1) * d <= m * d
    BY <1>1
  <2>2. (k + 1) * d = k * d + d
    OBVIOUS
  <2>3. k * d \in Nat /\ m * d \in Nat
    OBVIOUS
  <2> QED BY <2>1, <2>2, <2>3
<1> QED BY <1>1

\* data_out copies whole staged data, within the credit.
LEMMA CopyBound ==
  ASSUME ReadoutType, NEW cap \in Nat
  PROVE  /\ E!CopyCount(cap) \in Nat /\ E!CopyCount(cap) <= Len(e_buf) - e_buf_pos
         /\ E!CopyCount(cap) * MdSize \in Nat
         /\ Rate > 0 => E!CopyCount(cap) * MdSize <= e_tokens
<1> DEFINE left == Len(e_buf) - e_buf_pos
           staged == E!LeastOf(left * MdSize, cap)
           shaped == IF Rate > 0 THEN E!LeastOf(staged, e_tokens) ELSE staged
           n == shaped \div MdSize
<1>1. left \in Nat /\ e_tokens \in Nat /\ MdSize \in Nat \ {0} /\ Rate \in Nat
  BY StreamType, AcqAssumption, SystemAssumption DEF ReadoutType
<1> HIDE DEF left
<1>2. left * MdSize \in Nat
  BY <1>1
<1>3. staged \in Nat /\ staged <= left * MdSize
  BY <1>2, LeastBound
<1> HIDE DEF staged
<1>4. shaped \in Nat /\ shaped <= staged /\ (Rate > 0 => shaped <= e_tokens)
  <2>1. CASE Rate > 0
    BY <1>1, <1>3, <2>1, LeastBound
  <2>2. CASE ~(Rate > 0)
    BY <1>1, <1>3, <2>2
  <2> QED BY <2>1, <2>2
<1>5. E!CopyCount(cap) = n
  BY DEF E!CopyCount, staged, left
<1> HIDE DEF shaped
<1>6. n \in Nat /\ n * MdSize \in Nat /\ n * MdSize <= shaped
  BY <1>1, <1>4, DivFloor
<1> HIDE DEF n
<1>7. n * MdSize <= left * MdSize
  BY <1>2, <1>3, <1>4, <1>6
<1>8. n <= left
  BY <1>1, <1>6, <1>7, FewerWhole
<1> QED BY <1>1, <1>4, <1>5, <1>6, <1>8 DEF left

\* Credit accrues, the clock goes on: the stream is as it was.
LEMMA TickStep ==
  ASSUME ReadoutType, NEW g, NEW r, ReadoutAt(g, r), E!Tick
  PROVE  ReadoutType' /\ Quiet /\ Continues(g, r)
<1>1. PICK ns \in Steps : E!Advance(ns)
  BY DEF E!Tick
<1>2. /\ UNCHANGED <<e_out, e_arms, e_buf, e_buf_pos>>
      /\ UNCHANGED <<e_frames_total, e_frame_len, e_frame_index, e_frame_open, e_px_index>>
      /\ UNCHANGED <<e_armed, e_stage, e_frame_active>> /\ e_now' = e_now + ns
  BY <1>1 DEF E!Advance, E!stream, E!history, E!staging
<1>3. ns \in Nat /\ e_now \in Nat /\ e_tokens \in Nat /\ e_token_frac \in Nat
  BY SystemAssumption DEF ReadoutType
<1>4. e_tokens' \in Nat /\ e_token_frac' \in Nat
  <2>1. CASE Rate > 0 /\ ns > (WordMax - Second) \div Rate
    BY <1>1, <2>1, SystemAssumption DEF E!Advance, E!Accrue
  <2>2. CASE Rate > 0 /\ ~(ns > (WordMax - Second) \div Rate)
    <3> DEFINE total == E!Word(e_token_frac + E!Word(ns * Rate))
    <3>1. \A x \in Nat : E!Word(x) \in Nat
      <4>1. WordMax + 1 \in Nat \ {0}
        BY SystemAssumption
      <4> QED BY <4>1, DivFloor DEF E!Word
    <3>2. ns * Rate \in Nat
      BY <1>3, SystemAssumption
    <3>3. e_token_frac + E!Word(ns * Rate) \in Nat
      BY <1>3, <3>1, <3>2
    <3>4. total \in Nat
      BY <3>1, <3>3
    <3>5. /\ e_tokens' = E!LeastOf(e_tokens + total \div Second, Burst)
          /\ e_token_frac' = total % Second
      BY <1>1, <2>2 DEF E!Advance, E!Accrue
    <3> HIDE DEF total
    <3>6. total \div Second \in Nat /\ total % Second \in Nat
      BY <3>4, DivFloor, SystemAssumption
    <3>7. e_tokens + total \div Second \in Nat /\ Burst \in Nat
      BY <1>3, <3>6, SystemAssumption
    <3> QED BY <3>5, <3>6, <3>7, LeastBound
  <2>3. CASE ~(Rate > 0)
    BY <1>1, <1>3, <2>3 DEF E!Advance, E!bucket
  <2> QED BY <2>1, <2>2, <2>3
<1>5. ReadoutType'
  BY <1>2, <1>3, <1>4 DEF ReadoutType
<1>6. IsStream(g)' /\ IsRun(g, e_frames_total, r)' /\ GoesOn(g, r, g, r)
  BY <1>2, LastKnown, StreamKept
<1>7. ReadoutKnows(r[Len(g)])'
  BY <1>2 DEF ReadoutAt, ReadoutKnows
<1> QED
  BY <1>2, <1>5, <1>6, <1>7 DEF Continues, ReadoutAt, Quiet

---------------------------------------------------------------------------
(* Data on the way.                                                        *)

WireMD == [hdr : E!MdHeaders, v : Nat, tag : Nat \X Nat]

\* The data in mds are those of the stream from lo on, up to hi.
Carries(mds, g, lo, hi) ==
  /\ mds \in Seq(WireMD) /\ Len(mds) = hi - lo
  /\ \A i \in 1..(hi - lo) : mds[i] = OnWire(g[lo + i])

LEMMA WireType ==
  ASSUME NEW md \in E!StreamMD
  PROVE  /\ OnWire(md) \in WireMD
         /\ OnWire(md).hdr = md.hdr /\ OnWire(md).v = md.v /\ OnWire(md).tag = md.tag
<1>1. md.hdr \in E!MdHeaders /\ md.v \in Nat /\ md.tag \in Nat \X Nat
  BY DEF E!StreamMD
<1> QED BY <1>1 DEF OnWire, WireMD

\* data_out hands over the data that are next in the stream.
LEMMA HandOverStep ==
  ASSUME ReadoutType, NEW g, NEW r, ReadoutAt(g, r), NEW cap \in Nat, E!DataOutReturn(cap)
  PROVE  /\ ReadoutType' /\ ReadoutAt(g, r)' /\ UNCHANGED <<e_arms, e_frames_total>>
         /\ E!CopyCount(cap) \in Nat /\ Len(e_out') = Len(e_out) + E!CopyCount(cap)
         /\ Carries(Payload(cap), g, Len(e_out), Len(e_out'))
<1>1. PICK n \in Nat, lo \in Nat, lb \in Nat, ps \in Nat :
        /\ n = E!CopyCount(cap) /\ lo = Len(e_out) /\ lb = Len(e_buf) /\ ps = e_buf_pos
        /\ n <= lb - ps /\ ps <= lb
  BY CopyBound, StreamType
<1>2. /\ e_out' = e_out \o SubSeq(e_buf, ps + 1, ps + n) /\ e_buf_pos' = ps + n
      /\ e_tokens' = (IF Rate > 0 THEN e_tokens - n * MdSize ELSE e_tokens)
      /\ UNCHANGED <<e_now, e_buf, e_token_frac, e_arms>>
      /\ UNCHANGED <<e_frames_total, e_frame_len, e_frame_index, e_frame_open, e_px_index>>
      /\ UNCHANGED <<e_armed, e_stage, e_frame_active>>
  BY <1>1 DEF E!DataOutReturn, E!stream
<1>3. e_out \in Seq(E!StreamMD) /\ e_buf \in Seq(E!StreamMD)
  BY DEF ReadoutType
<1> DEFINE part == SubSeq(e_buf, ps + 1, ps + n)
<1>4. /\ part \in Seq(E!StreamMD) /\ Len(part) = n
      /\ \A i \in 1..n : part[i] = e_buf[ps + i]
  <2>1. \A i \in (ps + 1)..(ps + n) : e_buf[i] \in E!StreamMD
    BY <1>1, <1>3, ElementOfSeq
  <2>2. ps + 1 \in Int /\ ps + n \in Int
    BY <1>1
  <2>3. /\ part \in Seq(E!StreamMD)
        /\ Len(part) = IF ps + 1 <= ps + n THEN (ps + n) - (ps + 1) + 1 ELSE 0
        /\ \A i \in 1..((ps + n) - (ps + 1) + 1) : part[i] = e_buf[(ps + 1) + i - 1]
    BY <2>1, <2>2, SubSeqProperties
  <2> HIDE DEF part
  <2>4. \A i \in 1..n : (ps + 1) + i - 1 = ps + i
    BY <1>1
  <2>5. (ps + n) - (ps + 1) + 1 = n
    BY <1>1
  <2>6. Len(part) = n
    BY <1>1, <2>3, <2>5
  <2>7. \A i \in 1..n : part[i] = e_buf[ps + i]
    BY <2>3, <2>4, <2>5
  <2> QED BY <2>3, <2>6, <2>7
<1>5. e_out' = e_out \o part
  BY <1>2
<1> HIDE DEF part
<1>6. /\ e_out' \in Seq(E!StreamMD) /\ Len(e_out') = lo + n
      /\ \A i \in 1..(lo + n) : e_out'[i] = IF i <= lo THEN e_out[i] ELSE part[i - lo]
  <2>1. /\ e_out \o part \in Seq(E!StreamMD) /\ Len(e_out \o part) = Len(e_out) + Len(part)
        /\ \A i \in 1..(Len(e_out) + Len(part)) :
             (e_out \o part)[i] = IF i <= Len(e_out) THEN e_out[i] ELSE part[i - Len(e_out)]
    BY <1>3, <1>4, ConcatProperties
  <2> QED BY <1>1, <1>4, <1>5, <2>1
<1>7. Count = lo + (lb - ps) /\ Count' = Count
  <2>1. Count = lo + (lb - ps)
    BY <1>1 DEF Count
  <2>2. Count' = (lo + n) + (lb - (ps + n))
    BY <1>1, <1>2, <1>6 DEF Count
  <2>3. (lo + n) + (lb - (ps + n)) = lo + (lb - ps)
    <3>1. lo \in Int /\ n \in Int /\ ps \in Int /\ lb \in Int
      BY <1>1
    <3> QED BY ONLY <3>1
  <2> QED BY <2>1, <2>2, <2>3
<1>8. \A i \in 1..Count : Datum(i)' = Datum(i)
  <2>1. ASSUME NEW i \in 1..(lo + (lb - ps)) PROVE Datum(i)' = Datum(i)
    <3>1. CASE i <= lo
      BY <1>1, <1>6, <3>1 DEF Datum
    <3>2. CASE i > lo /\ i <= lo + n
      <4>1. i - lo \in 1..n /\ ~(i <= lo) /\ i \in 1..(lo + n)
        BY <1>1, <3>2
      <4>2. e_out'[i] = e_buf[ps + (i - lo)]
        BY <1>4, <1>6, <4>1
      <4>3. Datum(i) = e_buf[ps + (i - lo)]
        BY <1>1, <4>1 DEF Datum
      <4>4. Datum(i)' = e_out'[i]
        BY <1>6, <3>2 DEF Datum
      <4> QED BY <4>2, <4>3, <4>4
    <3>3. CASE i > lo + n
      <4>1. ~(i <= lo) /\ ~(i <= lo + n) /\ (ps + n) + (i - (lo + n)) = ps + (i - lo)
        <5>1. i \in Int /\ lo \in Int /\ n \in Int /\ ps \in Int
          BY <1>1, <2>1
        <5>2. ~(i <= lo) /\ ~(i <= lo + n)
          BY <1>1, <2>1, <3>3
        <5>3. (ps + n) + (i - (lo + n)) = ps + (i - lo)
          BY ONLY <5>1
        <5> QED BY <5>2, <5>3
      <4>2. Datum(i) = e_buf[ps + (i - lo)]
        BY <1>1, <4>1 DEF Datum
      <4>3. Datum(i)' = e_buf[(ps + n) + (i - (lo + n))]
        BY <1>2, <1>6, <4>1 DEF Datum
      <4> QED BY <4>1, <4>2, <4>3
    <3>4. i <= lo \/ (i > lo /\ i <= lo + n) \/ i > lo + n
      BY <1>1, <2>1
    <3> QED BY <3>1, <3>2, <3>3, <3>4
  <2> QED BY <1>7, <2>1
<1>9. IsStream(g)'
  BY <1>7, <1>8 DEF ReadoutAt, IsStream
<1>10. e_tokens' \in Nat
  <2>1. e_tokens \in Nat /\ n * MdSize \in Nat /\ (Rate > 0 => n * MdSize <= e_tokens)
    BY <1>1, CopyBound DEF ReadoutType
  <2> QED BY <1>2, <2>1
<1>11. e_buf_pos' \in 0..Len(e_buf')
  BY <1>1, <1>2
<1>12. ReadoutType'
  BY <1>2, <1>6, <1>10, <1>11 DEF ReadoutType
<1>13. IsRun(g, e_frames_total, r)' /\ ReadoutKnows(r[Len(g)])'
  BY <1>2 DEF ReadoutAt, ReadoutKnows
<1>14. Carries(Payload(cap), g, lo, lo + n)
  <2>1. Payload(cap) = [i \in 1..n |-> OnWire(e_buf[ps + i])]
    BY <1>1 DEF Payload
  <2>2. \A i \in 1..n : ps + i \in 1..lb /\ lo + i \in 1..(lo + (lb - ps)) /\ ~(lo + i <= lo)
                       /\ (lo + i) - lo = i
    BY <1>1
  <2>3. \A i \in 1..n : e_buf[ps + i] \in E!StreamMD
    BY <1>1, <1>3, <2>2, ElementOfSeq
  <2>4. \A i \in 1..n : OnWire(e_buf[ps + i]) \in WireMD
    BY <2>3, WireType
  <2>5. Payload(cap) \in Seq(WireMD) /\ Len(Payload(cap)) = n
    BY <2>1, <2>4
  <2>6. \A i \in 1..n : g[lo + i] = e_buf[ps + i]
    <3>1. ASSUME NEW i \in 1..n PROVE g[lo + i] = e_buf[ps + i]
      <4>1. g[lo + i] = Datum(lo + i)
        BY <1>7, <2>2 DEF ReadoutAt, IsStream
      <4>2. Datum(lo + i) = e_buf[ps + ((lo + i) - lo)]
        BY <1>1, <2>2 DEF Datum
      <4> QED BY <2>2, <4>1, <4>2
    <3> QED BY <3>1
  <2>7. (lo + n) - lo = n
    BY <1>1
  <2> QED BY <2>1, <2>5, <2>6, <2>7 DEF Carries
<1> QED
  BY <1>1, <1>2, <1>6, <1>9, <1>12, <1>13, <1>14 DEF ReadoutAt

---------------------------------------------------------------------------
(* The invariant.                                                          *)

ClientPixel == [toa : Nat, tag : Nat \X Nat]

ClientInfo == [received : Nat, sent : Nat, lost : Nat, completed : BOOLEAN,
               times : [TimeHeaders -> (Nat \X Nat) \cup {NoTag}]]

ClientReport == [frame : Nat, completed : BOOLEAN, info : ClientInfo,
                 open : BOOLEAN, handed : Nat]

Command == [cmd : {"start", "stop"}, mode : {"sequential", "data_driven"}]

Datagram1 == [mds : Seq(WireMD), cut : {0}]

\* The types of the client's variables, of its paths and of their counters.
ClientType ==
  /\ state \in States /\ frame_active \in BOOLEAN /\ decode_data \in BOOLEAN
  /\ completed_frames \in Nat /\ requested_frames \in Nat /\ last_toa_offset \in Nat
  /\ readout_mode \in {"sequential", "data_driven"}
  /\ current_frame_info \in ClientInfo /\ pixel_buffer \in Seq(ClientPixel)
  /\ decoded \in Seq(ClientPixel) /\ handed \in Nat /\ reports \in Seq(ClientReport)
  /\ pending \in Seq(WireMD)

PathsType ==
  /\ ctl \in Seq(Command) /\ net \in Seq(Datagram1)
  /\ e_no_frames \in Nat /\ n_loss \in Nat /\ n_dup \in Nat

\* How far the only call of begin has come, and what it has left behind.
Begun ==
  /\ n_begin \in 0..1 /\ pc \in {"idle", "configure", "start", "read"}
  /\ n_begin = 0 => pc = "idle" /\ state = "NOT_STARTED" /\ decode_data
  /\ pc = "configure" => state = "NOT_STARTED"
  /\ pc = "start" => state = "RUNNING"
  /\ state = "NOT_STARTED" =>
       completed_frames = 0 /\ requested_frames = 0 /\ reports = <<>> /\ ~frame_active
  /\ pc # "read" => pixel_buffer = <<>>
  /\ pending # <<>> => pc = "read" /\ decode_data
  /\ ~decode_data => completed_frames = 0 /\ reports = <<>> /\ ~frame_active

Starts == {i \in 1..Len(ctl) : ctl[i].cmd = "start"}

\* One start command at most is sent, and it arms the readout once.
Commanded ==
  /\ e_arms \in {0, 1}
  /\ e_arms = 0 => ~e_armed /\ Count = 0
  /\ e_arms = 1 => e_frames_total = requested_frames
  /\ \A i, j \in Starts : i = j
  /\ Starts # {} => e_arms = 0
  /\ state = "NOT_STARTED" \/ pc = "start" => Starts = {} /\ e_arms = 0
  /\ state # "NOT_STARTED" => e_no_frames = requested_frames

\* The client has decoded p data of the stream; pending are those up to q,
\* and datagram i on the way carries those from s[i] to s[i + 1].
OnTheWay(g, p, q, s) ==
  /\ p \in Nat /\ q \in Nat /\ s \in [1..(Len(net) + 1) -> 0..Len(e_out)]
  /\ p <= q /\ q <= s[1] /\ s[Len(net) + 1] = Len(e_out)
  /\ Carries(pending, g, p, q)
  /\ \A i \in 1..Len(net) : s[i] < s[i + 1] /\ Carries(net[i].mds, g, s[i], s[i + 1])
  /\ n_loss = 0 => q = s[1]

\* The client knows what a decoder knows after the data it has decoded.
ClientKnows(d) ==
  /\ completed_frames <= d.frames
  /\ n_loss = 0 /\ decode_data =>
       /\ completed_frames = d.frames
       /\ state = "RUNNING" =>
            /\ frame_active = d.active /\ last_toa_offset = d.window * ToaSpan
            /\ d.active => current_frame_info.received + Len(pixel_buffer) = d.hits
            /\ ~d.active => pixel_buffer = <<>>

InStep ==
  \E g, r : /\ ReadoutAt(g, r)
            /\ \E p, q, s : OnTheWay(g, p, q, s) /\ ClientKnows(r[p])

\* What the client has reported, while nothing was lost.
Reported ==
  n_loss = 0 =>
    /\ state # "RUNNING" => pending = <<>>
    /\ state = "RUNNING" /\ requested_frames > 0 => completed_frames < requested_frames
    /\ state = "RUNNING" => Len(reports) = completed_frames
    /\ Len(reports) >= completed_frames
    /\ \A i \in 1..completed_frames :
         /\ reports[i].frame = i - 1
         /\ reports[i].info.sent = Hits /\ reports[i].info.received = Hits
    /\ \A i \in 1..Len(reports) : reports[i].open

AllInv ==
  ReadoutType /\ ClientType /\ PathsType /\ Begun /\ Commanded /\ InStep /\ Reported

\* Datagrams may be lost, but not repeated.
SystemInv ==
  /\ n_loss \in Nat /\ n_dup \in Nat /\ n_begin \in Nat
  /\ FirstAcquisition /\ n_dup = 0 => AllInv

---------------------------------------------------------------------------
(* What the parts of a step keep.                                          *)

LEMMA Bounds ==
  ASSUME ReadoutType, PathsType, NEW g, NEW r, ReadoutAt(g, r),
         NEW p, NEW q, NEW s, OnTheWay(g, p, q, s)
  PROVE  /\ Len(g) \in Nat /\ Len(net) \in Nat /\ Len(e_out) \in Nat
         /\ Len(e_out) <= Len(g) /\ Len(g) = Count
         /\ p \in 0..Len(g) /\ q \in 0..Len(g) /\ p <= q /\ q <= s[1] /\ s[1] <= Len(e_out)
         /\ \A i \in 1..(Len(net) + 1) : s[i] \in 0..Len(e_out) /\ s[i] <= Len(g)
         /\ \A i \in 1..Len(g) : g[i] \in E!StreamMD
<1>1. /\ Len(g) = Count /\ Len(g) \in Nat /\ Len(e_out) \in Nat /\ Len(e_out) <= Len(g)
      /\ g \in Seq(E!StreamMD)
  BY StreamType DEF ReadoutAt, IsStream
<1>2. Len(net) \in Nat
  BY LenProperties DEF PathsType
<1>3. \A i \in 1..(Len(net) + 1) : s[i] \in 0..Len(e_out)
  BY DEF OnTheWay
<1>4. s[1] \in 0..Len(e_out)
  BY <1>2, <1>3
<1>5. p \in Nat /\ q \in Nat /\ p <= q /\ q <= s[1]
  BY DEF OnTheWay
<1>6. \A i \in 1..Len(g) : g[i] \in E!StreamMD
  BY <1>1, ElementOfSeq
<1>7. \A i \in 1..(Len(net) + 1) : s[i] <= Len(g)
  BY <1>1, <1>3
<1> QED
  BY <1>1, <1>2, <1>3, <1>4, <1>5, <1>6, <1>7

\* What is on the way stays what it is when the stream goes on.
LEMMA CarriesOn ==
  ASSUME NEW mds, NEW g, NEW h, NEW lo \in Nat, NEW hi \in Nat, Len(g) \in Nat, hi <= Len(g),
         Carries(mds, g, lo, hi), \A i \in 1..Len(g) : h[i] = g[i]
  PROVE  Carries(mds, h, lo, hi)
<1>1. \A i \in 1..(hi - lo) : lo + i \in 1..Len(g)
  OBVIOUS
<1> QED
  BY <1>1 DEF Carries

clientView == <<state, frame_active, decode_data, completed_frames, last_toa_offset,
                current_frame_info, pixel_buffer>>

\* A step of the readout that hands nothing over.
LEMMA ReadoutGoesOn ==
  ASSUME ReadoutType, PathsType, InStep, Quiet,
         \A g, r : ReadoutAt(g, r) => Continues(g, r),
         UNCHANGED <<clientView, pending, net, n_loss>>
  PROVE  InStep'
<1>1. PICK g, r, p, q, s : ReadoutAt(g, r) /\ OnTheWay(g, p, q, s) /\ ClientKnows(r[p])
  BY DEF InStep
<1>2. PICK h, t : ReadoutAt(h, t)' /\ GoesOn(g, r, h, t)
  BY <1>1 DEF Continues
<1>3. /\ Len(g) \in Nat /\ Len(net) \in Nat /\ p \in 0..Len(g) /\ q \in 0..Len(g)
      /\ \A i \in 1..(Len(net) + 1) : s[i] \in Nat /\ s[i] <= Len(g)
  BY <1>1, Bounds
<1>4. (\A i \in 1..Len(g) : h[i] = g[i]) /\ t[p] = r[p]
  BY <1>2, <1>3 DEF GoesOn
<1>5. Carries(pending, h, p, q)
  BY <1>1, <1>3, <1>4, CarriesOn DEF OnTheWay
<1>6. ASSUME NEW i \in 1..Len(net)
      PROVE  Carries(net[i].mds, h, s[i], s[i + 1])
  <2>1. i \in 1..(Len(net) + 1) /\ i + 1 \in 1..(Len(net) + 1)
    BY <1>3
  <2>2. Carries(net[i].mds, g, s[i], s[i + 1])
    BY <1>1 DEF OnTheWay
  <2>3. s[i] \in Nat /\ s[i + 1] \in Nat /\ s[i + 1] <= Len(g)
    BY <1>3, <2>1
  <2> QED BY <1>3, <1>4, <2>2, <2>3, CarriesOn
<1>7. OnTheWay(h, p, q, s)'
  BY <1>1, <1>5, <1>6 DEF OnTheWay, Quiet
<1>8. ClientKnows(t[p])'
  BY <1>1, <1>4 DEF ClientKnows, clientView
<1> QED
  BY <1>2, <1>7, <1>8 DEF InStep

\* A step of the client that neither decodes nor receives.
LEMMA ClientGoesOn ==
  ASSUME InStep, UNCHANGED <<readout, pending, net, n_loss>>,
         \A d \in Decoder : ClientKnows(d) => ClientKnows(d)', ReadoutType, PathsType
  PROVE  InStep'
<1>1. PICK g, r, p, q, s : ReadoutAt(g, r) /\ OnTheWay(g, p, q, s) /\ ClientKnows(r[p])
  BY DEF InStep
<1>2. ReadoutAt(g, r)'
  BY <1>1 DEF ReadoutAt, IsStream, Count, Datum, ReadoutKnows, readout
<1>3. OnTheWay(g, p, q, s)'
  BY <1>1 DEF OnTheWay, readout
<1>4. r[p] \in Decoder
  BY <1>1, Bounds DEF ReadoutAt, IsRun
<1>5. ClientKnows(r[p])'
  BY <1>1, <1>4
<1> QED
  BY <1>2, <1>3, <1>5 DEF InStep

---------------------------------------------------------------------------
(* The steps of the client.                                                *)

LEMMA Untouched ==
  ASSUME ReadoutType, UNCHANGED readout
  PROVE  ReadoutType' /\ Count' = Count /\ UNCHANGED <<e_arms, e_armed, e_frames_total>>
BY DEF ReadoutType, readout, Count

\* Until the client sends its command, the types of the paths are kept.
LEMMA PathsUntouched ==
  ASSUME PathsType, UNCHANGED <<paths, e_no_frames>>
  PROVE  PathsType' /\ Starts' = Starts /\ UNCHANGED <<net, n_loss, n_dup>>
BY DEF PathsType, paths, Starts

LEMMA BeginStep ==
  ASSUME AllInv, FirstAcquisition', Begin, UNCHANGED <<readout, e_no_frames, paths>>
  PROVE  AllInv'
<1> USE DEF AllInv
<1>1. PICK mode \in Modes, n \in FrameRequests, dec \in BOOLEAN :
        BeginRejected(mode, n, dec) \/ BeginAccepted(mode, n, dec)
  BY DEF Begin
<1>2. /\ pc = "idle" /\ n_begin < MaxBegin /\ n_begin' = n_begin + 1
      /\ readout_mode' = mode /\ decode_data' = dec
      /\ UNCHANGED <<state, frame_active, completed_frames, requested_frames, last_toa_offset>>
      /\ UNCHANGED <<current_frame_info, pixel_buffer, pending, decoded, handed, reports>>
      /\ pc' \in {"idle", "configure"}
  BY <1>1 DEF Begin, BeginRejected, BeginAccepted, BeginCall
<1>3. n_begin = 0 /\ state = "NOT_STARTED" /\ decode_data /\ pending = <<>>
  <2>1. n_begin \in 0..1 /\ n_begin + 1 <= 1
    BY <1>2 DEF Begun, FirstAcquisition
  <2>2. n_begin = 0
    BY ONLY <2>1
  <2> QED BY <1>2, <2>2 DEF Begun
<1>4. ReadoutType' /\ Count' = Count /\ UNCHANGED <<e_arms, e_armed, e_frames_total>>
  BY Untouched
<1>5. PathsType' /\ Starts' = Starts /\ UNCHANGED <<net, n_loss>>
  BY PathsUntouched
<1>6. ClientType'
  <2>1. mode \in {"sequential", "data_driven"}
    BY AcqAssumption
  <2> QED BY <1>2, <2>1 DEF ClientType
<1>7. Begun'
  BY <1>2, <1>3 DEF Begun
<1>8. Commanded'
  BY <1>2, <1>3, <1>4, <1>5 DEF Commanded
<1>9. InStep'
  <2>1. \A d \in Decoder : ClientKnows(d) => ClientKnows(d)'
    BY <1>2, <1>3, <1>5 DEF ClientKnows
  <2> QED BY <1>2, <1>5, <2>1, ClientGoesOn
<1>10. Reported'
  BY <1>2, <1>5 DEF Reported
<1> QED
  BY <1>4, <1>5, <1>6, <1>7, <1>8, <1>9, <1>10

\* begin has its registers acknowledged, or not.
LEMMA ConfigureStep ==
  ASSUME AllInv, ClientConfigures PROVE AllInv'
<1> USE DEF AllInv
<1>1. PICK n \in FrameRequests :
        /\ Configured(n) \/ ConfigureFails
        /\ e_no_frames' \in IF pc' = "start" THEN {n} ELSE {e_no_frames, n}
  BY DEF ClientConfigures
<1>2. UNCHANGED <<readout, paths>> /\ pc = "configure" /\ n \in Nat
  BY <1>1, AcqAssumption DEF ClientConfigures, Configured, ConfigureFails
<1>3. state = "NOT_STARTED" /\ completed_frames = 0 /\ reports = <<>> /\ ~frame_active
      /\ pending = <<>> /\ pixel_buffer = <<>> /\ e_arms = 0 /\ Starts = {} /\ n_begin = 1
  BY <1>2 DEF Begun, Commanded
<1>4. ReadoutType' /\ Count' = Count /\ UNCHANGED <<e_arms, e_armed, e_frames_total>>
  BY <1>2, Untouched
<1>5. Starts' = Starts /\ UNCHANGED <<net, n_loss, n_dup, ctl>>
  BY <1>2 DEF paths, Starts
<1>6. PathsType'
  BY <1>1, <1>2, <1>5 DEF PathsType
<1>7. CASE ConfigureFails
  <2>1. /\ UNCHANGED <<state, frame_active, decode_data, completed_frames, requested_frames>>
        /\ UNCHANGED <<last_toa_offset, readout_mode, current_frame_info, pixel_buffer>>
        /\ UNCHANGED <<decoded, handed, reports, pending, n_begin>> /\ pc' = "idle"
    BY <1>7 DEF ConfigureFails, object, history, bounds
  <2>2. ClientType'
    BY <2>1 DEF ClientType
  <2>3. Begun'
    BY <1>3, <2>1 DEF Begun
  <2>4. Commanded'
    BY <1>3, <1>4, <1>5, <2>1 DEF Commanded
  <2>5. InStep'
    <3>1. \A d \in Decoder : ClientKnows(d) => ClientKnows(d)'
      BY <1>5, <2>1 DEF ClientKnows
    <3> QED BY <1>2, <1>5, <2>1, <3>1, ClientGoesOn
  <2>6. Reported'
    BY <1>5, <2>1 DEF Reported
  <2> QED BY <1>4, <1>6, <2>2, <2>3, <2>4, <2>5, <2>6
<1>8. CASE Configured(n)
  <2>1. /\ state' = "RUNNING" /\ pc' = "start" /\ completed_frames' = 0 /\ requested_frames' = n
        /\ pixel_buffer' = <<>> /\ last_toa_offset' = 0 /\ frame_active' = FALSE
        /\ reports' = <<>>
        /\ UNCHANGED <<readout_mode, decode_data, current_frame_info, pending, decoded, handed>>
        /\ UNCHANGED n_begin
    BY <1>8 DEF Configured, bounds
  <2>2. ClientType'
    BY <1>2, <2>1, EmptySeq DEF ClientType, States
  <2>3. Begun'
    BY <1>3, <2>1 DEF Begun
  <2>4. e_no_frames' = n
    BY <1>1, <2>1
  <2>5. Commanded'
    BY <1>3, <1>4, <1>5, <2>1, <2>4 DEF Commanded
  <2>6. InStep'
    <3>1. PICK g, r, p, q, s : ReadoutAt(g, r) /\ OnTheWay(g, p, q, s) /\ ClientKnows(r[p])
      BY DEF InStep
    <3>2. p = 0
      <4>1. Count = 0
        BY <1>3 DEF Commanded
      <4> QED BY <3>1, <4>1, Bounds
    <3>3. r[p] = Fresh
      BY <3>1, <3>2 DEF ReadoutAt, IsRun
    <3>4. ClientKnows(Fresh)'
      <4>1. Fresh.frames = 0 /\ Fresh.active = FALSE /\ Fresh.window = 0 /\ 0 * ToaSpan = 0
        BY AcqAssumption DEF Fresh
      <4>2. completed_frames' <= Fresh.frames /\ completed_frames' = Fresh.frames
        BY <2>1, <4>1
      <4>3. frame_active' = Fresh.active /\ last_toa_offset' = Fresh.window * ToaSpan
        BY <2>1, <4>1
      <4>4. ~Fresh.active /\ pixel_buffer' = <<>>
        BY <2>1, <4>1
      <4> HIDE DEF Fresh
      <4> QED BY ONLY <4>2, <4>3, <4>4 DEF ClientKnows
    <3>5. ReadoutAt(g, r)' /\ OnTheWay(g, p, q, s)'
      BY <1>2, <1>5, <2>1, <3>1
         DEF ReadoutAt, IsStream, Count, Datum, ReadoutKnows, readout, OnTheWay
    <3> QED BY <3>3, <3>4, <3>5 DEF InStep
  <2>7. Reported'
    <3>1. Len(<<>>) = 0 /\ pending = <<>>
      BY <1>3
    <3> QED BY <2>1, <3>1 DEF Reported
  <2> QED BY <1>4, <1>6, <2>2, <2>3, <2>5, <2>6, <2>7
<1> QED
  BY <1>1, <1>7, <1>8

\* All that the client keeps, but the place of its thread.
clientAll == <<state, frame_active, decode_data, completed_frames, requested_frames,
               last_toa_offset, readout_mode, current_frame_info, pixel_buffer, decoded,
               handed, reports, pending, n_begin>>

LEMMA ClientRests ==
  ASSUME AllInv, UNCHANGED <<clientAll, readout, e_no_frames, net, n_loss>>
  PROVE  /\ ReadoutType' /\ ClientType' /\ InStep' /\ Reported' /\ Count' = Count
         /\ PathsType' <=> ctl' \in Seq(Command) /\ n_dup' \in Nat
<1> USE DEF AllInv
<1>1. ReadoutType' /\ Count' = Count
  BY Untouched
<1>2. ClientType'
  BY DEF ClientType, clientAll
<1>3. InStep'
  <2>1. \A d \in Decoder : ClientKnows(d) => ClientKnows(d)'
    BY DEF ClientKnows, clientAll
  <2> QED BY <2>1, ClientGoesOn DEF clientAll
<1>4. Reported'
  BY DEF Reported, clientAll
<1>5. PathsType' <=> ctl' \in Seq(Command) /\ n_dup' \in Nat
  BY DEF PathsType
<1> QED
  BY <1>1, <1>2, <1>3, <1>4, <1>5

LEMMA SentCommand ==
  ASSUME PathsType, NEW c \in Command, ctl' = Append(ctl, c)
  PROVE  /\ ctl' \in Seq(Command)
         /\ Starts' = IF c.cmd = "start" THEN Starts \cup {Len(ctl) + 1} ELSE Starts
<1>1. /\ ctl' \in Seq(Command) /\ Len(ctl') = Len(ctl) + 1 /\ Len(ctl) \in Nat
      /\ \A i \in 1..Len(ctl) : ctl'[i] = ctl[i]
      /\ ctl'[Len(ctl) + 1] = c
  BY AppendProperties, LenProperties DEF PathsType
<1>2. PICK n \in Nat : n = Len(ctl)
  BY <1>1
<1>3. \A i : i \in Starts' <=> i \in Starts \/ (i = n + 1 /\ c.cmd = "start")
  <2>1. \A i : i \in 1..(n + 1) <=> i \in 1..n \/ i = n + 1
    BY <1>2
  <2>2. n + 1 \notin 1..n
    BY <1>2
  <2> QED BY <1>1, <1>2, <2>1, <2>2 DEF Starts
<1> QED
  BY <1>1, <1>2, <1>3

LEMMA TakenCommand ==
  ASSUME PathsType, ctl # <<>>, ctl' = Tail(ctl)
  PROVE  /\ ctl' \in Seq(Command) /\ Head(ctl) \in Command
         /\ \A i \in Starts' : i \in Nat \ {0} /\ i + 1 \in Starts
         /\ Head(ctl).cmd = "start" => 1 \in Starts
<1>1. /\ Head(ctl) \in Command /\ Tail(ctl) \in Seq(Command)
      /\ Len(Tail(ctl)) = Len(ctl) - 1
      /\ \A i \in 1..Len(Tail(ctl)) : Tail(ctl)[i] = ctl[i + 1]
  BY HeadTailProperties DEF PathsType
<1>2. Len(ctl) \in Nat \ {0}
  BY EmptySeq DEF PathsType
<1>3. PICK n \in Nat : Len(ctl) = n + 1
  <2>1. Len(ctl) - 1 \in Nat /\ Len(ctl) = (Len(ctl) - 1) + 1
    BY <1>2
  <2> QED BY <2>1
<1>4. Len(ctl') = n /\ \A i \in 1..n : ctl'[i] = ctl[i + 1]
  BY <1>1, <1>3
<1>5. \A i \in 1..n : i \in Nat \ {0} /\ i + 1 \in 1..(n + 1)
  BY <1>3
<1>6. 1 \in 1..(n + 1) /\ Head(ctl) = ctl[1]
  BY <1>3
<1> QED
  BY <1>1, <1>3, <1>4, <1>5, <1>6 DEF Starts

\* The start command is sent, or is not.
LEMMA StartStep ==
  ASSUME AllInv, UNCHANGED <<readout, e_no_frames, net, n_loss, n_dup>>,
         \/ StartFails /\ UNCHANGED ctl
         \/ StartSent /\ ctl' = Append(ctl, [cmd |-> "start", mode |-> readout_mode])
  PROVE  AllInv'
<1> USE DEF AllInv
<1>1. UNCHANGED clientAll /\ pc = "start" /\ pc' = "idle"
  BY DEF StartFails, StartSent, clientAll, object, history, bounds
<1>2. state = "RUNNING" /\ Starts = {} /\ e_arms = 0
  BY <1>1 DEF Begun, Commanded
<1>3. /\ ReadoutType' /\ ClientType' /\ InStep' /\ Reported' /\ Count' = Count
      /\ UNCHANGED <<e_arms, e_armed, e_frames_total>>
  BY <1>1, ClientRests, Untouched
<1>4. Begun'
  BY <1>1 DEF Begun, clientAll
<1>5. ctl' \in Seq(Command) /\ (Starts' = {} \/ Starts' = {Len(ctl) + 1})
  <2>1. CASE UNCHANGED ctl
    BY <1>2, <2>1 DEF PathsType, Starts
  <2>2. CASE ctl' = Append(ctl, [cmd |-> "start", mode |-> readout_mode])
    <3>1. PICK c \in Command : c = [cmd |-> "start", mode |-> readout_mode]
      BY DEF ClientType, Command
    <3>2. ctl' = Append(ctl, c) /\ c.cmd = "start"
      BY <2>2, <3>1
    <3> QED BY <1>2, <3>2, SentCommand
  <2> QED BY <2>1, <2>2
<1>6. PathsType'
  BY <1>5 DEF PathsType
<1>7. Commanded'
  BY <1>1, <1>2, <1>3, <1>5 DEF Commanded, clientAll
<1> QED
  BY <1>3, <1>4, <1>6, <1>7

\* A step that only the stop command, the abort flag or a clock comes of.
LEMMA OtherClientStep ==
  ASSUME AllInv, UNCHANGED <<clientAll, pc, readout, e_no_frames, net, n_loss, n_dup>>,
         UNCHANGED ctl \/ ctl' = Append(ctl, StopCommand)
  PROVE  AllInv'
<1> USE DEF AllInv
<1>1. /\ ReadoutType' /\ ClientType' /\ InStep' /\ Reported' /\ Count' = Count
      /\ UNCHANGED <<e_arms, e_armed, e_frames_total>>
  BY ClientRests, Untouched
<1>2. Begun'
  BY DEF Begun, clientAll
<1>3. ctl' \in Seq(Command) /\ Starts' = Starts
  <2>1. CASE UNCHANGED ctl
    BY <2>1 DEF PathsType, Starts
  <2>2. CASE ctl' = Append(ctl, StopCommand)
    <3>1. PICK c \in Command : c = StopCommand
      BY DEF ClientType, Command, StopCommand
    <3>2. ctl' = Append(ctl, c) /\ c.cmd # "start"
      BY <2>2, <3>1 DEF StopCommand
    <3> QED BY <3>2, SentCommand
  <2> QED BY <2>1, <2>2
<1>4. PathsType'
  BY <1>3 DEF PathsType
<1>5. Commanded'
  BY <1>1, <1>3 DEF Commanded, clientAll
<1> QED
  BY <1>1, <1>2, <1>4, <1>5

LEMMA FlushedType ==
  ASSUME ClientType
  PROVE  /\ FlushedInfo \in ClientInfo /\ Len(pixel_buffer) \in Nat
         /\ FlushedInfo.received = current_frame_info.received + Len(pixel_buffer)
         /\ current_frame_info.received \in Nat
<1>1. current_frame_info \in ClientInfo /\ Len(pixel_buffer) \in Nat
  BY LenProperties DEF ClientType
<1>2. current_frame_info.received + Len(pixel_buffer) \in Nat
  BY <1>1 DEF ClientInfo
<1> QED
  BY <1>1, <1>2 DEF FlushedInfo, ClientInfo

\* read is entered: the buffer is empty already.
LEMMA EnterStep ==
  ASSUME AllInv, ReadEnter, UNCHANGED <<readout, e_no_frames, paths>>
  PROVE  AllInv'
<1> USE DEF AllInv
<1>1. UNCHANGED clientAll /\ pc = "idle" /\ pc' = "read" /\ n_begin > 0
  BY DEF ReadEnter, clientAll, history, bounds, Begun
<1>2. UNCHANGED <<ctl, net, n_loss, n_dup>>
  BY DEF paths
<1>3. /\ ReadoutType' /\ ClientType' /\ InStep' /\ Reported' /\ Count' = Count
      /\ UNCHANGED <<e_arms, e_armed, e_frames_total>>
  BY <1>1, <1>2, ClientRests, Untouched
<1>4. PathsType' /\ Starts' = Starts
  BY PathsUntouched
<1>5. Begun'
  BY <1>1 DEF Begun, clientAll
<1>6. Commanded'
  BY <1>1, <1>3, <1>4 DEF Commanded, clientAll
<1> QED
  BY <1>3, <1>4, <1>5, <1>6

\* recv has failed.
LEMMA ErrorStep ==
  ASSUME AllInv, RecvError, UNCHANGED <<readout, e_no_frames, paths>>
  PROVE  AllInv'
<1> USE DEF AllInv
<1>1. /\ pc = "read" /\ pending = <<>> /\ state = "RUNNING" /\ state' \in States
      /\ state' # "NOT_STARTED"
      /\ UNCHANGED <<frame_active, completed_frames, requested_frames, readout_mode, decode_data>>
      /\ UNCHANGED <<last_toa_offset, pending, pc, decoded, reports, n_begin>>
  BY DEF RecvError, Receiving, StateAfterError, States, bounds
<1>2. \/ current_frame_info' = FlushedInfo /\ pixel_buffer' = <<>>
         /\ handed' = handed + Len(pixel_buffer)
      \/ UNCHANGED <<current_frame_info, pixel_buffer, handed>>
  BY DEF RecvError, FlushBuffer, FlushDelivers, NoFlush
<1>3. UNCHANGED <<ctl, net, n_loss, n_dup>>
  BY DEF paths
<1>4. /\ ReadoutType' /\ Count' = Count /\ UNCHANGED <<e_arms, e_armed, e_frames_total>>
      /\ PathsType' /\ Starts' = Starts
  BY Untouched, PathsUntouched
<1>5. /\ FlushedInfo \in ClientInfo /\ Len(pixel_buffer) \in Nat
      /\ FlushedInfo.received = current_frame_info.received + Len(pixel_buffer)
      /\ current_frame_info.received \in Nat
  BY FlushedType
<1>6. ClientType'
  <2>1. CASE /\ current_frame_info' = FlushedInfo /\ pixel_buffer' = <<>>
             /\ handed' = handed + Len(pixel_buffer)
    BY <1>1, <1>5, <2>1, EmptySeq DEF ClientType
  <2>2. CASE UNCHANGED <<current_frame_info, pixel_buffer, handed>>
    BY <1>1, <2>2 DEF ClientType
  <2> QED BY <1>2, <2>1, <2>2
<1>7. Begun'
  BY <1>1 DEF Begun
<1>8. Commanded'
  BY <1>1, <1>4 DEF Commanded
<1>9. InStep'
  <2>1. /\ current_frame_info'.received + Len(pixel_buffer')
             = current_frame_info.received + Len(pixel_buffer)
        /\ pixel_buffer = <<>> => pixel_buffer' = <<>>
    BY <1>2, <1>5, EmptySeq
  <2>2. ASSUME NEW d \in Decoder, ClientKnows(d) PROVE ClientKnows(d)'
    BY <1>1, <1>3, <2>1, <2>2 DEF ClientKnows
  <2> QED BY <1>1, <1>3, <2>2, ClientGoesOn
<1>10. Reported'
  BY <1>1, <1>3 DEF Reported
<1> QED
  BY <1>4, <1>6, <1>7, <1>8, <1>9, <1>10

\* read returns, and reports a frame that is still open.
LEMMA LeaveStep ==
  ASSUME AllInv, ReadLeave, UNCHANGED <<readout, e_no_frames, paths>>
  PROVE  AllInv'
<1> USE DEF AllInv
<1>1. /\ pc = "read" /\ pc' = "idle" /\ pending = <<>> /\ state # "RUNNING"
      /\ current_frame_info' = FlushedInfo /\ pixel_buffer' = <<>> /\ frame_active' = FALSE
      /\ handed' = handed + Len(pixel_buffer)
      /\ UNCHANGED <<state, completed_frames, requested_frames, readout_mode, decode_data>>
      /\ UNCHANGED <<last_toa_offset, pending, decoded, n_begin>>
  BY DEF ReadLeave, LeaveFlush, FlushBuffer, FlushDelivers, bounds
<1>2. \/ /\ frame_active
         /\ reports' = Append(reports,
              [frame |-> completed_frames, completed |-> FALSE, info |-> FlushedInfo,
               open |-> frame_active, handed |-> handed + Len(pixel_buffer)])
      \/ UNCHANGED reports
  BY DEF ReadLeave, ReportFrame
<1>3. UNCHANGED <<ctl, net, n_loss, n_dup>>
  BY DEF paths
<1>4. /\ ReadoutType' /\ Count' = Count /\ UNCHANGED <<e_arms, e_armed, e_frames_total>>
      /\ PathsType' /\ Starts' = Starts
  BY Untouched, PathsUntouched
<1>5. /\ FlushedInfo \in ClientInfo /\ Len(pixel_buffer) \in Nat
      /\ reports \in Seq(ClientReport) /\ Len(reports) \in Nat /\ handed \in Nat
  BY FlushedType, LenProperties DEF ClientType
<1>6. /\ reports' \in Seq(ClientReport) /\ Len(reports') \in Nat /\ Len(reports) <= Len(reports')
      /\ \A i \in 1..Len(reports) : reports'[i] = reports[i]
      /\ \A i \in 1..Len(reports') : i \in 1..Len(reports) \/ reports'[i].open
      /\ ~frame_active => reports' = reports
  <2>1. CASE UNCHANGED reports
    BY <1>5, <2>1
  <2>2. CASE /\ frame_active
             /\ reports' = Append(reports,
                  [frame |-> completed_frames, completed |-> FALSE, info |-> FlushedInfo,
                   open |-> frame_active, handed |-> handed + Len(pixel_buffer)])
    <3>1. PICK e : e = [frame |-> completed_frames, completed |-> FALSE, info |-> FlushedInfo,
                        open |-> frame_active, handed |-> handed + Len(pixel_buffer)]
      OBVIOUS
    <3>2. e.open
      BY <2>2, <3>1
    <3>3. e \in ClientReport
      <4>1. handed + Len(pixel_buffer) \in Nat /\ completed_frames \in Nat
        BY <1>5 DEF ClientType
      <4>2. frame_active \in BOOLEAN /\ FALSE \in BOOLEAN
        BY DEF ClientType
      <4> QED BY <1>5, <3>1, <4>1, <4>2 DEF ClientReport
    <3>4. /\ reports' \in Seq(ClientReport) /\ Len(reports') = Len(reports) + 1
          /\ \A i \in 1..Len(reports) : reports'[i] = reports[i]
          /\ reports'[Len(reports) + 1] = e
      BY <1>5, <2>2, <3>1, <3>3, AppendProperties
    <3> QED BY <1>5, <2>2, <3>2, <3>4
  <2> QED BY <1>2, <2>1, <2>2
<1>7. ClientType'
  <2>1. frame_active' \in BOOLEAN
    BY ONLY <1>1
  <2>2. pixel_buffer' \in Seq(ClientPixel) /\ handed' \in Nat
    BY <1>1, <1>5, EmptySeq
  <2> QED BY <1>1, <1>5, <1>6, <2>1, <2>2 DEF ClientType
<1>8. Begun'
  BY <1>1, <1>6 DEF Begun
<1>9. Commanded'
  BY <1>1, <1>4 DEF Commanded
<1>10. InStep'
  <2>1. ASSUME NEW d \in Decoder, ClientKnows(d) PROVE ClientKnows(d)'
    BY <1>1, <1>3, <2>1 DEF ClientKnows
  <2> QED BY <1>1, <1>3, <2>1, ClientGoesOn
<1>11. Reported'
  <2>1. SUFFICES ASSUME n_loss = 0 PROVE Reported'
    BY <1>3 DEF Reported
  <2>2. /\ Len(reports) >= completed_frames /\ completed_frames \in Nat
        /\ \A i \in 1..completed_frames :
             /\ reports[i].frame = i - 1
             /\ reports[i].info.sent = Hits /\ reports[i].info.received = Hits
        /\ \A i \in 1..Len(reports) : reports[i].open
    BY <2>1 DEF Reported, ClientType
  <2>3. \A i \in 1..completed_frames : reports'[i] = reports[i]
    BY <1>5, <1>6, <2>2
  <2>4. \A i \in 1..Len(reports') : reports'[i].open
    BY <1>6, <2>2
  <2>5. Len(reports') >= completed_frames
    BY <1>5, <1>6, <2>2
  <2> QED BY <1>1, <2>2, <2>3, <2>4, <2>5 DEF Reported
<1> QED
  BY <1>4, <1>7, <1>8, <1>9, <1>10, <1>11

---------------------------------------------------------------------------
(* The steps of the decoder.                                               *)

\* The datum the client decodes next is the next of the stream.
LEMMA NextDatum ==
  ASSUME AllInv, pending # <<>>
  PROVE  \E d \in Decoder, e \in Decoder, md \in E!StreamMD, i \in Nat :
           /\ Head(pending) = OnWire(md) /\ e = After(d, md, i) /\ Legal(d, md, e_frames_total)
           /\ ClientKnows(d) /\ (Tail(pending) # <<>> => e.frames < e_frames_total)
           /\ pending' = Tail(pending) /\ UNCHANGED <<readout, net, n_loss>> /\ ClientKnows(e)'
                => InStep'
<1> USE DEF AllInv
<1>1. PICK g, r, p, q, s : ReadoutAt(g, r) /\ OnTheWay(g, p, q, s) /\ ClientKnows(r[p])
  BY DEF InStep
<1>2. /\ Len(g) \in Nat /\ p \in 0..Len(g) /\ q \in 0..Len(g) /\ p <= q
      /\ \A i \in 1..Len(g) : g[i] \in E!StreamMD
  BY <1>1, Bounds
<1>3. pending \in Seq(WireMD) /\ Len(pending) = q - p /\ Len(pending) \in Nat \ {0}
  BY <1>1, EmptySeq DEF OnTheWay, Carries, ClientType
<1>4. p \in Nat /\ q \in Nat /\ p + 1 <= q /\ p + 1 \in 1..Len(g) /\ (p + 1) - 1 = p
  BY <1>2, <1>3
<1>5. /\ r[p] \in Decoder /\ r[p + 1] \in Decoder /\ g[p + 1] \in E!StreamMD
      /\ r[p + 1] = After(r[p], g[p + 1], p + 1) /\ Legal(r[p], g[p + 1], e_frames_total)
  <2>1. /\ r \in [0..Len(g) -> Decoder]
        /\ r[p + 1] = After(r[(p + 1) - 1], g[p + 1], p + 1)
        /\ Legal(r[(p + 1) - 1], g[p + 1], e_frames_total)
    BY <1>1, <1>4 DEF ReadoutAt, IsRun
  <2>2. p + 1 \in 0..Len(g)
    BY <1>2, <1>4
  <2> QED BY <1>2, <1>4, <2>1, <2>2
<1>6. /\ Head(pending) = pending[1] /\ Tail(pending) \in Seq(WireMD)
      /\ Len(Tail(pending)) = Len(pending) - 1
      /\ \A i \in 1..Len(Tail(pending)) : Tail(pending)[i] = pending[i + 1]
  BY <1>3, HeadTailProperties
<1>7. Head(pending) = OnWire(g[p + 1])
  <2>1. 1 \in 1..(q - p)
    BY <1>3, <1>4
  <2> QED BY <1>1, <1>6, <2>1 DEF OnTheWay, Carries
<1>8. Carries(Tail(pending), g, p + 1, q)
  <2>1. Len(Tail(pending)) = q - (p + 1)
    BY <1>3, <1>4, <1>6
  <2>2. ASSUME NEW i \in 1..(q - (p + 1))
        PROVE  Tail(pending)[i] = OnWire(g[(p + 1) + i])
    <3>1. i + 1 \in 1..(q - p) /\ p + (i + 1) = (p + 1) + i
      BY <1>4, <2>2
    <3>2. pending[i + 1] = OnWire(g[p + (i + 1)])
      BY <1>1, <3>1 DEF OnTheWay, Carries
    <3> QED BY <1>6, <2>1, <3>1, <3>2
  <2> QED BY <1>6, <2>1, <2>2 DEF Carries
<1>9. ASSUME Tail(pending) # <<>> PROVE r[p + 1].frames < e_frames_total
  <2>1. Len(Tail(pending)) \in Nat \ {0}
    BY <1>6, <1>9, EmptySeq
  <2>2. p + 2 \in 1..Len(g) /\ (p + 2) - 1 = p + 1
    <3>1. Len(pending) = q - p /\ Len(pending) - 1 \in Nat \ {0} /\ q <= Len(g)
      <4>1. Len(Tail(pending)) = Len(pending) - 1
        BY <1>6
      <4>2. Len(pending) - 1 \in Nat \ {0}
        BY ONLY <2>1, <4>1
      <4>3. Len(pending) = q - p
        BY <1>3
      <4>4. q <= Len(g)
        BY <1>2
      <4> QED BY <4>2, <4>3, <4>4
    <3>2. p \in Nat /\ q \in Nat /\ Len(g) \in Nat
      BY <1>2, <1>4
    <3>3. p + 2 <= q
      BY ONLY <3>1, <3>2
    <3> QED BY ONLY <3>1, <3>2, <3>3
  <2>3. Legal(r[(p + 2) - 1], g[p + 2], e_frames_total)
    BY <1>1, <2>2 DEF ReadoutAt, IsRun
  <2> QED BY <2>2, <2>3 DEF Legal
<1>10. ASSUME pending' = Tail(pending), UNCHANGED <<readout, net, n_loss>>,
              ClientKnows(r[p + 1])'
       PROVE  InStep'
  <2>1. ReadoutAt(g, r)'
    BY <1>1, <1>10 DEF ReadoutAt, IsStream, Count, Datum, ReadoutKnows, readout
  <2>2. UNCHANGED e_out
    BY <1>10 DEF readout
  <2>3. OnTheWay(g, p + 1, q, s)'
    BY <1>1, <1>4, <1>8, <1>10, <2>2 DEF OnTheWay
  <2> QED BY <1>10, <2>1, <2>3 DEF InStep
<1> QED
  BY <1>1, <1>4, <1>5, <1>7, <1>9, <1>10

LEMMA OneDecoded ==
  ASSUME AllInv, NEW h, Decode(h), UNCHANGED <<readout, e_no_frames, paths>>,
         state' = state \/ state' = "SUCCEEDED"
  PROVE  /\ ReadoutType' /\ PathsType' /\ Begun' /\ Commanded'
         /\ pending # <<>> /\ pending' = Tail(pending) /\ pending' \in Seq(WireMD)
         /\ Head(pending).hdr = h /\ decode_data /\ state # "NOT_STARTED"
         /\ e_frames_total = requested_frames
         /\ n_loss = 0 => state = "RUNNING"
         /\ UNCHANGED <<net, n_loss, decode_data, requested_frames, readout_mode>>
<1> USE DEF AllInv
<1>1. /\ pending # <<>> /\ pending' = Tail(pending) /\ Head(pending).hdr = h /\ pc = "read"
      /\ UNCHANGED <<requested_frames, readout_mode, decode_data, pc, n_begin>>
  BY DEF Decode, bounds
<1>2. decode_data /\ pending' \in Seq(WireMD)
  BY <1>1, HeadTailProperties DEF Begun, ClientType
<1>3. Count # 0
  <2>1. PICK g, r, p, q, s : ReadoutAt(g, r) /\ OnTheWay(g, p, q, s)
    BY DEF InStep
  <2>2. Len(pending) \in Nat \ {0}
    BY <1>1, EmptySeq DEF ClientType
  <2>3. Len(pending) = q - p
    BY <2>1 DEF OnTheWay, Carries
  <2>4. p \in 0..Len(g) /\ q \in 0..Len(g) /\ Len(g) = Count /\ Len(g) \in Nat
    BY <2>1, Bounds
  <2> QED BY <2>2, <2>3, <2>4
<1>4. e_arms = 1 /\ e_frames_total = requested_frames /\ state # "NOT_STARTED"
  BY <1>3 DEF Commanded
<1>5. n_loss = 0 => state = "RUNNING"
  BY <1>1 DEF Reported
<1>6. /\ ReadoutType' /\ Count' = Count /\ UNCHANGED <<e_arms, e_armed, e_frames_total>>
      /\ PathsType' /\ Starts' = Starts /\ UNCHANGED <<net, n_loss>>
  BY Untouched, PathsUntouched
<1>7. Begun'
  BY <1>1, <1>2, <1>4 DEF Begun
<1>8. Commanded'
  BY <1>1, <1>4, <1>6 DEF Commanded
<1> QED
  BY <1>1, <1>2, <1>4, <1>5, <1>6, <1>7, <1>8

\* The datum that is decoded is the next of the stream, and legal.
LEMMA DecodedDatum ==
  ASSUME AllInv, NEW h, Decode(h), UNCHANGED <<readout, e_no_frames, paths>>,
         state' = state \/ state' = "SUCCEEDED"
  PROVE  \E d \in Decoder, e \in Decoder, md \in E!StreamMD, i \in Nat :
           /\ md.hdr = h /\ Head(pending) = OnWire(md) /\ e = After(d, md, i)
           /\ Legal(d, md, requested_frames) /\ ClientKnows(d)
           /\ pending' # <<>> => e.frames < requested_frames
           /\ ClientType' /\ ClientKnows(e)' /\ Reported' => AllInv'
<1>1. /\ ReadoutType' /\ PathsType' /\ Begun' /\ Commanded'
      /\ pending # <<>> /\ pending' = Tail(pending)
      /\ Head(pending).hdr = h /\ e_frames_total = requested_frames
      /\ UNCHANGED <<net, n_loss>>
  BY OneDecoded
<1>2. PICK d \in Decoder, e \in Decoder, md \in E!StreamMD, i \in Nat :
        /\ Head(pending) = OnWire(md) /\ e = After(d, md, i) /\ Legal(d, md, e_frames_total)
        /\ ClientKnows(d) /\ (Tail(pending) # <<>> => e.frames < e_frames_total)
        /\ pending' = Tail(pending) /\ UNCHANGED <<readout, net, n_loss>> /\ ClientKnows(e)'
             => InStep'
  BY <1>1, NextDatum
<1>3. md.hdr = h
  BY <1>1, <1>2, WireType
<1>4. ASSUME ClientType', ClientKnows(e)', Reported' PROVE AllInv'
  <2>1. InStep'
    BY <1>1, <1>2, <1>4
  <2> QED BY <1>1, <1>4, <2>1 DEF AllInv
<1>5. Legal(d, md, requested_frames) /\ (pending' # <<>> => e.frames < requested_frames)
  BY <1>1, <1>2
<1> QED
  BY <1>2, <1>3, <1>4, <1>5

\* What a step of the decoder finds.
LEMMA Decoding ==
  ASSUME AllInv, NEW h, Decode(h), UNCHANGED <<readout, e_no_frames, paths>>,
         state' = state \/ state' = "SUCCEEDED"
  PROVE  /\ ClientType /\ pending' \in Seq(WireMD) /\ decode_data /\ decode_data'
         /\ UNCHANGED <<requested_frames, readout_mode, decode_data, n_loss>>
         /\ n_loss = 0 =>
              /\ state = "RUNNING"
              /\ requested_frames > 0 => completed_frames < requested_frames
              /\ Len(reports) = completed_frames
              /\ \A i \in 1..completed_frames :
                   /\ reports[i].frame = i - 1
                   /\ reports[i].info.sent = Hits /\ reports[i].info.received = Hits
              /\ \A i \in 1..Len(reports) : reports[i].open
<1>1. /\ pending' \in Seq(WireMD) /\ decode_data /\ (n_loss = 0 => state = "RUNNING")
      /\ UNCHANGED <<requested_frames, readout_mode, decode_data, n_loss>>
  BY OneDecoded
<1>2. ClientType /\ Reported
  BY DEF AllInv
<1>3. decode_data'
  BY <1>1
<1> QED BY <1>1, <1>2, <1>3 DEF Reported

\* A datum that ends no frame leaves what was reported.
LEMMA NothingReported ==
  ASSUME AllInv, NEW h, Decode(h), UNCHANGED <<readout, e_no_frames, paths>>,
         UNCHANGED <<state, completed_frames, reports>>
  PROVE  Reported'
<1>1. /\ UNCHANGED <<requested_frames, n_loss>> /\ (n_loss = 0 => state = "RUNNING") /\ Reported
  BY Decoding, OneDecoded DEF AllInv
<1> QED BY <1>1 DEF Reported

\* A hit.
LEMMA PixelStep ==
  ASSUME AllInv, PixelDatum, UNCHANGED <<readout, e_no_frames, paths>>
  PROVE  AllInv'
<1>1. /\ Decode("px")
      /\ UNCHANGED <<state, frame_active, completed_frames, last_toa_offset, reports>>
      /\ decoded' = Append(decoded, MapPixel(Head(pending)))
      /\ \/ /\ current_frame_info' = FlushedInfo /\ handed' = handed + Len(pixel_buffer)
            /\ pixel_buffer' = <<MapPixel(Head(pending))>>
         \/ /\ pixel_buffer' = Append(pixel_buffer, MapPixel(Head(pending)))
            /\ UNCHANGED <<handed, current_frame_info>>
  BY DEF PixelDatum, FlushDelivers
<1>2. PICK d \in Decoder, e \in Decoder, md \in E!StreamMD, i \in Nat :
        /\ md.hdr = "px" /\ Head(pending) = OnWire(md) /\ e = After(d, md, i)
        /\ Legal(d, md, requested_frames) /\ ClientKnows(d)
        /\ ClientType' /\ ClientKnows(e)' /\ Reported' => AllInv'
  BY <1>1, DecodedDatum
<1>3. /\ ClientType /\ pending' \in Seq(WireMD) /\ decode_data /\ decode_data'
      /\ UNCHANGED <<requested_frames, readout_mode, decode_data, n_loss>>
      /\ n_loss = 0 => state = "RUNNING"
  BY <1>1, Decoding
<1>4. PICK px \in ClientPixel : px = MapPixel(Head(pending))
  <2>1. md.v \in Nat /\ md.tag \in Nat \X Nat /\ last_toa_offset \in Nat
    BY <1>3 DEF E!StreamMD, ClientType
  <2>2. MapPixel(Head(pending)) = [toa |-> md.v + last_toa_offset, tag |-> md.tag]
    BY <1>2, WireType DEF MapPixel
  <2>3. md.v + last_toa_offset \in Nat
    BY <2>1
  <2>4. MapPixel(Head(pending)) \in ClientPixel
    BY <2>1, <2>2, <2>3 DEF ClientPixel
  <2> QED BY <2>4
<1>5. /\ FlushedInfo \in ClientInfo /\ Len(pixel_buffer) \in Nat
      /\ FlushedInfo.received = current_frame_info.received + Len(pixel_buffer)
      /\ current_frame_info.received \in Nat
  BY <1>3, FlushedType
<1>6. /\ pixel_buffer' \in Seq(ClientPixel) /\ current_frame_info' \in ClientInfo /\ handed' \in Nat
      /\ current_frame_info'.received + Len(pixel_buffer')
           = (current_frame_info.received + Len(pixel_buffer)) + 1
  <2>1. CASE /\ current_frame_info' = FlushedInfo /\ handed' = handed + Len(pixel_buffer)
             /\ pixel_buffer' = <<px>>
    <3>1. <<px>> \in Seq(ClientPixel) /\ Len(<<px>>) = 1 /\ handed \in Nat
      BY <1>3 DEF ClientType
    <3>2. handed + Len(pixel_buffer) \in Nat
      BY <1>5, <3>1
    <3> QED BY <1>5, <2>1, <3>1, <3>2
  <2>2. CASE /\ pixel_buffer' = Append(pixel_buffer, px)
             /\ UNCHANGED <<handed, current_frame_info>>
    <3>1. pixel_buffer \in Seq(ClientPixel) /\ current_frame_info \in ClientInfo /\ handed \in Nat
      BY <1>3 DEF ClientType
    <3>2. pixel_buffer' \in Seq(ClientPixel) /\ Len(pixel_buffer') = Len(pixel_buffer) + 1
      BY <2>2, <3>1, AppendProperties
    <3>3. current_frame_info' = current_frame_info /\ handed' = handed
      BY <2>2
    <3>4. PICK a \in Nat, b \in Nat : a = current_frame_info.received /\ b = Len(pixel_buffer)
      BY <1>5
    <3>5. a + (b + 1) = (a + b) + 1
      BY <3>4
    <3> QED BY <3>1, <3>2, <3>3, <3>4, <3>5
  <2> QED BY <1>1, <1>4, <2>1, <2>2
<1>7. ClientType'
  <2>1. decoded' \in Seq(ClientPixel)
    BY <1>1, <1>3, <1>4, AppendProperties DEF ClientType
  <2> QED BY <1>1, <1>3, <1>6, <2>1 DEF ClientType
<1>8. d.active
  BY <1>2 DEF Legal
<1>9. ClientKnows(e)'
  <2>1. /\ e.active = TRUE /\ e.hits = d.hits + 1 /\ e.frames = d.frames /\ e.window = d.window
    BY <1>2, <1>8 DEF After, Marks
  <2>2. /\ completed_frames <= d.frames
        /\ n_loss = 0 => /\ completed_frames = d.frames /\ frame_active = d.active
                         /\ last_toa_offset = d.window * ToaSpan
                         /\ current_frame_info.received + Len(pixel_buffer) = d.hits
    BY <1>2, <1>3, <1>8 DEF ClientKnows
  <2>3. d.active = TRUE
    BY <1>8 DEF Decoder
  <2>4. n_loss = 0 => current_frame_info'.received + Len(pixel_buffer') = e.hits
    BY <1>6, <2>1, <2>2
  <2>5. n_loss = 0 => frame_active' = e.active /\ last_toa_offset' = e.window * ToaSpan
    BY <1>1, <2>1, <2>2, <2>3
  <2>6. completed_frames' <= e.frames /\ (n_loss = 0 => completed_frames' = e.frames)
    BY <1>1, <2>1, <2>2
  <2>7. n_loss' = n_loss /\ ~(~e.active)
    BY <1>3, <2>1
  <2> QED BY ONLY <2>4, <2>5, <2>6, <2>7 DEF ClientKnows
<1>10. Reported'
  BY <1>1, NothingReported
<1> QED
  BY <1>2, <1>7, <1>9, <1>10

\* A frame opens.
LEMMA NewFrameStep ==
  ASSUME AllInv, NewFrame, UNCHANGED <<readout, e_no_frames, paths>>
  PROVE  AllInv'
<1>1. /\ Decode("new_frame") /\ current_frame_info' = BlankInfo /\ frame_active' = TRUE
      /\ last_toa_offset' = 0 /\ handed' = 0
      /\ UNCHANGED <<state, completed_frames, pixel_buffer, decoded, reports>>
  BY DEF NewFrame, OpenedInfo
<1>2. PICK d \in Decoder, e \in Decoder, md \in E!StreamMD, i \in Nat :
        /\ md.hdr = "new_frame" /\ Head(pending) = OnWire(md) /\ e = After(d, md, i)
        /\ Legal(d, md, requested_frames) /\ ClientKnows(d)
        /\ ClientType' /\ ClientKnows(e)' /\ Reported' => AllInv'
  BY <1>1, DecodedDatum
<1>3. /\ ClientType /\ pending' \in Seq(WireMD) /\ decode_data
      /\ UNCHANGED <<requested_frames, readout_mode, decode_data, n_loss>>
      /\ n_loss = 0 => state = "RUNNING"
  BY <1>1, Decoding
<1>4. BlankInfo \in ClientInfo /\ BlankInfo.received = 0
  BY DEF BlankInfo, ClientInfo
<1>5. ClientType'
  <2>1. frame_active' \in BOOLEAN
    BY ONLY <1>1
  <2> QED BY <1>1, <1>3, <1>4, <2>1 DEF ClientType
<1>6. ClientKnows(e)'
  <2>1. md.v = 0 /\ ~d.active
    BY <1>2 DEF Legal
  <2>2. e.active = TRUE /\ e.hits = 0 /\ e.frames = d.frames /\ e.window = 0
    BY <1>2, <2>1 DEF After, Marks
  <2>3. /\ completed_frames <= d.frames
        /\ n_loss = 0 => completed_frames = d.frames /\ pixel_buffer = <<>>
    BY <1>2, <1>3, <2>1 DEF ClientKnows
  <2>4. n_loss = 0 => current_frame_info'.received + Len(pixel_buffer') = e.hits
    BY <1>1, <1>4, <2>2, <2>3
  <2>5. frame_active' = e.active /\ last_toa_offset' = e.window * ToaSpan
    <3>1. 0 * ToaSpan = 0
      BY AcqAssumption
    <3> QED BY <1>1, <2>2, <3>1
  <2>6. completed_frames' <= e.frames /\ (n_loss = 0 => completed_frames' = e.frames)
    BY <1>1, <2>2, <2>3
  <2>7. n_loss' = n_loss /\ ~(~e.active)
    BY <1>3, <2>2
  <2> QED BY ONLY <2>4, <2>5, <2>6, <2>7 DEF ClientKnows
<1>7. Reported'
  BY <1>1, NothingReported
<1> QED
  BY <1>2, <1>5, <1>6, <1>7

\* The window of the hits to come.
LEMMA OffsetStep ==
  ASSUME AllInv, TimestampOffset, UNCHANGED <<readout, e_no_frames, paths>>
  PROVE  AllInv'
<1>1. /\ Decode("offset") /\ last_toa_offset' = Head(pending).v * ToaSpan
      /\ UNCHANGED <<state, frame_active, completed_frames, decoded, reports>>
      /\ UNCHANGED <<handed, current_frame_info, pixel_buffer>>
  BY DEF TimestampOffset, NoFlush
<1>2. PICK d \in Decoder, e \in Decoder, md \in E!StreamMD, i \in Nat :
        /\ md.hdr = "offset" /\ Head(pending) = OnWire(md) /\ e = After(d, md, i)
        /\ Legal(d, md, requested_frames) /\ ClientKnows(d)
        /\ ClientType' /\ ClientKnows(e)' /\ Reported' => AllInv'
  BY <1>1, DecodedDatum
<1>3. /\ ClientType /\ pending' \in Seq(WireMD) /\ decode_data
      /\ UNCHANGED <<requested_frames, readout_mode, decode_data, n_loss>>
      /\ n_loss = 0 => state = "RUNNING"
  BY <1>1, Decoding
<1>4. last_toa_offset' = md.v * ToaSpan /\ last_toa_offset' \in Nat
  <2>1. md.v \in Nat /\ Head(pending).v = md.v
    BY <1>2, WireType DEF E!StreamMD
  <2> QED BY <1>1, <2>1, AcqAssumption
<1>5. ClientType'
  BY <1>1, <1>3, <1>4 DEF ClientType
<1>6. ClientKnows(e)'
  <2>1. d.active = TRUE
    BY <1>2 DEF Legal, Decoder
  <2>2. e.active = TRUE /\ e.hits = d.hits /\ e.frames = d.frames /\ e.window = md.v
    BY <1>2, <2>1 DEF After, Marks
  <2>3. /\ completed_frames <= d.frames
        /\ n_loss = 0 => /\ completed_frames = d.frames /\ frame_active = d.active
                         /\ current_frame_info.received + Len(pixel_buffer) = d.hits
    BY <1>2, <1>3, <2>1 DEF ClientKnows
  <2>4. n_loss = 0 => current_frame_info'.received + Len(pixel_buffer') = e.hits
    BY <1>1, <2>2, <2>3
  <2>5. n_loss = 0 => frame_active' = e.active
    BY <1>1, <2>1, <2>2, <2>3
  <2>6. completed_frames' <= e.frames /\ (n_loss = 0 => completed_frames' = e.frames)
    BY <1>1, <2>2, <2>3
  <2>7. n_loss' = n_loss /\ ~(~e.active) /\ last_toa_offset' = e.window * ToaSpan
    BY <1>3, <1>4, <2>2
  <2> QED BY ONLY <2>4, <2>5, <2>6, <2>7 DEF ClientKnows
<1>7. Reported'
  BY <1>1, NothingReported
<1> QED
  BY <1>2, <1>5, <1>6, <1>7

\* A time stamp, a count of lost pixels or the end of a stopped acquisition.
LEMMA NoteStep ==
  ASSUME AllInv, FrameTimestamp \/ LostPixels \/ AbortedDatum,
         UNCHANGED <<readout, e_no_frames, paths>>
  PROVE  AllInv'
<1>1. PICK h : /\ Decode(h) /\ h \notin {"new_frame", "px", "offset", "finished"}
               /\ FrameTimestamp \/ LostPixels \/ AbortedDatum
               /\ \/ \E t \in TimeHeaders :
                       current_frame_info' = [current_frame_info EXCEPT !.times[t] = Head(pending).tag]
                  \/ current_frame_info' = [current_frame_info EXCEPT !.lost = @ + Head(pending).v]
                  \/ UNCHANGED current_frame_info
  <2>1. CASE FrameTimestamp
    BY <2>1 DEF FrameTimestamp, TimeHeaders
  <2>2. CASE LostPixels
    BY <2>2 DEF LostPixels
  <2>3. CASE AbortedDatum
    BY <2>3 DEF AbortedDatum, NoFlush
  <2> QED BY <2>1, <2>2, <2>3
<1>2. /\ UNCHANGED <<state, frame_active, completed_frames, decoded, reports>>
      /\ UNCHANGED <<handed, pixel_buffer, last_toa_offset>>
  BY DEF FrameTimestamp, LostPixels, AbortedDatum, NoFlush, history
<1>3. PICK d \in Decoder, e \in Decoder, md \in E!StreamMD, i \in Nat :
        /\ md.hdr = h /\ Head(pending) = OnWire(md) /\ e = After(d, md, i)
        /\ Legal(d, md, requested_frames) /\ ClientKnows(d)
        /\ ClientType' /\ ClientKnows(e)' /\ Reported' => AllInv'
  BY <1>1, <1>2, DecodedDatum
<1>4. /\ ClientType /\ pending' \in Seq(WireMD) /\ decode_data
      /\ UNCHANGED <<requested_frames, readout_mode, decode_data, n_loss>>
      /\ n_loss = 0 => state = "RUNNING"
  BY <1>1, <1>2, Decoding
<1>5. current_frame_info' \in ClientInfo /\ current_frame_info'.received = current_frame_info.received
  <2>1. /\ Head(pending).v \in Nat /\ Head(pending).tag \in Nat \X Nat
        /\ current_frame_info \in ClientInfo
    BY <1>3, <1>4, WireType DEF E!StreamMD, ClientType
  <2>2. CASE UNCHANGED current_frame_info
    BY <2>1, <2>2
  <2>3. ASSUME NEW t \in TimeHeaders,
               current_frame_info' = [current_frame_info EXCEPT !.times[t] = Head(pending).tag]
        PROVE  current_frame_info' \in ClientInfo
               /\ current_frame_info'.received = current_frame_info.received
    BY <2>1, <2>3 DEF ClientInfo
  <2>4. CASE current_frame_info' = [current_frame_info EXCEPT !.lost = @ + Head(pending).v]
    <3>1. current_frame_info.lost + Head(pending).v \in Nat
      BY <2>1 DEF ClientInfo
    <3> QED BY <2>1, <2>4, <3>1 DEF ClientInfo
  <2> QED BY <1>1, <2>2, <2>3, <2>4
<1>6. ClientType'
  BY <1>2, <1>4, <1>5 DEF ClientType
<1>7. ClientKnows(e)'
  <2>1. d.active = TRUE
    BY <1>1, <1>3 DEF Legal, Decoder
  <2>2. e.active = TRUE /\ e.hits = d.hits /\ e.frames = d.frames /\ e.window = d.window
    BY <1>1, <1>3, <2>1 DEF After, Marks
  <2>3. /\ completed_frames <= d.frames
        /\ n_loss = 0 => /\ completed_frames = d.frames /\ frame_active = d.active
                         /\ last_toa_offset = d.window * ToaSpan
                         /\ current_frame_info.received + Len(pixel_buffer) = d.hits
    BY <1>3, <1>4, <2>1 DEF ClientKnows
  <2>4. n_loss = 0 => current_frame_info'.received + Len(pixel_buffer') = e.hits
    BY <1>2, <1>5, <2>2, <2>3
  <2>5. n_loss = 0 => frame_active' = e.active /\ last_toa_offset' = e.window * ToaSpan
    BY <1>2, <2>1, <2>2, <2>3
  <2>6. completed_frames' <= e.frames /\ (n_loss = 0 => completed_frames' = e.frames)
    BY <1>2, <2>2, <2>3
  <2>7. n_loss' = n_loss /\ ~(~e.active)
    BY <1>4, <2>2
  <2> QED BY ONLY <2>4, <2>5, <2>6, <2>7 DEF ClientKnows
<1>8. Reported'
  BY <1>1, <1>2, NothingReported
<1> QED
  BY <1>3, <1>6, <1>7, <1>8

\* A frame ends, and is reported.
LEMMA FinishedStep ==
  ASSUME AllInv, FrameFinished, UNCHANGED <<readout, e_no_frames, paths>>
  PROVE  AllInv'
<1> DEFINE info == [FlushedInfo EXCEPT !.sent = Head(pending).v, !.completed = TRUE]
           report == [frame |-> completed_frames, completed |-> TRUE, info |-> info,
                      open |-> frame_active, handed |-> handed + Len(pixel_buffer)]
<1>1. /\ Decode("finished") /\ current_frame_info' = info /\ reports' = Append(reports, report)
      /\ pixel_buffer' = <<>> /\ handed' = 0 /\ frame_active' = FALSE
      /\ completed_frames' = completed_frames + 1
      /\ state' = (IF completed_frames + 1 = requested_frames THEN "SUCCEEDED" ELSE state)
      /\ UNCHANGED <<last_toa_offset, decoded>>
  BY DEF FrameFinished, ReportFrame, StateAfterFrame
<1>2. PICK d \in Decoder, e \in Decoder, md \in E!StreamMD, i \in Nat :
        /\ md.hdr = "finished" /\ Head(pending) = OnWire(md) /\ e = After(d, md, i)
        /\ Legal(d, md, requested_frames) /\ ClientKnows(d)
        /\ pending' # <<>> => e.frames < requested_frames
        /\ ClientType' /\ ClientKnows(e)' /\ Reported' => AllInv'
  BY <1>1, DecodedDatum
<1>3. /\ ClientType /\ pending' \in Seq(WireMD) /\ decode_data
      /\ UNCHANGED <<requested_frames, readout_mode, decode_data, n_loss>>
      /\ n_loss = 0 =>
           /\ state = "RUNNING" /\ Len(reports) = completed_frames
           /\ \A k \in 1..completed_frames :
                /\ reports[k].frame = k - 1
                /\ reports[k].info.sent = Hits /\ reports[k].info.received = Hits
           /\ \A k \in 1..Len(reports) : reports[k].open
  BY <1>1, Decoding
<1>4. /\ d.active = TRUE /\ d.hits = Hits /\ Head(pending).v = Hits /\ d.frames < requested_frames
      /\ e.active = FALSE /\ e.frames = d.frames + 1 /\ e.window = d.window
  <2>1. Head(pending).v = md.v
    BY <1>2, WireType
  <2> QED BY <1>2, <2>1 DEF Legal, After, Decoder, Marks
<1>5. /\ completed_frames <= d.frames
      /\ n_loss = 0 => /\ completed_frames = d.frames /\ frame_active = d.active
                       /\ last_toa_offset = d.window * ToaSpan
                       /\ current_frame_info.received + Len(pixel_buffer) = d.hits
  BY <1>2, <1>3, <1>4 DEF ClientKnows
<1>6. /\ completed_frames \in Nat /\ requested_frames \in Nat /\ d.frames \in Nat
      /\ reports \in Seq(ClientReport) /\ Len(reports) \in Nat
      /\ frame_active \in BOOLEAN /\ handed + Len(pixel_buffer) \in Nat
  <2>1. handed \in Nat /\ Len(pixel_buffer) \in Nat
    BY <1>3, LenProperties DEF ClientType
  <2>2. handed + Len(pixel_buffer) \in Nat
    BY ONLY <2>1
  <2> QED BY <1>3, <2>2, LenProperties DEF ClientType, Decoder
<1>7. /\ info \in ClientInfo /\ info.sent = Head(pending).v
      /\ info.received = current_frame_info.received + Len(pixel_buffer)
  <2>1. FlushedInfo \in ClientInfo
        /\ FlushedInfo.received = current_frame_info.received + Len(pixel_buffer)
    BY <1>3, FlushedType
  <2>2. Head(pending).v \in Nat
    BY <1>4, SystemAssumption
  <2>3. TRUE \in BOOLEAN
    OBVIOUS
  <2> QED BY <2>1, <2>2, <2>3 DEF ClientInfo
<1> HIDE DEF info
<1>8. /\ report \in ClientReport /\ report.frame = completed_frames /\ report.info = info
      /\ report.open = frame_active
  <2>1. TRUE \in BOOLEAN
    OBVIOUS
  <2> QED BY <1>6, <1>7, <2>1 DEF ClientReport
<1> HIDE DEF report
<1>9. /\ reports' \in Seq(ClientReport) /\ Len(reports') = Len(reports) + 1
      /\ \A k \in 1..Len(reports) : reports'[k] = reports[k]
      /\ reports'[Len(reports) + 1] = report
  BY <1>1, <1>6, <1>8, AppendProperties
<1>10. /\ state' \in States /\ completed_frames' \in Nat /\ frame_active' \in BOOLEAN
       /\ pixel_buffer' \in Seq(ClientPixel)
  <2>1. state' \in States
    BY <1>1, <1>3 DEF ClientType, States
  <2>2. completed_frames' \in Nat
    BY <1>1, <1>6
  <2>3. frame_active' \in BOOLEAN
    BY ONLY <1>1
  <2> QED BY <1>1, <2>1, <2>2, <2>3, EmptySeq
<1>11. ClientType'
  <2>1. handed' = 0 /\ decoded' = decoded /\ last_toa_offset' = last_toa_offset
        /\ current_frame_info' \in ClientInfo
    BY <1>1, <1>7
  <2> QED BY <1>3, <1>9, <1>10, <2>1 DEF ClientType
<1>12. ClientKnows(e)'
  <2>1. completed_frames' <= e.frames /\ (n_loss = 0 => completed_frames' = e.frames)
    BY <1>1, <1>4, <1>5, <1>6
  <2>2. n_loss = 0 => frame_active' = e.active /\ last_toa_offset' = e.window * ToaSpan
    BY <1>1, <1>4, <1>5
  <2>3. n_loss' = n_loss /\ ~e.active /\ pixel_buffer' = <<>>
    BY <1>1, <1>3, <1>4
  <2> QED BY ONLY <2>1, <2>2, <2>3 DEF ClientKnows
<1>13. Reported'
  <2>1. SUFFICES ASSUME n_loss = 0 PROVE Reported'
    BY <1>3 DEF Reported
  <2>2. PICK n \in Nat : /\ n = completed_frames /\ n = d.frames /\ n = Len(reports)
                         /\ n < requested_frames /\ completed_frames' = n + 1
    BY <1>1, <1>3, <1>4, <1>5, <1>6, <2>1
  <2>3. e.frames = n + 1 /\ requested_frames' = requested_frames
    BY <1>3, <1>4, <2>2
  <2>4. state' = (IF n + 1 = requested_frames THEN "SUCCEEDED" ELSE "RUNNING")
    BY <1>1, <1>3, <2>1, <2>2
  <2>5. state' # "RUNNING" => pending' = <<>>
    BY <1>2, <1>6, <2>2, <2>3, <2>4
  <2>6. state' = "RUNNING" => completed_frames' < requested_frames'
    BY <1>6, <2>2, <2>3, <2>4
  <2>7. Len(reports') = n + 1 /\ completed_frames' = n + 1
    BY <1>9, <2>2
  <2>8. /\ report.frame = n /\ report.info.sent = Hits /\ report.info.received = Hits
        /\ report.open = TRUE
    BY <1>4, <1>5, <1>7, <1>8, <2>1, <2>2
  <2>9. ASSUME NEW k \in 1..(n + 1)
        PROVE  /\ reports'[k].frame = k - 1
               /\ reports'[k].info.sent = Hits /\ reports'[k].info.received = Hits
               /\ reports'[k].open
    <3>1. CASE k \in 1..n
      BY <1>3, <1>9, <2>1, <2>2, <3>1
    <3>2. CASE k = n + 1
      <4>1. reports'[k] = report /\ k - 1 = n
        BY <1>9, <2>2, <3>2
      <4> QED BY <2>8, <4>1
    <3> QED BY <2>2, <2>9, <3>1, <3>2
  <2> QED BY <2>5, <2>6, <2>7, <2>9 DEF Reported
<1> QED
  BY <1>2, <1>11, <1>12, <1>13

\* Any step of the decoder: the readout sends neither trigger data nor
\* unknown ones.
LEMMA DecoderStep ==
  ASSUME AllInv, DecodeStep, UNCHANGED <<readout, e_no_frames, paths>>
  PROVE  AllInv'
<1>1. ASSUME NEW h, Decode(h), UNCHANGED state PROVE h \in E!MdHeaders
  <2>1. PICK md \in E!StreamMD : md.hdr = h
    BY <1>1, DecodedDatum
  <2> QED BY <2>1, DatumType
<1>2. CASE TriggerInfo \/ UnknownDatum
  <2>1. UNCHANGED state /\ (Decode("trigger") \/ Decode("unknown"))
    BY <1>2 DEF TriggerInfo, UnknownDatum, object
  <2> QED BY <1>1, <2>1 DEF E!MdHeaders
<1> QED
  BY <1>2, PixelStep, NewFrameStep, OffsetStep, NoteStep, FinishedStep DEF DecodeStep

---------------------------------------------------------------------------
(* The paths.                                                              *)

\* The first datagram is taken from the way.
LEMMA TakenDatagram ==
  ASSUME ReadoutType, PathsType, NEW g, NEW r, ReadoutAt(g, r),
         NEW p, NEW q, NEW s, OnTheWay(g, p, q, s),
         net # <<>>, net' = Tail(net), UNCHANGED e_out
  PROVE  /\ net' \in Seq(Datagram1) /\ Len(net') \in Nat
         /\ s[1] \in Nat /\ s[2] \in 0..Len(g) /\ s[1] < s[2]
         /\ Carries(Head(net).mds, g, s[1], s[2])
         /\ \E t : /\ t \in [1..(Len(net') + 1) -> 0..Len(e_out)] /\ t[1] = s[2]
                   /\ t[Len(net') + 1] = Len(e_out)
                   /\ \A i \in 1..Len(net') :
                        t[i] < t[i + 1] /\ Carries(net'[i].mds, g, t[i], t[i + 1])
<1>1. /\ Head(net) = net[1] /\ Tail(net) \in Seq(Datagram1) /\ Len(Tail(net)) = Len(net) - 1
      /\ \A i \in 1..Len(Tail(net)) : Tail(net)[i] = net[i + 1]
  BY HeadTailProperties DEF PathsType
<1>2. Len(net) \in Nat \ {0}
  BY EmptySeq DEF PathsType
<1>3. PICK n \in Nat : Len(net) = n + 1
  <2>1. Len(net) - 1 \in Nat /\ Len(net) = (Len(net) - 1) + 1
    BY <1>2
  <2> QED BY <2>1
<1>4. Len(net') = n /\ (\A i \in 1..n : net'[i] = net[i + 1])
  BY <1>1, <1>3
<1>5. /\ s \in [1..(n + 2) -> 0..Len(e_out)] /\ s[n + 2] = Len(e_out)
      /\ \A i \in 1..(n + 1) : s[i] < s[i + 1] /\ Carries(net[i].mds, g, s[i], s[i + 1])
  <2>1. (n + 1) + 1 = n + 2
    BY <1>3
  <2> QED BY <1>3, <2>1 DEF OnTheWay
<1>6. 1 \in 1..(n + 1) /\ 1 + 1 = 2 /\ 1 \in 1..(n + 2) /\ 2 \in 1..(n + 2)
  BY <1>3
<1>7. s[1] < s[2] /\ Carries(Head(net).mds, g, s[1], s[2])
  BY <1>1, <1>5, <1>6
<1>8. /\ Len(e_out) \in Nat /\ Len(e_out) <= Len(g) /\ Len(g) \in Nat
      /\ s[1] \in 0..Len(e_out) /\ s[2] \in 0..Len(e_out)
  BY <1>5, <1>6, Bounds
<1>9. s[1] \in Nat /\ s[2] \in 0..Len(g)
  BY <1>8
<1> DEFINE t == [i \in 1..(n + 1) |-> s[i + 1]]
<1>10. /\ t \in [1..(n + 1) -> 0..Len(e_out)] /\ t[1] = s[2] /\ t[n + 1] = Len(e_out)
       /\ \A i \in 1..n : t[i] < t[i + 1] /\ Carries(net'[i].mds, g, t[i], t[i + 1])
  <2>1. \A i \in 1..(n + 1) : i + 1 \in 1..(n + 2)
    BY <1>3
  <2>2. t \in [1..(n + 1) -> 0..Len(e_out)]
    BY <1>5, <2>1
  <2>3. n + 1 \in 1..(n + 1) /\ (n + 1) + 1 = n + 2
    BY <1>3
  <2>4. t[1] = s[2] /\ t[n + 1] = Len(e_out)
    BY <1>5, <1>6, <2>3
  <2>5. ASSUME NEW i \in 1..n
        PROVE  t[i] < t[i + 1] /\ Carries(net'[i].mds, g, t[i], t[i + 1])
    <3>1. i \in 1..(n + 1) /\ i + 1 \in 1..(n + 1)
      BY <1>3
    <3>2. t[i] = s[i + 1] /\ t[i + 1] = s[(i + 1) + 1] /\ net'[i] = net[i + 1]
      BY <1>4, <3>1
    <3> HIDE DEF t
    <3> QED BY <1>5, <3>1, <3>2
  <2> QED BY <2>2, <2>4, <2>5
<1> HIDE DEF t
<1> QED
  BY <1>1, <1>3, <1>4, <1>7, <1>9, <1>10

\* The loop over md_buffer decodes all of a datagram that is not cut short.
LEMMA WholeVisited ==
  ASSUME NEW dg \in Datagram1
  PROVE  \A buffer \in BufferAfter(dg) : Visited(buffer, Received(dg)) = dg.mds
<1>1. /\ dg.mds \in Seq(WireMD) /\ dg.cut = 0 /\ Len(dg.mds) \in Nat
      /\ dg.mds = [k \in 1..Len(dg.mds) |-> dg.mds[k]]
  BY LenProperties DEF Datagram1
<1>2. ASSUME NEW k \in 1..Len(dg.mds) PROVE InWholeData(k, Received(dg))
  <2>1. PICK n \in Nat, d \in Nat, size \in Nat :
          n = Len(dg.mds) /\ size = MdSize /\ n = k + d
    <3>1. Len(dg.mds) - k \in Nat /\ Len(dg.mds) = k + (Len(dg.mds) - k)
      BY <1>1
    <3> QED BY <1>1, <3>1, AcqAssumption
  <2>2. n * size = k * size + d * size /\ (k - 1) * size + size = k * size
        /\ k * size \in Nat /\ d * size \in Nat
    BY <2>1
  <2>3. \A x \in Nat, y \in Nat : x <= x + y - 0
    OBVIOUS
  <2> QED BY <1>1, <2>1, <2>2, <2>3 DEF InWholeData, Received
<1>3. {k \in DOMAIN dg.mds : InWholeData(k, Received(dg))} = 1..Len(dg.mds)
  BY <1>1, <1>2
<1> QED BY <1>1, <1>3 DEF Visited, BufferAfter

\* A datagram is received.
LEMMA ReceiveStep ==
  ASSUME AllInv, ClientReceives PROVE AllInv'
<1> USE DEF AllInv
<1>1. /\ net # <<>> /\ net' = Tail(net) /\ UNCHANGED <<readout, e_no_frames, ctl, n_loss, n_dup>>
      /\ pc = "read" /\ pending = <<>> /\ state = "RUNNING"
      /\ pending' = (IF decode_data THEN Head(net).mds ELSE <<>>)
      /\ UNCHANGED <<state, frame_active, decode_data, completed_frames, requested_frames>>
      /\ UNCHANGED <<last_toa_offset, readout_mode, current_frame_info, pixel_buffer>>
      /\ UNCHANGED <<decoded, handed, reports, n_begin, pc>>
  <2>1. net # <<>> /\ RecvDatagram(Head(net)) /\ Head(net) \in Datagram1
    <3>1. net \in Seq(Datagram1) /\ net # <<>>
      BY DEF ClientReceives, PathsType
    <3> QED BY <3>1, HeadTailProperties DEF ClientReceives
  <2>2. pending' = (IF decode_data THEN Head(net).mds ELSE <<>>)
    BY <2>1, WholeVisited DEF RecvDatagram
  <2> QED BY <2>1, <2>2 DEF ClientReceives, RecvDatagram, Receiving, object, history
<1>2. PICK g, r, p, q, s : ReadoutAt(g, r) /\ OnTheWay(g, p, q, s) /\ ClientKnows(r[p])
  BY DEF InStep
<1>3. UNCHANGED e_out
  BY <1>1 DEF readout
<1>4. /\ net' \in Seq(Datagram1) /\ Len(net') \in Nat
      /\ s[1] \in Nat /\ s[2] \in 0..Len(g) /\ s[1] < s[2]
      /\ Carries(Head(net).mds, g, s[1], s[2])
      /\ \E t : /\ t \in [1..(Len(net') + 1) -> 0..Len(e_out)] /\ t[1] = s[2]
                /\ t[Len(net') + 1] = Len(e_out)
                /\ \A i \in 1..Len(net') :
                     t[i] < t[i + 1] /\ Carries(net'[i].mds, g, t[i], t[i + 1])
  <2>1. net # <<>> /\ net' = Tail(net) /\ ReadoutType /\ PathsType
    BY <1>1
  <2> QED BY ONLY <1>2, <1>3, <2>1, TakenDatagram
<1>5. PICK t : /\ t \in [1..(Len(net') + 1) -> 0..Len(e_out)] /\ t[1] = s[2]
               /\ t[Len(net') + 1] = Len(e_out)
               /\ \A i \in 1..Len(net') :
                    t[i] < t[i + 1] /\ Carries(net'[i].mds, g, t[i], t[i + 1])
  BY <1>4
<1>6. /\ Len(g) \in Nat /\ p \in 0..Len(g) /\ q \in 0..Len(g) /\ p <= q /\ q <= s[1]
      /\ s[1] <= Len(g)
  BY <1>2, <1>4, Bounds
<1>7. ReadoutType' /\ Count' = Count /\ UNCHANGED <<e_arms, e_armed, e_frames_total>>
  BY <1>1, Untouched
<1>8. PathsType'
  BY <1>1, <1>4 DEF PathsType
<1>9. pending' \in Seq(WireMD)
  BY <1>1, <1>4, EmptySeq DEF Carries
<1>10. ClientType'
  BY <1>1, <1>9 DEF ClientType
<1>11. Begun'
  BY <1>1 DEF Begun
<1>12. Commanded'
  BY <1>1, <1>7 DEF Commanded, Starts
<1>13. Reported'
  BY <1>1 DEF Reported
<1>14. ReadoutAt(g, r)'
  BY <1>1, <1>2 DEF ReadoutAt, IsStream, Count, Datum, ReadoutKnows, readout
<1>15. p = q
  <2>1. Len(pending) = q - p /\ Len(pending) = 0
    BY <1>1, <1>2 DEF OnTheWay, Carries
  <2> QED BY <1>6, <2>1
<1>16. CASE decode_data
  <2>1. pending' = Head(net).mds
    BY <1>1, <1>16
  <2>2. OnTheWay(g, s[1], s[2], t)'
    <3>1. s[2] \in Nat /\ s[1] <= s[2] /\ s[2] <= t[1]
      BY <1>4, <1>5
    <3>2. Carries(pending', g, s[1], s[2])
      BY <1>4, <2>1
    <3> QED BY <1>3, <1>4, <1>5, <3>1, <3>2 DEF OnTheWay
  <2>3. ClientKnows(r[s[1]])'
    <3>1. CASE n_loss = 0
      <4>1. p = s[1]
        BY <1>2, <1>15, <3>1 DEF OnTheWay
      <4> QED BY <1>1, <1>2, <4>1 DEF ClientKnows
    <3>2. CASE n_loss # 0
      <4>1. /\ r \in [0..Len(g) -> Decoder]
            /\ \A i, j \in 0..Len(g) : i <= j => r[i].frames <= r[j].frames
        BY <1>2 DEF ReadoutAt, IsRun
      <4>2. p \in 0..Len(g) /\ s[1] \in 0..Len(g) /\ p <= s[1]
        BY <1>4, <1>6, <1>15
      <4>3. r[p].frames <= r[s[1]].frames /\ r[p].frames \in Nat /\ r[s[1]].frames \in Nat
        BY <4>1, <4>2 DEF Decoder
      <4>4. completed_frames <= r[p].frames /\ completed_frames \in Nat
        BY <1>2 DEF ClientKnows, ClientType
      <4>5. completed_frames <= r[s[1]].frames
        BY <4>3, <4>4
      <4> QED BY <1>1, <3>2, <4>5 DEF ClientKnows
    <3> QED BY <3>1, <3>2
  <2>4. InStep'
    BY <1>14, <2>2, <2>3 DEF InStep
  <2> QED BY <1>7, <1>8, <1>10, <1>11, <1>12, <1>13, <2>4
<1>17. CASE ~decode_data
  <2>1. pending' = <<>>
    BY <1>1, <1>17
  <2>2. OnTheWay(g, s[2], s[2], t)'
    <3>1. s[2] \in Nat /\ s[2] <= s[2] /\ s[2] <= t[1]
      BY <1>4, <1>5
    <3>2. Carries(pending', g, s[2], s[2])
      <4>1. s[2] - s[2] = 0 /\ Len(pending') = 0 /\ pending' \in Seq(WireMD)
        BY <1>9, <2>1, <3>1
      <4>2. 1..(s[2] - s[2]) = {}
        BY <4>1
      <4> QED BY <4>1, <4>2 DEF Carries
    <3> QED BY <1>3, <1>4, <1>5, <3>1, <3>2 DEF OnTheWay
  <2>3. ClientKnows(r[s[2]])'
    <3>1. r[s[2]].frames \in Nat
      BY <1>2, <1>4 DEF ReadoutAt, IsRun, Decoder
    <3>2. completed_frames = 0
      BY <1>17 DEF Begun
    <3>3. completed_frames <= r[s[2]].frames
      BY <3>1, <3>2
    <3> QED BY <1>1, <1>17, <3>3 DEF ClientKnows
  <2>4. InStep'
    BY <1>14, <2>2, <2>3 DEF InStep
  <2> QED BY <1>7, <1>8, <1>10, <1>11, <1>12, <1>13, <2>4
<1> QED
  BY <1>16, <1>17 DEF ClientType

\* A datagram or a command is lost.
LEMMA LossStep ==
  ASSUME AllInv, DatagramLost \/ CommandLost PROVE AllInv'
<1> USE DEF AllInv
<1>1. /\ UNCHANGED <<client, readout, e_no_frames, n_dup>> /\ n_loss' = n_loss + 1
      /\ n_loss \in Nat
  BY DEF DatagramLost, CommandLost, Loss, PathsType
<1>2. n_loss' # 0 /\ n_loss' \in Nat
  BY <1>1
<1>3. UNCHANGED clientAll /\ UNCHANGED pc
  BY <1>1 DEF client, vars, object, history, bounds, clientAll
<1>4. ReadoutType' /\ Count' = Count /\ UNCHANGED <<e_arms, e_armed, e_frames_total>>
  BY <1>1, Untouched
<1>5. ClientType' /\ Begun'
  BY <1>3 DEF ClientType, Begun, clientAll
<1>6. Reported'
  BY <1>2 DEF Reported
<1>7. ASSUME NEW d, ClientKnows(d) PROVE ClientKnows(d)'
  BY <1>2, <1>3, <1>7 DEF ClientKnows, clientAll
<1>8. CASE DatagramLost
  <2>1. net # <<>> /\ net' = Tail(net) /\ UNCHANGED ctl
    BY <1>8 DEF DatagramLost
  <2>2. PICK g, r, p, q, s : ReadoutAt(g, r) /\ OnTheWay(g, p, q, s) /\ ClientKnows(r[p])
    BY DEF InStep
  <2>3. UNCHANGED e_out
    BY <1>1 DEF readout
  <2>4. /\ net' \in Seq(Datagram1) /\ Len(net') \in Nat
        /\ s[1] \in Nat /\ s[2] \in 0..Len(g) /\ s[1] < s[2]
        /\ \E t : /\ t \in [1..(Len(net') + 1) -> 0..Len(e_out)] /\ t[1] = s[2]
                  /\ t[Len(net') + 1] = Len(e_out)
                  /\ \A i \in 1..Len(net') :
                       t[i] < t[i + 1] /\ Carries(net'[i].mds, g, t[i], t[i + 1])
    BY <2>1, <2>2, <2>3, TakenDatagram
  <2>5. PICK t : /\ t \in [1..(Len(net') + 1) -> 0..Len(e_out)] /\ t[1] = s[2]
                 /\ t[Len(net') + 1] = Len(e_out)
                 /\ \A i \in 1..Len(net') :
                      t[i] < t[i + 1] /\ Carries(net'[i].mds, g, t[i], t[i + 1])
    BY <2>4
  <2>6. OnTheWay(g, p, q, t)'
    <3>1. p \in Nat /\ q \in Nat /\ p <= q /\ q <= s[1] /\ Carries(pending, g, p, q)
      BY <2>2 DEF OnTheWay
    <3>2. q <= t[1] /\ pending' = pending
      BY <1>3, <2>4, <2>5, <3>1 DEF clientAll
    <3> QED BY <1>2, <2>3, <2>5, <3>1, <3>2 DEF OnTheWay
  <2>7. ReadoutAt(g, r)'
    BY <1>1, <2>2 DEF ReadoutAt, IsStream, Count, Datum, ReadoutKnows, readout
  <2>8. InStep'
    BY <1>7, <2>2, <2>6, <2>7 DEF InStep
  <2>9. PathsType'
    BY <1>1, <1>2, <2>1, <2>4 DEF PathsType
  <2>10. Commanded'
    BY <1>1, <1>3, <1>4, <2>1 DEF Commanded, Starts, clientAll
  <2> QED BY <1>4, <1>5, <1>6, <2>8, <2>9, <2>10
<1>9. CASE CommandLost
  <2>1. ctl # <<>> /\ ctl' = Tail(ctl) /\ UNCHANGED net
    BY <1>9 DEF CommandLost
  <2>2. ctl' \in Seq(Command) /\ \A i \in Starts' : i \in Nat \ {0} /\ i + 1 \in Starts
    BY <2>1, TakenCommand
  <2>3. PathsType'
    BY <1>1, <1>2, <2>1, <2>2 DEF PathsType
  <2>4. \A i, j \in Starts' : i = j
    <3>1. ASSUME NEW i \in Starts', NEW j \in Starts' PROVE i = j
      <4>1. i \in Nat /\ j \in Nat /\ i + 1 \in Starts /\ j + 1 \in Starts
        BY <2>2
      <4>2. i + 1 = j + 1
        BY <4>1 DEF Commanded
      <4> QED BY ONLY <4>1, <4>2
    <3> QED BY <3>1
  <2>5. Starts' # {} => Starts # {}
    BY <2>2
  <2>6. Commanded'
    BY <1>1, <1>3, <1>4, <2>4, <2>5 DEF Commanded, clientAll
  <2>7. InStep'
    <3>1. PICK g, r, p, q, s : ReadoutAt(g, r) /\ OnTheWay(g, p, q, s) /\ ClientKnows(r[p])
      BY DEF InStep
    <3>2. ReadoutAt(g, r)'
      BY <1>1, <3>1 DEF ReadoutAt, IsStream, Count, Datum, ReadoutKnows, readout
    <3>3. OnTheWay(g, p, q, s)'
      BY <1>1, <1>2, <1>3, <2>1, <3>1 DEF OnTheWay, readout, clientAll
    <3> QED BY <1>7, <3>1, <3>2, <3>3 DEF InStep
  <2> QED BY <1>4, <1>5, <1>6, <2>3, <2>6, <2>7
<1> QED
  BY <1>8, <1>9

---------------------------------------------------------------------------
(* The steps of the readout, in the system.                                *)

\* Whatever the readout does, the client's side stays as it is.
LEMMA ClientUntouched ==
  ASSUME AllInv, UNCHANGED <<client, n_loss>>
  PROVE  /\ ClientType' /\ Begun' /\ Reported' /\ UNCHANGED <<clientAll, clientView, pc>>
         /\ \A d : ClientKnows(d) => ClientKnows(d)'
<1>1. UNCHANGED <<clientAll, clientView, pc>>
  BY DEF client, vars, object, history, bounds, clientAll, clientView
<1>2. ClientType /\ Begun /\ Reported
  BY DEF AllInv
<1> QED
  BY <1>1, <1>2 DEF ClientType, Begun, Reported, ClientKnows, clientAll

\* A step of the readout that hands nothing over.
LEMMA QuietStep ==
  ASSUME AllInv, UNCHANGED <<client, e_no_frames, net, n_loss, n_dup>>, ReadoutType', Quiet,
         \A g, r : ReadoutAt(g, r) => Continues(g, r),
         e_arms = 0 => ~e_armed' /\ Count' = 0,
         ctl' \in Seq(Command), \A i, j \in Starts' : i = j, Starts' # {} => Starts # {}
  PROVE  AllInv'
<1> USE DEF AllInv
<1>1. /\ ClientType' /\ Begun' /\ Reported' /\ UNCHANGED <<clientAll, clientView, pc>>
  BY ClientUntouched
<1>2. PathsType'
  BY DEF PathsType
<1>3. Commanded'
  BY <1>1 DEF Commanded, Quiet, clientAll
<1>4. InStep'
  BY <1>1, ReadoutGoesOn DEF clientAll
<1> QED
  BY <1>1, <1>2, <1>3, <1>4

\* The clock, and what the readout does within a call.
LEMMA ReadoutStep ==
  ASSUME AllInv, ReadoutLocal \/ ClockAdvances PROVE AllInv'
<1>1. UNCHANGED <<client, e_no_frames, ctl, net, n_loss, n_dup>>
  BY DEF ReadoutLocal, ClockAdvances, paths
<1>2. E!Pump \/ E!StopReturn \/ E!DataOutCall \/ E!Tick
  BY DEF ReadoutLocal, ClockAdvances
<1>3. ReadoutType /\ Commanded /\ PathsType /\ \E g, r : ReadoutAt(g, r)
  BY DEF AllInv, InStep
<1>4. ReadoutType' /\ Quiet /\ \A g, r : ReadoutAt(g, r) => Continues(g, r)
  <2>1. ASSUME NEW g, NEW r, ReadoutAt(g, r) PROVE ReadoutType' /\ Quiet /\ Continues(g, r)
    BY <1>2, <1>3, <2>1, PumpStep, StopStep, CallStep, TickStep
  <2> QED BY <1>3, <2>1
<1>5. ASSUME e_arms = 0 PROVE ~e_armed' /\ Count' = 0
  <2>1. ~e_armed /\ Count = 0
    BY <1>3, <1>5 DEF Commanded
  <2>2. CASE E!Pump
    <3>1. e_armed
      BY <2>2 DEF E!Pump, E!PumpNewFrame, E!PumpStamp, E!PumpPixelsDone, E!PumpOffset, E!PumpHit,
                  E!PumpLost, E!PumpFinished, E!PumpAt, E!PumpGoesOn
    <3> QED BY <2>1, <3>1
  <2>3. CASE E!StopReturn
    <3>1. e_armed' = FALSE /\ UNCHANGED <<e_out, e_buf, e_buf_pos>>
      BY <2>1, <2>3 DEF E!StopReturn, E!FrameLeftOpen, E!history
    <3> QED BY <2>1, <3>1 DEF Count
  <2>4. CASE E!DataOutCall
    BY <1>3, <2>1, <2>4, CallStep
  <2>5. CASE E!Tick
    <3>1. UNCHANGED <<e_armed, e_out, e_buf, e_buf_pos>>
      BY <2>5 DEF E!Tick, E!Advance, E!stream, E!staging, E!history
    <3> QED BY <2>1, <3>1 DEF Count
  <2> QED BY <1>2, <2>2, <2>3, <2>4, <2>5
<1>6. ctl' \in Seq(Command) /\ Starts' = Starts
  BY <1>1, <1>3 DEF PathsType, Starts
<1> QED
  BY <1>1, <1>3, <1>4, <1>5, <1>6, QuietStep DEF Commanded

\* A start or a stop command arrives.
LEMMA ArriveStep ==
  ASSUME AllInv, CommandArrives PROVE AllInv'
<1>1. /\ ctl # <<>> /\ ctl' = Tail(ctl) /\ UNCHANGED <<client, e_no_frames, net, n_loss, n_dup>>
  BY DEF CommandArrives
<1>2. ReadoutType /\ ClientType /\ Commanded /\ PathsType /\ Begun /\ \E g, r : ReadoutAt(g, r)
  BY DEF AllInv, InStep
<1>3. /\ ctl' \in Seq(Command) /\ \A i \in Starts' : i \in Nat \ {0} /\ i + 1 \in Starts
      /\ Head(ctl).cmd = "start" => 1 \in Starts
  BY <1>1, <1>2, TakenCommand
<1>4. \A i, j \in Starts' : i = j
  <2>1. ASSUME NEW i \in Starts', NEW j \in Starts' PROVE i = j
    <3>1. i \in Nat /\ j \in Nat /\ i + 1 \in Starts /\ j + 1 \in Starts
      BY <1>3
    <3>2. i + 1 = j + 1
      BY <1>2, <3>1 DEF Commanded
    <3> QED BY ONLY <3>1, <3>2
  <2> QED BY <2>1
<1>5. Starts' # {} => Starts # {}
  BY <1>3
<1>6. CASE Head(ctl).cmd = "stop" /\ e_armed /\ E!StopCall
  <2>1. ASSUME NEW g, NEW r, ReadoutAt(g, r)
        PROVE  ReadoutType' /\ Quiet /\ Continues(g, r) /\ Count' = Count /\ UNCHANGED e_armed
    BY <1>2, <1>6, <2>1, CallStep
  <2>2. ReadoutType' /\ Quiet /\ \A g, r : ReadoutAt(g, r) => Continues(g, r)
    BY <1>2, <2>1
  <2>3. e_arms # 0
    BY <1>2, <1>6 DEF Commanded
  <2> QED BY <1>1, <1>3, <1>4, <1>5, <2>2, <2>3, QuietStep
<1>7. CASE Head(ctl).cmd = "stop" /\ UNCHANGED readout
  <2>1. ReadoutType' /\ Count' = Count /\ UNCHANGED <<e_arms, e_armed, e_frames_total>>
    BY <1>2, <1>7, Untouched
  <2>2. UNCHANGED <<e_out, e_buf, e_buf_pos>>
    BY <1>7 DEF readout
  <2>3. ASSUME NEW g, NEW r, ReadoutAt(g, r) PROVE Continues(g, r)
    <3>1. ReadoutAt(g, r)'
      BY <1>7, <2>3 DEF ReadoutAt, IsStream, Count, Datum, ReadoutKnows, readout
    <3>2. GoesOn(g, r, g, r)
      BY <1>2, <2>3, LastKnown DEF GoesOn
    <3> QED BY <3>1, <3>2 DEF Continues
  <2>4. e_arms = 0 => ~e_armed' /\ Count' = 0
    BY <1>2, <2>1 DEF Commanded
  <2>5. Quiet
    BY <2>1, <2>2 DEF Quiet
  <2> QED BY <1>1, <1>3, <1>4, <1>5, <2>1, <2>3, <2>4, <2>5, QuietStep
<1>8. CASE Head(ctl).cmd = "start"
  <2>1. PICK len \in Nat : E!Arm(Head(ctl).mode, e_no_frames, len)
    BY <1>8, SystemAssumption DEF CommandArrives
  <2>2. e_no_frames \in Nat
    BY <1>2 DEF PathsType
  <2>3. /\ ReadoutType' /\ ReadoutAt(<<>>, [i \in 0..0 |-> Fresh])'
        /\ e_arms' = e_arms + 1 /\ e_out' = <<>> /\ e_frames_total' = e_no_frames
    BY <1>2, <2>1, <2>2, ArmStep
  <2>4. 1 \in Starts /\ e_arms = 0 /\ Count = 0 /\ state # "NOT_STARTED" /\ pc # "start"
        /\ e_no_frames = requested_frames
    BY <1>2, <1>3, <1>8 DEF Commanded
  <2>5. Starts' = {}
    <3>1. ASSUME NEW i \in Starts' PROVE FALSE
      <4>1. i \in Nat \ {0} /\ i + 1 \in Starts /\ i + 1 = 1
        BY <1>2, <1>3, <2>4 DEF Commanded
      <4> QED BY ONLY <4>1
    <3> QED BY <3>1
  <2>6. /\ ClientType' /\ Begun' /\ Reported' /\ UNCHANGED <<clientAll, pc>>
    BY <1>1, ClientUntouched
  <2>7. PathsType'
    BY <1>1, <1>2, <1>3 DEF PathsType
  <2>8. Commanded'
    <3>1. e_arms' = 1
      BY <2>3, <2>4
    <3>2. UNCHANGED <<state, pc, requested_frames>>
      BY <2>6 DEF clientAll
    <3>3. e_frames_total' = requested_frames' /\ e_no_frames' = requested_frames'
      BY <1>1, <2>3, <2>4, <3>2
    <3> QED BY <2>4, <2>5, <3>1, <3>2, <3>3 DEF Commanded
  <2>9. PICK g, r, p, q, s : ReadoutAt(g, r) /\ OnTheWay(g, p, q, s) /\ ClientKnows(r[p])
    BY DEF AllInv, InStep
  <2>10. /\ p = 0 /\ q = 0 /\ s[1] = 0 /\ Len(net) \in Nat
         /\ \A i \in 1..(Len(net) + 1) : s[i] = 0
    <3>1. /\ Len(g) = 0 /\ p \in 0..Len(g) /\ q \in 0..Len(g) /\ Len(net) \in Nat
          /\ Len(e_out) \in Nat /\ Len(e_out) <= Len(g)
          /\ \A i \in 1..(Len(net) + 1) : s[i] \in 0..Len(e_out)
      BY <1>2, <2>4, <2>9, Bounds
    <3>2. 1 \in 1..(Len(net) + 1)
      BY <3>1
    <3> QED BY <3>1, <3>2
  <2>11. Len(net) = 0
    <3>1. ASSUME Len(net) > 0 PROVE FALSE
      <4>1. 1 \in 1..Len(net) /\ 1 \in 1..(Len(net) + 1) /\ 1 + 1 \in 1..(Len(net) + 1)
        BY <2>10, <3>1
      <4>2. s[1] < s[1 + 1]
        BY <2>9, <4>1 DEF OnTheWay
      <4> QED BY <2>10, <4>1, <4>2
    <3> QED BY <2>10, <3>1
  <2>12. r[p] = Fresh
    BY <2>9, <2>10 DEF ReadoutAt, IsRun
  <2>13. OnTheWay(<<>>, 0, 0, [i \in 1..1 |-> 0])'
    <3>1. /\ net' = net /\ pending' = pending /\ Len(e_out') = 0 /\ Len(net') = 0
      BY <1>1, <2>3, <2>6, <2>11 DEF clientAll
    <3>2. pending \in Seq(WireMD) /\ Len(pending) = 0
      BY <1>2, <2>9, <2>10 DEF OnTheWay, Carries, ClientType
    <3>3. Carries(pending', <<>>, 0, 0)
      BY <3>1, <3>2 DEF Carries
    <3> DEFINE z == [i \in 1..1 |-> 0]
    <3>4. z \in [1..(Len(net') + 1) -> 0..Len(e_out')] /\ z[1] = 0 /\ z[Len(net') + 1] = 0
      BY <3>1
    <3> HIDE DEF z
    <3>5. \A i \in 1..Len(net') : FALSE
      BY <3>1
    <3>6. OnTheWay(<<>>, 0, 0, z)'
      BY <3>1, <3>3, <3>4, <3>5 DEF OnTheWay
    <3> QED BY <3>6 DEF z
  <2>14. ClientKnows([i \in 0..0 |-> Fresh][0])'
    <3>1. [i \in 0..0 |-> Fresh][0] = Fresh /\ ClientKnows(Fresh)
      BY <2>9, <2>12
    <3> QED BY <1>1, <3>1, ClientUntouched
  <2>15. InStep'
    BY <2>3, <2>13, <2>14 DEF InStep
  <2> QED BY <2>3, <2>6, <2>7, <2>8, <2>15 DEF AllInv
<1> QED
  BY <1>6, <1>7, <1>8 DEF CommandArrives

\* data_out sends what it has copied.
LEMMA SendStep ==
  ASSUME AllInv, ReadoutSends PROVE AllInv'
<1>1. PICK cap \in Caps :
        /\ E!DataOutReturn(cap)
        /\ net' = IF E!CopyCount(cap) = 0 THEN net
                  ELSE Append(net, [mds |-> Payload(cap), cut |-> 0])
  BY DEF ReadoutSends
<1>2. UNCHANGED <<client, e_no_frames, ctl, n_loss, n_dup>> /\ cap \in Nat
  BY SystemAssumption DEF ReadoutSends
<1>3. ReadoutType /\ PathsType /\ Commanded
  BY DEF AllInv
<1>4. PICK g, r, p, q, s : ReadoutAt(g, r) /\ OnTheWay(g, p, q, s) /\ ClientKnows(r[p])
  BY DEF AllInv, InStep
<1>5. /\ ReadoutType' /\ ReadoutAt(g, r)' /\ UNCHANGED <<e_arms, e_frames_total>>
      /\ E!CopyCount(cap) \in Nat /\ Len(e_out') = Len(e_out) + E!CopyCount(cap)
      /\ Carries(Payload(cap), g, Len(e_out), Len(e_out'))
  BY <1>1, <1>2, <1>3, <1>4, HandOverStep
<1>6. PICK k \in Nat, lo \in Nat, hi \in Nat, n \in Nat :
        /\ k = E!CopyCount(cap) /\ lo = Len(e_out) /\ hi = Len(e_out') /\ n = Len(net)
        /\ hi = lo + k
  <2>1. Len(e_out) \in Nat /\ Len(net) \in Nat
    BY <1>3, <1>4, Bounds
  <2>2. Len(e_out) + E!CopyCount(cap) \in Nat
    BY <1>5, <2>1
  <2> QED BY <1>5, <2>1, <2>2
<1>7. /\ s \in [1..(n + 1) -> 0..lo] /\ s[n + 1] = lo
      /\ \A i \in 1..n : s[i] < s[i + 1] /\ Carries(net[i].mds, g, s[i], s[i + 1])
      /\ p \in Nat /\ q \in Nat /\ p <= q /\ q <= s[1] /\ Carries(pending, g, p, q)
      /\ n_loss = 0 => q = s[1]
  BY <1>4, <1>6 DEF OnTheWay
<1>8. /\ ClientType' /\ Begun' /\ Reported' /\ UNCHANGED <<clientAll, clientView, pc>>
      /\ ClientKnows(r[p])'
  BY <1>2, <1>4, ClientUntouched
<1>9. UNCHANGED <<pending, n_loss>>
  BY <1>2, <1>8 DEF clientAll
<1>10. /\ net' \in Seq(Datagram1)
       /\ \E t : /\ t \in [1..(Len(net') + 1) -> 0..hi] /\ t[1] = s[1] /\ t[Len(net') + 1] = hi
                 /\ \A i \in 1..Len(net') :
                      t[i] < t[i + 1] /\ Carries(net'[i].mds, g, t[i], t[i + 1])
  <2>1. CASE k = 0
    <3>1. net' = net /\ hi = lo
      BY <1>1, <1>6, <2>1
    <3> QED BY <1>3, <1>6, <1>7, <3>1 DEF PathsType
  <2>2. CASE k # 0
    <3>1. PICK dg : dg = [mds |-> Payload(cap), cut |-> 0]
      OBVIOUS
    <3>2. dg \in Datagram1 /\ Carries(dg.mds, g, lo, hi)
      <4>1. Carries(Payload(cap), g, lo, hi)
        BY <1>5, <1>6
      <4>2. Payload(cap) \in Seq(WireMD)
        BY <4>1 DEF Carries
      <4> QED BY <3>1, <4>1, <4>2 DEF Datagram1
    <3>3. net' = Append(net, dg)
      BY <1>1, <1>6, <2>2, <3>1
    <3>4. /\ net' \in Seq(Datagram1) /\ Len(net') = n + 1
          /\ \A i \in 1..n : net'[i] = net[i]
          /\ net'[n + 1] = dg
      BY <1>3, <1>6, <3>2, <3>3, AppendProperties DEF PathsType
    <3> DEFINE t == [i \in 1..(n + 2) |-> IF i <= n + 1 THEN s[i] ELSE hi]
    <3>5. /\ t \in [1..(n + 2) -> 0..hi] /\ (\A i \in 1..(n + 1) : t[i] = s[i])
          /\ t[n + 2] = hi
      <4>1. \A i \in 1..(n + 1) : s[i] \in 0..hi
        BY <1>6, <1>7
      <4>2. hi \in 0..hi
        BY <1>6
      <4>3. t \in [1..(n + 2) -> 0..hi]
        BY <1>6, <4>1, <4>2
      <4>4. \A i \in 1..(n + 1) : i \in 1..(n + 2) /\ i <= n + 1
        BY <1>6
      <4>5. n + 2 \in 1..(n + 2) /\ ~(n + 2 <= n + 1)
        BY <1>6
      <4> QED BY <4>3, <4>4, <4>5
    <3> HIDE DEF t
    <3>6. \A i \in 1..(n + 1) : t[i] < t[i + 1] /\ Carries(net'[i].mds, g, t[i], t[i + 1])
      <4>1. ASSUME NEW i \in 1..n
            PROVE  t[i] < t[i + 1] /\ Carries(net'[i].mds, g, t[i], t[i + 1])
        <5>1. i \in 1..(n + 1) /\ i + 1 \in 1..(n + 1)
          BY <1>6, <4>1
        <5> QED BY <1>7, <3>4, <3>5, <4>1, <5>1
      <4>2. n + 1 \in 1..(n + 1) /\ (n + 1) + 1 = n + 2
        BY <1>6
      <4>3. t[n + 1] = lo /\ t[(n + 1) + 1] = hi /\ net'[n + 1] = dg
        BY <1>7, <3>4, <3>5, <4>2
      <4>4. lo < hi
        BY <1>6, <2>2
      <4>5. t[n + 1] < t[(n + 1) + 1]
            /\ Carries(net'[n + 1].mds, g, t[n + 1], t[(n + 1) + 1])
        BY <3>2, <4>3, <4>4
      <4>6. \A i \in 1..(n + 1) : i \in 1..n \/ i = n + 1
        BY <1>6
      <4> QED BY <4>1, <4>5, <4>6
    <3>7. 1 \in 1..(n + 1) /\ (n + 1) + 1 = n + 2
      BY <1>6
    <3>8. /\ t \in [1..(Len(net') + 1) -> 0..hi] /\ t[1] = s[1] /\ t[Len(net') + 1] = hi
          /\ \A i \in 1..Len(net') :
               t[i] < t[i + 1] /\ Carries(net'[i].mds, g, t[i], t[i + 1])
      BY <3>4, <3>5, <3>6, <3>7
    <3> QED BY <3>4, <3>8
  <2> QED BY <2>1, <2>2
<1>11. PICK t : /\ t \in [1..(Len(net') + 1) -> 0..hi] /\ t[1] = s[1] /\ t[Len(net') + 1] = hi
                /\ \A i \in 1..Len(net') :
                     t[i] < t[i + 1] /\ Carries(net'[i].mds, g, t[i], t[i + 1])
  BY <1>10
<1>12. OnTheWay(g, p, q, t)'
  BY <1>6, <1>7, <1>9, <1>11 DEF OnTheWay
<1>13. InStep'
  BY <1>5, <1>8, <1>12 DEF InStep
<1>14. PathsType'
  BY <1>2, <1>3, <1>10 DEF PathsType
<1>15. Commanded'
  <2>1. UNCHANGED <<state, pc, requested_frames>>
    BY <1>8 DEF clientAll
  <2>2. Count' = Count
    BY <1>4, <1>5 DEF ReadoutAt, IsStream
  <2>3. UNCHANGED e_armed
    BY <1>1 DEF E!DataOutReturn, E!stream
  <2> QED BY <1>2, <1>3, <1>5, <2>1, <2>2, <2>3 DEF Commanded, Starts
<1> QED
  BY <1>5, <1>8, <1>13, <1>14, <1>15 DEF AllInv

---------------------------------------------------------------------------
(* The invariant holds.                                                    *)

LEMMA AllInvInit ==
  ASSUME SystemInit PROVE AllInv
<1>1. /\ e_now = 0 /\ e_arms = 0 /\ e_frames_total = 0 /\ e_frame_index = 0
      /\ e_frame_open = 0 /\ e_frame_len = 0 /\ e_px_index = 0 /\ e_armed = FALSE
      /\ e_frame_active = FALSE /\ e_tokens = 0 /\ e_token_frac = 0
      /\ e_out = <<>> /\ e_buf = <<>> /\ e_buf_pos = 0
      /\ e_no_frames = 0 /\ ctl = <<>> /\ net = <<>> /\ n_loss = 0 /\ n_dup = 0
  BY DEF SystemInit, E!Init
<1>2. /\ state = "NOT_STARTED" /\ frame_active = FALSE /\ completed_frames = 0
      /\ requested_frames = 0 /\ readout_mode = "sequential" /\ decode_data = TRUE
      /\ last_toa_offset = 0 /\ current_frame_info \in Garbage /\ pixel_buffer = <<>>
      /\ pending = <<>> /\ pc = "idle" /\ decoded = <<>> /\ handed = 0 /\ reports = <<>>
      /\ n_begin = 0
  BY DEF SystemInit, Init
<1>3. Len(<<>>) = 0 /\ \A T : <<>> \in Seq(T)
  BY EmptySeq
<1>4. ReadoutType
  <2>1. e_armed \in BOOLEAN /\ e_frame_active \in BOOLEAN
    BY ONLY <1>1
  <2>2. e_out \in Seq(E!StreamMD) /\ e_buf \in Seq(E!StreamMD) /\ e_buf_pos \in 0..Len(e_buf)
    BY <1>1, <1>3
  <2> QED BY <1>1, <2>1, <2>2, SystemAssumption DEF ReadoutType
<1>5. ClientType
  <2>1. current_frame_info \in ClientInfo
    <3>1. BlankInfo \in ClientInfo
      BY DEF BlankInfo, ClientInfo
    <3>2. 7 \in Nat
      OBVIOUS
    <3>3. [BlankInfo EXCEPT !.received = 7] \in ClientInfo
      BY <3>1, <3>2, ZenonT(60) DEF ClientInfo
    <3> QED BY <1>2, <3>1, <3>3 DEF Garbage
  <2>2. decode_data \in BOOLEAN /\ frame_active \in BOOLEAN
    BY ONLY <1>2
  <2>3. state \in States /\ readout_mode \in {"sequential", "data_driven"}
    BY <1>2 DEF States
  <2> QED BY <1>2, <1>3, <2>1, <2>2, <2>3 DEF ClientType
<1>6. PathsType
  BY <1>1, <1>3 DEF PathsType
<1>7. Begun
  BY <1>2 DEF Begun
<1>8. Count = 0 /\ Starts = {}
  BY <1>1, <1>3 DEF Count, Starts
<1>9. Commanded
  BY <1>1, <1>2, <1>8 DEF Commanded
<1>10. InStep
  <2> DEFINE r == [i \in 0..0 |-> Fresh]
             s == [i \in 1..1 |-> 0]
  <2>1. r[0] = Fresh /\ s \in [1..1 -> 0..0] /\ s[1] = 0
    OBVIOUS
  <2>2. IsStream(<<>>)
    BY <1>3, <1>8 DEF IsStream
  <2>3. IsRun(<<>>, e_frames_total, r)
    BY RunStarts
  <2> HIDE DEF r, s
  <2>4. Fresh.frames = 0 /\ Fresh.active = FALSE
    BY DEF Fresh
  <2>5. ReadoutKnows(r[Len(<<>>)])
    BY <1>1, <1>3, <2>1, <2>4 DEF ReadoutKnows
  <2>6. Len(net) = 0 /\ Len(e_out) = 0
    BY <1>1, <1>3
  <2>7. Carries(pending, <<>>, 0, 0)
    BY <1>2, <1>3 DEF Carries
  <2>8. OnTheWay(<<>>, 0, 0, s)
    BY <2>1, <2>6, <2>7 DEF OnTheWay
  <2>9. ClientKnows(r[0])
    <3>1. completed_frames <= Fresh.frames /\ completed_frames = Fresh.frames /\ state # "RUNNING"
      BY <1>2, <2>4
    <3> QED BY <2>1, <3>1 DEF ClientKnows
  <2> QED BY <2>2, <2>3, <2>5, <2>8, <2>9 DEF ReadoutAt, InStep
<1>11. Reported
  <2>1. /\ Len(reports) = 0 /\ completed_frames = 0
    BY <1>2, <1>3
  <2> QED BY <1>2, <2>1 DEF Reported
<1> QED
  BY <1>4, <1>5, <1>6, <1>7, <1>9, <1>10, <1>11 DEF AllInv

LEMMA AllInvStep ==
  ASSUME AllInv, SystemNext, FirstAcquisition', n_dup' = 0 PROVE AllInv'
<1>1. CASE ClientLocal
  <2>1. UNCHANGED <<readout, e_no_frames, paths>>
    BY <1>1 DEF ClientLocal
  <2>2. CASE KillOffPasses \/ AbortRaise
    <3>1. UNCHANGED <<clientAll, pc>>
      BY <2>2 DEF KillOffPasses, AbortRaise, object, history, bounds, clientAll
    <3>2. UNCHANGED <<ctl, net, n_loss, n_dup>>
      BY <2>1 DEF paths
    <3> QED BY <2>1, <3>1, <3>2, OtherClientStep
  <2>3. CASE StartFails
    <3>1. UNCHANGED <<ctl, net, n_loss, n_dup>>
      BY <2>1 DEF paths
    <3> QED BY <2>1, <2>3, <3>1, StartStep
  <2> QED
    BY <1>1, <2>1, <2>2, <2>3, BeginStep, EnterStep, ErrorStep, DecoderStep, LeaveStep
       DEF ClientLocal
<1>2. CASE ClientConfigures
  BY <1>2, ConfigureStep
<1>3. CASE ClientStarts
  BY <1>3, StartStep DEF ClientStarts
<1>4. CASE ClientAborts
  <2>1. UNCHANGED <<clientAll, pc>>
    BY <1>4 DEF ClientAborts, AbortSend, object, history, clientAll
  <2> QED BY <1>4, <2>1, OtherClientStep DEF ClientAborts
<1>5. CASE ClientStops
  <2>1. UNCHANGED <<clientAll, pc>>
    BY <1>5 DEF ClientStops, client, vars, object, history, bounds, clientAll
  <2> QED BY <1>5, <2>1, OtherClientStep DEF ClientStops
<1>6. CASE ClientReceives
  BY <1>6, ReceiveStep
<1>7. CASE CommandArrives
  BY <1>7, ArriveStep
<1>8. CASE ReadoutSends
  BY <1>8, SendStep
<1>9. CASE ReadoutLocal \/ ClockAdvances
  BY <1>9, ReadoutStep
<1>10. CASE Network
  <2>1. CASE DatagramDuplicated
    <3>1. n_dup' = n_dup + 1 /\ n_dup \in Nat
      BY <2>1 DEF DatagramDuplicated, AllInv, PathsType
    <3> QED BY ONLY <3>1, n_dup' = 0
  <2> QED BY <1>10, <2>1, LossStep DEF Network
<1> QED
  BY <1>1, <1>2, <1>3, <1>4, <1>5, <1>6, <1>7, <1>8, <1>9, <1>10 DEF SystemNext

\* What was repeated stays repeated, and what has begun has begun.
LEMMA CountsGrow ==
  ASSUME SystemNext, n_loss \in Nat, n_dup \in Nat, n_begin \in Nat
  PROVE  /\ n_loss' \in Nat /\ n_dup' \in Nat /\ n_begin' \in Nat
         /\ FirstAcquisition' /\ n_dup' = 0 => FirstAcquisition /\ n_dup = 0
<1>1. /\ UNCHANGED n_dup \/ n_dup' = n_dup + 1
      /\ UNCHANGED n_loss \/ n_loss' = n_loss + 1
  BY DEF SystemNext, ClientLocal, ClientConfigures, ClientStarts, ClientAborts, ClientStops,
         ClientReceives, CommandArrives, ReadoutSends, ReadoutLocal, ClockAdvances, Network,
         DatagramLost, DatagramDuplicated, CommandLost, Loss, paths
<1>2. UNCHANGED n_begin \/ n_begin' = n_begin + 1
  <2>1. CASE ClientLocal
    <3>1. CASE Begin
      BY <3>1 DEF Begin, BeginRejected, BeginAccepted, BeginCall
    <3>2. CASE DecodeStep
      BY <3>2 DEF DecodeStep, PixelDatum, NewFrame, TimestampOffset, FrameTimestamp,
                  FrameFinished, LostPixels, AbortedDatum, TriggerInfo, UnknownDatum, Decode, bounds
    <3> QED BY <2>1, <3>1, <3>2 DEF ClientLocal, StartFails, ReadEnter, RecvError, ReadLeave,
                                    KillOffPasses, AbortRaise, bounds
  <2>2. CASE ClientConfigures \/ ClientStarts \/ ClientAborts \/ ClientReceives
    BY <2>2 DEF ClientConfigures, Configured, ConfigureFails, ClientStarts, StartSent,
                ClientAborts, AbortSend, ClientReceives, RecvDatagram, bounds
  <2>3. CASE UNCHANGED client
    BY <2>3 DEF client, vars, bounds
  <2> QED BY <2>1, <2>2, <2>3 DEF SystemNext, ClientStops, CommandArrives, ReadoutSends,
               ReadoutLocal, ClockAdvances, Network, DatagramLost, DatagramDuplicated,
               CommandLost, Loss
<1> QED
  BY <1>1, <1>2 DEF FirstAcquisition

\* The invariant is kept.
LEMMA SystemInvariant == SystemSpec => []SystemInv
<1>1. SystemInit => SystemInv
  <2>1. SystemInit => n_loss = 0 /\ n_dup = 0 /\ n_begin = 0
    BY DEF SystemInit, Init
  <2> QED BY <2>1, AllInvInit DEF SystemInv
<1>2. SystemInv /\ [SystemNext]_system => SystemInv'
  <2> SUFFICES ASSUME SystemInv, [SystemNext]_system PROVE SystemInv'
    OBVIOUS
  <2>1. CASE SystemNext
    BY <2>1, CountsGrow, AllInvStep DEF SystemInv
  <2>2. CASE UNCHANGED system
    <3>1. UNCHANGED <<client, readout, e_no_frames, ctl, net, n_loss, n_dup>>
      BY <2>2 DEF system, paths
    <3>2. UNCHANGED <<clientAll, pc>>
      BY <3>1 DEF client, vars, object, history, bounds, clientAll
    <3>3. AllInv => AllInv'
      BY <3>1, <3>2, OtherClientStep
    <3>4. UNCHANGED <<n_loss, n_dup, n_begin>>
      BY <3>1, <3>2 DEF clientAll
    <3> QED BY <3>3, <3>4 DEF SystemInv, FirstAcquisition
  <2> QED BY <2>1, <2>2
<1> QED BY <1>1, <1>2, PTL DEF SystemSpec

---------------------------------------------------------------------------
(* What follows from it.                                                   *)

\* The frames a client reports complete were closed by the readout, over
\* paths that lose datagrams and commands.
THEOREM CompletedDidHappen ==
  SystemSpec => [](FirstAcquisition => CompletedFramesHappened)
<1>1. SystemInv => (FirstAcquisition => CompletedFramesHappened)
  <2> SUFFICES ASSUME SystemInv, FirstAcquisition, n_dup = 0
               PROVE  completed_frames <= e_frame_index
    BY DEF CompletedFramesHappened
  <2>1. AllInv
    BY DEF SystemInv
  <2>2. PICK g, r, p, q, s : ReadoutAt(g, r) /\ OnTheWay(g, p, q, s) /\ ClientKnows(r[p])
    BY <2>1 DEF AllInv, InStep
  <2>3. Len(g) \in Nat /\ p \in 0..Len(g)
    BY <2>1, <2>2, Bounds DEF AllInv
  <2>4. Len(g) \in 0..Len(g) /\ p <= Len(g)
    BY <2>3
  <2>5. /\ r[p].frames <= r[Len(g)].frames /\ r[p].frames \in Nat /\ r[Len(g)].frames \in Nat
        /\ e_frame_index = r[Len(g)].frames
    BY <2>2, <2>3, <2>4 DEF ReadoutAt, IsRun, ReadoutKnows, Decoder
  <2>6. completed_frames <= r[p].frames /\ completed_frames \in Nat
    BY <2>1, <2>2 DEF ClientKnows, AllInv, ClientType
  <2> QED BY ONLY <2>5, <2>6
<1> QED BY <1>1, SystemInvariant, PTL

\* Every frame_ended call follows the frame_started call of its frame, while
\* the paths lose nothing and repeat nothing.
THEOREM ReportsAreBalanced ==
  SystemSpec => [](FirstAcquisition /\ n_loss = 0 /\ n_dup = 0 => Balanced)
<1>1. SystemInv => (FirstAcquisition /\ n_loss = 0 /\ n_dup = 0 => Balanced)
  <2> SUFFICES ASSUME SystemInv, FirstAcquisition, n_loss = 0, n_dup = 0 PROVE Balanced
    OBVIOUS
  <2>1. /\ reports \in Seq(ClientReport)
        /\ \A i \in 1..Len(reports) : reports[i].open
    BY DEF SystemInv, AllInv, Reported, ClientType
  <2> QED BY <2>1 DEF Balanced
<1> QED BY <1>1, SystemInvariant, PTL

\* A success leaves the readout at rest and nothing on the way, also when
\* datagrams and commands of the acquisition were lost.
THEOREM SuccessIsClean ==
  SystemSpec => [](FirstAcquisition /\ n_dup = 0 => SuccessLeavesNothing)
<1>1. SystemInv => (FirstAcquisition /\ n_dup = 0 => SuccessLeavesNothing)
  <2> SUFFICES ASSUME SystemInv, FirstAcquisition, n_dup = 0, state = "SUCCEEDED",
                      requested_frames > 0, completed_frames = requested_frames
               PROVE  pending = <<>> /\ net = <<>> /\ ~e_armed /\ e_buf_pos = Len(e_buf)
    BY DEF SuccessLeavesNothing
  <2>1. AllInv /\ ReadoutType /\ ClientType /\ PathsType /\ Commanded
    BY DEF SystemInv, AllInv
  <2>2. PICK g, r, p, q, s : ReadoutAt(g, r) /\ OnTheWay(g, p, q, s) /\ ClientKnows(r[p])
    BY <2>1 DEF AllInv, InStep
  <2>3. /\ Len(g) \in Nat /\ Len(net) \in Nat /\ Len(e_out) \in Nat
        /\ Len(e_out) <= Len(g) /\ Len(g) = Count
        /\ p \in 0..Len(g) /\ q \in 0..Len(g) /\ p <= q /\ q <= s[1] /\ s[1] <= Len(e_out)
        /\ \A i \in 1..(Len(net) + 1) : s[i] \in 0..Len(e_out)
    BY <2>1, <2>2, Bounds
  <2>4. /\ r \in [0..Len(g) -> Decoder] /\ r[0] = Fresh
        /\ \A i \in 1..Len(g) :
             r[i] = After(r[i - 1], g[i], i) /\ Legal(r[i - 1], g[i], e_frames_total)
    BY <2>2 DEF ReadoutAt, IsRun
  <2>5. PICK n \in Nat : n = requested_frames /\ n > 0
    BY <2>1 DEF ClientType
  <2>6. n <= r[p].frames /\ r[p].frames \in Nat
    <3>1. r[p] \in Decoder
      BY <2>3, <2>4
    <3>2. completed_frames <= r[p].frames
      BY <2>2 DEF ClientKnows
    <3> QED BY <2>5, <3>1, <3>2 DEF Decoder
  <2>7. p # 0
    <3>1. Fresh.frames = 0
      BY DEF Fresh
    <3> QED BY <2>4, <2>5, <2>6, <3>1
  <2>8. e_frames_total = n
    <3>1. Count # 0
      BY <2>3, <2>7
    <3> QED BY <2>1, <2>5, <3>1 DEF Commanded
  <2>9. p = Len(g)
    <3>1. ASSUME p # Len(g) PROVE FALSE
      <4>1. p + 1 \in 1..Len(g) /\ (p + 1) - 1 = p
        BY <2>3, <3>1
      <4>2. r[p].frames < n
        BY <2>4, <2>8, <4>1 DEF Legal
      <4> QED BY <2>5, <2>6, <4>2
    <3> QED BY <3>1
  <2>10. q = p /\ s[1] = Len(e_out) /\ Len(e_out) = Count
    BY <2>3, <2>9
  <2>11. pending = <<>>
    <3>1. Len(pending) = q - p /\ q - p = 0 /\ pending \in Seq(WireMD)
      BY <2>1, <2>2, <2>3, <2>10 DEF OnTheWay, Carries, ClientType
    <3> QED BY <3>1, EmptySeq
  <2>12. net = <<>>
    <3>1. ASSUME Len(net) > 0 PROVE FALSE
      <4>1. 1 \in 1..Len(net) /\ 1 + 1 \in 1..(Len(net) + 1) /\ 1 \in 1..(Len(net) + 1)
        BY <2>3, <3>1
      <4>2. s[1] < s[1 + 1]
        BY <2>2, <4>1 DEF OnTheWay
      <4>3. s[1 + 1] \in 0..Len(e_out)
        BY <2>3, <4>1
      <4> QED BY <2>3, <2>10, <4>2, <4>3
    <3>2. Len(net) = 0
      BY <2>3, <3>1
    <3> QED BY <2>1, <3>2, EmptySeq DEF PathsType
  <2>13. e_buf_pos = Len(e_buf)
    <3>1. Len(e_out) \in Nat /\ Len(e_buf) \in Nat /\ e_buf_pos \in Nat
      BY <2>1, StreamType
    <3>2. Len(e_out) = Len(e_out) + (Len(e_buf) - e_buf_pos)
      BY <2>10 DEF Count
    <3> QED BY ONLY <3>1, <3>2
  <2>14. ~e_armed
    <3>1. ASSUME e_armed PROVE FALSE
      <4>1. e_frame_index < n /\ e_frame_index = r[p].frames
        BY <2>2, <2>8, <2>9, <3>1 DEF ReadoutAt, ReadoutKnows
      <4> QED BY <2>5, <2>6, <4>1
    <3> QED BY <3>1
  <2> QED BY <2>11, <2>12, <2>13, <2>14
<1> QED BY <1>1, SystemInvariant, PTL

---------------------------------------------------------------------------
(* What an acquisition promises.                                           *)

\* While nothing is lost, what was reported is known by how much it is.
FramesTo(n) == [i \in 1..n |-> [number |-> i - 1, sent |-> Hits, received |-> Hits]]

LEMMA ReportedFrames ==
  ASSUME AllInv, n_loss = 0 PROVE FramesReported = FramesTo(completed_frames)
<1>1. \A i \in 1..completed_frames :
        /\ reports[i].frame = i - 1
        /\ reports[i].info.sent = Hits /\ reports[i].info.received = Hits
  BY DEF AllInv, Reported
<1> QED BY <1>1 DEF FramesReported, FramesTo

LEMMA OneFrameMore ==
  ASSUME NEW n \in Nat
  PROVE  Len(FramesTo(n)) = n /\ FramesTo(n + 1) = Append(FramesTo(n), Promise!Frame(n))
<1> DEFINE F == [number : Int, sent : {Hits}, received : {Hits}]
<1>1. ASSUME NEW k \in Nat
      PROVE  /\ FramesTo(k) \in Seq(F) /\ Len(FramesTo(k)) = k
             /\ \A i \in 1..k : FramesTo(k)[i] = Promise!Frame(i - 1)
  <2>1. \A i \in 1..k : [number |-> i - 1, sent |-> Hits, received |-> Hits] \in F
    OBVIOUS
  <2> QED BY <2>1 DEF FramesTo, Promise!Frame
<1>2. Promise!Frame(n) \in F
  BY DEF Promise!Frame
<1> HIDE DEF F
<1> DEFINE f == FramesTo(n)
           h == Append(f, Promise!Frame(n))
           w == FramesTo(n + 1)
<1>3. f \in Seq(F) /\ Len(f) = n /\ \A i \in 1..n : f[i] = Promise!Frame(i - 1)
  BY <1>1
<1>4. w \in Seq(F) /\ Len(w) = n + 1 /\ \A i \in 1..(n + 1) : w[i] = Promise!Frame(i - 1)
  <2>1. n + 1 \in Nat
    OBVIOUS
  <2> QED BY <1>1, <2>1
<1> HIDE DEF f, w
<1>5. /\ h \in Seq(F) /\ Len(h) = n + 1 /\ \A i \in 1..n : h[i] = f[i]
      /\ h[n + 1] = Promise!Frame(n)
  BY <1>2, <1>3, AppendProperties
<1> HIDE DEF h
<1>6. \A i \in 1..(n + 1) : h[i] = w[i]
  <2>1. \A i \in 1..n : h[i] = w[i]
    BY <1>3, <1>4, <1>5
  <2>2. h[n + 1] = w[n + 1]
    <3>1. n + 1 \in 1..(n + 1) /\ (n + 1) - 1 = n
      OBVIOUS
    <3> QED BY <1>4, <1>5, <3>1
  <2>3. \A i \in 1..(n + 1) : i \in 1..n \/ i = n + 1
    OBVIOUS
  <2> QED BY <2>1, <2>2, <2>3
<1>7. h = w
  BY <1>4, <1>5, <1>6, SeqEqual
<1> QED BY <1>3, <1>7 DEF f, h, w

\* What a step may do to the verdict and to the count.
LEMMA VerdictSteps ==
  ASSUME SystemNext
  PROVE  \/ UNCHANGED <<state, completed_frames, requested_frames>>
         \/ FrameFinished /\ ClientLocal
         \/ RecvError /\ ClientLocal
         \/ \E n \in FrameRequests : Configured(n)
<1>1. CASE ClientLocal
  <2>1. CASE Begin
    BY <2>1 DEF Begin, BeginRejected, BeginAccepted, BeginCall
  <2>2. CASE DecodeStep
    BY <1>1, <2>2 DEF DecodeStep, PixelDatum, NewFrame, TimestampOffset, FrameTimestamp,
                LostPixels, AbortedDatum, TriggerInfo, UnknownDatum, Decode, object
  <2> QED BY <1>1, <2>1, <2>2 DEF ClientLocal, StartFails, ReadEnter, ReadLeave,
                                  KillOffPasses, AbortRaise, object
<1>2. CASE ClientConfigures \/ ClientStarts \/ ClientAborts \/ ClientReceives
  BY <1>2 DEF ClientConfigures, ConfigureFails, ClientStarts, StartSent,
              ClientAborts, AbortSend, ClientReceives, RecvDatagram, object
<1>3. CASE UNCHANGED client
  BY <1>3 DEF client, vars, object
<1> QED
  BY <1>1, <1>2, <1>3 DEF SystemNext, ClientStops, CommandArrives, ReadoutSends,
     ReadoutLocal, ClockAdvances, Network, DatagramLost, DatagramDuplicated, CommandLost, Loss

\* The verdict that goes with a state.
LEMMA OutcomeOf ==
  /\ state = "NOT_STARTED" => Outcome = "none"
  /\ state = "RUNNING" => Outcome = "measuring"
  /\ state = "SUCCEEDED" =>
       Outcome = IF requested_frames > 0 /\ completed_frames = requested_frames
                 THEN "succeeded" ELSE "given_up"
  /\ state = "TIMED_OUT" => Outcome = "given_up"
BY DEF Outcome

\* Every step is one of the promise, or none.
LEMMA PromiseStep ==
  ASSUME AllInv, AllInv', SystemNext, n_loss = 0, n_loss' = 0
  PROVE  [Promise!Next]_Promise!vars
<1>1. FramesReported = FramesTo(completed_frames)
      /\ FramesReported' = FramesTo(completed_frames')
  <2>1. \A i \in 1..completed_frames' :
          /\ reports'[i].frame = i - 1
          /\ reports'[i].info.sent = Hits /\ reports'[i].info.received = Hits
    BY DEF AllInv, Reported
  <2> QED BY <2>1, ReportedFrames DEF FramesReported, FramesTo
<1>2. /\ completed_frames \in Nat /\ requested_frames \in Nat
      /\ completed_frames' \in Nat /\ requested_frames' \in Nat
      /\ state' \in States
  BY DEF AllInv, ClientType
<1>3. /\ state' = "NOT_STARTED" => Outcome' = "none"
      /\ state' = "RUNNING" => Outcome' = "measuring"
      /\ state' = "SUCCEEDED" =>
           Outcome' = IF requested_frames' > 0 /\ completed_frames' = requested_frames'
                     THEN "succeeded" ELSE "given_up"
      /\ state' = "TIMED_OUT" => Outcome' = "given_up"
  BY DEF Outcome
<1>4. CASE UNCHANGED <<state, completed_frames, requested_frames>>
  BY <1>1, <1>4 DEF Outcome, Promise!vars
<1>5. CASE FrameFinished /\ ClientLocal
  <2>1. /\ completed_frames' = completed_frames + 1 /\ requested_frames' = requested_frames
        /\ state' = (IF completed_frames + 1 = requested_frames THEN "SUCCEEDED" ELSE state)
    BY <1>5 DEF FrameFinished, StateAfterFrame, Decode
  <2>2. state = "RUNNING"
    BY <1>5, OneDecoded DEF FrameFinished, StateAfterFrame, ClientLocal
  <2>3. PICK n \in Nat : n = completed_frames
    BY <1>2
  <2>4. /\ Len(FramesReported) = n /\ Len(FramesReported') = n + 1
        /\ FramesReported' = Append(FramesReported, Promise!Frame(n))
    <3>1. FramesReported = FramesTo(n) /\ FramesReported' = FramesTo(n + 1)
      BY <1>1, <2>1, <2>3
    <3>2. n + 1 \in Nat
      BY <2>3
    <3> QED BY <2>3, <3>1, <3>2, OneFrameMore
  <2>5. Outcome = "measuring"
    BY <2>2, OutcomeOf
  <2>6. Outcome' = IF n + 1 = requested_frames THEN "succeeded" ELSE "measuring"
    <3>1. CASE n + 1 = requested_frames
      <4>1. requested_frames > 0 /\ state' = "SUCCEEDED" /\ completed_frames' = requested_frames'
        BY <1>2, <2>1, <2>3, <3>1
      <4> QED BY <1>3, <2>1, <3>1, <4>1
    <3>2. CASE n + 1 # requested_frames
      BY <1>3, <2>1, <2>2, <2>3, <3>2
    <3> QED BY <3>1, <3>2
  <2>7. Promise!Deliver
    BY <2>1, <2>4, <2>5, <2>6 DEF Promise!Deliver
  <2> QED BY <2>7 DEF Promise!Next
<1>6. CASE RecvError /\ ClientLocal
  <2>1. /\ UNCHANGED <<completed_frames, requested_frames>> /\ state = "RUNNING"
        /\ state' \in {"RUNNING", "SUCCEEDED", "TIMED_OUT"}
    BY <1>6 DEF RecvError, Receiving, StateAfterError
  <2>2. Outcome = "measuring" /\ UNCHANGED FramesReported
    BY <1>1, <2>1, OutcomeOf
  <2>3. requested_frames > 0 => completed_frames < requested_frames
    BY <2>1 DEF AllInv, Reported
  <2>4. CASE state' = "RUNNING"
    BY <1>3, <2>1, <2>2, <2>4 DEF Promise!vars
  <2>5. CASE state' # "RUNNING"
    <3>1. ~(requested_frames' > 0 /\ completed_frames' = requested_frames')
      BY <1>2, <2>1, <2>3
    <3>2. Outcome' = "given_up"
      BY <1>3, <2>1, <2>5, <3>1
    <3> QED BY <2>1, <2>2, <3>2 DEF Promise!GiveUp, Promise!Next
  <2> QED BY <2>4, <2>5
<1>7. ASSUME NEW n \in FrameRequests, Configured(n) PROVE Promise!Start
  <2>1. state = "NOT_STARTED" /\ completed_frames = 0
    BY <1>7 DEF Configured, AllInv, Begun
  <2>2. state' = "RUNNING" /\ completed_frames' = 0 /\ requested_frames' = n
    BY <1>7 DEF Configured
  <2>3. Outcome = "none" /\ Outcome' = "measuring" /\ UNCHANGED FramesReported
    BY <1>1, <1>3, <2>1, <2>2, OutcomeOf
  <2> QED BY <2>2, <2>3 DEF Promise!Start
<1> QED
  BY <1>4, <1>5, <1>6, <1>7, VerdictSteps DEF Promise!Next

\* While the paths lose nothing and repeat nothing, the frames of the first
\* acquisition are delivered as the abstract specification says: in order,
\* once, complete and with all of their hits, or the acquisition is given up.
THEOREM FramesAreDelivered ==
  SystemSpec /\ [](FirstAcquisition /\ n_loss = 0 /\ n_dup = 0) => DeliversFrames
<1>1. SystemInit => Promise!Init
  <2> SUFFICES ASSUME SystemInit PROVE Promise!Init
    OBVIOUS
  <2>1. state = "NOT_STARTED" /\ completed_frames = 0 /\ requested_frames = 0
    BY DEF SystemInit, Init
  <2>2. FramesReported = <<>>
    BY <2>1 DEF FramesReported
  <2> QED BY <2>1, <2>2, OutcomeOf DEF Promise!Init
<1>2. /\ SystemInv /\ FirstAcquisition /\ n_loss = 0 /\ n_dup = 0
      /\ SystemInv' /\ (FirstAcquisition /\ n_loss = 0 /\ n_dup = 0)'
      /\ [SystemNext]_system
      => [Promise!Next]_Promise!vars
  <2> SUFFICES ASSUME SystemInv, FirstAcquisition, n_loss = 0, n_dup = 0,
                      SystemInv', (FirstAcquisition /\ n_loss = 0 /\ n_dup = 0)',
                      [SystemNext]_system
               PROVE  [Promise!Next]_Promise!vars
    OBVIOUS
  <2>1. AllInv /\ AllInv' /\ n_loss' = 0
    BY DEF SystemInv
  <2>2. CASE SystemNext
    BY <2>1, <2>2, PromiseStep
  <2>3. CASE UNCHANGED system
    <3>1. UNCHANGED <<state, completed_frames, requested_frames, reports>>
      BY <2>3 DEF system, client, vars, object, history
    <3> QED BY <3>1 DEF FramesReported, Outcome, Promise!vars
  <2> QED BY <2>2, <2>3
<1> QED
  BY <1>1, <1>2, SystemInvariant, PTL DEF SystemSpec, DeliversFrames, Promise!Spec

---------------------------------------------------------------------------
(* The time of a hit.                                                      *)

\* What the readout calls generated is the stream.
LEMMA GeneratedStream ==
  ASSUME ReadoutType, NEW g, IsStream(g)
  PROVE  E!Generated = g
<1>1. PICK lo \in Nat, lb \in Nat, ps \in Nat :
        lo = Len(e_out) /\ lb = Len(e_buf) /\ ps = e_buf_pos /\ ps <= lb
  BY StreamType
<1>2. e_out \in Seq(E!StreamMD) /\ e_buf \in Seq(E!StreamMD)
  BY DEF ReadoutType
<1> DEFINE rest == SubSeq(e_buf, ps + 1, lb)
<1>3. /\ rest \in Seq(E!StreamMD) /\ Len(rest) = lb - ps
      /\ \A i \in 1..(lb - ps) : rest[i] = e_buf[ps + i]
  <2>1. \A i \in (ps + 1)..lb : e_buf[i] \in E!StreamMD
    BY <1>1, <1>2, ElementOfSeq
  <2>2. ps + 1 \in Int /\ lb \in Int
    BY <1>1
  <2>3. /\ rest \in Seq(E!StreamMD)
        /\ Len(rest) = IF ps + 1 <= lb THEN lb - (ps + 1) + 1 ELSE 0
        /\ \A i \in 1..(lb - (ps + 1) + 1) : rest[i] = e_buf[(ps + 1) + i - 1]
    BY <2>1, <2>2, SubSeqProperties
  <2> HIDE DEF rest
  <2>4. \A i \in 1..(lb - ps) : (ps + 1) + i - 1 = ps + i
    BY <1>1
  <2>5. lb - (ps + 1) + 1 = lb - ps /\ (~(ps + 1 <= lb) => lb - ps = 0)
    BY <1>1
  <2>6. Len(rest) = lb - ps
    BY <2>3, <2>5
  <2>7. \A i \in 1..(lb - ps) : rest[i] = e_buf[ps + i]
    BY <2>3, <2>4, <2>5
  <2> QED BY <2>3, <2>6, <2>7
<1>4. E!Generated = e_out \o rest
  BY <1>1 DEF E!Generated
<1> HIDE DEF rest
<1>5. /\ E!Generated \in Seq(E!StreamMD) /\ Len(E!Generated) = lo + (lb - ps)
      /\ \A i \in 1..(lo + (lb - ps)) :
           E!Generated[i] = IF i <= lo THEN e_out[i] ELSE rest[i - lo]
  <2>1. /\ e_out \o rest \in Seq(E!StreamMD) /\ Len(e_out \o rest) = Len(e_out) + Len(rest)
        /\ \A i \in 1..(Len(e_out) + Len(rest)) :
             (e_out \o rest)[i] = IF i <= Len(e_out) THEN e_out[i] ELSE rest[i - Len(e_out)]
    BY <1>2, <1>3, ConcatProperties
  <2> QED BY <1>1, <1>3, <1>4, <2>1
<1>6. /\ g \in Seq(E!StreamMD) /\ Len(g) = lo + (lb - ps)
      /\ \A i \in 1..(lo + (lb - ps)) : g[i] = Datum(i)
  BY <1>1 DEF IsStream, Count
<1>7. \A i \in 1..(lo + (lb - ps)) : E!Generated[i] = g[i]
  <2>1. ASSUME NEW i \in 1..(lo + (lb - ps)) PROVE E!Generated[i] = g[i]
    <3>1. CASE i <= lo
      <4>1. Datum(i) = e_out[i]
        BY <1>1, <3>1 DEF Datum
      <4>2. E!Generated[i] = e_out[i] /\ g[i] = Datum(i)
        BY <1>5, <1>6, <2>1, <3>1
      <4> QED BY <4>1, <4>2
    <3>2. CASE ~(i <= lo)
      <4>1. i - lo \in 1..(lb - ps)
        BY <1>1, <2>1, <3>2
      <4>2. Datum(i) = e_buf[ps + (i - lo)]
        BY <1>1, <3>2 DEF Datum
      <4>3. E!Generated[i] = rest[i - lo] /\ g[i] = Datum(i)
        BY <1>5, <1>6, <2>1, <3>2
      <4> QED BY <1>3, <4>1, <4>2, <4>3
    <3> QED BY <3>1, <3>2
  <2> QED BY <2>1
<1> QED
  BY <1>5, <1>6, <1>7, SeqEqual

\* The window a decoder holds is the one the readout meant.
LEMMA WindowMeant ==
  ASSUME NEW g \in Seq(E!StreamMD), E!Generated = g, NEW d \in Decoder, NEW k \in Nat,
         WindowAt(g, d, k)
  PROVE  E!WindowBefore(k + 1) = d.window
<1> DEFINE js == {j \in 1..k : g[j].hdr \in {"offset", "new_frame"}}
<1>1. E!WindowBefore(k + 1) =
        IF js = {} THEN 0 ELSE g[CHOOSE j \in js : \A i \in js : i <= j].v
  <2>1. (k + 1) - 1 = k
    OBVIOUS
  <2> QED BY <2>1 DEF E!WindowBefore
<1>2. /\ d.mark \in 0..k /\ (d.mark = 0 => d.window = 0)
      /\ d.mark > 0 => g[d.mark].hdr \in Marks /\ g[d.mark].v = d.window
      /\ \A j \in 1..k : g[j].hdr \in Marks => j <= d.mark
  BY DEF WindowAt
<1>3. \A j : j \in js <=> j \in 1..k /\ g[j].hdr \in Marks
  BY DEF Marks
<1> HIDE DEF js
<1>4. CASE d.mark = 0
  <2>1. js = {}
    <3>1. ASSUME NEW j \in js PROVE FALSE
      <4>1. j \in 1..k /\ j <= 0
        BY <1>2, <1>3, <1>4
      <4> QED BY ONLY <4>1, k \in Nat
    <3> QED BY <3>1
  <2> QED BY <1>1, <1>2, <1>4, <2>1
<1>5. CASE d.mark > 0
  <2>1. d.mark \in 1..k
    BY <1>2, <1>5
  <2>2. d.mark \in js /\ \A i \in js : i \in Nat /\ i <= d.mark
    BY <1>2, <1>3, <1>5, <2>1
  <2> DEFINE top == CHOOSE j \in js : \A i \in js : i <= j
  <2>3. top \in js /\ \A i \in js : i <= top
    BY <2>2
  <2> HIDE DEF top
  <2>4. top = d.mark
    <3>1. top \in Nat /\ d.mark \in Nat /\ top <= d.mark /\ d.mark <= top
      BY <2>1, <2>2, <2>3
    <3> QED BY ONLY <3>1
  <2>5. E!WindowBefore(k + 1) = g[top].v
    BY <1>1, <2>2 DEF top
  <2> QED BY <1>2, <1>5, <2>4, <2>5
<1> QED
  BY <1>2, <1>4, <1>5

\* Only a pixel datum makes a hit.
LEMMA HitSteps ==
  ASSUME [SystemNext]_system, decoded' # decoded
  PROVE  PixelDatum
<1>1. CASE ClientLocal
  <2>1. CASE Begin
    BY <2>1 DEF Begin, BeginRejected, BeginAccepted, BeginCall
  <2>2. CASE DecodeStep
    BY <2>2 DEF DecodeStep, PixelDatum, NewFrame, TimestampOffset, FrameTimestamp,
                FrameFinished, LostPixels, AbortedDatum, TriggerInfo, UnknownDatum, history
  <2> QED BY <1>1, <2>1, <2>2 DEF ClientLocal, StartFails, ReadEnter, RecvError, ReadLeave,
                                  KillOffPasses, AbortRaise, history
<1>2. CASE ClientConfigures \/ ClientStarts \/ ClientAborts \/ ClientReceives
  BY <1>2 DEF ClientConfigures, Configured, ConfigureFails, ClientStarts, StartSent,
              ClientAborts, AbortSend, ClientReceives, RecvDatagram, history
<1>3. CASE UNCHANGED client
  BY <1>3 DEF client, vars, history
<1> QED
  BY <1>1, <1>2, <1>3 DEF SystemNext, ClientStops, CommandArrives, ReadoutSends, system,
     ReadoutLocal, ClockAdvances, Network, DatagramLost, DatagramDuplicated, CommandLost, Loss

\* The hit that is decoded is one the readout generated, and is dated as the
\* readout meant it.
LEMMA HitStep ==
  ASSUME AllInv, PixelDatum, n_loss = 0
  PROVE  \E i \in E!HitPositions :
           /\ E!Generated[i].tag = decoded'[Len(decoded')].tag
           /\ E!DecodedTime(i) = decoded'[Len(decoded')].toa
<1> DEFINE px == MapPixel(Head(pending))
<1>1. /\ pending # <<>> /\ Head(pending).hdr = "px" /\ decoded' = Append(decoded, px)
  BY DEF PixelDatum, Decode
<1>2. ReadoutType /\ ClientType /\ PathsType /\ Begun /\ Reported
  BY DEF AllInv
<1>3. PICK g, r, p, q, s : ReadoutAt(g, r) /\ OnTheWay(g, p, q, s) /\ ClientKnows(r[p])
  BY DEF AllInv, InStep
<1>4. decode_data /\ state = "RUNNING"
  BY <1>1, <1>2 DEF Begun, Reported
<1>5. /\ Len(g) \in Nat /\ p \in 0..Len(g) /\ q \in 0..Len(g) /\ p <= q
      /\ \A i \in 1..Len(g) : g[i] \in E!StreamMD
  BY <1>2, <1>3, Bounds
<1>6. Len(pending) = q - p /\ Len(pending) \in Nat \ {0} /\ Head(pending) = pending[1]
  <2>1. pending \in Seq(WireMD) /\ Len(pending) = q - p
    BY <1>2, <1>3 DEF OnTheWay, Carries, ClientType
  <2> QED BY <1>1, <2>1, EmptySeq
<1>7. p \in Nat /\ p + 1 \in 1..Len(g) /\ 1 \in 1..(q - p)
  BY <1>5, <1>6
<1>8. Head(pending) = OnWire(g[p + 1])
  BY <1>3, <1>6, <1>7 DEF OnTheWay, Carries
<1>9. /\ g[p + 1] \in E!StreamMD /\ g[p + 1].hdr = "px"
      /\ Head(pending).v = g[p + 1].v /\ Head(pending).tag = g[p + 1].tag
      /\ g[p + 1].v \in Nat /\ g[p + 1].tag \in Nat \X Nat
  <2>1. g[p + 1] \in E!StreamMD
    BY <1>5, <1>7
  <2> QED BY <1>1, <1>8, <2>1, WireType DEF E!StreamMD
<1>10. E!Generated = g /\ g \in Seq(E!StreamMD)
  BY <1>2, <1>3, GeneratedStream DEF ReadoutAt, IsStream
<1>11. r[p] \in Decoder /\ WindowAt(g, r[p], p)
  BY <1>3, <1>5 DEF ReadoutAt, IsRun
<1>12. E!WindowBefore(p + 1) = r[p].window
  BY <1>7, <1>10, <1>11, WindowMeant
<1>13. Legal(r[p], g[p + 1], e_frames_total)
  <2>1. (p + 1) - 1 = p
    BY <1>7
  <2> QED BY <1>3, <1>7, <2>1 DEF ReadoutAt, IsRun
<1>14. last_toa_offset = r[p].window * ToaSpan
  BY <1>3, <1>4 DEF ClientKnows
<1>15. px.tag = g[p + 1].tag /\ px.toa = E!DecodedTime(p + 1)
  <2>1. px.tag = g[p + 1].tag /\ px.toa = g[p + 1].v + last_toa_offset
    BY <1>9 DEF MapPixel
  <2>2. E!DecodedTime(p + 1) = r[p].window * ToaSpan + g[p + 1].v
    BY <1>10, <1>12 DEF E!DecodedTime
  <2>3. last_toa_offset \in Nat
    BY <1>2 DEF ClientType
  <2>4. g[p + 1].v + last_toa_offset = last_toa_offset + g[p + 1].v
    BY <1>9, <2>3
  <2> QED BY <1>14, <2>1, <2>2, <2>4
<1>16. decoded'[Len(decoded')] = px
  <2>1. decoded \in Seq(ClientPixel)
    BY <1>2 DEF ClientType
  <2>2. px \in ClientPixel
    <3>1. Head(pending).v + last_toa_offset \in Nat
      BY <1>2, <1>9 DEF ClientType
    <3> QED BY <1>9, <3>1 DEF MapPixel, ClientPixel
  <2> HIDE DEF px
  <2> QED BY <1>1, <2>1, <2>2, AppendProperties
<1>17. p + 1 \in E!HitPositions
  BY <1>7, <1>9, <1>10 DEF E!HitPositions
<1> HIDE DEF px
<1> QED
  BY <1>10, <1>15, <1>16, <1>17

\* Every hit of the first acquisition is dated by the window of the offset
\* that the readout sent last before it, while the paths lose nothing and
\* repeat nothing.
THEOREM HitTimesAreMeant ==
  SystemSpec /\ []FirstAcquisition => HitTimesArrive
<1> DEFINE px == decoded'[Len(decoded')]
           Dated == decoded' # decoded /\ readout_mode = "data_driven" /\ n_loss + n_dup = 0
                      /\ px.tag[1] = e_arms =>
                      \E i \in E!HitPositions :
                        E!Generated[i].tag = px.tag /\ E!DecodedTime(i) = px.toa
<1>1. SystemInv /\ FirstAcquisition /\ [SystemNext]_system => Dated
  <2> SUFFICES ASSUME SystemInv, FirstAcquisition, [SystemNext]_system,
                      decoded' # decoded, n_loss + n_dup = 0
               PROVE  \E i \in E!HitPositions :
                        E!Generated[i].tag = px.tag /\ E!DecodedTime(i) = px.toa
    OBVIOUS
  <2>1. PixelDatum
    BY HitSteps
  <2>2. AllInv /\ n_loss = 0
    <3>1. n_loss \in Nat /\ n_dup \in Nat /\ n_loss + n_dup = 0
      BY DEF SystemInv
    <3>2. n_loss = 0 /\ n_dup = 0
      BY ONLY <3>1
    <3> QED BY <3>2 DEF SystemInv
  <2> QED BY <2>1, <2>2, HitStep
<1> QED
  BY <1>1, SystemInvariant, PTL DEF SystemSpec, HitTimesArrive
=============================================================================
