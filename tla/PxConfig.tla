------------------------------ MODULE PxConfig ------------------------------
(***************************************************************************)
(* The pixel configuration matrix (c/src/px_config.c): four pixels share a *)
(* word, a column is a run of words, rows run upside down.  The loaders    *)
(* read a file in steps that may fail, and the setters and getters find    *)
(* the byte of one pixel.                                                  *)
(***************************************************************************)
EXTENDS Bitfields

CONSTANTS
  Columns, Rows,  \* 256 of each
  Files,          \* contents of files: a byte per pixel, a set of bits each
  Settable, Thresholds  \* pixels that setters are called for, and with what

Pixels == 0..(Columns * Rows - 1)
WordIndices == 0..(Columns * (Rows \div 4) - 1)
Coord == [x : 0..(Columns - 1), y : 0..(Rows - 1)]

ASSUME PxAssumption ==
  /\ Columns \in Nat \ {0} /\ Rows \in Nat \ {0} /\ Rows % 4 = 0
  /\ Files \subseteq [Pixels -> SUBSET Mask(8)]
  /\ Settable \subseteq Coord /\ Thresholds \subseteq SUBSET Mask(4)

VARIABLES
  words,    \* katherine_px_config_t.words
  loading,  \* the step of the loader under way
  file,     \* what it loads: [format, bytes]
  held,     \* what it holds: the file, the buffer
  result    \* code the last loader returned

vars == <<words, loading, file, held, result>>

Zero == [w \in WordIndices |-> {}]

NoFile == [format |-> "none", bytes |-> Zero]

\* The matrix is the caller's, uninitialized.
Init ==
  /\ words \in {Zero, [w \in WordIndices |-> Mask(32)]}
  /\ loading = "no" /\ file = NoFile /\ held = {} /\ result = "none"

---------------------------------------------------------------------------
(* Where a pixel is.                                                       *)

Row(y) == Rows - 1 - y

Word(x, row) == (Rows \div 4) * x + (row \div 4)

\* Faulty variant: the first pixel of a word is shifted out of it.
ShiftOver(row) == 8 * (4 - (row % 4))

Shift(row) == 8 * (3 - (row % 4))

---------------------------------------------------------------------------
(* katherine_px_config_load_bmc_data, katherine_px_config_load_bpc_data    *)

Reversed(thl) == {3 - b : b \in thl}

\* Faulty variant: the threshold of the BPC format is taken as it is.
ByteAsItIs(format, byte) == byte

\* BMC is the layout of the matrix, BPC has the threshold reversed and
\* nothing in the spare bits.
ByteOf(format, byte) ==
  IF format = "bmc" THEN byte
  ELSE (byte \cap {0, 5}) \cup ShiftLeft(Reversed(Extract(byte, 1, 4)), 1)

X(i) == i % Columns
LoadedRow(i) == Row(i \div Columns)

\* The loop ORs the byte of each pixel into its word, all words being zero.
Loaded(format, bytes) ==
  [w \in WordIndices |->
     UNION {ShiftLeft(ByteOf(format, bytes[i]), Shift(LoadedRow(i))) :
              i \in {k \in Pixels : Word(X(k), LoadedRow(k)) = w}}]

---------------------------------------------------------------------------
(* katherine_px_config_load_bmc_file, katherine_px_config_load_bpc_file    *)

LoadCall(format, bytes) ==
  /\ loading = "no"
  /\ loading' = "fopen" /\ file' = [format |-> format, bytes |-> bytes]
  /\ UNCHANGED <<words, held, result>>

LoadFopen ==
  /\ loading = "fopen"
  /\ loading' = "malloc" /\ held' = {"file"}
  /\ UNCHANGED <<words, file, result>>

LoadMalloc ==
  /\ loading = "malloc"
  /\ loading' = "fread" /\ held' = held \cup {"buffer"}
  /\ UNCHANGED <<words, file, result>>

LoadReturns(res) ==
  /\ loading' = "no" /\ file' = NoFile /\ held' = {}
  /\ result' = res

\* The whole file was read: both are released, in the reverse order.
LoadFread ==
  /\ loading = "fread"
  /\ words' = Loaded(file.format, file.bytes)
  /\ LoadReturns("ok")

\* err_fread, err_buffer, err_fopen
Released ==
  CASE loading = "fopen" -> {}
    [] loading = "malloc" -> {"file"}
    [] loading = "fread" -> {"buffer", "file"}

Reason ==
  CASE loading = "fopen" -> "errno"
    [] loading = "malloc" -> "ENOMEM"
    [] loading = "fread" -> "EIO"

LoadFails ==
  /\ loading # "no"
  /\ loading' = "no" /\ file' = NoFile /\ held' = held \ Released
  /\ result' = Reason
  /\ UNCHANGED words

---------------------------------------------------------------------------
(* The setters and getters of a pixel.                                     *)

GetByte(c) == Extract(words[Word(c.x, Row(c.y))], Shift(Row(c.y)), 8)

\* Faulty variant: the old byte is not cleared.
SetByteOver(c, byte) ==
  words' = [words EXCEPT ![Word(c.x, Row(c.y))] =
              @ \cup ShiftLeft(byte \cap Mask(8), Shift(Row(c.y)))]

SetByte(c, byte) ==
  words' = [words EXCEPT ![Word(c.x, Row(c.y))] = Insert(@, Shift(Row(c.y)), 8, byte)]

\* Bit fields of a byte: mask, loc_thl, test.
GetMaskBit(c) == Extract(GetByte(c), 0, 1)
GetLocThl(c) == Extract(GetByte(c), 1, 4)
GetTestBit(c) == Extract(GetByte(c), 5, 1)

SetMaskBit(c, bit) ==
  /\ SetByte(c, Insert(GetByte(c), 0, 1, bit))
  /\ UNCHANGED <<loading, file, held, result>>

SetLocThl(c, thl) ==
  /\ SetByte(c, Insert(GetByte(c), 1, 4, thl))
  /\ UNCHANGED <<loading, file, held, result>>

SetTestBit(c, bit) ==
  /\ SetByte(c, Insert(GetByte(c), 5, 1, bit))
  /\ UNCHANGED <<loading, file, held, result>>

Bits == {{}, {0}}

Setters ==
  /\ loading = "no"
  /\ \E c \in Settable :
       \/ \E bit \in Bits : SetMaskBit(c, bit) \/ SetTestBit(c, bit)
       \/ \E thl \in Thresholds : SetLocThl(c, thl)

Next ==
  \/ \E format \in {"bmc", "bpc"}, bytes \in Files : LoadCall(format, bytes)
  \/ LoadFopen \/ LoadMalloc \/ LoadFread \/ LoadFails
  \/ Setters

Spec == Init /\ [][Next]_vars

---------------------------------------------------------------------------
(* Properties                                                              *)

\* Every variable keeps its type, and a loader that has returned holds
\* neither its file nor its buffer.
TypeOK ==
  /\ words \in [WordIndices -> SUBSET Mask(32)]
  /\ loading \in {"no", "fopen", "malloc", "fread"}
  /\ held \subseteq {"file", "buffer"} /\ (loading = "no" => held = {})
  /\ result \in {"none", "ok", "errno", "ENOMEM", "EIO"}

\* The matrix as its users see it: what the getters return.
Matrix == [c \in Coord |->
  [mask |-> GetMaskBit(c) = {0}, loc_thl |-> GetLocThl(c), test |-> GetTestBit(c) = {0}]]

PM == INSTANCE PixelMatrix WITH pixels <- Matrix

\* Packing, unpacking, the order of rows and the formats of files all agree:
\* the matrix is that of PixelMatrix. A setter changes one field of one
\* pixel, a file sets the pixel its position means, a failed load none.
IsPixelMatrix == PM!Spec

\* What a setter sets the getter of the same field returns, and no other
\* field or pixel changes, those that share the word included.
SettersSet ==
  [][\A c \in Settable :
       /\ \A bit \in Bits :
            /\ SetMaskBit(c, bit) => Matrix' = [Matrix EXCEPT ![c].mask = (bit = {0})]
            /\ SetTestBit(c, bit) => Matrix' = [Matrix EXCEPT ![c].test = (bit = {0})]
       /\ \A thl \in Thresholds :
            SetLocThl(c, thl) => Matrix' = [Matrix EXCEPT ![c].loc_thl = thl]]_vars
=============================================================================
