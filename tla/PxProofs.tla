------------------------------ MODULE PxProofs ------------------------------
(***************************************************************************)
(* Theorems about PxConfig, for every number of columns and rows and every *)
(* contents of a file: the packed words are the matrix of PixelMatrix, and *)
(* a setter reaches the field of the pixel it is called for, no other.     *)
(***************************************************************************)
EXTENDS PxConfig, TLAPS

---------------------------------------------------------------------------
(* Fields of a word.                                                       *)

\* The field that was inserted is the one extracted.
LEMMA InsertExtract ==
  ASSUME NEW v, NEW x, NEW start \in Nat, NEW width \in Nat
  PROVE  Extract(Insert(v, start, width, x), start, width) = x \cap Mask(width)
BY DEF Extract, Insert, ShiftLeft, Mask

\* No other field changes.
LEMMA InsertElsewhere ==
  ASSUME NEW v, NEW x, NEW start \in Nat, NEW width \in Nat, NEW s \in Nat, NEW w \in Nat,
         start + width <= s \/ s + w <= start
  PROVE  Extract(Insert(v, start, width, x), s, w) = Extract(v, s, w)
BY DEF Extract, Insert, ShiftLeft, Mask

\* A word keeps its width.
LEMMA InsertBound ==
  ASSUME NEW n \in Nat, NEW v \in SUBSET Mask(n), NEW x, NEW start \in Nat, NEW width \in Nat,
         start + width <= n
  PROVE  Insert(v, start, width, x) \in SUBSET Mask(n)
<1>1. \A b \in Mask(width) : b + start \in Mask(n)
  BY DEF Mask
<1> QED
  BY <1>1 DEF Insert, ShiftLeft

---------------------------------------------------------------------------
(* Where a pixel is.                                                       *)

\* A number has one digit and one rest.
LEMMA Radix ==
  ASSUME NEW n \in Nat, NEW x \in Nat, NEW y \in Nat, NEW r \in Nat, NEW s \in Nat,
         r < n, s < n, n * x + r = n * y + s
  PROVE  x = y /\ r = s
<1>1. ASSUME NEW a \in Nat, NEW b \in Nat, a < b PROVE n * a + n <= n * b
  <2>1. PICK e \in Nat : b = a + 1 + e
    <3>1. b - a - 1 \in Nat /\ b = a + 1 + (b - a - 1)
      BY <1>1
    <3> QED BY <3>1
  <2>2. n * (a + 1 + e) = n * a + n + n * e /\ n * e \in Nat /\ n * a \in Nat
    OBVIOUS
  <2> QED BY <2>1, <2>2
<1>2. n * x \in Nat /\ n * y \in Nat
  OBVIOUS
<1>3. ~(x < y) /\ ~(y < x)
  BY <1>1, <1>2
<1> QED
  BY <1>2, <1>3

\* Rows are a whole number of words.
LEMMA Sizes ==
  /\ Columns \in Nat /\ Columns > 0 /\ Rows \in Nat /\ Rows > 0
  /\ Rows \div 4 \in Nat /\ Rows = 4 * (Rows \div 4)
BY PxAssumption

\* A row of the matrix is a word of its column and a byte of that word.
LEMMA RowPlace ==
  ASSUME NEW row \in 0..(Rows - 1)
  PROVE  /\ row \div 4 \in Nat /\ row \div 4 < Rows \div 4 /\ row % 4 \in 0..3
         /\ row = 4 * (row \div 4) + (row % 4)
         /\ Shift(row) \in {0, 8, 16, 24} /\ Shift(row) = 8 * (3 - (row % 4))
<1>1. row \in Nat /\ row < Rows
  BY Sizes
<1>2. row % 4 \in 0..3 /\ row \div 4 \in Nat /\ row = 4 * (row \div 4) + (row % 4)
  BY <1>1
<1>3. row \div 4 < Rows \div 4
  BY <1>1, <1>2, Sizes
<1> QED
  BY <1>2, <1>3 DEF Shift

\* The word is in the matrix.
LEMMA WordPlace ==
  ASSUME NEW x \in 0..(Columns - 1), NEW row \in 0..(Rows - 1)
  PROVE  Word(x, row) \in WordIndices
<1> DEFINE h == Rows \div 4
           q == row \div 4
<1>1. h \in Nat /\ q \in Nat /\ q < h /\ x \in Nat /\ Columns \in Nat /\ x < Columns
  BY Sizes, RowPlace
<1>2. Word(x, row) = h * x + q /\ WordIndices = 0..(Columns * h - 1)
  BY DEF Word, WordIndices
<1> HIDE DEF h, q
<1>3. PICK e \in Nat : Columns = x + 1 + e
  <2>1. Columns - x - 1 \in Nat /\ Columns = x + 1 + (Columns - x - 1)
    BY <1>1
  <2> QED BY <2>1
<1>4. /\ (x + 1 + e) * h = h * x + h + e * h
      /\ h * x \in Nat /\ e * h \in Nat
  BY <1>1
<1>5. Columns * h = h * x + h + e * h
  BY <1>3, <1>4
<1>6. h * x + q \in Nat /\ h * x + q <= Columns * h - 1
  BY <1>1, <1>4, <1>5
<1> QED
  BY <1>1, <1>2, <1>6

\* Different pixels share no byte.
LEMMA PlaceUnique ==
  ASSUME NEW x \in 0..(Columns - 1), NEW row \in 0..(Rows - 1),
         NEW y \in 0..(Columns - 1), NEW line \in 0..(Rows - 1),
         Word(x, row) = Word(y, line), Shift(row) = Shift(line)
  PROVE  x = y /\ row = line
<1> DEFINE h == Rows \div 4
<1>1. /\ row \div 4 \in Nat /\ row \div 4 < h /\ line \div 4 \in Nat /\ line \div 4 < h
      /\ x \in Nat /\ y \in Nat /\ h \in Nat
      /\ row % 4 \in 0..3 /\ line % 4 \in 0..3
      /\ row = 4 * (row \div 4) + (row % 4) /\ line = 4 * (line \div 4) + (line % 4)
      /\ Shift(row) = 8 * (3 - (row % 4)) /\ Shift(line) = 8 * (3 - (line % 4))
  BY Sizes, RowPlace
<1>2. h * x + (row \div 4) = h * y + (line \div 4)
  BY DEF Word
<1> HIDE DEF h
<1>3. x = y /\ row \div 4 = line \div 4
  BY <1>1, <1>2, Radix
<1>4. PICK m \in 0..3, n \in 0..3 : m = row % 4 /\ n = line % 4
  BY <1>1
<1>5. 8 * (3 - m) = 8 * (3 - n)
  BY <1>1, <1>4
<1>6. m = n
  BY <1>5
<1> QED
  BY <1>1, <1>3, <1>4, <1>6

\* The place of the byte of a pixel.
LEMMA BytePlace ==
  ASSUME NEW c \in Coord
  PROVE  /\ c.x \in 0..(Columns - 1) /\ Row(c.y) \in 0..(Rows - 1)
         /\ Word(c.x, Row(c.y)) \in WordIndices
         /\ Shift(Row(c.y)) \in {0, 8, 16, 24}
         /\ c = [x |-> c.x, y |-> c.y] /\ c.y = Rows - 1 - Row(c.y)
<1>1. c.x \in 0..(Columns - 1) /\ c.y \in 0..(Rows - 1) /\ c = [x |-> c.x, y |-> c.y]
  BY DEF Coord
<1>2. Row(c.y) \in 0..(Rows - 1) /\ c.y = Rows - 1 - Row(c.y)
  BY <1>1, Sizes DEF Row
<1> QED
  BY <1>1, <1>2, WordPlace, RowPlace

---------------------------------------------------------------------------
(* The byte of a pixel.                                                    *)

WordsType == words \in [WordIndices -> SUBSET Mask(32)]

\* A byte that is set is got, no other byte changes.
LEMMA ByteSet ==
  ASSUME WordsType, NEW c \in Coord, NEW byte \in SUBSET Mask(8), SetByte(c, byte)
  PROVE  /\ WordsType' /\ GetByte(c)' = byte
         /\ \A d \in Coord : d # c => GetByte(d)' = GetByte(d)
<1> DEFINE w == Word(c.x, Row(c.y))
           s == Shift(Row(c.y))
<1>1. w \in WordIndices /\ s \in {0, 8, 16, 24} /\ s \in Nat /\ s + 8 <= 32
  BY BytePlace
<1>2. words' = [words EXCEPT ![w] = Insert(words[w], s, 8, byte)]
  BY DEF SetByte
<1>3. /\ words' \in [WordIndices -> SUBSET Mask(32)]
      /\ words'[w] = Insert(words[w], s, 8, byte)
      /\ \A v \in WordIndices : v # w => words'[v] = words[v]
  <2> HIDE DEF w, s
  <2>1. Insert(words[w], s, 8, byte) \in SUBSET Mask(32)
    BY <1>1, InsertBound DEF WordsType
  <2> QED BY <1>1, <1>2, <2>1 DEF WordsType
<1>4. GetByte(c)' = byte
  <2>1. GetByte(c)' = Extract(words'[w], s, 8)
    BY DEF GetByte, Extract
  <2> HIDE DEF w, s
  <2>2. Extract(words'[w], s, 8) = byte \cap Mask(8)
    BY <1>1, <1>3, InsertExtract
  <2> QED BY <2>1, <2>2
<1>5. ASSUME NEW d \in Coord, d # c PROVE GetByte(d)' = GetByte(d)
  <2> DEFINE v == Word(d.x, Row(d.y))
             t == Shift(Row(d.y))
  <2>1. v \in WordIndices /\ t \in {0, 8, 16, 24}
    BY BytePlace
  <2>2. GetByte(d)' = Extract(words'[v], t, 8) /\ GetByte(d) = Extract(words[v], t, 8)
    BY DEF GetByte, Extract
  <2>3. v # w \/ t # s
    <3>1. ASSUME v = w, t = s PROVE c.x = d.x /\ Row(c.y) = Row(d.y)
      BY <3>1, BytePlace, PlaceUnique
    <3> QED BY <1>5, <3>1, BytePlace
  <2> HIDE DEF w, s, v, t
  <2>4. CASE v # w
    BY <1>3, <2>1, <2>2, <2>4
  <2>5. CASE v = w /\ t # s
    <3>1. s + 8 <= t \/ t + 8 <= s
      BY <1>1, <2>1, <2>5
    <3>2. Extract(Insert(words[w], s, 8, byte), t, 8) = Extract(words[w], t, 8)
      BY <1>1, <2>1, <3>1, InsertElsewhere
    <3> QED BY <1>3, <2>2, <2>5, <3>2
  <2> QED BY <2>3, <2>4, <2>5
<1> QED
  BY <1>3, <1>4, <1>5 DEF WordsType

---------------------------------------------------------------------------
(* The matrix, as its users see it.                                        *)

\* What the getters make of a byte.
IsSet(bit) == bit = {0}
PixelOfByte(byte) ==
  [mask |-> IsSet(Extract(byte, 0, 1)), loc_thl |-> Extract(byte, 1, 4),
   test |-> IsSet(Extract(byte, 5, 1))]

\* The matrix is made of the bytes of its pixels.
LEMMA MatrixOfBytes ==
  /\ Matrix = [c \in Coord |-> PixelOfByte(GetByte(c))]
  /\ Matrix' = [c \in Coord |-> PixelOfByte(GetByte(c)')]
BY DEF Matrix, PixelOfByte, IsSet, GetMaskBit, GetLocThl, GetTestBit, Extract

\* A byte is a byte, a field of it a set of its bits.
LEMMA ByteType ==
  ASSUME NEW c PROVE GetByte(c) \in SUBSET Mask(8)
BY DEF GetByte, Extract

\* One field of a pixel is changed.
LEMMA FieldChanged ==
  ASSUME NEW mask, NEW thl, NEW test, NEW v
  PROVE  LET pixel == [mask |-> mask, loc_thl |-> thl, test |-> test]
         IN  /\ [pixel EXCEPT !.mask = v] = [mask |-> v, loc_thl |-> thl, test |-> test]
             /\ [pixel EXCEPT !.loc_thl = v] = [mask |-> mask, loc_thl |-> v, test |-> test]
             /\ [pixel EXCEPT !.test = v] = [mask |-> mask, loc_thl |-> thl, test |-> v]
OBVIOUS

\* A setter sets one field of the byte.
LEMMA FieldSet ==
  ASSUME NEW byte, NEW bit \in Bits, NEW thl \in SUBSET Mask(4)
  PROVE  /\ PixelOfByte(Insert(byte, 0, 1, bit)) =
              [PixelOfByte(byte) EXCEPT !.mask = IsSet(bit)]
         /\ PixelOfByte(Insert(byte, 5, 1, bit)) =
              [PixelOfByte(byte) EXCEPT !.test = IsSet(bit)]
         /\ PixelOfByte(Insert(byte, 1, 4, thl)) =
              [PixelOfByte(byte) EXCEPT !.loc_thl = thl]
<1>1. bit \cap Mask(1) = bit /\ thl \cap Mask(4) = thl
  <2>1. Mask(1) = {0}
    BY DEF Mask
  <2> QED BY <2>1 DEF Bits
<1>2. ASSUME NEW start \in Nat, NEW width \in Nat, NEW x, x \cap Mask(width) = x
      PROVE  /\ Extract(Insert(byte, start, width, x), start, width) = x
             /\ \A s \in Nat, w \in Nat : start + width <= s \/ s + w <= start =>
                  Extract(Insert(byte, start, width, x), s, w) = Extract(byte, s, w)
  <2>1. Extract(Insert(byte, start, width, x), start, width) = x \cap Mask(width)
    BY InsertExtract
  <2>2. ASSUME NEW s \in Nat, NEW w \in Nat, start + width <= s \/ s + w <= start
        PROVE  Extract(Insert(byte, start, width, x), s, w) = Extract(byte, s, w)
    BY <2>2, InsertElsewhere
  <2> QED BY <1>2, <2>1, <2>2
<1>3. PixelOfByte(Insert(byte, 0, 1, bit)) = [PixelOfByte(byte) EXCEPT !.mask = IsSet(bit)]
  <2> DEFINE new == Insert(byte, 0, 1, bit)
  <2>1. /\ Extract(new, 0, 1) = bit
        /\ Extract(new, 1, 4) = Extract(byte, 1, 4)
        /\ Extract(new, 5, 1) = Extract(byte, 5, 1)
    BY <1>1, <1>2
  <2> HIDE DEF new
  <2>2. PixelOfByte(new) = [PixelOfByte(byte) EXCEPT !.mask = IsSet(bit)]
    BY ONLY <2>1, FieldChanged DEF PixelOfByte
  <2> QED BY <2>2 DEF new
<1>4. PixelOfByte(Insert(byte, 5, 1, bit)) = [PixelOfByte(byte) EXCEPT !.test = IsSet(bit)]
  <2> DEFINE new == Insert(byte, 5, 1, bit)
  <2>1. /\ Extract(new, 5, 1) = bit
        /\ Extract(new, 1, 4) = Extract(byte, 1, 4)
        /\ Extract(new, 0, 1) = Extract(byte, 0, 1)
    BY <1>1, <1>2
  <2> HIDE DEF new
  <2>2. PixelOfByte(new) = [PixelOfByte(byte) EXCEPT !.test = IsSet(bit)]
    BY ONLY <2>1, FieldChanged DEF PixelOfByte
  <2> QED BY <2>2 DEF new
<1>5. PixelOfByte(Insert(byte, 1, 4, thl)) = [PixelOfByte(byte) EXCEPT !.loc_thl = thl]
  <2> DEFINE new == Insert(byte, 1, 4, thl)
  <2>1. /\ Extract(new, 1, 4) = thl
        /\ Extract(new, 0, 1) = Extract(byte, 0, 1)
        /\ Extract(new, 5, 1) = Extract(byte, 5, 1)
    BY <1>1, <1>2
  <2> HIDE DEF new
  <2>2. PixelOfByte(new) = [PixelOfByte(byte) EXCEPT !.loc_thl = thl]
    BY ONLY <2>1, FieldChanged DEF PixelOfByte
  <2> QED BY <2>2 DEF new
<1> QED
  BY <1>3, <1>4, <1>5

\* One pixel of the matrix is set.
LEMMA PixelSet ==
  ASSUME WordsType, NEW c \in Coord, NEW byte \in SUBSET Mask(8), SetByte(c, byte)
  PROVE  WordsType' /\ Matrix' = [Matrix EXCEPT ![c] = PixelOfByte(byte)]
<1>1. /\ WordsType' /\ GetByte(c)' = byte
      /\ \A d \in Coord : d # c => GetByte(d)' = GetByte(d)
  BY ByteSet
<1>2. \A d \in Coord : PixelOfByte(GetByte(d)') =
        IF d = c THEN PixelOfByte(byte) ELSE PixelOfByte(GetByte(d))
  BY <1>1
<1> QED
  BY <1>1, <1>2, MatrixOfBytes

\* What a setter does to the matrix.
LEMMA SetterSteps ==
  ASSUME WordsType, NEW c \in Settable
  PROVE  /\ \A bit \in Bits :
              /\ SetMaskBit(c, bit) =>
                   WordsType' /\ Matrix' = [Matrix EXCEPT ![c].mask = IsSet(bit)]
              /\ SetTestBit(c, bit) =>
                   WordsType' /\ Matrix' = [Matrix EXCEPT ![c].test = IsSet(bit)]
         /\ \A thl \in Thresholds : SetLocThl(c, thl) =>
              WordsType' /\ Matrix' = [Matrix EXCEPT ![c].loc_thl = thl]
<1>1. c \in Coord /\ Thresholds \subseteq SUBSET Mask(4)
  BY PxAssumption
<1>2. Matrix[c] = PixelOfByte(GetByte(c)) /\ GetByte(c) \in SUBSET Mask(8)
  BY <1>1, MatrixOfBytes, ByteType
<1>3. ASSUME NEW bit \in Bits, SetMaskBit(c, bit)
      PROVE  WordsType' /\ Matrix' = [Matrix EXCEPT ![c].mask = IsSet(bit)]
  <2>1. Insert(GetByte(c), 0, 1, bit) \in SUBSET Mask(8)
    BY <1>2, InsertBound
  <2>2. WordsType' /\ Matrix' = [Matrix EXCEPT ![c] = PixelOfByte(Insert(GetByte(c), 0, 1, bit))]
    BY <1>1, <1>3, <2>1, PixelSet DEF SetMaskBit
  <2>3. PixelOfByte(Insert(GetByte(c), 0, 1, bit)) = [PixelOfByte(GetByte(c)) EXCEPT !.mask = IsSet(bit)]
    BY <1>1, FieldSet
  <2>4. PixelOfByte(Insert(GetByte(c), 0, 1, bit)) = [Matrix[c] EXCEPT !.mask = IsSet(bit)]
    BY <1>2, <2>3
  <2> QED BY <2>2, <2>4
<1>4. ASSUME NEW bit \in Bits, SetTestBit(c, bit)
      PROVE  WordsType' /\ Matrix' = [Matrix EXCEPT ![c].test = IsSet(bit)]
  <2>1. Insert(GetByte(c), 5, 1, bit) \in SUBSET Mask(8)
    BY <1>2, InsertBound
  <2>2. WordsType' /\ Matrix' = [Matrix EXCEPT ![c] = PixelOfByte(Insert(GetByte(c), 5, 1, bit))]
    BY <1>1, <1>4, <2>1, PixelSet DEF SetTestBit
  <2>3. PixelOfByte(Insert(GetByte(c), 5, 1, bit)) = [PixelOfByte(GetByte(c)) EXCEPT !.test = IsSet(bit)]
    BY <1>1, FieldSet
  <2>4. PixelOfByte(Insert(GetByte(c), 5, 1, bit)) = [Matrix[c] EXCEPT !.test = IsSet(bit)]
    BY <1>2, <2>3
  <2> QED BY <2>2, <2>4
<1>5. ASSUME NEW thl \in Thresholds, SetLocThl(c, thl)
      PROVE  WordsType' /\ Matrix' = [Matrix EXCEPT ![c].loc_thl = thl]
  <2>1. Insert(GetByte(c), 1, 4, thl) \in SUBSET Mask(8)
    BY <1>2, InsertBound
  <2>2. WordsType' /\ Matrix' = [Matrix EXCEPT ![c] = PixelOfByte(Insert(GetByte(c), 1, 4, thl))]
    BY <1>1, <1>5, <2>1, PixelSet DEF SetLocThl
  <2>3. PixelOfByte(Insert(GetByte(c), 1, 4, thl)) = [PixelOfByte(GetByte(c)) EXCEPT !.loc_thl = thl]
    <3>1. thl \in SUBSET Mask(4) /\ {} \in Bits
      BY <1>1 DEF Bits
    <3> QED BY <3>1, FieldSet
  <2>4. PixelOfByte(Insert(GetByte(c), 1, 4, thl)) = [Matrix[c] EXCEPT !.loc_thl = thl]
    BY <1>2, <2>3
  <2> QED BY <2>2, <2>4
<1> QED
  BY <1>3, <1>4, <1>5

---------------------------------------------------------------------------
(* A matrix that is loaded.                                                *)

\* A byte of a file is taken for a byte.
LEMMA ByteOfType ==
  ASSUME NEW format, NEW byte \in SUBSET Mask(8)
  PROVE  ByteOf(format, byte) \in SUBSET Mask(8)
<1>1. CASE format = "bmc"
  BY <1>1 DEF ByteOf
<1>2. CASE format # "bmc"
  BY <1>2 DEF ByteOf, ShiftLeft, Reversed, Extract, Mask
<1> QED
  BY <1>1, <1>2

\* Both formats mean the pixel of the specification.
LEMMA FormatMeans ==
  ASSUME NEW format, NEW byte \in SUBSET Mask(8)
  PROVE  PixelOfByte(ByteOf(format, byte)) = PM!PixelOf(format, byte)
<1> DEFINE b == ByteOf(format, byte)
<1>1. /\ 0 \in b <=> 0 \in byte
      /\ 5 \in b <=> 5 \in byte
      /\ \A k \in 0..3 : k + 1 \in b <=> PM!ThlBit(format, k) \in byte
  <2>1. CASE format = "bmc"
    BY <2>1 DEF ByteOf, PM!ThlBit
  <2>2. CASE format # "bmc"
    <3> DEFINE thl == {k \in 0..3 : k + 1 \in byte}
    <3>1. b = (byte \cap {0, 5}) \cup {k + 1 : k \in {3 - e : e \in thl}}
      <4>1. thl = Extract(byte, 1, 4)
        BY DEF Extract, Mask
      <4> QED BY <2>2, <4>1 DEF ByteOf, ShiftLeft, Reversed
    <3>2. \A k : k \in {e + 1 : e \in {3 - d : d \in thl}} <=> k \in 1..4 /\ 5 - k \in byte
      <4>1. ASSUME NEW k \in 1..4, 5 - k \in byte PROVE k \in {e + 1 : e \in {3 - d : d \in thl}}
        <5>1. 4 - k \in thl /\ k - 1 = 3 - (4 - k) /\ k = (k - 1) + 1
          <6>1. 4 - k \in 0..3 /\ (4 - k) + 1 = 5 - k
            OBVIOUS
          <6> QED BY <4>1, <6>1
        <5>2. k - 1 \in {3 - d : d \in thl}
          BY <5>1
        <5> QED BY <5>1, <5>2
      <4>2. ASSUME NEW d \in thl PROVE (3 - d) + 1 \in 1..4 /\ 5 - ((3 - d) + 1) \in byte
        <5>1. d \in 0..3 /\ d + 1 \in byte /\ 5 - ((3 - d) + 1) = d + 1
          OBVIOUS
        <5> QED BY <5>1
      <4> QED BY <4>1, <4>2
    <3> HIDE DEF thl, b
    <3>3. (0 \in b <=> 0 \in byte) /\ (5 \in b <=> 5 \in byte)
      BY <3>1, <3>2
    <3>4. ASSUME NEW k \in 0..3 PROVE k + 1 \in b <=> PM!ThlBit(format, k) \in byte
      <4>1. k + 1 \in b <=> k + 1 \in 1..4 /\ 5 - (k + 1) \in byte
        BY <3>1, <3>2
      <4>2. 5 - (k + 1) = 4 - k /\ k + 1 \in 1..4
        OBVIOUS
      <4> QED BY <2>2, <4>1, <4>2 DEF PM!ThlBit
    <3> QED BY <3>3, <3>4 DEF b
  <2> QED BY <2>1, <2>2
<1> HIDE DEF b
<1>2. /\ (Extract(b, 0, 1) = {0}) <=> 0 \in b
      /\ (Extract(b, 5, 1) = {0}) <=> 5 \in b
      /\ Extract(b, 1, 4) = {k \in 0..3 : k + 1 \in b}
  BY DEF Extract, Mask
<1>3. Extract(b, 1, 4) = {k \in 0..3 : PM!ThlBit(format, k) \in byte}
  BY <1>1, <1>2
<1> QED
  BY <1>1, <1>2, <1>3 DEF PixelOfByte, IsSet, PM!PixelOf, b

\* The byte of the file that a pixel is loaded from.
LEMMA FilePlace ==
  ASSUME NEW c \in Coord
  PROVE  /\ Columns * c.y + c.x \in Pixels
         /\ \A i \in Pixels : X(i) = c.x /\ LoadedRow(i) = Row(c.y) <=> i = Columns * c.y + c.x
<1>1. /\ c.x \in Nat /\ c.x < Columns /\ c.y \in Nat /\ c.y < Rows
      /\ Columns \in Nat /\ Columns > 0 /\ Rows \in Nat
  BY Sizes DEF Coord
<1> DEFINE p == Columns * c.y
<1>2. p \in Nat
  BY <1>1
<1>3. p + c.x < Columns * Rows /\ Columns * Rows \in Nat
  <2>1. PICK e \in Nat : Rows = c.y + 1 + e
    <3>1. Rows - c.y - 1 \in Nat /\ Rows = c.y + 1 + (Rows - c.y - 1)
      BY <1>1
    <3> QED BY <3>1
  <2>2. Columns * (c.y + 1 + e) = p + Columns + Columns * e /\ Columns * e \in Nat
    BY <1>1
  <2> HIDE DEF p
  <2> QED BY <1>1, <1>2, <2>1, <2>2
<1>4. p + c.x \in Pixels
  BY <1>1, <1>2, <1>3 DEF Pixels
<1>5. ASSUME NEW i \in Nat
      PROVE  /\ i % Columns \in Nat /\ i % Columns < Columns /\ i \div Columns \in Nat
             /\ i = Columns * (i \div Columns) + (i % Columns)
  BY <1>1
<1>6. ASSUME NEW i \in Pixels
      PROVE  (i % Columns = c.x /\ i \div Columns = c.y) <=> i = p + c.x
  <2>1. i \in Nat
    BY <1>1 DEF Pixels
  <2>2. ASSUME i = p + c.x PROVE i % Columns = c.x /\ i \div Columns = c.y
    <3>1. PICK q \in Nat, r \in Nat : q = i \div Columns /\ r = i % Columns
      BY <1>5, <2>1
    <3>2. Columns * q + r = Columns * c.y + c.x /\ r < Columns
      BY <1>5, <2>1, <2>2, <3>1
    <3>3. PICK n \in Nat, x \in Nat, y \in Nat : n = Columns /\ x = c.x /\ y = c.y
      BY <1>1
    <3>4. n * q + r = n * y + x /\ r < n /\ x < n
      BY <1>1, <3>2, <3>3
    <3>5. q = y /\ r = x
      BY <3>4, Radix
    <3> QED BY <3>1, <3>3, <3>5
  <2> QED BY <1>5, <2>1, <2>2
<1>7. ASSUME NEW i \in Pixels PROVE LoadedRow(i) = Row(c.y) <=> i \div Columns = c.y
  <2>1. i \div Columns \in Int
    BY <1>1, <1>5 DEF Pixels
  <2> QED BY <1>1, <2>1 DEF LoadedRow, Row
<1> QED
  BY <1>4, <1>6, <1>7 DEF X

\* Every byte of a file has its place in the matrix.
LEMMA LoadedPlace ==
  ASSUME NEW i \in Pixels
  PROVE  X(i) \in 0..(Columns - 1) /\ LoadedRow(i) \in 0..(Rows - 1)
<1>1. /\ Columns \in Nat /\ Columns > 0 /\ Rows \in Nat /\ i \in Nat
      /\ i < Columns * Rows
  BY Sizes DEF Pixels
<1>2. /\ i % Columns \in 0..(Columns - 1) /\ i \div Columns \in Nat
      /\ i = Columns * (i \div Columns) + (i % Columns)
  BY <1>1
<1>3. i \div Columns < Rows
  <2>1. PICK q \in Nat : q = i \div Columns
    BY <1>2
  <2>2. ASSUME q >= Rows PROVE FALSE
    <3>1. PICK e \in Nat : q = Rows + e
      <4>1. q - Rows \in Nat /\ q = Rows + (q - Rows)
        BY <1>1, <2>2
      <4> QED BY <4>1
    <3>2. Columns * (Rows + e) = Columns * Rows + Columns * e /\ Columns * e \in Nat
          /\ Columns * Rows \in Nat
      BY <1>1
    <3> QED BY <1>1, <1>2, <2>1, <3>1, <3>2
  <2> QED BY <1>1, <2>1, <2>2
<1> QED
  BY <1>1, <1>2, <1>3 DEF X, LoadedRow, Row

\* A file sets every pixel by the byte at its position.
LEMMA FileLoaded ==
  ASSUME NEW format, NEW bytes \in [Pixels -> SUBSET Mask(8)],
         words' = Loaded(format, bytes)
  PROVE  /\ WordsType'
         /\ \A c \in Coord : GetByte(c)' = ByteOf(format, bytes[Columns * c.y + c.x])
<1> DEFINE Place(i) == Shift(LoadedRow(i))
           Of(w) == {k \in Pixels : Word(X(k), LoadedRow(k)) = w}
           Shifted(i) == ShiftLeft(ByteOf(format, bytes[i]), Place(i))
<1>1. ASSUME NEW i \in Pixels
      PROVE  /\ ByteOf(format, bytes[i]) \in SUBSET Mask(8)
             /\ Place(i) \in {0, 8, 16, 24}
             /\ Shifted(i) \in SUBSET Mask(32)
  <2>1. ByteOf(format, bytes[i]) \in SUBSET Mask(8)
    BY ByteOfType
  <2>2. Place(i) \in {0, 8, 16, 24}
    BY LoadedPlace, RowPlace
  <2> HIDE DEF Place
  <2>3. ShiftLeft(ByteOf(format, bytes[i]), Place(i)) \in SUBSET Mask(32)
    BY <2>1, <2>2 DEF ShiftLeft, Mask
  <2> QED BY <2>1, <2>2, <2>3
<1>2. words' = [w \in WordIndices |-> UNION {Shifted(i) : i \in Of(w)}]
  BY DEF Loaded
<1> HIDE DEF Shifted, Of
<1>3. WordsType'
  <2>1. ASSUME NEW w \in WordIndices PROVE UNION {Shifted(i) : i \in Of(w)} \in SUBSET Mask(32)
    BY <1>1 DEF Of
  <2> QED BY <1>2, <2>1 DEF WordsType
<1>4. ASSUME NEW c \in Coord
      PROVE  GetByte(c)' = ByteOf(format, bytes[Columns * c.y + c.x])
  <2> DEFINE w == Word(c.x, Row(c.y))
             s == Shift(Row(c.y))
             j == Columns * c.y + c.x
  <2>1. w \in WordIndices /\ s \in {0, 8, 16, 24} /\ j \in Pixels
    BY BytePlace, FilePlace
  <2>2. GetByte(c)' = {b \in Mask(8) : b + s \in UNION {Shifted(i) : i \in Of(w)}}
    <3>1. GetByte(c)' = {b \in Mask(8) : b + s \in words'[w]}
      BY DEF GetByte, Extract
    <3> HIDE DEF w, s
    <3> QED BY <1>2, <2>1, <3>1
  <2>3. j \in Of(w) /\ Place(j) = s
    BY <2>1, FilePlace DEF Of
  <2>4. ASSUME NEW i \in Of(w), Place(i) = s PROVE i = j
    <3>1. i \in Pixels /\ Word(X(i), LoadedRow(i)) = Word(c.x, Row(c.y))
          /\ Shift(LoadedRow(i)) = Shift(Row(c.y))
      BY <2>4 DEF Of
    <3>2. X(i) = c.x /\ LoadedRow(i) = Row(c.y)
      BY <3>1, BytePlace, LoadedPlace, PlaceUnique
    <3> QED BY <3>1, <3>2, FilePlace
  <2> HIDE DEF w, s, j, Place
  <2>5. ASSUME NEW b \in Mask(8), NEW i \in Of(w)
        PROVE  b + s \in Shifted(i) <=> i = j /\ b \in ByteOf(format, bytes[j])
    <3>1. i \in Pixels
      BY DEF Of
    <3>2. b + s \in Shifted(i) <=> \E k \in ByteOf(format, bytes[i]) : b + s = k + Place(i)
      BY DEF Shifted, ShiftLeft
    <3>3. \A k \in Mask(8) : b + s = k + Place(i) => Place(i) = s /\ k = b
      BY <1>1, <2>1, <3>1 DEF Mask
    <3> QED BY <1>1, <2>3, <2>4, <3>1, <3>2, <3>3
  <2>6. GetByte(c)' = {b \in Mask(8) : b \in ByteOf(format, bytes[j])}
    BY <2>2, <2>3, <2>5
  <2>7. GetByte(c)' = ByteOf(format, bytes[j])
    BY <1>1, <2>1, <2>6
  <2> QED BY <2>7 DEF j
<1> QED
  BY <1>3, <1>4

---------------------------------------------------------------------------
(* The type of the state, and what is loaded.                              *)

Loading ==
  /\ loading = "no" => file = NoFile
  /\ loading # "no" => file \in [format : {"bmc", "bpc"}, bytes : Files] /\ held = Released

PxInv == TypeOK /\ Loading

LEMMA PxInit ==
  ASSUME Init PROVE PxInv
<1>1. words \in [WordIndices -> SUBSET Mask(32)]
  BY DEF Init, Zero
<1> QED
  BY <1>1 DEF Init, PxInv, TypeOK, Loading

\* One of the setters is called.
LEMMA SetterCalled ==
  ASSUME Setters
  PROVE  \E c \in Settable :
           \/ \E bit \in Bits : SetMaskBit(c, bit) \/ SetTestBit(c, bit)
           \/ \E thl \in Thresholds : SetLocThl(c, thl)
BY DEF Setters

LEMMA PxStep ==
  ASSUME PxInv, [Next]_vars PROVE PxInv'
<1>1. ASSUME NEW format \in {"bmc", "bpc"}, NEW bytes \in Files, LoadCall(format, bytes)
      PROVE  PxInv'
  BY <1>1 DEF LoadCall, Released, PxInv, TypeOK, Loading
<1>2. CASE LoadFopen
  BY <1>2 DEF LoadFopen, Released, PxInv, TypeOK, Loading
<1>3. CASE LoadMalloc
  BY <1>3 DEF LoadMalloc, Released, PxInv, TypeOK, Loading
<1>4. CASE LoadFread
  <2>1. file.bytes \in [Pixels -> SUBSET Mask(8)] /\ words' = Loaded(file.format, file.bytes)
    BY <1>4, PxAssumption DEF LoadFread, PxInv, Loading
  <2>2. WordsType'
    <3>1. PICK format, bytes : format = file.format /\ bytes = file.bytes
      OBVIOUS
    <3> QED BY <2>1, <3>1, FileLoaded
  <2> QED BY <1>4, <2>2 DEF LoadFread, LoadReturns, WordsType, PxInv, TypeOK, Loading
<1>5. CASE LoadFails
  <2>1. result' \in {"errno", "ENOMEM", "EIO"}
    BY <1>5 DEF LoadFails, Reason, PxInv, TypeOK
  <2> QED BY <1>5, <2>1 DEF LoadFails, PxInv, TypeOK, Loading
<1>6. CASE Setters
  <2>1. WordsType' /\ UNCHANGED <<loading, file, held, result>>
    <3>1. WordsType
      BY DEF PxInv, TypeOK, WordsType
    <3>2. PICK c \in Settable :
            \/ \E bit \in Bits : SetMaskBit(c, bit) \/ SetTestBit(c, bit)
            \/ \E thl \in Thresholds : SetLocThl(c, thl)
      BY <1>6, SetterCalled
    <3> QED BY <3>1, <3>2, SetterSteps DEF SetMaskBit, SetTestBit, SetLocThl
  <2> QED BY <2>1 DEF Released, WordsType, PxInv, TypeOK, Loading
<1>7. CASE UNCHANGED vars
  BY <1>7 DEF vars, Released, PxInv, TypeOK, Loading
<1> QED
  BY <1>1, <1>2, <1>3, <1>4, <1>5, <1>6, <1>7 DEF Next

LEMMA PxInvariant == Spec => []PxInv
BY PxInit, PxStep, PTL DEF Spec

\* Every variable keeps its type, and a loader that has returned, whether it
\* read its file or failed at any of its steps, holds neither the file nor
\* the buffer.
THEOREM PxTypeCorrect == Spec => []TypeOK
BY PxInvariant, PTL DEF PxInv

---------------------------------------------------------------------------
(* The setters and the getters.                                            *)

\* A setter of a field of a pixel changes that field of that pixel, and
\* nothing else the getters return: not the other fields of its byte, not
\* the three pixels that share its word.
THEOREM SettersReachTheirPixel == Spec => SettersSet
<1>1. ASSUME PxInv
      PROVE  \A c \in Settable :
               /\ \A bit \in Bits :
                    /\ SetMaskBit(c, bit) => Matrix' = [Matrix EXCEPT ![c].mask = (bit = {0})]
                    /\ SetTestBit(c, bit) => Matrix' = [Matrix EXCEPT ![c].test = (bit = {0})]
               /\ \A thl \in Thresholds :
                    SetLocThl(c, thl) => Matrix' = [Matrix EXCEPT ![c].loc_thl = thl]
  <2>1. WordsType
    BY <1>1 DEF PxInv, TypeOK, WordsType
  <2> QED BY <2>1, SetterSteps DEF IsSet
<1> QED
  BY <1>1, PxInvariant, PTL DEF SettersSet

---------------------------------------------------------------------------
(* The packed matrix is the matrix of PixelMatrix.                         *)

\* A pixel that differs by one field.
LEMMA FieldsOfPixel ==
  ASSUME NEW byte, NEW v
  PROVE  /\ PM!OneField(PixelOfByte(byte), [PixelOfByte(byte) EXCEPT !.mask = v])
         /\ PM!OneField(PixelOfByte(byte), [PixelOfByte(byte) EXCEPT !.loc_thl = v])
         /\ PM!OneField(PixelOfByte(byte), [PixelOfByte(byte) EXCEPT !.test = v])
<1>1. DOMAIN PixelOfByte(byte) = {"mask", "loc_thl", "test"}
  BY DEF PixelOfByte
<1>2. ASSUME NEW g \in {"mask", "loc_thl", "test"}
      PROVE  PM!OneField(PixelOfByte(byte), [PixelOfByte(byte) EXCEPT ![g] = v])
  <2> DEFINE old == PixelOfByte(byte)
             new == [PixelOfByte(byte) EXCEPT ![g] = v]
  <2>1. {f \in DOMAIN old : old[f] # new[f]} \subseteq {g}
    BY <1>1
  <2> HIDE DEF old, new
  <2>2. PM!OneField(old, new)
    BY <2>1 DEF PM!OneField, PM!AtMostOne
  <2> QED BY <2>2 DEF old, new
<1> QED
  BY <1>2

\* A matrix that differs by one pixel, which differs by one field.
LEMMA PixelsOfMatrix ==
  ASSUME NEW c \in Coord, NEW pixel, PM!OneField(Matrix[c], pixel),
         Matrix' = [Matrix EXCEPT ![c] = pixel], UNCHANGED <<file, result>>
  PROVE  PM!SetField
<1>1. PICK old, new : old = Matrix /\ new = Matrix'
  OBVIOUS
<1>2. /\ DOMAIN old = Coord /\ new = [old EXCEPT ![c] = pixel] /\ PM!Coord = Coord
      /\ PM!OneField(old[c], pixel)
  BY <1>1 DEF Matrix, PM!Coord, Coord
<1>3. {d \in Coord : old[d] # new[d]} \subseteq {c} /\ new[c] = pixel
  BY <1>2
<1>4. PM!AtMostOne({d \in Coord : old[d] # new[d]})
  BY <1>3 DEF PM!AtMostOne
<1>5. \A d \in {e \in Coord : old[e] # new[e]} : PM!OneField(old[d], new[d])
  BY <1>2, <1>3
<1> QED
  <2>1. PM!AtMostOne({d \in PM!Coord : Matrix[d] # (Matrix')[d]})
    BY <1>1, <1>2, <1>4
  <2>2. \A d \in {e \in PM!Coord : Matrix[e] # (Matrix')[e]} : PM!OneField(Matrix[d], (Matrix')[d])
    BY <1>1, <1>2, <1>5
  <2> QED BY <2>1, <2>2 DEF PM!SetField

LEMMA SettersRefine ==
  ASSUME PxInv, Setters PROVE PM!SetField
<1>1. PICK c \in Settable :
        \/ \E bit \in Bits : SetMaskBit(c, bit) \/ SetTestBit(c, bit)
        \/ \E thl \in Thresholds : SetLocThl(c, thl)
  BY SetterCalled
<1>2. c \in Coord /\ WordsType
  BY PxAssumption DEF PxInv, TypeOK, WordsType
<1>3. PICK byte : Matrix[c] = PixelOfByte(byte)
  BY <1>2, MatrixOfBytes
<1>4. PICK pixel : PM!OneField(Matrix[c], pixel) /\ Matrix' = [Matrix EXCEPT ![c] = pixel]
  <2>1. \/ \E v : Matrix' = [Matrix EXCEPT ![c].mask = v]
        \/ \E v : Matrix' = [Matrix EXCEPT ![c].test = v]
        \/ \E v : Matrix' = [Matrix EXCEPT ![c].loc_thl = v]
    BY <1>1, <1>2, SetterSteps
  <2>2. \A v : /\ PM!OneField(Matrix[c], [Matrix[c] EXCEPT !.mask = v])
              /\ PM!OneField(Matrix[c], [Matrix[c] EXCEPT !.test = v])
              /\ PM!OneField(Matrix[c], [Matrix[c] EXCEPT !.loc_thl = v])
    BY <1>3, FieldsOfPixel
  <2>3. CASE \E v : Matrix' = [Matrix EXCEPT ![c].mask = v]
    BY <2>2, <2>3
  <2>4. CASE \E v : Matrix' = [Matrix EXCEPT ![c].test = v]
    BY <2>2, <2>4
  <2>5. CASE \E v : Matrix' = [Matrix EXCEPT ![c].loc_thl = v]
    BY <2>2, <2>5
  <2> QED BY <2>1, <2>3, <2>4, <2>5
<1>5. UNCHANGED <<file, result>>
  BY <1>1 DEF SetMaskBit, SetTestBit, SetLocThl
<1> QED
  BY <1>2, <1>4, <1>5, PixelsOfMatrix

LEMMA LoadRefines ==
  ASSUME PxInv, LoadFread PROVE PM!Load
<1>1. /\ file \in [format : {"bmc", "bpc"}, bytes : Files] /\ Files \subseteq [Pixels -> SUBSET Mask(8)]
      /\ words' = Loaded(file.format, file.bytes) /\ file' = NoFile /\ result' = "ok"
  BY PxAssumption DEF LoadFread, LoadReturns, PxInv, Loading
<1>2. PICK format \in {"bmc", "bpc"}, bytes \in Files : format = file.format /\ bytes = file.bytes
  BY <1>1
<1>3. \A c \in Coord : /\ GetByte(c)' = ByteOf(format, bytes[Columns * c.y + c.x])
                       /\ Columns * c.y + c.x \in Pixels
  BY <1>1, <1>2, FileLoaded, FilePlace
<1>4. \A c \in Coord : bytes[Columns * c.y + c.x] \in SUBSET Mask(8)
  BY <1>1, <1>2, <1>3
<1>5. \A c \in Coord :
        PixelOfByte(GetByte(c)') = PM!PixelOf(format, bytes[Columns * c.y + c.x])
  BY <1>3, <1>4, FormatMeans
<1>6. Matrix' = [c \in Coord |-> PM!PixelOf(format, bytes[Columns * c.y + c.x])]
  BY <1>5, MatrixOfBytes
<1>7. PM!Coord = Coord
  BY DEF PM!Coord, Coord
<1>8. ~PM!Idle /\ PM!Idle'
  BY <1>1 DEF PM!Idle, NoFile
<1> QED
  BY <1>1, <1>2, <1>6, <1>7, <1>8 DEF PM!Load

\* Packing and unpacking, the order of the rows and the two formats of files
\* agree: the matrix the getters read is that of PixelMatrix, whatever the
\* file: a setter changes one field of one pixel, a file that was read sets
\* every pixel by the byte at its position, a load that failed none.
THEOREM PackedIsPixelMatrix == Spec => IsPixelMatrix
<1>1. Init => PM!Init
  <2>1. ASSUME Init PROVE PM!Init
    <3>1. Matrix \in [Coord -> PM!Pixel]
      <4>1. \A c \in Coord : PixelOfByte(GetByte(c)) \in PM!Pixel
        <5>1. \A byte : Extract(byte, 1, 4) \in SUBSET (0..3)
          BY DEF Extract, Mask
        <5> QED BY <5>1 DEF PixelOfByte, PM!Pixel, IsSet
      <4> QED BY <4>1, MatrixOfBytes
    <3>2. PM!Coord = Coord /\ file.format = "none" /\ result = "none"
      BY <2>1 DEF Init, NoFile, PM!Coord, Coord
    <3> QED BY <3>1, <3>2 DEF PM!Init, PM!Idle
  <2> QED BY <2>1
<1>2. ASSUME PxInv, [Next]_vars PROVE [PM!Next]_<<Matrix, file, result>>
  <2>1. ASSUME UNCHANGED words PROVE UNCHANGED Matrix
    BY <2>1 DEF Matrix, GetMaskBit, GetLocThl, GetTestBit, GetByte, Extract
  <2>2. ASSUME NEW format \in {"bmc", "bpc"}, NEW bytes \in Files, LoadCall(format, bytes)
        PROVE  PM!LoadCall
    BY <1>2, <2>1, <2>2 DEF LoadCall, PxInv, Loading, NoFile, PM!LoadCall, PM!Idle, PM!Formats
  <2>3. CASE LoadFopen \/ LoadMalloc
    BY <2>1, <2>3 DEF LoadFopen, LoadMalloc
  <2>4. CASE LoadFread
    BY <1>2, <2>4, LoadRefines DEF PM!Next
  <2>5. CASE LoadFails
    <3>1. ~PM!Idle /\ PM!Idle'
      BY <1>2, <2>5 DEF LoadFails, PxInv, Loading, NoFile, PM!Idle
    <3>2. result' \in {"errno", "ENOMEM", "EIO"}
      BY <1>2, <2>5 DEF LoadFails, Reason, PxInv, TypeOK
    <3> QED BY <2>1, <2>5, <3>1, <3>2 DEF LoadFails, PM!LoadFails, PM!Next
  <2>6. CASE Setters
    BY <1>2, <2>6, SettersRefine DEF PM!Next
  <2>7. CASE UNCHANGED vars
    BY <2>1, <2>7 DEF vars
  <2> QED BY <1>2, <2>2, <2>3, <2>4, <2>5, <2>6, <2>7 DEF Next, PM!Next
<1> QED
  BY <1>1, <1>2, PxInvariant, PTL DEF Spec, IsPixelMatrix, PM!Spec
=============================================================================
