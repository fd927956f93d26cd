---------------------------- MODULE PixelMatrix -----------------------------
(***************************************************************************)
(* What the pixel configuration promises (c/include/katherine/px_config.h):*)
(* a matrix of pixels, each with a mask bit, a test bit and a threshold    *)
(* adjustment of four bits.  A setter changes one field of one pixel, and  *)
(* a file, a byte per pixel and row by row, either sets all pixels or, when*)
(* it cannot be read, none.                                                *)
(***************************************************************************)
EXTENDS Integers

CONSTANTS Columns, Rows, Files

VARIABLES
  pixels,
  file,     \* the file that is being loaded: [format, bytes]
  result    \* the outcome of the last load

Coord == [x : 0..(Columns - 1), y : 0..(Rows - 1)]
Pixel == [mask : BOOLEAN, loc_thl : SUBSET (0..3), test : BOOLEAN]
Formats == {"bmc", "bpc"}

\* The BPC format has the bits of the threshold in reverse order.
ThlBit(format, b) == IF format = "bmc" THEN b + 1 ELSE 4 - b

PixelOf(format, byte) ==
  [mask |-> 0 \in byte,
   loc_thl |-> {b \in 0..3 : ThlBit(format, b) \in byte},
   test |-> 5 \in byte]

Idle == file.format = "none"

Init == pixels \in [Coord -> Pixel] /\ Idle /\ result = "none"

\* One at most is set: none changes when it is set to what it is.
AtMostOne(S) == \A a, b \in S : a = b

OneField(old, new) == AtMostOne({f \in DOMAIN old : old[f] # new[f]})

SetField ==
  LET before == pixels
      after == pixels'
      changed == {c \in Coord : before[c] # after[c]}
  IN /\ AtMostOne(changed)
     /\ \A c \in changed : OneField(before[c], after[c])
     /\ UNCHANGED <<file, result>>

LoadCall ==
  /\ Idle
  /\ file' \in [format : Formats, bytes : Files]
  /\ UNCHANGED <<pixels, result>>

Load ==
  /\ ~Idle
  /\ pixels' = [c \in Coord |-> PixelOf(file.format, file.bytes[Columns * c.y + c.x])]
  /\ Idle' /\ result' = "ok"

LoadFails ==
  /\ ~Idle
  /\ Idle' /\ result' \in {"errno", "ENOMEM", "EIO"}
  /\ UNCHANGED pixels

Next == SetField \/ LoadCall \/ Load \/ LoadFails

Spec == Init /\ [][Next]_<<pixels, file, result>>
=============================================================================
