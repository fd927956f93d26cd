----------------------------- MODULE Bitfields ------------------------------
(***************************************************************************)
(* Words, bytes and fields (c/src/bitfields.h).  A word is the set of the  *)
(* positions of its bits: "|" is union, "&" intersection, a shift moves    *)
(* every member.  A field is where it starts and its width.                *)
(***************************************************************************)
EXTENDS Integers

\* MASK(n)
Mask(n) == 0..(n - 1)

ShiftLeft(bits, n) == {b + n : b \in bits}

\* EXTRACT
Extract(val, start, width) == {b \in Mask(width) : b + start \in val}

\* INSERT
Insert(val, start, width, x) ==
  (val \ ShiftLeft(Mask(width), start)) \cup ShiftLeft(x \cap Mask(width), start)
=============================================================================
