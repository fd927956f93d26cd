----------------------------- MODULE MCPxConfig -----------------------------
(***************************************************************************)
(* A matrix of two columns and eight rows: two words a column.  One file   *)
(* has a different byte in each pixel, the other has the spare bits set.   *)
(***************************************************************************)
EXTENDS PxConfig

BitsOf(n) == {b \in Mask(6) : (n \div 2^b) % 2 = 1}
EveryByteOnce == [i \in Pixels |-> BitsOf(5 * i)]
SpareBits == [i \in Pixels |-> IF i % 3 = 0 THEN {6, 7} ELSE {}]
SomeFiles == {EveryByteOnce, SpareBits}


\* Two pixels of one word; the others are to stay as they are.
Neighbours == {[x |-> 1, y |-> 1], [x |-> 1, y |-> 2]}
OneThreshold == {{0, 2, 3}}
=============================================================================
