---------------------------- MODULE FrameDelivery ----------------------------
(***************************************************************************)
(* What an acquisition promises its caller over a network that loses       *)
(* nothing: the frames of the readout are delivered one after another,     *)
(* each exactly once, complete and with all of its hits, until the number  *)
(* asked for is reached or the acquisition is given up.                    *)
(***************************************************************************)
EXTENDS Naturals, Sequences

CONSTANTS
  Requests,  \* numbers of frames a caller may ask for
  Hits       \* hits of a frame

VARIABLES
  asked,     \* frames asked for
  frames,    \* frames delivered, in order
  verdict    \* "none", "measuring", "succeeded" or "given_up"

vars == <<asked, frames, verdict>>

\* A delivered frame: its number, the hits the readout says it sent and the
\* hits the caller was given.
Frame(k) == [number |-> k, sent |-> Hits, received |-> Hits]

Init == asked = 0 /\ frames = <<>> /\ verdict = "none"

Start ==
  /\ verdict = "none"
  /\ asked' \in Requests
  /\ verdict' = "measuring"
  /\ UNCHANGED frames

Deliver ==
  /\ verdict = "measuring"
  /\ frames' = Append(frames, Frame(Len(frames)))
  /\ verdict' = IF Len(frames') = asked THEN "succeeded" ELSE "measuring"
  /\ UNCHANGED asked

GiveUp ==
  /\ verdict = "measuring"
  /\ verdict' = "given_up"
  /\ UNCHANGED <<asked, frames>>

Next == Start \/ Deliver \/ GiveUp

Spec == Init /\ [][Next]_vars
==============================================================================
