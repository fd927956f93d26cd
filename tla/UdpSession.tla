----------------------------- MODULE UdpSession -----------------------------
(***************************************************************************)
(* A UDP session (c/src/udp_nix.c and its twin c/src/udp_win.c): opening   *)
(* with its clean-up, the receive functions with the pinned remote and the *)
(* discard budget, and the functions that name the remote.                 *)
(*                                                                         *)
(* The application is open: it may open and close the session, pin it,     *)
(* name a remote and receive in any order, one call at a time.  So is the  *)
(* network: datagrams of any host arrive at any time, without end.  A      *)
(* datagram is its sender and its length.  The twins differ in what opens  *)
(* a session and in what becomes of a datagram longer than the buffer.     *)
(***************************************************************************)
EXTENDS Integers, Sequences

CONSTANTS
  Hosts, Address,  \* [host, port]; a host may have several ports
  Lengths,      \* lengths of datagrams
  Traffic,      \* datagrams the network may deliver
  Counts,       \* lengths of the buffers passed to the receive functions
  MaxDiscards,  \* KATHERINE_UDP_PIN_MAX_DISCARDS
  Platforms,    \* "nix", "win"
  RxCap,        \* datagrams the receive buffer of the socket holds
  MaxEmpty      \* bound on the empty datagrams that arrive

Datagram == [from : Address, len : Lengths]

ASSUME UdpAssumption ==
  /\ Address # {} /\ \A a \in Address : a.host \in Hosts
  /\ Traffic \subseteq Datagram
  /\ Lengths \subseteq Nat /\ Counts \subseteq Nat \ {0}
  /\ MaxDiscards \in Nat \ {0} /\ RxCap \in Nat /\ MaxEmpty \in Nat
  /\ Platforms \subseteq {"nix", "win"}

VARIABLES
  platform,       \* the twin that was built
  stage,          \* "closed", a step of init_bound, or "open"
  held,           \* resources the session holds
  timed,          \* the socket has a receive timeout
  addr_remote, remote_pinned,
  rx,             \* the receive buffer of the socket
  call,           \* the receive function under way
  count, total, discarded,
  result,         \* code returned by the last receive
  \* History variables, read by the properties only.
  named,          \* the remote the application named last, or pinned as it found it
  heard,          \* what the receive function has taken: [len, bytes taken of it]
  strangers,      \* datagrams of other hosts discarded since the last one taken
  waiting,        \* an answer of the pinned remote was there to be received
  n_empty         \* empty datagrams so far

setup == <<platform, stage, held, timed>>
receive == <<call, count, total, discarded, result, heard, strangers, waiting>>
vars == <<setup, addr_remote, remote_pinned, rx, receive, named, n_empty>>

\* Init: no session; its storage is uninitialized.
Init ==
  /\ platform \in Platforms
  /\ stage = "closed" /\ held = {} /\ timed = FALSE
  /\ addr_remote \in Address /\ remote_pinned \in BOOLEAN
  /\ named = addr_remote
  /\ rx = <<>>
  /\ call = "none" /\ count = 0 /\ total = 0 /\ discarded = 0
  /\ result = "none" /\ heard = <<>> /\ strangers = 0 /\ waiting = FALSE
  /\ n_empty = 0

---------------------------------------------------------------------------
(* katherine_udp_init_bound: step by step, the clean-up on failure.        *)

FirstStep == IF platform = "win" THEN "wsa" ELSE "socket"

StepAfter(s) ==
  CASE s = "wsa" -> "socket"
    [] s = "socket" -> IF platform = "win" THEN "bind" ELSE "reuseaddr"
    [] s = "reuseaddr" -> "bind"
    [] s = "bind" -> "timeout"
    [] s = "timeout" -> "remote"
    [] s = "remote" -> "mutex"
    [] OTHER -> "open"

Opening == {"wsa", "socket", "reuseaddr", "bind", "timeout", "remote", "mutex"}

\* What a step acquires.
Acquired(s) == {s} \cap {"wsa", "socket", "mutex"}

\* What the labels err_* release when step s has failed.
ReleasedOnFailure(s) ==
  CASE s = "wsa" -> {}
    [] s = "socket" -> {"wsa"}
    [] OTHER -> {"wsa", "socket"}

InitCall(t) ==
  /\ stage = "closed"
  /\ stage' = FirstStep /\ timed' = t
  /\ remote_pinned' = FALSE
  /\ UNCHANGED <<platform, held, addr_remote, rx, receive, named, n_empty>>

\* The remote is written by the step that parses it.
InitStep(a) ==
  /\ stage \in Opening
  /\ stage' = StepAfter(stage)
  /\ held' = held \cup Acquired(stage)
  /\ addr_remote' = IF stage = "remote" THEN a ELSE addr_remote
  /\ named' = addr_remote'
  /\ UNCHANGED <<platform, timed, remote_pinned, rx, receive, n_empty>>

\* No timeout is set when none is asked for.
InitFails ==
  /\ stage \in Opening /\ (stage = "timeout" => timed)
  /\ stage' = "closed"
  /\ held' = held \ ReleasedOnFailure(stage)
  /\ rx' = <<>>
  /\ UNCHANGED <<platform, timed, addr_remote, remote_pinned, receive, named, n_empty>>

\* What a receive function left in its locals means nothing any more.
Forget ==
  /\ count' = 0 /\ total' = 0 /\ discarded' = 0
  /\ result' = "none" /\ heard' = <<>> /\ strangers' = 0 /\ waiting' = FALSE

Usable == stage = "open" /\ call = "none"

ReleasedByFini == {"socket", "mutex"} \cup (IF platform = "win" THEN {"wsa"} ELSE {})

Fini ==
  /\ Usable
  /\ stage' = "closed" /\ held' = held \ ReleasedByFini /\ rx' = <<>>
  /\ Forget
  /\ UNCHANGED <<platform, timed, addr_remote, remote_pinned, call, named, n_empty>>

---------------------------------------------------------------------------
(* The remote.                                                             *)

\* A string that is no address is refused and leaves the remote alone.
SetRemote(a) ==
  /\ Usable
  /\ addr_remote' = a /\ named' = a
  /\ UNCHANGED <<setup, remote_pinned, rx, receive, n_empty>>

\* The pin is on whatever the remote has come to be.
PinRemote ==
  /\ Usable
  /\ remote_pinned' = TRUE
  /\ UNCHANGED <<setup, addr_remote, rx, receive, named, n_empty>>

\* Faulty variant: the port is compared as well.
FromPinnedAddress(from) == from = addr_remote

FromPinnedRemote(from) == from.host = addr_remote.host

---------------------------------------------------------------------------
(* The receive functions.                                                  *)

AnswerThere(q) ==
  remote_pinned /\ \E i \in DOMAIN q : q[i].from.host = addr_remote.host

ReceiveCall(kind, n) ==
  /\ Usable
  /\ call' = kind /\ count' = n
  /\ total' = 0 /\ discarded' = 0 /\ result' = "none"
  /\ heard' = <<>> /\ strangers' = 0
  /\ waiting' = AnswerThere(rx)
  /\ UNCHANGED <<setup, addr_remote, remote_pinned, rx, named, n_empty>>

Returns(res) == call' = "none" /\ result' = res

\* Faulty variant: each datagram may fill the whole buffer.
RoomWhole == count

Room == count - total

TooLong(dg) == platform = "win" /\ dg.len > Room

BytesTaken(dg) == IF dg.len > Room THEN Room ELSE dg.len

\* katherine_udp_recv takes one datagram, katherine_udp_recv_exact as many as
\* it needs.
Satisfied(t) == call = "recv" \/ t >= count

\* recvfrom has taken dg for the caller; POSIX cuts what is too long.
Accept(dg) ==
  /\ ~TooLong(dg)
  /\ heard' = Append(heard, [len |-> dg.len, bytes |-> BytesTaken(dg)])
  /\ total' = total + BytesTaken(dg)
  /\ IF Satisfied(total') THEN Returns("ok") ELSE UNCHANGED <<call, result>>
  /\ discarded' = 0 /\ strangers' = 0
  /\ waiting' = AnswerThere(Tail(rx))

\* Winsock fails with WSAEMSGSIZE, the datagram is gone.
Refuse(dg) ==
  /\ TooLong(dg)
  /\ Returns("EMSGSIZE")
  /\ UNCHANGED <<heard, total, discarded, strangers, waiting>>

BudgetSpent == discarded + 1 = MaxDiscards

\* A datagram of another host is discarded, be it too long or not.
Discard(dg) ==
  /\ discarded' = discarded + 1
  /\ strangers' = strangers + (IF dg.from.host # named.host THEN 1 ELSE 0)
  /\ IF BudgetSpent THEN Returns("EAGAIN") ELSE UNCHANGED <<call, result>>
  /\ UNCHANGED <<heard, total, waiting>>

Receiving == stage = "open" /\ call # "none"

\* recv_pinned
ReceivePinned ==
  /\ Receiving /\ rx # <<>> /\ remote_pinned
  /\ IF FromPinnedRemote(Head(rx).from)
     THEN Accept(Head(rx)) \/ Refuse(Head(rx))
     ELSE Discard(Head(rx))
  /\ rx' = Tail(rx)
  /\ UNCHANGED <<setup, addr_remote, remote_pinned, count, named, n_empty>>

\* Faulty variant: a pinned session follows the sender as well.
AdoptAlways == TRUE

AdoptsSender == ~remote_pinned

\* recv_datagram without a pin: the sender becomes the remote, also when its
\* datagram is refused.
ReceiveAdopting ==
  /\ Receiving /\ rx # <<>> /\ AdoptsSender
  /\ Accept(Head(rx)) \/ Refuse(Head(rx))
  /\ addr_remote' = Head(rx).from
  /\ named' = IF remote_pinned THEN named ELSE addr_remote'
  /\ rx' = Tail(rx)
  /\ UNCHANGED <<setup, remote_pinned, count, n_empty>>

Fails(err) ==
  /\ Receiving
  /\ Returns(err)
  /\ UNCHANGED <<setup, addr_remote, remote_pinned, rx, count, total, discarded,
                 heard, strangers, waiting, named, n_empty>>

\* Faulty variant: the receive timeout was never set on the socket.
TimeoutUnset == FALSE

TimeoutSet == timed

\* recvfrom times out (EAGAIN; WSAETIMEDOUT and WSAEWOULDBLOCK on Windows).
ReceiveTimesOut == rx = <<>> /\ TimeoutSet /\ Fails("EAGAIN")

\* Any other error, at any time.
ReceiveInterrupted == Fails("EINTR")

ReceiveGoesOn == ReceivePinned \/ ReceiveAdopting \/ ReceiveTimesOut

---------------------------------------------------------------------------
(* The network: a bound socket takes what arrives while it has room.       *)

Bound == stage \in {"timeout", "remote", "mutex", "open"}

Arrives(dg) ==
  /\ Bound /\ Len(rx) < RxCap
  /\ rx' = Append(rx, dg)
  /\ IF dg.len = 0 THEN n_empty < MaxEmpty /\ n_empty' = n_empty + 1
                   ELSE n_empty' = n_empty
  /\ UNCHANGED <<setup, addr_remote, remote_pinned, receive, named>>

---------------------------------------------------------------------------

Application ==
  \/ \E t \in BOOLEAN : InitCall(t)
  \/ \E a \in Address : InitStep(a) \/ SetRemote(a)
  \/ InitFails \/ Fini \/ PinRemote
  \/ \E n \in Counts, kind \in {"recv", "recv_exact"} : ReceiveCall(kind, n)

Next ==
  \/ Application
  \/ ReceiveGoesOn \/ ReceiveInterrupted
  \/ \E dg \in Traffic : Arrives(dg)

Spec == Init /\ [][Next]_vars

(***************************************************************************)
(* Fairness: a thread inside a receive function takes what is there, or    *)
(* its recvfrom times out.  Nothing is assumed of callers and senders.     *)
(***************************************************************************)
FairSpec == Spec /\ WF_vars(ReceiveGoesOn)

---------------------------------------------------------------------------
(* Properties                                                              *)

Results == {"none", "ok", "EAGAIN", "EINTR", "EMSGSIZE"}
Resources == {"wsa", "socket", "mutex"}
Piece == [len : Lengths, bytes : Nat]

\* Every variable keeps its type.
UdpTypeOK ==
  /\ platform \in Platforms /\ stage \in Opening \cup {"closed", "open"}
  /\ held \subseteq Resources /\ timed \in BOOLEAN
  /\ addr_remote \in Address /\ named \in Address /\ remote_pinned \in BOOLEAN
  /\ rx \in Seq(Datagram)
  /\ call \in {"none", "recv", "recv_exact"} /\ result \in Results
  /\ count \in Counts \cup {0} /\ total \in Nat /\ discarded \in 0..MaxDiscards
  /\ heard \in Seq(Piece) /\ strangers \in Nat /\ waiting \in BOOLEAN
  /\ n_empty \in 0..MaxEmpty

\* However init_bound fails, and after fini, a session holds nothing (the
\* error labels of katherine_udp_init_bound).
NoLeak == stage = "closed" => held = {}

\* No stranger moves the remote of a pinned session: it stays what the
\* application has last named, so the next message goes there (the comment
\* of katherine_udp_pin_remote).
PinHolds == stage = "open" /\ remote_pinned => addr_remote = named

\* What a pinned session hands to its caller comes from the host named last.
NoStrangerHeard ==
  [][heard' # heard /\ heard' # <<>> /\ remote_pinned
       => Head(rx).from.host = named.host]_vars

\* recv_exact never writes past the message, joins whole datagrams only, and
\* on success has the whole message.
MessageWhole ==
  /\ total <= count
  /\ \A i \in DOMAIN heard : i < Len(heard) => heard[i].bytes = heard[i].len
  /\ result = "ok" /\ heard # <<>> =>
       total = count \/ (Len(heard) = 1 /\ heard[1].bytes = heard[1].len)

\* A receive that reports a time-out although an answer was waiting when it
\* began has spent the whole discard budget on strangers.
TimeoutIsEarned ==
  result = "EAGAIN" /\ waiting => strangers = MaxDiscards

\* With a receive timeout every receive returns, however many datagrams
\* strangers send: the discards of each datagram are bounded.
ReceiveReturns == call # "none" /\ timed ~> call = "none"
=============================================================================
