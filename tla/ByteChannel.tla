---------------------------- MODULE ByteChannel ----------------------------
(***************************************************************************)
(* What each direction of the JTAG serial port promises: a first-in        *)
(* first-out channel.  The k-th byte that goes in is named k, so the       *)
(* channel is its two ends: bytes got+1 .. put are inside, in this order.  *)
(***************************************************************************)
EXTENDS Naturals, Sequences

VARIABLES
  q,                        \* what is inside
  put,                      \* bytes that have gone in
  got                       \* bytes that have come out

Init == q = <<>> /\ put = 0 /\ got = 0

(* Bytes go in, in the order they were sent. *)
Put ==
  /\ put' > put
  /\ got' = got
  /\ q' = q \o [k \in 1..(put' - put) |-> put + k]

(* The oldest bytes come out, and they are the ones that went in first. *)
Get ==
  /\ got' > got
  /\ got' - got <= Len(q)
  /\ put' = put
  /\ \A k \in 1..(got' - got) : q[k] = got + k
  /\ q' = SubSeq(q, got' - got + 1, Len(q))

Spec == Init /\ [][Put \/ Get]_<<q, put, got>>
=============================================================================
