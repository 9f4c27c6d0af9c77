--------------------------- MODULE RequestChannel ---------------------------
(***************************************************************************)
(* What the packet layer of the remote serial protocol promises GDB: one   *)
(* request at a time, performed at least once (a repeated packet may       *)
(* repeat it, but only while it is the current one), then answered, and    *)
(* the answer is its own.                                                  *)
(***************************************************************************)
EXTENDS Naturals, Sequences, SequencesExt

VARIABLES
  asked,                    \* the number of requests
  performed,                \* the requests performed, in order
  answers                   \* the requests whose answers were taken, in order

Init == asked = 0 /\ performed = << >> /\ answers = << >>

Waiting == Len(answers) < asked

Ask == ~Waiting /\ asked' = asked + 1 /\ UNCHANGED <<performed, answers>>
Perform == Waiting /\ performed' = Append(performed, asked) /\ UNCHANGED <<asked, answers>>
Answer ==
  /\ Waiting /\ performed # << >> /\ Last(performed) = asked
  /\ answers' = Append(answers, asked) /\ UNCHANGED <<asked, performed>>

Spec == Init /\ [][Ask \/ Perform \/ Answer]_<<asked, performed, answers>>
=============================================================================
