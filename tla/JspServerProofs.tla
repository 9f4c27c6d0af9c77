-------------------------- MODULE JspServerProofs --------------------------
(***************************************************************************)
(* Proofs about the JTAG serial port server, for rings and transactions of *)
(* any size: the type invariant, and that each ring implements a first-in  *)
(* first-out channel.                                                      *)
(***************************************************************************)
EXTENDS JspServer, WellFoundedInduction, SequenceTheorems, TLAPS

N == JSP_BUFFER_SIZE
At(a) == a % N

(***************************************************************************)
(* A monitor event that select() reported is still there to be read.       *)
(***************************************************************************)
TypeInv == JspTypeOK /\ (pc = "event" => pipe # <<>>)

(***************************************************************************)
(* A ring in order: the write index is count bytes past the read index,    *)
(* nothing is missing between the bytes that went in and those that came   *)
(* out, and the bytes inside are in their places.                          *)
(***************************************************************************)
RingInv(buf, rd, wr, count, put, got) ==
  /\ count <= N
  /\ wr = At(rd + count)
  /\ put = got + count
  /\ \A k \in 1..count : buf[At(rd + k - 1)] = got + k

ToHwInv ==
  RingInv(tohw_buf, jsp_tohw_rd_idx, jsp_tohw_wr_idx, jsp_tohw_count, rcvd, hwGot)

(***************************************************************************)
(* The second ring has no test for room.  It does not overrun because the  *)
(* two send() calls together empty it before each transaction: the first   *)
(* stops at the end of the array at worst, so the second finds the rest    *)
(* from index 0 on.                                                        *)
(***************************************************************************)
FromHwInv ==
  /\ RingInv(fromhw_buf, jsp_fromhw_rd_idx, jsp_fromhw_wr_idx, jsp_fromhw_count, hwSent, out)
  /\ pc = "send2" => jsp_fromhw_count = 0 \/ jsp_fromhw_rd_idx = 0
  /\ pc = "transact" => jsp_fromhw_count = 0

-----------------------------------------------------------------------------
(***************************************************************************)
(* An index that has advanced by at most the size of the ring, taken       *)
(* modulo that size, as every index in jsp_server.c is: it is itself or    *)
(* has wrapped once.                                                       *)
(***************************************************************************)
LEMMA Wrap ==
  ASSUME NEW m \in Nat \ {0}, NEW a \in 0..(2 * m - 1)
  PROVE  a % m = IF a < m THEN a ELSE a - m
<1>1. a % m \in 0..(m - 1)
  OBVIOUS
<1>2. CASE a < m
  BY <1>2
<1>3. CASE a >= m
  BY <1>3
<1> QED BY <1>2, <1>3

(***************************************************************************)
(* The same for the two rings: where the byte a places past index 0 is.    *)
(***************************************************************************)
LEMMA AtWraps ==
  /\ N \in Nat \ {0}
  /\ Idx = 0..(N - 1)
  /\ \A a \in 0..(2 * N - 1) : At(a) = IF a < N THEN a ELSE a - N
<1>1. N \in Nat \ {0} /\ Idx = 0..(N - 1)
  BY JspAssumption DEF N, Idx
<1>2. ASSUME NEW a \in 0..(2 * N - 1) PROVE At(a) = IF a < N THEN a ELSE a - N
  BY <1>1, Wrap DEF At
<1> QED BY <1>1, <1>2

(***************************************************************************)
(* The bytes that one transaction brings have a last one for each place of *)
(* the ring they are stored to, or none.                                   *)
(***************************************************************************)
LEMMA Largest ==
  ASSUME NEW m \in Nat, NEW T, T \subseteq 1..m, T # {}
  PROVE  \E k \in T : \A j \in T : j <= k
<1> DEFINE D == {d \in Nat : m - d \in T}
<1>1. \A k \in T : m - k \in D
  <2>1. SUFFICES ASSUME NEW k \in T PROVE m - k \in Nat /\ m - (m - k) = k
    OBVIOUS
  <2>2. k \in 1..m
    OBVIOUS
  <2> QED BY <2>2
<1>2. D \subseteq Nat /\ D # {}
  BY <1>1
<1>3. PICK x \in D : \A y \in D : ~ (<<y, x>> \in OpToRel(<, Nat))
  BY <1>2, WFMin, NatLessThanWellFounded
<1>4. \A y \in D : ~ (y < x)
  BY <1>2, <1>3 DEF OpToRel
<1>5. \A j \in T : j <= m - x
  <2>1. SUFFICES ASSUME NEW j \in T PROVE j <= m - x
    OBVIOUS
  <2>2. j \in 1..m /\ x \in Nat /\ ~ (m - j < x)
    BY <1>1, <1>4
  <2> QED BY <2>2
<1> QED BY <1>5

(***************************************************************************)
(* The channel's contents when bytes go in and when the oldest come out:   *)
(* bytes with consecutive names stay consecutive.                          *)
(***************************************************************************)
Bytes(g, c) == [k \in 1..c |-> g + k]

LEMMA BytesPut ==
  ASSUME NEW g \in Nat, NEW c \in Nat, NEW n \in Nat
  PROVE  Bytes(g, c + n) = Bytes(g, c) \o [k \in 1..n |-> g + c + k]
<1> DEFINE t == [k \in 1..n |-> g + c + k]
<1>1. Bytes(g, c) \in Seq(Nat) /\ Len(Bytes(g, c)) = c
  BY DEF Bytes
<1>2. Bytes(g, c + n) \in Seq(Nat) /\ Len(Bytes(g, c + n)) = c + n
  BY DEF Bytes
<1>3. t \in Seq(Nat) /\ Len(t) = n /\ \A i \in 1..n : t[i] = g + c + i
  OBVIOUS
<1> HIDE DEF t
<1>4. /\ Bytes(g, c) \o t \in Seq(Nat)
      /\ Len(Bytes(g, c) \o t) = c + n
      /\ \A i \in 1..(c + n) : (Bytes(g, c) \o t)[i] =
            IF i <= c THEN Bytes(g, c)[i] ELSE t[i - c]
  <2> DEFINE b == Bytes(g, c)
  <2> HIDE DEF b
  <2>1. b \in Seq(Nat) /\ Len(b) = c
    BY <1>1 DEF b
  <2>2. /\ b \o t \in Seq(Nat)
        /\ Len(b \o t) = Len(b) + Len(t)
        /\ \A i \in 1..(Len(b) + Len(t)) :
             (b \o t)[i] = IF i <= Len(b) THEN b[i] ELSE t[i - Len(b)]
    BY <1>3, <2>1, ConcatProperties, Zenon
  <2> QED BY <1>3, <2>1, <2>2 DEF b
<1>5. ASSUME NEW i \in 1..(c + n)
      PROVE  Bytes(g, c + n)[i] = (Bytes(g, c) \o t)[i]
  <2> DEFINE b == (Bytes(g, c) \o t)[i]
  <2>1. b = IF i <= c THEN Bytes(g, c)[i] ELSE t[i - c]
    BY <1>4
  <2> HIDE DEF b
  <2>2. b = g + i
    <3>1. CASE i <= c
      BY <2>1, <3>1 DEF Bytes
    <3>2. CASE ~ (i <= c)
      <4>1. i - c \in 1..n
        BY <3>2
      <4> QED BY <1>3, <2>1, <3>2, <4>1
    <3> QED BY <3>1, <3>2
  <2>3. Bytes(g, c + n)[i] = g + i
    BY DEF Bytes
  <2> QED BY <2>2, <2>3 DEF b
<1>6. Bytes(g, c + n) = Bytes(g, c) \o t
  BY <1>2, <1>4, <1>5, SeqEqual
<1> QED BY <1>6 DEF t

(***************************************************************************)
(* And when the oldest n of c bytes come out, the first of them is the one *)
(* after the last that came out before.                                    *)
(***************************************************************************)
LEMMA BytesGet ==
  ASSUME NEW g \in Nat, NEW c \in Nat, NEW n \in 0..c
  PROVE  /\ Len(Bytes(g, c)) = c
         /\ \A k \in 1..n : Bytes(g, c)[k] = g + k
         /\ Bytes(g + n, c - n) = SubSeq(Bytes(g, c), n + 1, c)
<1>1. Bytes(g, c) \in Seq(Nat) /\ Len(Bytes(g, c)) = c
  BY DEF Bytes
<1>2. Bytes(g + n, c - n) \in Seq(Nat) /\ Len(Bytes(g + n, c - n)) = c - n
  BY DEF Bytes
<1>3. \A i \in (n + 1)..c : Bytes(g, c)[i] = g + i /\ Bytes(g, c)[i] \in Nat
  BY DEF Bytes
<1>4. /\ SubSeq(Bytes(g, c), n + 1, c) \in Seq(Nat)
      /\ Len(SubSeq(Bytes(g, c), n + 1, c)) = c - n
      /\ \A i \in 1..(c - n) : SubSeq(Bytes(g, c), n + 1, c)[i] = Bytes(g, c)[n + i]
  <2>1. n + 1 \in Int /\ c \in Int
    OBVIOUS
  <2>2. /\ SubSeq(Bytes(g, c), n + 1, c) \in Seq(Nat)
        /\ Len(SubSeq(Bytes(g, c), n + 1, c)) = IF n + 1 <= c THEN c - (n + 1) + 1 ELSE 0
        /\ \A i \in 1..(c - (n + 1) + 1) :
             SubSeq(Bytes(g, c), n + 1, c)[i] = Bytes(g, c)[(n + 1) + i - 1]
    BY <1>3, <2>1, SubSeqProperties
  <2>3. \A i \in 1..(c - n) : (n + 1) + i - 1 = n + i /\ i \in 1..(c - (n + 1) + 1)
    OBVIOUS
  <2> QED BY <2>2, <2>3
<1>5. \A i \in 1..(c - n) : Bytes(g + n, c - n)[i] = SubSeq(Bytes(g, c), n + 1, c)[i]
  BY <1>3, <1>4 DEF Bytes
<1>6. Bytes(g + n, c - n) = SubSeq(Bytes(g, c), n + 1, c)
  BY <1>2, <1>4, <1>5, SeqEqual
<1>7. \A k \in 1..n : Bytes(g, c)[k] = g + k
  BY DEF Bytes
<1> QED BY <1>1, <1>6, <1>7

-----------------------------------------------------------------------------
(***************************************************************************)
(* Storing n bytes at the write index of a ring with room for them.        *)
(***************************************************************************)
LEMMA RingPuts ==
  ASSUME NEW buf, NEW rd \in Idx, NEW wr \in Idx, NEW count \in Nat,
         NEW put \in Nat, NEW got \in Nat, RingInv(buf, rd, wr, count, put, got),
         NEW n \in Nat, n + count <= N, NEW buf2,
         \A k \in 1..n : buf2[At(wr + k - 1)] = put + k,
         \A i \in Idx : (\A k \in 1..n : At(wr + k - 1) # i) => buf2[i] = buf[i]
  PROVE  RingInv(buf2, rd, At(wr + n), count + n, put + n, got)
<1> USE AtWraps
<1>1. count <= N /\ wr = At(rd + count) /\ put = got + count
  BY DEF RingInv
<1>2. At(wr + n) = At(rd + (count + n))
  <2>1. wr = IF rd + count < N THEN rd + count ELSE rd + count - N
    BY <1>1
  <2>2. wr + n \in 0..(2 * N - 1)
    OBVIOUS
  <2>3. At(wr + n) = IF wr + n < N THEN wr + n ELSE wr + n - N
    BY <2>2
  <2>4. At(rd + (count + n)) = IF rd + (count + n) < N THEN rd + (count + n)
                                 ELSE rd + (count + n) - N
    BY <1>1
  <2> QED BY <2>1, <2>3, <2>4
<1>3. ASSUME NEW k \in 1..(count + n)
      PROVE  buf2[At(rd + k - 1)] = got + k
  <2>1. wr = IF rd + count < N THEN rd + count ELSE rd + count - N
    BY <1>1
  <2>2. At(rd + k - 1) = IF rd + k - 1 < N THEN rd + k - 1 ELSE rd + k - 1 - N
    <3>1. rd + k - 1 \in 0..(2 * N - 1)
      OBVIOUS
    <3> QED BY <3>1
  <2>3. \A j \in 1..n : At(wr + j - 1) = IF wr + j - 1 < N THEN wr + j - 1 ELSE wr + j - 1 - N
    <3>1. SUFFICES ASSUME NEW j \in 1..n
                   PROVE  At(wr + j - 1) = IF wr + j - 1 < N THEN wr + j - 1 ELSE wr + j - 1 - N
      OBVIOUS
    <3>2. wr + j - 1 \in 0..(2 * N - 1)
      OBVIOUS
    <3> QED BY <3>2
  <2>4. CASE k <= count
    <3>1. \A j \in 1..n : At(wr + j - 1) # At(rd + k - 1)
      BY <2>1, <2>2, <2>3, <2>4, <1>1
    <3>2. At(rd + k - 1) \in Idx
      BY <2>2
    <3>3. buf2[At(rd + k - 1)] = buf[At(rd + k - 1)]
      BY <3>1, <3>2
    <3> QED BY <3>3, <2>4 DEF RingInv
  <2>5. CASE k > count
    <3>1. k - count \in 1..n
      BY <2>5
    <3>2. At(wr + (k - count) - 1) = At(rd + k - 1)
      BY <2>1, <2>2, <2>3, <3>1, <1>1
    <3>3. buf2[At(wr + (k - count) - 1)] = put + (k - count)
      BY <3>1
    <3> QED BY <3>2, <3>3, <1>1
  <2> QED BY <2>4, <2>5
<1> QED BY <1>1, <1>2, <1>3 DEF RingInv

(***************************************************************************)
(* Taking the oldest n bytes out: the last of them is the one the channel  *)
(* promises.                                                               *)
(***************************************************************************)
LEMMA RingGets ==
  ASSUME NEW buf, NEW rd \in Idx, NEW wr \in Idx, NEW count \in Nat,
         NEW put \in Nat, NEW got \in Nat, RingInv(buf, rd, wr, count, put, got),
         NEW n \in 0..count
  PROVE  /\ RingInv(buf, At(rd + n), wr, count - n, put, got + n)
         /\ n > 0 => buf[At(rd + n - 1)] = got + n
<1> USE AtWraps
<1>1. count <= N /\ wr = At(rd + count) /\ put = got + count
  BY DEF RingInv
<1> DEFINE rd2 == At(rd + n)
<1>2. rd2 = IF rd + n < N THEN rd + n ELSE rd + n - N
  BY <1>1
<1> HIDE DEF rd2
<1>3. wr = At(rd2 + (count - n))
  <2>1. wr = IF rd + count < N THEN rd + count ELSE rd + count - N
    BY <1>1
  <2>2. rd2 + (count - n) \in 0..(2 * N - 1)
    BY <1>1, <1>2
  <2>3. At(rd2 + (count - n)) =
            IF rd2 + (count - n) < N THEN rd2 + (count - n)
            ELSE rd2 + (count - n) - N
    BY <1>1, <1>2, <2>2
  <2> QED BY <1>1, <1>2, <2>1, <2>3
<1>4. ASSUME NEW k \in 1..(count - n)
      PROVE  buf[At(rd2 + k - 1)] = got + n + k
  <2>1. rd2 + k - 1 \in 0..(2 * N - 1)
    BY <1>1, <1>2
  <2>2. At(rd2 + k - 1) =
            IF rd2 + k - 1 < N THEN rd2 + k - 1
            ELSE rd2 + k - 1 - N
    BY <1>1, <1>2, <2>1
  <2>3. n + k \in 1..count /\ rd + (n + k) - 1 \in 0..(2 * N - 1)
    BY <1>1
  <2>4. At(rd + (n + k) - 1) = IF rd + (n + k) - 1 < N THEN rd + (n + k) - 1
                                 ELSE rd + (n + k) - 1 - N
    BY <2>3
  <2>5. At(rd2 + k - 1) = At(rd + (n + k) - 1)
    BY <1>1, <1>2, <2>2, <2>4
  <2>6. buf[At(rd + (n + k) - 1)] = got + (n + k)
    BY <2>3 DEF RingInv
  <2> QED BY <2>5, <2>6
<1>5. RingInv(buf, rd2, wr, count - n, put, got + n)
  BY <1>1, <1>3, <1>4 DEF RingInv
<1>6. n > 0 => buf[At(rd + n - 1)] = got + n
  BY DEF RingInv
<1> QED BY <1>5, <1>6 DEF rd2

(***************************************************************************)
(* Seen as a channel, a ring in order holds the bytes after the last one   *)
(* that came out.                                                          *)
(***************************************************************************)
LEMMA RingIsBytes ==
  ASSUME NEW buf, NEW rd, NEW wr, NEW count, NEW put, NEW got,
         RingInv(buf, rd, wr, count, put, got)
  PROVE  Ring(buf, rd, count) = Bytes(got, count)
BY DEF RingInv, Ring, Bytes, At, N

-----------------------------------------------------------------------------
(***************************************************************************)
(* An index taken modulo the size of the ring is a place of the ring.      *)
(***************************************************************************)
LEMMA ModIdx == \A a \in Nat : a % JSP_BUFFER_SIZE \in Idx
BY JspAssumption DEF Idx

(***************************************************************************)
(* What a transaction may take is in the first ring, so the last byte it   *)
(* takes is a byte.                                                        *)
(***************************************************************************)
LEMMA LastTakenNat ==
  ASSUME TypeInv, NEW n \in 0..BytesToSend
  PROVE  n \in 0..jsp_tohw_count /\ LastTaken(n) \in Nat
<1>1. n \in 0..jsp_tohw_count
  BY JspAssumption DEF BytesToSend, Least, TypeInv, JspTypeOK
<1>2. CASE n = 0
  BY <1>1, <1>2 DEF LastTaken, TypeInv, JspTypeOK
<1>3. CASE n > 0
  <2>1. jsp_tohw_rd_idx + n - 1 \in Nat
    BY <1>1, <1>3, JspAssumption DEF TypeInv, JspTypeOK, Idx
  <2>2. (jsp_tohw_rd_idx + n - 1) % JSP_BUFFER_SIZE \in Idx
    BY <2>1, ModIdx
  <2> QED BY <1>1, <1>3, <2>2 DEF LastTaken, TypeInv, JspTypeOK
<1> QED BY <1>1, <1>2, <1>3

(***************************************************************************)
(* The type invariant is inductive, one step per action of the thread and  *)
(* of its environment.                                                     *)
(***************************************************************************)
LEMMA TypeStep == TypeInv /\ [JspNext]_vars => TypeInv'
<1> SUFFICES ASSUME TypeInv, [JspNext]_vars PROVE TypeInv'
  OBVIOUS
<1> USE JspAssumption
<1>1. CASE JspAccept
  BY <1>1 DEF JspAccept, TypeInv, JspTypeOK, tohw, fromhw
<1>2. CASE JspSelect
  BY <1>2 DEF JspSelect, Readable, AfterEvent, TypeInv, JspTypeOK, tohw, fromhw
<1>3. CASE JspEvent
  BY <1>3 DEF JspEvent, AfterEvent, TypeInv, JspTypeOK, tohw, fromhw
<1>4. CASE JspRecv
  <2>1. PICK n \in 1..Least(Space, sent - rcvd) : Received(n)
    BY <1>4 DEF JspRecv
  <2>2. n \in Nat /\ n <= JSP_BUFFER_SIZE - jsp_tohw_count
    BY <2>1 DEF Least, Space, TypeInv, JspTypeOK, Idx
  <2>3. (jsp_tohw_wr_idx + n) % JSP_BUFFER_SIZE \in Idx
    <3>1. jsp_tohw_wr_idx + n \in Nat
      BY <2>2 DEF TypeInv, JspTypeOK, Idx
    <3> QED BY <3>1, ModIdx
  <2>4. tohw_buf' \in [Idx -> Nat]
    BY <2>1, <2>2 DEF Received, TypeInv, JspTypeOK, Idx
  <2>5. jsp_tohw_count' \in 0..JSP_BUFFER_SIZE /\ rcvd' \in Nat
    BY <2>1, <2>2 DEF Received, TypeInv, JspTypeOK
  <2> QED
    BY <1>4, <2>1, <2>3, <2>4, <2>5 DEF JspRecv, Received, TypeInv, JspTypeOK, fromhw
<1>5. CASE JspRecvNothing
  BY <1>5 DEF JspRecvNothing, TypeInv, JspTypeOK, tohw, fromhw
<1>6. CASE JspSend
  <2>1. CASE jsp_fromhw_count > 0
    <3>1. PICK n \in Sendable : Passed(n)
      BY <1>6, <2>1 DEF JspSend
    <3>2. n \in Nat /\ n <= jsp_fromhw_count /\ n <= JSP_BUFFER_SIZE - jsp_fromhw_rd_idx
      BY <3>1 DEF Sendable, Available, Least, TypeInv, JspTypeOK, Idx
    <3>3. (jsp_fromhw_rd_idx + n) % JSP_BUFFER_SIZE \in Idx
      <4>1. jsp_fromhw_rd_idx + n \in Nat
        BY <3>2 DEF TypeInv, JspTypeOK, Idx
      <4> QED BY <4>1, ModIdx
    <3>4. out' \in Nat
      BY <3>1, <3>2 DEF Passed, TypeInv, JspTypeOK, Idx
    <3>5. jsp_fromhw_count' \in Nat
      BY <3>1, <3>2 DEF Passed, TypeInv, JspTypeOK
    <3> QED
      BY <1>6, <3>1, <3>3, <3>4, <3>5 DEF JspSend, Passed, TypeInv, JspTypeOK, tohw
  <2>2. CASE ~ (jsp_fromhw_count > 0)
    BY <1>6, <2>2 DEF JspSend, TypeInv, JspTypeOK, tohw, fromhw
  <2> QED BY <2>1, <2>2
<1>7. CASE JspTransact
  <2>1. PICK n \in 0..BytesToSend : Taken(n)
    BY <1>7 DEF JspTransact
  <2>2. PICK m \in 0..Least(XFER, MaxOut - hwSent) : Queued(m)
    BY <1>7 DEF JspTransact
  <2>3. n \in 0..jsp_tohw_count /\ LastTaken(n) \in Nat
    BY <2>1, LastTakenNat
  <2>4. m \in Nat
    BY <2>2 DEF Least, TypeInv, JspTypeOK
  <2>5. (jsp_tohw_rd_idx + n) % JSP_BUFFER_SIZE \in Idx
    <3>1. jsp_tohw_rd_idx + n \in Nat
      BY <2>3 DEF TypeInv, JspTypeOK, Idx
    <3> QED BY <3>1, ModIdx
  <2>6. (jsp_fromhw_wr_idx + m) % JSP_BUFFER_SIZE \in Idx
    <3>1. jsp_fromhw_wr_idx + m \in Nat
      BY <2>4 DEF TypeInv, JspTypeOK, Idx
    <3> QED BY <3>1, ModIdx
  <2>7. jsp_tohw_count' \in 0..JSP_BUFFER_SIZE
    BY <2>1, <2>3 DEF Taken, TypeInv, JspTypeOK
  <2>8. fromhw_buf' \in [Idx -> Nat]
    <3> DEFINE mine(i) == {k \in 1..m : QueuedAt(k) = i}
               last(i) == CHOOSE k \in mine(i) : \A j \in mine(i) : j <= k
    <3>1. fromhw_buf' = [i \in Idx |-> IF mine(i) = {} THEN fromhw_buf[i] ELSE hwSent + last(i)]
      BY <2>2 DEF Queued
    <3>2. ASSUME NEW i \in Idx, mine(i) # {} PROVE last(i) \in Nat
      <4>1. \E k \in mine(i) : \A j \in mine(i) : j <= k
        BY <2>4, <3>2, Largest
      <4>2. last(i) \in 1..m
        BY <4>1
      <4> QED BY <2>4, <4>2
    <3> HIDE DEF mine, last
    <3>3. fromhw_buf \in [Idx -> Nat] /\ hwSent \in Nat
      BY DEF TypeInv, JspTypeOK
    <3>4. \A i \in Idx : (IF mine(i) = {} THEN fromhw_buf[i] ELSE hwSent + last(i)) \in Nat
      BY <3>2, <3>3
    <3> QED BY <3>1, <3>4
  <2>9. /\ jsp_tohw_rd_idx' \in Idx /\ hwGot' \in Nat
        /\ UNCHANGED <<tohw_buf, jsp_tohw_wr_idx, rcvd>>
    BY <2>1, <2>3, <2>5 DEF Taken
  <2>10. /\ jsp_fromhw_wr_idx' \in Idx /\ jsp_fromhw_count' \in Nat /\ hwSent' \in Nat
         /\ UNCHANGED <<jsp_fromhw_rd_idx, out>>
    BY <2>2, <2>4, <2>6 DEF Queued, TypeInv, JspTypeOK
  <2> QED
    BY <1>7, <2>7, <2>8, <2>9, <2>10 DEF JspTransact, TypeInv, JspTypeOK
<1>8. CASE JspTransactFails
  <2>1. PICK n \in 0..BytesToSend : hwGot' = LastTaken(n)
    <3>1. BytesToSend \in Nat
      BY DEF BytesToSend, Least, TypeInv, JspTypeOK
    <3> QED BY <1>8, <3>1 DEF JspTransactFails
  <2>2. hwGot' \in Nat
    BY <2>1, LastTakenNat
  <2>3. hwSent' \in Nat
    BY <1>8 DEF JspTransactFails, Least, TypeInv, JspTypeOK
  <2> QED BY <1>8, <2>2, <2>3 DEF JspTransactFails, TypeInv, JspTypeOK
<1>9. CASE ClientSends
  BY <1>9 DEF ClientSends, TypeInv, JspTypeOK, tohw, fromhw
<1>10. CASE ClientHangsUp
  BY <1>10 DEF ClientHangsUp, TypeInv, JspTypeOK, tohw, fromhw
<1>11. CASE TargetChanges
  BY <1>11 DEF TargetChanges, TypeInv, JspTypeOK, tohw, fromhw
<1>12. CASE UNCHANGED vars
  BY <1>12 DEF vars, TypeInv, JspTypeOK, tohw, fromhw
<1> QED
  BY <1>1, <1>2, <1>3, <1>4, <1>5, <1>6, <1>7, <1>8, <1>9, <1>10, <1>11, <1>12
  DEF JspNext, JspThread

(***************************************************************************)
(* It holds when the thread starts.                                        *)
(***************************************************************************)
LEMMA TypeStart == JspInit => TypeInv
<1>1. 0 \in Idx /\ 0 \in 0..JSP_BUFFER_SIZE
  BY JspAssumption DEF Idx
<1> QED BY <1>1 DEF JspInit, TypeInv, JspTypeOK

(***************************************************************************)
(* The thread's variables, both rings and the bytes counted keep their     *)
(* types, whatever the client, the target and the port do and however      *)
(* transactions fail.                                                      *)
(***************************************************************************)
THEOREM JspTypes == JspSpec => []JspTypeOK
<1>1. JspSpec => []TypeInv
  BY TypeStart, TypeStep, PTL DEF JspSpec
<1>2. TypeInv => JspTypeOK
  BY DEF TypeInv
<1> QED BY <1>1, <1>2, PTL

-----------------------------------------------------------------------------
(***************************************************************************)
(* What a step does to the first ring: recv() puts n bytes in, the         *)
(* transaction takes n out, and everything else leaves it alone.           *)
(***************************************************************************)
ToHwPuts(n) ==
  jsp_tohw_count' = jsp_tohw_count + n /\ rcvd' = rcvd + n /\ hwGot' = hwGot
ToHwGets(n) ==
  jsp_tohw_count' = jsp_tohw_count - n /\ rcvd' = rcvd /\ hwGot' = hwGot + n

(***************************************************************************)
(* The first ring stays in order at every step, and each step is one of    *)
(* the three.                                                              *)
(***************************************************************************)
LEMMA ToHwStep ==
  ASSUME LateFaults = FALSE, TypeInv, ToHwInv, [JspNext]_vars
  PROVE  /\ ToHwInv'
         /\ \/ UNCHANGED tohw
            \/ \E n \in Nat \ {0} : ToHwPuts(n)
            \/ \E n \in 1..jsp_tohw_count : ToHwGets(n)
<1>1. /\ tohw_buf \in [Idx -> Nat] /\ jsp_tohw_rd_idx \in Idx /\ jsp_tohw_wr_idx \in Idx
      /\ jsp_tohw_count \in Nat /\ rcvd \in Nat /\ hwGot \in Nat /\ sent \in Nat
      /\ JSP_BUFFER_SIZE \in Nat
  BY JspAssumption DEF TypeInv, JspTypeOK
<1>2. CASE JspRecv
  <2>1. PICK n \in 1..Least(Space, sent - rcvd) : Received(n)
    BY <1>2 DEF JspRecv
  <2>2. n \in Nat \ {0} /\ n + jsp_tohw_count <= N /\ jsp_tohw_wr_idx + n <= N
    BY <1>1, <2>1 DEF Least, Space, Idx, N
  <2>3. \A k \in 1..n : At(jsp_tohw_wr_idx + k - 1) = jsp_tohw_wr_idx + k - 1
    BY <1>1, <2>2, AtWraps
  <2>4. \A k \in 1..n : jsp_tohw_wr_idx + k - 1 \in Idx
    BY <1>1, <2>2, AtWraps
  <2>5. tohw_buf' = [i \in Idx |-> IF i \in jsp_tohw_wr_idx..(jsp_tohw_wr_idx + n - 1)
                                   THEN rcvd + 1 + (i - jsp_tohw_wr_idx) ELSE tohw_buf[i]]
    BY <2>1 DEF Received
  <2>6. \A k \in 1..n : tohw_buf'[At(jsp_tohw_wr_idx + k - 1)] = rcvd + k
    <3>1. SUFFICES ASSUME NEW k \in 1..n
                   PROVE  tohw_buf'[jsp_tohw_wr_idx + k - 1] = rcvd + k
      BY <2>3
    <3>2. /\ jsp_tohw_wr_idx + k - 1 \in jsp_tohw_wr_idx..(jsp_tohw_wr_idx + n - 1)
          /\ rcvd + 1 + (jsp_tohw_wr_idx + k - 1 - jsp_tohw_wr_idx) = rcvd + k
      BY <1>1, <2>2, AtWraps
    <3> DEFINE x == jsp_tohw_wr_idx + k - 1
    <3>3. x \in Idx
      BY <2>4
    <3> HIDE DEF x
    <3>4. tohw_buf'[x] = IF x \in jsp_tohw_wr_idx..(jsp_tohw_wr_idx + n - 1)
                         THEN rcvd + 1 + (x - jsp_tohw_wr_idx) ELSE tohw_buf[x]
      BY <2>5, <3>3, Zenon
    <3>5. tohw_buf'[x] = rcvd + 1 + (x - jsp_tohw_wr_idx)
      BY <3>2, <3>4 DEF x
    <3>6. x - jsp_tohw_wr_idx = k - 1
      BY <1>1, AtWraps DEF x
    <3>7. tohw_buf'[x] = rcvd + k
      BY <1>1, <3>5, <3>6
    <3> QED BY <3>7 DEF x
  <2>7. \A i \in Idx : (\A k \in 1..n : At(jsp_tohw_wr_idx + k - 1) # i)
                         => tohw_buf'[i] = tohw_buf[i]
    <3>1. SUFFICES ASSUME NEW i \in Idx, \A k \in 1..n : jsp_tohw_wr_idx + k - 1 # i
                   PROVE  i \notin jsp_tohw_wr_idx..(jsp_tohw_wr_idx + n - 1)
      BY <2>3, <2>5
    <3>2. SUFFICES ASSUME i \in jsp_tohw_wr_idx..(jsp_tohw_wr_idx + n - 1) PROVE FALSE
      OBVIOUS
    <3>3. i - jsp_tohw_wr_idx + 1 \in 1..n
      BY <1>1, <2>2, <3>2, AtWraps
    <3>4. jsp_tohw_wr_idx + (i - jsp_tohw_wr_idx + 1) - 1 = i
      BY <1>1, AtWraps
    <3> QED BY <3>1, <3>3, <3>4
  <2>8. RingInv(tohw_buf', jsp_tohw_rd_idx, At(jsp_tohw_wr_idx + n), jsp_tohw_count + n,
                rcvd + n, hwGot)
    BY <1>1, <2>2, <2>6, <2>7, RingPuts DEF ToHwInv
  <2>9. ToHwPuts(n) /\ jsp_tohw_rd_idx' = jsp_tohw_rd_idx /\ jsp_tohw_wr_idx' = At(jsp_tohw_wr_idx + n)
    BY <2>1 DEF Received, ToHwPuts, At, N
  <2>10. ToHwInv'
    BY <2>8, <2>9 DEF ToHwInv, ToHwPuts
  <2> QED BY <2>2, <2>9, <2>10
<1>3. CASE JspTransact
  <2>1. PICK n \in 0..BytesToSend : Taken(n)
    BY <1>3 DEF JspTransact
  <2>2. n \in 0..jsp_tohw_count
    BY <2>1, LastTakenNat
  <2>3. /\ RingInv(tohw_buf, At(jsp_tohw_rd_idx + n), jsp_tohw_wr_idx, jsp_tohw_count - n,
                   rcvd, hwGot + n)
        /\ n > 0 => tohw_buf[At(jsp_tohw_rd_idx + n - 1)] = hwGot + n
    BY <1>1, <2>2, RingGets DEF ToHwInv
  <2>4. LastTaken(n) = hwGot + n
    BY <1>1, <2>2, <2>3 DEF LastTaken, At, N
  <2>5. /\ ToHwGets(n) /\ jsp_tohw_rd_idx' = At(jsp_tohw_rd_idx + n)
        /\ tohw_buf' = tohw_buf /\ jsp_tohw_wr_idx' = jsp_tohw_wr_idx
    BY <2>1, <2>4 DEF Taken, ToHwGets, At, N
  <2>6. ToHwInv'
    BY <2>3, <2>5 DEF ToHwInv, ToHwGets
  <2>7. CASE n = 0
    <3>1. At(jsp_tohw_rd_idx + n) = jsp_tohw_rd_idx
      BY <1>1, <2>7, AtWraps
    <3> QED BY <1>1, <2>5, <2>6, <2>7, <3>1 DEF ToHwGets, tohw
  <2>8. CASE n # 0
    BY <2>2, <2>5, <2>6, <2>8
  <2> QED BY <2>7, <2>8
<1>4. ASSUME UNCHANGED tohw
      PROVE  ToHwInv'
  BY <1>4 DEF tohw, ToHwInv
<1>5. CASE JspTransactFails
  <2>1. hwGot' = LastTaken(0)
    BY <1>5 DEF JspTransactFails
  <2> QED BY <1>4, <1>5, <2>1 DEF JspTransactFails, LastTaken, tohw
<1>6. CASE JspAccept \/ JspSelect \/ JspEvent \/ JspRecvNothing \/ JspSend
  BY <1>4, <1>6 DEF JspAccept, JspSelect, JspEvent, JspRecvNothing, JspSend
<1>7. CASE ClientSends \/ ClientHangsUp \/ TargetChanges \/ UNCHANGED vars
  BY <1>4, <1>7 DEF ClientSends, ClientHangsUp, TargetChanges, vars
<1> QED BY <1>2, <1>3, <1>5, <1>6, <1>7 DEF JspNext, JspThread

(***************************************************************************)
(* The first ring is a channel: every byte of the client that recv()       *)
(* brought reaches the port once and in order, across the wrap of the      *)
(* indices, both recv() calls and every amount the port takes, for every   *)
(* ring and transaction size, when a transaction that fails has moved      *)
(* nothing.                                                                *)
(***************************************************************************)
THEOREM ToHwRefines ==
  ASSUME LateFaults = FALSE
  PROVE  JspSpec => ToHwIsChannel
<1>1. JspInit => ToHwInv
  <2>1. At(0 + 0) = 0
    BY AtWraps
  <2> QED BY <2>1, AtWraps DEF JspInit, ToHwInv, RingInv
<1>2. JspInit => ToHw!Init
  BY DEF JspInit, ToHw!Init, Ring
<1>3. TypeInv /\ ToHwInv /\ [JspNext]_vars => ToHwInv'
  BY ToHwStep
<1>4. TypeInv /\ ToHwInv /\ [JspNext]_vars
        => [ToHw!Put \/ ToHw!Get]_<<Ring(tohw_buf, jsp_tohw_rd_idx, jsp_tohw_count), rcvd, hwGot>>
  <2> SUFFICES ASSUME TypeInv, ToHwInv, [JspNext]_vars
               PROVE  \/ ToHw!Put \/ ToHw!Get
                      \/ UNCHANGED <<Ring(tohw_buf, jsp_tohw_rd_idx, jsp_tohw_count), rcvd, hwGot>>
    OBVIOUS
  <2>1. /\ jsp_tohw_count \in Nat /\ rcvd \in Nat /\ hwGot \in Nat
    BY DEF TypeInv, JspTypeOK
  <2>2. ToHwInv'
    BY ToHwStep
  <2>3. CASE UNCHANGED tohw
    BY <2>3 DEF tohw, Ring
  <2>4. ASSUME NEW n \in Nat \ {0}, ToHwPuts(n)
        PROVE  ToHw!Put
    <3>0. /\ RingInv(tohw_buf, jsp_tohw_rd_idx, jsp_tohw_wr_idx, jsp_tohw_count, rcvd, hwGot)
          /\ n \in Nat
      BY DEF ToHwInv
    <3>1. RingInv(tohw_buf', jsp_tohw_rd_idx', jsp_tohw_wr_idx', jsp_tohw_count + n, rcvd + n, hwGot)
      BY <2>2, <2>4 DEF ToHwInv, ToHwPuts
    <3>2. Ring(tohw_buf', jsp_tohw_rd_idx', jsp_tohw_count + n)
            = Ring(tohw_buf, jsp_tohw_rd_idx, jsp_tohw_count) \o [k \in 1..n |-> rcvd + k]
      <4>1. Ring(tohw_buf', jsp_tohw_rd_idx', jsp_tohw_count + n) = Bytes(hwGot, jsp_tohw_count + n)
        BY <3>1, RingIsBytes
      <4>2. Ring(tohw_buf, jsp_tohw_rd_idx, jsp_tohw_count) = Bytes(hwGot, jsp_tohw_count)
        BY <3>0, RingIsBytes
      <4>3. Bytes(hwGot, jsp_tohw_count + n) = Bytes(hwGot, jsp_tohw_count)
                                                 \o [k \in 1..n |-> hwGot + jsp_tohw_count + k]
        BY <2>1, <3>0, BytesPut
      <4>4. rcvd = hwGot + jsp_tohw_count
        BY <3>0 DEF RingInv
      <4> QED BY <4>1, <4>2, <4>3, <4>4, Zenon
    <3>3. rcvd' > rcvd /\ rcvd' - rcvd = n
      BY <2>1, <2>4 DEF ToHwPuts
    <3> QED BY <2>4, <3>2, <3>3 DEF ToHw!Put, ToHwPuts
  <2>5. ASSUME NEW n \in 1..jsp_tohw_count, ToHwGets(n)
        PROVE  ToHw!Get
    <3>0. /\ RingInv(tohw_buf, jsp_tohw_rd_idx, jsp_tohw_wr_idx, jsp_tohw_count, rcvd, hwGot)
          /\ n \in 0..jsp_tohw_count
      BY <2>1 DEF ToHwInv
    <3>1. RingInv(tohw_buf', jsp_tohw_rd_idx', jsp_tohw_wr_idx', jsp_tohw_count - n, rcvd, hwGot + n)
      BY <2>2, <2>5 DEF ToHwInv, ToHwGets
    <3>2. /\ Len(Ring(tohw_buf, jsp_tohw_rd_idx, jsp_tohw_count)) = jsp_tohw_count
          /\ \A k \in 1..n : Ring(tohw_buf, jsp_tohw_rd_idx, jsp_tohw_count)[k] = hwGot + k
          /\ Ring(tohw_buf', jsp_tohw_rd_idx', jsp_tohw_count - n)
               = SubSeq(Ring(tohw_buf, jsp_tohw_rd_idx, jsp_tohw_count), n + 1, jsp_tohw_count)
      <4>1. /\ Ring(tohw_buf, jsp_tohw_rd_idx, jsp_tohw_count) = Bytes(hwGot, jsp_tohw_count)
            /\ Ring(tohw_buf', jsp_tohw_rd_idx', jsp_tohw_count - n)
                 = Bytes(hwGot + n, jsp_tohw_count - n)
        BY <3>0, <3>1, RingIsBytes
      <4>2. /\ Len(Bytes(hwGot, jsp_tohw_count)) = jsp_tohw_count
            /\ \A k \in 1..n : Bytes(hwGot, jsp_tohw_count)[k] = hwGot + k
            /\ Bytes(hwGot + n, jsp_tohw_count - n)
                 = SubSeq(Bytes(hwGot, jsp_tohw_count), n + 1, jsp_tohw_count)
        BY <2>1, <3>0, BytesGet
      <4> QED BY <4>1, <4>2, Zenon
    <3>3. hwGot' > hwGot /\ hwGot' - hwGot = n /\ n <= jsp_tohw_count
      BY <2>1, <2>5 DEF ToHwGets
    <3> QED BY <2>5, <3>2, <3>3 DEF ToHw!Get, ToHwGets
  <2> QED BY <2>3, <2>4, <2>5, ToHwStep
<1>5. JspSpec => []TypeInv
  BY TypeStart, TypeStep, PTL DEF JspSpec
<1> QED BY <1>1, <1>2, <1>3, <1>4, <1>5, PTL DEF JspSpec, ToHwIsChannel, ToHw!Spec

-----------------------------------------------------------------------------
(***************************************************************************)
(* What a step does to the second ring: the transaction puts n bytes in,   *)
(* send() takes n out, and everything else leaves it alone.                *)
(***************************************************************************)
FromHwPuts(n) ==
  jsp_fromhw_count' = jsp_fromhw_count + n /\ hwSent' = hwSent + n /\ out' = out
FromHwGets(n) ==
  jsp_fromhw_count' = jsp_fromhw_count - n /\ hwSent' = hwSent /\ out' = out + n

(***************************************************************************)
(* The loop of jsp_hardware_transact() that stores the port's m bytes one  *)
(* by one leaves each at its own place, as long as they fit the ring.      *)
(***************************************************************************)
LEMMA QueuedInPlace ==
  ASSUME TypeInv, NEW m \in Nat, m <= N, Queued(m)
  PROVE  /\ \A k \in 1..m : fromhw_buf'[At(jsp_fromhw_wr_idx + k - 1)] = hwSent + k
         /\ \A i \in Idx : (\A k \in 1..m : At(jsp_fromhw_wr_idx + k - 1) # i)
                             => fromhw_buf'[i] = fromhw_buf[i]
<1> DEFINE mine(i) == {k \in 1..m : QueuedAt(k) = i}
           last(i) == CHOOSE k \in mine(i) : \A j \in mine(i) : j <= k
<1>1. fromhw_buf' = [i \in Idx |-> IF mine(i) = {} THEN fromhw_buf[i] ELSE hwSent + last(i)]
  BY DEF Queued
<1>2. \A k : QueuedAt(k) = At(jsp_fromhw_wr_idx + k - 1)
  BY DEF QueuedAt, At, N
<1>3. jsp_fromhw_wr_idx \in Idx
  BY DEF TypeInv, JspTypeOK
<1>4. \A k \in 1..m : /\ At(jsp_fromhw_wr_idx + k - 1) \in Idx
                      /\ At(jsp_fromhw_wr_idx + k - 1) =
                           IF jsp_fromhw_wr_idx + k - 1 < N THEN jsp_fromhw_wr_idx + k - 1
                           ELSE jsp_fromhw_wr_idx + k - 1 - N
  BY <1>3, AtWraps
<1>5. ASSUME NEW k \in 1..m
      PROVE  fromhw_buf'[At(jsp_fromhw_wr_idx + k - 1)] = hwSent + k
  <2> DEFINE i == At(jsp_fromhw_wr_idx + k - 1)
  <2>1. \A j \in 1..m : At(jsp_fromhw_wr_idx + j - 1) = i => j = k
    BY <1>3, <1>4, AtWraps
  <2>2. i \in Idx
    BY <1>4
  <2>3. mine(i) = {k}
    BY <1>2, <2>1
  <2> HIDE DEF i
  <2>4. last(i) = k
    BY <2>3
  <2>5. fromhw_buf'[i] = hwSent + k
    BY <1>1, <2>2, <2>3, <2>4
  <2> QED BY <2>5 DEF i
<1>6. ASSUME NEW i \in Idx, \A k \in 1..m : At(jsp_fromhw_wr_idx + k - 1) # i
      PROVE  fromhw_buf'[i] = fromhw_buf[i]
  <2>1. mine(i) = {}
    BY <1>2, <1>6
  <2> QED BY <1>1, <2>1
<1> QED BY <1>5, <1>6

(***************************************************************************)
(* The second ring stays in order at every step. Its write index never     *)
(* passes the read index because the transaction finds it empty.           *)
(***************************************************************************)
LEMMA FromHwStep ==
  ASSUME LateFaults = FALSE, ClientReads = TRUE, XFER <= JSP_BUFFER_SIZE,
         TypeInv, FromHwInv, [JspNext]_vars
  PROVE  /\ FromHwInv'
         /\ \/ UNCHANGED fromhw
            \/ \E n \in Nat \ {0} : FromHwPuts(n)
            \/ \E n \in 1..jsp_fromhw_count : FromHwGets(n)
<1>1. /\ fromhw_buf \in [Idx -> Nat] /\ jsp_fromhw_rd_idx \in Idx /\ jsp_fromhw_wr_idx \in Idx
      /\ jsp_fromhw_count \in Nat /\ hwSent \in Nat /\ out \in Nat
      /\ JSP_BUFFER_SIZE \in Nat /\ XFER \in Nat /\ MaxOut \in Nat
  BY JspAssumption DEF TypeInv, JspTypeOK
<1>2. RingInv(fromhw_buf, jsp_fromhw_rd_idx, jsp_fromhw_wr_idx, jsp_fromhw_count, hwSent, out)
  BY DEF FromHwInv
<1>3. CASE JspTransact
  <2>1. PICK m \in 0..Least(XFER, MaxOut - hwSent) : Queued(m)
    BY <1>3 DEF JspTransact
  <2>2. m \in Nat /\ m <= N /\ jsp_fromhw_count = 0
    BY <1>1, <1>3, <2>1 DEF Least, N, JspTransact, FromHwInv
  <2>3. RingInv(fromhw_buf', jsp_fromhw_rd_idx, At(jsp_fromhw_wr_idx + m), jsp_fromhw_count + m,
                hwSent + m, out)
    <3>1. /\ \A k \in 1..m : fromhw_buf'[At(jsp_fromhw_wr_idx + k - 1)] = hwSent + k
          /\ \A i \in Idx : (\A k \in 1..m : At(jsp_fromhw_wr_idx + k - 1) # i)
                              => fromhw_buf'[i] = fromhw_buf[i]
      BY <2>1, <2>2, QueuedInPlace
    <3>2. m + jsp_fromhw_count <= N
      BY <2>2, AtWraps
    <3> QED BY <1>1, <1>2, <2>2, <3>1, <3>2, RingPuts
  <2>4. /\ FromHwPuts(m) /\ jsp_fromhw_rd_idx' = jsp_fromhw_rd_idx
        /\ jsp_fromhw_wr_idx' = At(jsp_fromhw_wr_idx + m) /\ pc' = "select"
    BY <1>3, <2>1 DEF JspTransact, Queued, FromHwPuts, At, N
  <2>5. FromHwInv'
    BY <2>3, <2>4 DEF FromHwInv, FromHwPuts
  <2>6. CASE m = 0
    <3>1. At(jsp_fromhw_wr_idx + m) = jsp_fromhw_wr_idx
      BY <1>1, <2>6, AtWraps
    <3>2. fromhw_buf' = fromhw_buf
      <4>1. \A i \in Idx : fromhw_buf'[i] = fromhw_buf[i]
        BY <2>1, <2>2, <2>6, QueuedInPlace
      <4>2. fromhw_buf' = [i \in Idx |-> fromhw_buf'[i]]
        BY <2>1 DEF Queued
      <4> QED BY <1>1, <4>1, <4>2
    <3> QED BY <1>1, <2>4, <2>5, <2>6, <3>1, <3>2 DEF FromHwPuts, fromhw
  <2>7. CASE m # 0
    BY <2>2, <2>4, <2>5, <2>7
  <2> QED BY <2>6, <2>7
<1>4. CASE JspSend /\ jsp_fromhw_count > 0
  <2>1. PICK n \in {Available} : Passed(n)
    BY <1>4 DEF JspSend, Sendable
  <2>2. /\ n \in 1..jsp_fromhw_count /\ jsp_fromhw_rd_idx + n <= N
        /\ n = jsp_fromhw_count \/ jsp_fromhw_rd_idx + n = N
    BY <1>1, <1>4, <2>1, AtWraps DEF Available, Least, N
  <2>3. /\ RingInv(fromhw_buf, At(jsp_fromhw_rd_idx + n), jsp_fromhw_wr_idx,
                   jsp_fromhw_count - n, hwSent, out + n)
        /\ fromhw_buf[At(jsp_fromhw_rd_idx + n - 1)] = out + n
    <3>1. n \in 0..jsp_fromhw_count /\ n > 0
      BY <1>1, <2>2
    <3> QED BY <1>1, <1>2, <3>1, RingGets
  <2>4. At(jsp_fromhw_rd_idx + n - 1) = jsp_fromhw_rd_idx + n - 1
    BY <1>1, <2>2, AtWraps
  <2>5. /\ FromHwGets(n) /\ jsp_fromhw_rd_idx' = At(jsp_fromhw_rd_idx + n)
        /\ fromhw_buf' = fromhw_buf /\ jsp_fromhw_wr_idx' = jsp_fromhw_wr_idx
    <3>1. n # 0
      BY <1>1, <2>2
    <3> QED BY <2>1, <2>3, <2>4, <3>1 DEF Passed, FromHwGets, At, N
  <2>6. jsp_fromhw_count' = 0 \/ jsp_fromhw_rd_idx' = 0
    <3>1. At(N) = 0
      BY AtWraps
    <3> QED BY <1>1, <2>2, <2>5, <3>1 DEF FromHwGets
  <2>7. pc' # "send2" => jsp_fromhw_count' = 0
    <3>1. SUFFICES ASSUME pc' # "send2" PROVE n = jsp_fromhw_count
      BY <1>1, <2>5 DEF FromHwGets
    <3>2. jsp_fromhw_rd_idx = 0
      BY <1>4, <3>1 DEF JspSend, FromHwInv
    <3>3. jsp_fromhw_count <= N
      BY <1>2 DEF RingInv
    <3> QED BY <1>1, <2>2, <3>2, <3>3, AtWraps
  <2>8. FromHwInv'
    BY <2>3, <2>5, <2>6, <2>7 DEF FromHwInv, FromHwGets
  <2> QED BY <2>2, <2>5, <2>8
<1>5. CASE JspSend /\ ~ (jsp_fromhw_count > 0)
  BY <1>1, <1>5 DEF JspSend, FromHwInv, fromhw
<1>6. ASSUME UNCHANGED fromhw, pc' \in {"select", "event", "queue1", "queue2", "send1"} \/ pc' = pc
      PROVE  FromHwInv'
  BY <1>6 DEF fromhw, FromHwInv
<1>7. CASE JspTransactFails
  <2>1. hwSent' = hwSent
    BY <1>1, <1>7 DEF JspTransactFails
  <2> QED BY <1>6, <1>7, <2>1 DEF JspTransactFails, fromhw
<1>8. CASE JspAccept \/ JspSelect \/ JspEvent \/ JspRecv \/ JspRecvNothing
  BY <1>6, <1>8 DEF JspAccept, JspSelect, JspEvent, JspRecv, JspRecvNothing, AfterEvent
<1>9. CASE ClientSends \/ ClientHangsUp \/ TargetChanges \/ UNCHANGED vars
  BY <1>6, <1>9 DEF ClientSends, ClientHangsUp, TargetChanges, vars
<1> QED BY <1>3, <1>4, <1>5, <1>7, <1>8, <1>9 DEF JspNext, JspThread

(***************************************************************************)
(* The second ring is a channel too, although nothing tests for room in    *)
(* it: every byte of the port reaches the client's socket once and in      *)
(* order, for every ring at least as long as a transaction, when the       *)
(* socket takes what send() offers and a transaction that fails has moved  *)
(* nothing.                                                                *)
(***************************************************************************)
THEOREM FromHwRefines ==
  ASSUME LateFaults = FALSE, ClientReads = TRUE, XFER <= JSP_BUFFER_SIZE
  PROVE  JspSpec => FromHwIsChannel
<1>1. JspInit => FromHwInv
  <2>1. At(0 + 0) = 0
    BY AtWraps
  <2> QED BY <2>1, AtWraps DEF JspInit, FromHwInv, RingInv
<1>2. JspInit => FromHw!Init
  BY DEF JspInit, FromHw!Init, Ring
<1>3. TypeInv /\ FromHwInv /\ [JspNext]_vars => FromHwInv'
  BY FromHwStep
<1>4. TypeInv /\ FromHwInv /\ [JspNext]_vars
        => [FromHw!Put \/ FromHw!Get]_<<Ring(fromhw_buf, jsp_fromhw_rd_idx, jsp_fromhw_count), hwSent, out>>
  <2> SUFFICES ASSUME TypeInv, FromHwInv, [JspNext]_vars
               PROVE  \/ FromHw!Put \/ FromHw!Get
                      \/ UNCHANGED <<Ring(fromhw_buf, jsp_fromhw_rd_idx, jsp_fromhw_count), hwSent, out>>
    OBVIOUS
  <2>1. /\ jsp_fromhw_count \in Nat /\ hwSent \in Nat /\ out \in Nat
    BY DEF TypeInv, JspTypeOK
  <2>2. FromHwInv'
    BY FromHwStep
  <2>3. CASE UNCHANGED fromhw
    BY <2>3 DEF fromhw, Ring
  <2>4. ASSUME NEW n \in Nat \ {0}, FromHwPuts(n)
        PROVE  FromHw!Put
    <3>0. /\ RingInv(fromhw_buf, jsp_fromhw_rd_idx, jsp_fromhw_wr_idx, jsp_fromhw_count, hwSent, out)
          /\ n \in Nat
      BY DEF FromHwInv
    <3>1. RingInv(fromhw_buf', jsp_fromhw_rd_idx', jsp_fromhw_wr_idx', jsp_fromhw_count + n, hwSent + n, out)
      BY <2>2, <2>4 DEF FromHwInv, FromHwPuts
    <3>2. Ring(fromhw_buf', jsp_fromhw_rd_idx', jsp_fromhw_count + n)
            = Ring(fromhw_buf, jsp_fromhw_rd_idx, jsp_fromhw_count) \o [k \in 1..n |-> hwSent + k]
      <4>1. Ring(fromhw_buf', jsp_fromhw_rd_idx', jsp_fromhw_count + n) = Bytes(out, jsp_fromhw_count + n)
        BY <3>1, RingIsBytes
      <4>2. Ring(fromhw_buf, jsp_fromhw_rd_idx, jsp_fromhw_count) = Bytes(out, jsp_fromhw_count)
        BY <3>0, RingIsBytes
      <4>3. Bytes(out, jsp_fromhw_count + n) = Bytes(out, jsp_fromhw_count)
                                                 \o [k \in 1..n |-> out + jsp_fromhw_count + k]
        BY <2>1, <3>0, BytesPut
      <4>4. hwSent = out + jsp_fromhw_count
        BY <3>0 DEF RingInv
      <4> QED BY <4>1, <4>2, <4>3, <4>4, Zenon
    <3>3. hwSent' > hwSent /\ hwSent' - hwSent = n
      BY <2>1, <2>4 DEF FromHwPuts
    <3> QED BY <2>4, <3>2, <3>3 DEF FromHw!Put, FromHwPuts
  <2>5. ASSUME NEW n \in 1..jsp_fromhw_count, FromHwGets(n)
        PROVE  FromHw!Get
    <3>0. /\ RingInv(fromhw_buf, jsp_fromhw_rd_idx, jsp_fromhw_wr_idx, jsp_fromhw_count, hwSent, out)
          /\ n \in 0..jsp_fromhw_count
      BY <2>1 DEF FromHwInv
    <3>1. RingInv(fromhw_buf', jsp_fromhw_rd_idx', jsp_fromhw_wr_idx', jsp_fromhw_count - n, hwSent, out + n)
      BY <2>2, <2>5 DEF FromHwInv, FromHwGets
    <3>2. /\ Len(Ring(fromhw_buf, jsp_fromhw_rd_idx, jsp_fromhw_count)) = jsp_fromhw_count
          /\ \A k \in 1..n : Ring(fromhw_buf, jsp_fromhw_rd_idx, jsp_fromhw_count)[k] = out + k
          /\ Ring(fromhw_buf', jsp_fromhw_rd_idx', jsp_fromhw_count - n)
               = SubSeq(Ring(fromhw_buf, jsp_fromhw_rd_idx, jsp_fromhw_count), n + 1, jsp_fromhw_count)
      <4>1. /\ Ring(fromhw_buf, jsp_fromhw_rd_idx, jsp_fromhw_count) = Bytes(out, jsp_fromhw_count)
            /\ Ring(fromhw_buf', jsp_fromhw_rd_idx', jsp_fromhw_count - n)
                 = Bytes(out + n, jsp_fromhw_count - n)
        BY <3>0, <3>1, RingIsBytes
      <4>2. /\ Len(Bytes(out, jsp_fromhw_count)) = jsp_fromhw_count
            /\ \A k \in 1..n : Bytes(out, jsp_fromhw_count)[k] = out + k
            /\ Bytes(out + n, jsp_fromhw_count - n)
                 = SubSeq(Bytes(out, jsp_fromhw_count), n + 1, jsp_fromhw_count)
        BY <2>1, <3>0, BytesGet
      <4> QED BY <4>1, <4>2, Zenon
    <3>3. out' > out /\ out' - out = n /\ n <= jsp_fromhw_count
      BY <2>1, <2>5 DEF FromHwGets
    <3> QED BY <2>5, <3>2, <3>3 DEF FromHw!Get, FromHwGets
  <2> QED BY <2>3, <2>4, <2>5, FromHwStep
<1>5. JspSpec => []TypeInv
  BY TypeStart, TypeStep, PTL DEF JspSpec
<1> QED BY <1>1, <1>2, <1>3, <1>4, <1>5, PTL DEF JspSpec, FromHwIsChannel, FromHw!Spec
=============================================================================
