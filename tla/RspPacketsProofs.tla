-------------------------- MODULE RspPacketsProofs --------------------------
(***************************************************************************)
(* Proofs about the packet layer of the RSP server: the types, and that    *)
(* requests and replies stay in step however many characters the line      *)
(* damages and however often a person types ^C, as long as GDB does not    *)
(* repeat a request too early.                                             *)
(***************************************************************************)
EXTENDS RspPackets, SequenceTheorems, TLAPS

(***************************************************************************)
(* Types.  A packet under way has the number of a request; those to the    *)
(* server are not 0, which is the server's "Target not stopped".           *)
(***************************************************************************)
Readers == [at : {"start", "body", "hi", "lo"}, buf : Seq(Chars), hi : Chars \cup {<< >>}]

Numbered(q, S) == \A i \in 1..Len(q) : \A p \in 0..MaxAsked : q[i] = <<"lo", p>> => p \in S

TypeInv ==
  /\ toSrv \in Seq(Chars) /\ Numbered(toSrv, 1..asked)
  /\ toGdb \in Seq(Chars) /\ Numbered(toGdb, 0..asked)
  /\ srv \in [pc : {"poll", "get", "ack", "closed"}, rd : Readers, out : 0..asked]
  /\ Len(srv.rd.buf) < GDB_BUF_MAX - 1
  /\ gdb \in [pc : {"idle", "ack", "reply", "dead"}, rd : Readers]
  /\ cpu \in {"stopped", "starting", "running"} /\ pipe \in Seq({"R", "H"})
  /\ target_running \in BOOLEAN /\ client_waiting \in BOOLEAN
  /\ kinds \in Seq({"q", "c"}) /\ asked <= MaxAsked
  /\ performed \in Seq(1..asked) /\ answers \in Seq(1..asked)
  /\ client_waiting => performed # << >>
  /\ gdb.pc \in {"ack", "reply"} => asked > 0

(***************************************************************************)
(* GDB waits for an answer exactly from its request to the reply.  The     *)
(* server stops reading only when GDB has gone.                            *)
(***************************************************************************)
Has(q, cs)  == \E i \in 1..Len(q) : q[i] \in cs
Once(q, cs) == \A i, j \in 1..Len(q) : q[i] \in cs /\ q[j] \in cs => i = j

WaitInv ==
  /\ gdb.pc \in {"ack", "reply"} => Len(answers) = asked - 1
  /\ gdb.pc = "idle" => Len(answers) = asked
  /\ srv.pc = "closed" \/ Has(toSrv, {Eof}) => gdb.pc = "dead"

(***************************************************************************)
(* The turn.  The '#' of a request on its way, the server's reading of the *)
(* checksum behind it and the '+' or '-' that follows are one token: there *)
(* is at most one, and none once GDB has taken the '+'.                    *)
(***************************************************************************)
RequestComes == Has(toSrv, {End})
InChecksum   == srv.rd.at \in {"hi", "lo"}
AckComes     == Has(toGdb, {Ack, Nak})

TurnInv ==
  /\ Once(toSrv, {End}) /\ Once(toGdb, {Ack, Nak})
  /\ ~(RequestComes /\ InChecksum)
  /\ ~(RequestComes /\ AckComes)
  /\ ~(InChecksum /\ AckComes)
  /\ RequestComes \/ InChecksum \/ AckComes => gdb.pc \in {"ack", "dead"} /\ Len(answers) < asked

(***************************************************************************)
(* Frames are written whole: the checksum behind a '#' is there, and if    *)
(* the line has not damaged it, it is that of GDB's current request.       *)
(***************************************************************************)
ChecksumAt(q, i, n) ==
  i <= Len(q) /\ \A p \in 0..MaxAsked : q[i] = <<"lo", p>> => p = n
Checksums(q, n) == \A i \in 1..Len(q) : q[i] = End => ChecksumAt(q, i + 2, n)

FrameInv ==
  /\ Checksums(toSrv, asked)
  /\ srv.pc # "closed" /\ srv.rd.at = "hi" => ChecksumAt(toSrv, 2, asked)
  /\ srv.pc # "closed" /\ srv.rd.at = "lo" => ChecksumAt(toSrv, 1, asked)

(***************************************************************************)
(* The replies.  What comes behind the '+' is for the current request, and *)
(* a stop is among it only once it has been reported.                      *)
(***************************************************************************)
DoneNow == performed # << >> /\ Last(performed) = asked
OwnReplies == {NotStopped} \cup (IF DoneNow /\ ~client_waiting THEN {asked} ELSE {})

BehindAck(q, S) ==
  \A i, j \in 1..Len(q) : \A p \in 0..MaxAsked : j < i /\ q[j] = Ack /\ q[i] = <<"lo", p>> => p \in S

ReplyInv ==
  /\ BehindAck(toGdb, OwnReplies)
  /\ gdb.pc = "reply" => Numbered(toGdb, OwnReplies)
  /\ srv.pc = "ack" /\ (gdb.pc = "reply" \/ Has(toGdb, {Ack})) => srv.out \in OwnReplies
  /\ client_waiting => DoneNow /\ kinds[asked] = "c" /\ gdb.pc # "idle"

StepInv == WaitInv /\ TurnInv /\ FrameInv /\ ReplyInv

-----------------------------------------------------------------------------
(***************************************************************************)
(* The characters of a frame.                                              *)
(***************************************************************************)
LEMMA CharFacts ==
  /\ {Start, End, Ack, Nak, Break, Eof, Noise} \subseteq Chars
  /\ \A p \in 0..MaxAsked : {<<"data", p>>, <<"hi", p>>, <<"lo", p>>} \subseteq Chars
  /\ Start # End /\ Ack # Nak /\ Ack # End /\ Nak # End /\ Eof # End /\ Break # End /\ Noise # End
  /\ Eof # Ack /\ Eof # Nak /\ Eof # Break /\ Noise # Ack /\ Noise # Nak /\ Noise # Eof
  /\ Start # Ack /\ Start # Nak /\ Start # Eof /\ Break # Ack /\ Break # Nak
  /\ \A s \in {"data", "hi", "lo"} : \A p : <<s, p>> \notin {Start, End, Ack, Nak, Break, Eof, Noise}
  /\ \A s \in {"data", "hi"} : \A p, r : <<s, p>> # <<"lo", r>>
  /\ \A p, r : <<"lo", p>> = <<"lo", r>> => p = r
  BY DEF Chars, Start, End, Ack, Nak, Break, Eof, Noise

LEMMA FrameFacts ==
  ASSUME NEW p \in 0..MaxAsked
  PROVE  /\ Frame(p) \in Seq(Chars) /\ Len(Frame(p)) = 5
         /\ Frame(p)[1] = Start /\ Frame(p)[2] = <<"data", p>> /\ Frame(p)[3] = End
         /\ Frame(p)[4] = <<"hi", p>> /\ Frame(p)[5] = <<"lo", p>>
<1>1. {Start, <<"data", p>>, End, <<"hi", p>>, <<"lo", p>>} \subseteq Chars
  BY CharFacts
<1> QED BY <1>1 DEF Frame

(***************************************************************************)
(* What reading the first character does to what is on the line.           *)
(***************************************************************************)
LEMMA TailFacts ==
  ASSUME NEW q \in Seq(Chars), q # << >>
  PROVE  /\ Tail(q) \in Seq(Chars) /\ Head(q) = q[1] /\ Head(q) \in Chars
         /\ Len(q) \in Nat \ {0} /\ Len(Tail(q)) = Len(q) - 1
         /\ \A i \in 1..(Len(q) - 1) : Tail(q)[i] = q[i + 1]
  OBVIOUS

LEMMA HasTail ==
  ASSUME NEW q \in Seq(Chars), q # << >>, NEW cs
  PROVE  /\ Has(q, cs) <=> Head(q) \in cs \/ Has(Tail(q), cs)
         /\ Once(q, cs) => Once(Tail(q), cs) /\ (Head(q) \in cs => ~Has(Tail(q), cs))
<1> DEFINE n == Len(q)
           r == Tail(q)
           h == Head(q)
<1>1. /\ n \in Nat \ {0} /\ Len(r) = n - 1 /\ Len(q) = n /\ h = q[1]
      /\ \A i \in 1..(n - 1) : r[i] = q[i + 1]
  BY TailFacts
<1> HIDE DEF n, r, h
<1>2. \A i \in 1..n : i = 1 \/ (i - 1 \in 1..(n - 1) /\ r[i - 1] = q[i])
  BY <1>1
<1>3. Has(q, cs) <=> h \in cs \/ Has(r, cs)
  <2>1. Has(q, cs) => h \in cs \/ Has(r, cs)
    BY <1>1, <1>2 DEF Has
  <2>2. h \in cs => Has(q, cs)
    BY <1>1 DEF Has
  <2>3. Has(r, cs) => Has(q, cs)
    <3> SUFFICES ASSUME NEW i \in 1..Len(r), r[i] \in cs PROVE Has(q, cs)
      BY DEF Has
    <3>1. i + 1 \in 1..Len(q) /\ q[i + 1] \in cs
      BY <1>1
    <3> QED BY <3>1 DEF Has
  <2> QED BY <2>1, <2>2, <2>3
<1>4. Once(q, cs) => Once(r, cs)
  <2> SUFFICES ASSUME Once(q, cs), NEW i \in 1..Len(r), NEW j \in 1..Len(r), r[i] \in cs, r[j] \in cs
               PROVE  i = j
    BY DEF Once
  <2>1. i + 1 \in 1..Len(q) /\ j + 1 \in 1..Len(q) /\ q[i + 1] \in cs /\ q[j + 1] \in cs
    BY <1>1
  <2>2. i + 1 = j + 1
    BY <2>1 DEF Once
  <2> QED BY <2>2
<1>5. Once(q, cs) /\ h \in cs => ~Has(r, cs)
  <2> SUFFICES ASSUME Once(q, cs), h \in cs, NEW i \in 1..Len(r), r[i] \in cs
               PROVE  FALSE
    BY DEF Has
  <2>1. i + 1 \in 1..Len(q) /\ q[i + 1] \in cs /\ 1 \in 1..Len(q) /\ q[1] \in cs
    BY <1>1
  <2>2. i + 1 = 1
    BY <2>1 DEF Once
  <2> QED BY <2>2
<1> QED BY <1>3, <1>4, <1>5 DEF r, h

LEMMA NumberedTail ==
  ASSUME NEW q \in Seq(Chars), q # << >>, NEW S
  PROVE  /\ Numbered(q, S) => Numbered(Tail(q), S)
         /\ BehindAck(q, S) => BehindAck(Tail(q), S)
         /\ BehindAck(q, S) /\ Head(q) = Ack => Numbered(Tail(q), S)
         /\ Numbered(q, S) => \A p \in 0..MaxAsked : Head(q) = <<"lo", p>> => p \in S
<1> DEFINE n == Len(q)
           r == Tail(q)
           h == Head(q)
<1>1. /\ n \in Nat \ {0} /\ Len(r) = n - 1 /\ Len(q) = n /\ h = q[1]
      /\ \A i \in 1..(n - 1) : r[i] = q[i + 1]
  BY TailFacts
<1> HIDE DEF n, r, h
<1>2. Numbered(q, S) => Numbered(r, S)
  <2> SUFFICES ASSUME Numbered(q, S), NEW i \in 1..Len(r), NEW p \in 0..MaxAsked, r[i] = <<"lo", p>>
               PROVE  p \in S
    BY DEF Numbered
  <2>1. i + 1 \in 1..Len(q) /\ q[i + 1] = <<"lo", p>>
    BY <1>1
  <2> QED BY <2>1 DEF Numbered
<1>3. BehindAck(q, S) => BehindAck(r, S)
  <2> SUFFICES ASSUME BehindAck(q, S), NEW i \in 1..Len(r), NEW j \in 1..Len(r), NEW p \in 0..MaxAsked,
                      j < i, r[j] = Ack, r[i] = <<"lo", p>>
               PROVE  p \in S
    BY DEF BehindAck
  <2>1. /\ i + 1 \in 1..Len(q) /\ j + 1 \in 1..Len(q) /\ j + 1 < i + 1
        /\ q[j + 1] = Ack /\ q[i + 1] = <<"lo", p>>
    BY <1>1
  <2> QED BY <2>1 DEF BehindAck
<1>4. BehindAck(q, S) /\ h = Ack => Numbered(r, S)
  <2> SUFFICES ASSUME BehindAck(q, S), h = Ack, NEW i \in 1..Len(r), NEW p \in 0..MaxAsked,
                      r[i] = <<"lo", p>>
               PROVE  p \in S
    BY DEF Numbered
  <2>1. i + 1 \in 1..Len(q) /\ 1 \in 1..Len(q) /\ 1 < i + 1 /\ q[1] = Ack /\ q[i + 1] = <<"lo", p>>
    BY <1>1
  <2> QED BY <2>1 DEF BehindAck
<1>5. Numbered(q, S) => \A p \in 0..MaxAsked : h = <<"lo", p>> => p \in S
  <2> SUFFICES ASSUME Numbered(q, S), NEW p \in 0..MaxAsked, h = <<"lo", p>>
               PROVE  p \in S
    OBVIOUS
  <2>1. 1 \in 1..Len(q) /\ q[1] = <<"lo", p>>
    BY <1>1
  <2> QED BY <2>1 DEF Numbered
<1> QED BY <1>2, <1>3, <1>4, <1>5 DEF r, h

LEMMA ChecksumTail ==
  ASSUME NEW q \in Seq(Chars), q # << >>, NEW n
  PROVE  /\ Checksums(q, n) => Checksums(Tail(q), n)
         /\ Checksums(q, n) /\ Head(q) = End => ChecksumAt(Tail(q), 2, n)
         /\ ChecksumAt(q, 2, n) => ChecksumAt(Tail(q), 1, n)
<1> DEFINE m == Len(q)
           r == Tail(q)
           h == Head(q)
<1>1. /\ m \in Nat \ {0} /\ Len(r) = m - 1 /\ Len(q) = m /\ h = q[1]
      /\ \A i \in 1..(m - 1) : r[i] = q[i + 1]
  BY TailFacts
<1> HIDE DEF m, r, h
<1>2. ASSUME NEW i \in Nat, i > 1, ChecksumAt(q, i, n) PROVE ChecksumAt(r, i - 1, n)
  <2>1. i - 1 \in 1..(m - 1) /\ r[i - 1] = q[i]
    BY <1>1, <1>2 DEF ChecksumAt
  <2> QED BY <1>1, <1>2, <2>1 DEF ChecksumAt
<1>3. Checksums(q, n) => Checksums(r, n)
  <2> SUFFICES ASSUME Checksums(q, n), NEW i \in 1..Len(r), r[i] = End
               PROVE  ChecksumAt(r, i + 2, n)
    BY DEF Checksums
  <2>1. i \in Nat /\ i + 1 \in 1..Len(q) /\ q[i + 1] = End
    BY <1>1
  <2>2. ChecksumAt(q, (i + 1) + 2, n)
    BY <2>1 DEF Checksums
  <2>3. ChecksumAt(r, ((i + 1) + 2) - 1, n)
    BY <1>2, <2>1, <2>2
  <2>4. ((i + 1) + 2) - 1 = i + 2
    BY <2>1
  <2> QED BY <2>3, <2>4
<1>4. Checksums(q, n) /\ h = End => ChecksumAt(r, 2, n)
  <2> HAVE Checksums(q, n) /\ h = End
  <2>1. ChecksumAt(q, 1 + 2, n)
    BY <1>1 DEF Checksums
  <2>2. ChecksumAt(r, (1 + 2) - 1, n)
    BY <1>2, <2>1
  <2> QED BY <2>2
<1>5. ChecksumAt(q, 2, n) => ChecksumAt(r, 1, n)
  <2> HAVE ChecksumAt(q, 2, n)
  <2>1. ChecksumAt(r, 2 - 1, n)
    BY <1>2
  <2> QED BY <2>1
<1> QED BY <1>3, <1>4, <1>5 DEF r, h

(***************************************************************************)
(* What writing s at the end of the line q does.                           *)
(***************************************************************************)
LEMMA MoreFacts ==
  ASSUME NEW q \in Seq(Chars), NEW s \in Seq(Chars)
  PROVE  /\ q \o s \in Seq(Chars) /\ Len(q) \in Nat /\ Len(s) \in Nat
         /\ Len(q \o s) = Len(q) + Len(s)
         /\ \A i \in 1..Len(q) : (q \o s)[i] = q[i]
         /\ \A i \in 1..Len(s) : (q \o s)[Len(q) + i] = s[i]
         /\ \A i \in 1..(Len(q) + Len(s)) : i \in 1..Len(q) \/ i - Len(q) \in 1..Len(s)
<1>1. /\ q \o s \in Seq(Chars) /\ Len(q \o s) = Len(q) + Len(s)
      /\ \A i \in 1..(Len(q) + Len(s)) : (q \o s)[i] = IF i <= Len(q) THEN q[i] ELSE s[i - Len(q)]
  BY ConcatProperties
<1>2. Len(q) \in Nat /\ Len(s) \in Nat
  OBVIOUS
<1> DEFINE m == Len(q)
           k == Len(s)
           r == q \o s
<1>3. /\ m \in Nat /\ k \in Nat
      /\ \A i \in 1..(m + k) : r[i] = IF i <= m THEN q[i] ELSE s[i - m]
  BY <1>1, <1>2
<1> HIDE DEF m, k, r
<1>4. /\ \A i \in 1..m : r[i] = q[i]
      /\ \A i \in 1..k : r[m + i] = s[i]
      /\ \A i \in 1..(m + k) : i \in 1..m \/ i - m \in 1..k
  BY <1>3
<1> QED BY <1>1, <1>2, <1>4 DEF m, k, r

LEMMA HasMore ==
  ASSUME NEW q \in Seq(Chars), NEW s \in Seq(Chars), NEW cs
  PROVE  /\ Has(q \o s, cs) <=> Has(q, cs) \/ Has(s, cs)
         /\ Once(q, cs) /\ Once(s, cs) /\ ~(Has(q, cs) /\ Has(s, cs)) => Once(q \o s, cs)
<1> DEFINE m == Len(q)
           k == Len(s)
           r == q \o s
<1>1. /\ m \in Nat /\ k \in Nat /\ Len(r) = m + k /\ Len(q) = m /\ Len(s) = k
      /\ \A i \in 1..m : r[i] = q[i]
      /\ \A i \in 1..k : r[m + i] = s[i]
      /\ \A i \in 1..(m + k) : i \in 1..m \/ i - m \in 1..k
  BY MoreFacts
<1> HIDE DEF m, k, r
<1>2. ASSUME NEW i \in 1..Len(r)
      PROVE  \/ i \in 1..Len(q) /\ r[i] = q[i]
             \/ i - m \in 1..Len(s) /\ r[i] = s[i - m]
  <2>1. i \in 1..m \/ (i - m \in 1..k /\ m + (i - m) = i)
    BY <1>1
  <2> QED BY <1>1, <2>1
<1>3. Has(r, cs) => Has(q, cs) \/ Has(s, cs)
  BY <1>2 DEF Has
<1>4. Has(q, cs) => Has(r, cs)
  <2> SUFFICES ASSUME NEW i \in 1..Len(q), q[i] \in cs PROVE Has(r, cs)
    BY DEF Has
  <2>1. i \in 1..Len(r) /\ r[i] \in cs
    BY <1>1
  <2> QED BY <2>1 DEF Has
<1>5. Has(s, cs) => Has(r, cs)
  <2> SUFFICES ASSUME NEW i \in 1..Len(s), s[i] \in cs PROVE Has(r, cs)
    BY DEF Has
  <2>1. m + i \in 1..Len(r) /\ r[m + i] \in cs
    BY <1>1
  <2> QED BY <2>1 DEF Has
<1>6. Once(q, cs) /\ Once(s, cs) /\ ~(Has(q, cs) /\ Has(s, cs)) => Once(r, cs)
  <2> SUFFICES ASSUME Once(q, cs), Once(s, cs), ~(Has(q, cs) /\ Has(s, cs)),
                      NEW i \in 1..Len(r), NEW j \in 1..Len(r), r[i] \in cs, r[j] \in cs
               PROVE  i = j
    BY DEF Once
  <2>1. /\ (i \in 1..Len(q) /\ q[i] \in cs) \/ (i - m \in 1..Len(s) /\ s[i - m] \in cs)
        /\ (j \in 1..Len(q) /\ q[j] \in cs) \/ (j - m \in 1..Len(s) /\ s[j - m] \in cs)
    BY <1>2
  <2>2. CASE i \in 1..Len(q) /\ q[i] \in cs /\ j \in 1..Len(q) /\ q[j] \in cs
    BY <2>2 DEF Once
  <2>3. CASE i - m \in 1..Len(s) /\ s[i - m] \in cs /\ j - m \in 1..Len(s) /\ s[j - m] \in cs
    <3>1. i - m = j - m
      BY <2>3 DEF Once
    <3> QED BY <3>1, <1>1
  <2> QED BY <2>1, <2>2, <2>3 DEF Has
<1> QED BY <1>3, <1>4, <1>5, <1>6 DEF r

LEMMA NumberedMore ==
  ASSUME NEW q \in Seq(Chars), NEW s \in Seq(Chars), NEW S
  PROVE  /\ Numbered(q, S) /\ Numbered(s, S) => Numbered(q \o s, S)
         /\ BehindAck(q, S) /\ BehindAck(s, S) /\ (Has(q, {Ack}) => Numbered(s, S))
              => BehindAck(q \o s, S)
<1> DEFINE m == Len(q)
           k == Len(s)
           r == q \o s
<1>1. /\ m \in Nat /\ k \in Nat /\ Len(r) = m + k /\ Len(q) = m /\ Len(s) = k
      /\ \A i \in 1..m : r[i] = q[i]
      /\ \A i \in 1..k : r[m + i] = s[i]
      /\ \A i \in 1..(m + k) : i \in 1..m \/ i - m \in 1..k
  BY MoreFacts
<1> HIDE DEF m, k, r
<1>2. ASSUME NEW i \in 1..Len(r)
      PROVE  \/ i \in 1..Len(q) /\ r[i] = q[i]
             \/ i - m \in 1..Len(s) /\ r[i] = s[i - m]
  <2>1. i \in 1..m \/ (i - m \in 1..k /\ m + (i - m) = i)
    BY <1>1
  <2> QED BY <1>1, <2>1
<1>3. Numbered(q, S) /\ Numbered(s, S) => Numbered(r, S)
  BY <1>2 DEF Numbered
<1>4. BehindAck(q, S) /\ BehindAck(s, S) /\ (Has(q, {Ack}) => Numbered(s, S)) => BehindAck(r, S)
  <2> SUFFICES ASSUME BehindAck(q, S), BehindAck(s, S), Has(q, {Ack}) => Numbered(s, S),
                      NEW i \in 1..Len(r), NEW j \in 1..Len(r), NEW p \in 0..MaxAsked,
                      j < i, r[j] = Ack, r[i] = <<"lo", p>>
               PROVE  p \in S
    BY DEF BehindAck
  <2>1. CASE i \in 1..Len(q) /\ r[i] = q[i]
    <3>1. j \in 1..Len(q) /\ q[j] = Ack
      BY <1>1, <2>1
    <3> QED BY <2>1, <3>1 DEF BehindAck
  <2>2. CASE i - m \in 1..Len(s) /\ r[i] = s[i - m] /\ j \in 1..Len(q) /\ r[j] = q[j]
    <3>1. Numbered(s, S)
      BY <2>2 DEF Has
    <3> QED BY <2>2, <3>1 DEF Numbered
  <2>3. CASE i - m \in 1..Len(s) /\ r[i] = s[i - m] /\ j - m \in 1..Len(s) /\ r[j] = s[j - m]
    <3>1. j - m < i - m
      BY <1>1
    <3> QED BY <2>3, <3>1 DEF BehindAck
  <2> QED BY <1>2, <2>1, <2>2, <2>3
<1> QED BY <1>3, <1>4 DEF r

LEMMA ChecksumMore ==
  ASSUME NEW q \in Seq(Chars), NEW s \in Seq(Chars), NEW n
  PROVE  /\ Checksums(q, n) /\ Checksums(s, n) => Checksums(q \o s, n)
         /\ \A i \in Nat \ {0} : ChecksumAt(q, i, n) => ChecksumAt(q \o s, i, n)
<1> DEFINE m == Len(q)
           k == Len(s)
           r == q \o s
<1>1. /\ m \in Nat /\ k \in Nat /\ Len(r) = m + k /\ Len(q) = m /\ Len(s) = k
      /\ \A i \in 1..m : r[i] = q[i]
      /\ \A i \in 1..k : r[m + i] = s[i]
      /\ \A i \in 1..(m + k) : i \in 1..m \/ i - m \in 1..k
  BY MoreFacts
<1> HIDE DEF m, k, r
<1>2. ASSUME NEW i \in Nat \ {0}, ChecksumAt(q, i, n) PROVE ChecksumAt(r, i, n)
  BY <1>1, <1>2 DEF ChecksumAt
<1>3. ASSUME NEW i \in Nat \ {0}, ChecksumAt(s, i, n) PROVE ChecksumAt(r, m + i, n)
  <2>1. i \in 1..k
    BY <1>1, <1>3 DEF ChecksumAt
  <2>2. r[m + i] = s[i] /\ m + i <= Len(r)
    BY <1>1, <2>1
  <2> QED BY <1>3, <2>2 DEF ChecksumAt
<1>4. Checksums(q, n) /\ Checksums(s, n) => Checksums(r, n)
  <2> SUFFICES ASSUME Checksums(q, n), Checksums(s, n), NEW i \in 1..Len(r), r[i] = End
               PROVE  ChecksumAt(r, i + 2, n)
    BY DEF Checksums
  <2>1. CASE i \in 1..m
    <3>1. ChecksumAt(q, i + 2, n) /\ i + 2 \in Nat \ {0}
      BY <1>1, <2>1 DEF Checksums
    <3> QED BY <3>1, <1>2
  <2>2. CASE i - m \in 1..k
    <3> DEFINE j == i - m
    <3>1. j \in 1..k /\ m + j = i
      BY <1>1, <2>2
    <3> HIDE DEF j
    <3>2. ChecksumAt(s, j + 2, n) /\ j + 2 \in Nat \ {0}
      <4>1. s[j] = r[m + j]
        BY <1>1, <3>1
      <4>2. j \in 1..Len(s) /\ s[j] = End
        BY <4>1, <1>1, <3>1
      <4> QED BY <4>2, <1>1 DEF Checksums
    <3>3. ChecksumAt(r, m + (j + 2), n)
      BY <1>3, <3>2
    <3>4. m + (j + 2) = i + 2
      BY <1>1, <3>1
    <3> QED BY <3>3, <3>4
  <2> QED BY <1>1, <2>1, <2>2
<1> QED BY <1>2, <1>4 DEF r

(***************************************************************************)
(* A damaged character leaves what is said of the line true.               *)
(***************************************************************************)
LEMMA Damaged ==
  ASSUME NEW q \in Seq(Chars), NEW i \in 1..Len(q), NEW cs, Noise \notin cs, NEW S
  PROVE  LET r == [q EXCEPT ![i] = Noise]
         IN /\ r \in Seq(Chars)
            /\ Has(r, cs) => Has(q, cs)
            /\ Once(q, cs) => Once(r, cs)
            /\ Numbered(q, S) => Numbered(r, S)
            /\ BehindAck(q, S) => BehindAck(r, S)
            /\ Checksums(q, S) => Checksums(r, S)
            /\ \A j \in Nat \ {0} : ChecksumAt(q, j, S) => ChecksumAt(r, j, S)
<1> DEFINE r == [q EXCEPT ![i] = Noise]
<1>1. /\ r \in Seq(Chars) /\ Len(r) = Len(q)
      /\ \A j \in 1..Len(q) : r[j] = IF j = i THEN Noise ELSE q[j]
  BY CharFacts, ExceptSeq
<1>2. Noise # Ack /\ Noise # End /\ \A p : Noise # <<"lo", p>>
  BY CharFacts
<1>3. Len(q) \in Nat
  OBVIOUS
<1> HIDE DEF r
<1>4. (Has(r, cs) => Has(q, cs)) /\ (Once(q, cs) => Once(r, cs))
  BY <1>1 DEF Has, Once
<1>5. (Numbered(q, S) => Numbered(r, S)) /\ (BehindAck(q, S) => BehindAck(r, S))
  BY <1>1, <1>2 DEF Numbered, BehindAck
<1>6. ASSUME NEW j \in Nat \ {0}, ChecksumAt(q, j, S) PROVE ChecksumAt(r, j, S)
  <2>1. j \in 1..Len(q)
    BY <1>3, <1>6 DEF ChecksumAt
  <2>2. r[j] = Noise \/ r[j] = q[j]
    BY <1>1, <2>1
  <2> QED BY <1>1, <1>2, <1>6, <2>2 DEF ChecksumAt
<1>7. Checksums(q, S) => Checksums(r, S)
  <2> SUFFICES ASSUME Checksums(q, S), NEW j \in 1..Len(r), r[j] = End
               PROVE  ChecksumAt(r, j + 2, S)
    BY DEF Checksums
  <2>1. ChecksumAt(q, j + 2, S) /\ j + 2 \in Nat \ {0}
    BY <1>1, <1>2, <1>3 DEF Checksums
  <2> QED BY <2>1, <1>6
<1> QED BY <1>1, <1>4, <1>5, <1>6, <1>7 DEF r

(***************************************************************************)
(* What is written: a single character that is not a digit of a checksum,  *)
(* or a frame.                                                             *)
(***************************************************************************)
LEMMA CharWritten ==
  ASSUME NEW c \in {Ack, Nak, Break, Eof}
  PROVE  /\ <<c>> \in Seq(Chars)
         /\ \A cs : Once(<<c>>, cs) /\ (Has(<<c>>, cs) <=> c \in cs)
         /\ \A S : Numbered(<<c>>, S) /\ BehindAck(<<c>>, S) /\ Checksums(<<c>>, S)
<1>1. <<c>> \in Seq(Chars) /\ Len(<<c>>) = 1 /\ <<c>>[1] = c
  BY CharFacts
<1>2. c # End /\ \A p : c # <<"lo", p>>
  BY CharFacts
<1>3. \A i \in 1..Len(<<c>>) : i = 1
  BY <1>1
<1> DEFINE q == <<c>>
<1> HIDE DEF q
<1>4. Len(q) = 1 /\ q[1] = c /\ \A i \in 1..Len(q) : i = 1 /\ q[i] = c
  BY <1>1, <1>3 DEF q
<1>5. \A cs : Once(q, cs) /\ (Has(q, cs) <=> c \in cs)
  BY <1>4 DEF Once, Has
<1>6. \A S : Numbered(q, S) /\ BehindAck(q, S) /\ Checksums(q, S)
  BY <1>2, <1>4 DEF Numbered, BehindAck, Checksums
<1> QED BY <1>1, <1>5, <1>6 DEF q

LEMMA FrameWritten ==
  ASSUME NEW p \in 0..MaxAsked
  PROVE  /\ Frame(p) \in Seq(Chars)
         /\ Once(Frame(p), {End}) /\ Has(Frame(p), {End})
         /\ ~Has(Frame(p), {Ack, Nak}) /\ ~Has(Frame(p), {Ack}) /\ ~Has(Frame(p), {Eof})
         /\ \A S : BehindAck(Frame(p), S) /\ (p \in S => Numbered(Frame(p), S))
         /\ Checksums(Frame(p), p)
<1> DEFINE q == Frame(p)
<1>1. /\ q \in Seq(Chars) /\ Len(q) = 5
      /\ q[1] = Start /\ q[2] = <<"data", p>> /\ q[3] = End /\ q[4] = <<"hi", p>> /\ q[5] = <<"lo", p>>
  BY FrameFacts
<1> HIDE DEF q
<1>2. \A i \in 1..Len(q) : i \in {1, 2, 3, 4, 5}
  BY <1>1
<1>3. \A i \in 1..Len(q) : (q[i] = End => i = 3) /\ q[i] \notin {Ack, Nak, Eof}
  BY <1>1, <1>2, CharFacts
<1>4. \A i \in 1..Len(q) : \A r : q[i] = <<"lo", r>> => r = p
  BY <1>1, <1>2, CharFacts
<1>5. Once(q, {End}) /\ Has(q, {End}) /\ ~Has(q, {Ack, Nak}) /\ ~Has(q, {Ack}) /\ ~Has(q, {Eof})
  BY <1>1, <1>3 DEF Once, Has
<1>6. \A S : BehindAck(q, S) /\ (p \in S => Numbered(q, S))
  BY <1>3, <1>4 DEF BehindAck, Numbered
<1>7. Checksums(q, p)
  <2>1. ChecksumAt(q, 3 + 2, p)
    BY <1>1, <1>4 DEF ChecksumAt
  <2> QED BY <2>1, <1>3 DEF Checksums
<1> QED BY <1>1, <1>5, <1>6, <1>7 DEF q

LEMMA WriteChar ==
  ASSUME NEW q \in Seq(Chars), NEW c \in {Ack, Nak, Break, Eof}
  PROVE  /\ Append(q, c) \in Seq(Chars)
         /\ Has(Append(q, c), {End}) <=> Has(q, {End})
         /\ Has(Append(q, c), {Ack, Nak}) <=> Has(q, {Ack, Nak}) \/ c \in {Ack, Nak}
         /\ Has(Append(q, c), {Ack}) <=> Has(q, {Ack}) \/ c = Ack
         /\ Has(Append(q, c), {Eof}) <=> Has(q, {Eof}) \/ c = Eof
         /\ Once(q, {End}) => Once(Append(q, c), {End})
         /\ Once(q, {Ack, Nak}) /\ ~(Has(q, {Ack, Nak}) /\ c \in {Ack, Nak})
              => Once(Append(q, c), {Ack, Nak})
         /\ \A S : /\ Numbered(q, S) => Numbered(Append(q, c), S)
                   /\ BehindAck(q, S) => BehindAck(Append(q, c), S)
                   /\ Checksums(q, S) => Checksums(Append(q, c), S)
                   /\ \A i \in Nat \ {0} : ChecksumAt(q, i, S) => ChecksumAt(Append(q, c), i, S)
<1>1. <<c>> \in Seq(Chars)
  BY CharWritten
<1>2. Append(q, c) = q \o <<c>>
  BY CharFacts
<1> DEFINE f == <<c>>
<1>3. /\ \A S : Numbered(f, S) /\ BehindAck(f, S) /\ Checksums(f, S)
      /\ f \in Seq(Chars) /\ Append(q, c) = q \o f
  BY <1>1, <1>2, CharWritten
<1>4. ASSUME NEW cs PROVE Once(f, cs) /\ (Has(f, cs) <=> c \in cs)
  BY CharWritten
<1> HIDE DEF f
<1>5. ASSUME NEW cs
      PROVE  /\ Has(Append(q, c), cs) <=> Has(q, cs) \/ c \in cs
             /\ Once(q, cs) /\ ~(Has(q, cs) /\ c \in cs) => Once(Append(q, c), cs)
  BY <1>3, <1>4, HasMore
<1>6. Append(q, c) \in Seq(Chars) /\ c \notin {End}
  BY <1>3, MoreFacts, CharFacts
<1>7. \A S : /\ Numbered(q, S) => Numbered(Append(q, c), S)
             /\ BehindAck(q, S) => BehindAck(Append(q, c), S)
  BY <1>3, NumberedMore
<1>8. \A S : /\ Checksums(q, S) => Checksums(Append(q, c), S)
             /\ \A i \in Nat \ {0} : ChecksumAt(q, i, S) => ChecksumAt(Append(q, c), i, S)
  <2> TAKE S
  <2>1. /\ Checksums(q, S) /\ Checksums(f, S) => Checksums(q \o f, S)
        /\ \A i \in Nat \ {0} : ChecksumAt(q, i, S) => ChecksumAt(q \o f, i, S)
    BY <1>3, ChecksumMore
  <2> QED BY <1>3, <2>1
<1>9. /\ Has(Append(q, c), {End}) <=> Has(q, {End})
      /\ Once(q, {End}) => Once(Append(q, c), {End})
  BY <1>5, <1>6
<1>10. /\ Has(Append(q, c), {Ack, Nak}) <=> Has(q, {Ack, Nak}) \/ c \in {Ack, Nak}
       /\ Once(q, {Ack, Nak}) /\ ~(Has(q, {Ack, Nak}) /\ c \in {Ack, Nak})
            => Once(Append(q, c), {Ack, Nak})
  BY <1>5
<1>11. /\ Has(Append(q, c), {Ack}) <=> Has(q, {Ack}) \/ c = Ack
       /\ Has(Append(q, c), {Eof}) <=> Has(q, {Eof}) \/ c = Eof
  BY <1>5
<1> QED BY <1>6, <1>7, <1>8, <1>9, <1>10, <1>11

LEMMA WriteFrame ==
  ASSUME NEW q \in Seq(Chars), NEW p \in 0..MaxAsked
  PROVE  /\ q \o Frame(p) \in Seq(Chars)
         /\ Has(q \o Frame(p), {End})
         /\ ~Has(q, {End}) => Once(q \o Frame(p), {End})
         /\ Has(q \o Frame(p), {Ack, Nak}) <=> Has(q, {Ack, Nak})
         /\ Once(q, {Ack, Nak}) => Once(q \o Frame(p), {Ack, Nak})
         /\ Has(q \o Frame(p), {Ack}) <=> Has(q, {Ack})
         /\ Has(q \o Frame(p), {Eof}) <=> Has(q, {Eof})
         /\ \A S : /\ Numbered(q, S) /\ p \in S => Numbered(q \o Frame(p), S)
                   /\ BehindAck(q, S) /\ (Has(q, {Ack}) => p \in S) => BehindAck(q \o Frame(p), S)
         /\ Checksums(q, p) => Checksums(q \o Frame(p), p)
         /\ \A S : \A i \in Nat \ {0} : ChecksumAt(q, i, S) => ChecksumAt(q \o Frame(p), i, S)
<1> DEFINE f == Frame(p)
<1>1. /\ f \in Seq(Chars)
      /\ Once(f, {End}) /\ Has(f, {End})
      /\ ~Has(f, {Ack, Nak}) /\ ~Has(f, {Ack}) /\ ~Has(f, {Eof})
      /\ \A S : BehindAck(f, S) /\ (p \in S => Numbered(f, S))
      /\ Checksums(f, p)
  BY FrameWritten
<1> HIDE DEF f
<1>2. Once(f, {Ack, Nak}) /\ (~Has(q, {End}) => Once(q, {End}))
  BY <1>1 DEF Once, Has
<1>3. /\ q \o f \in Seq(Chars)
      /\ Has(q \o f, {End})
      /\ ~Has(q, {End}) => Once(q \o f, {End})
      /\ Has(q \o f, {Ack, Nak}) <=> Has(q, {Ack, Nak})
      /\ Once(q, {Ack, Nak}) => Once(q \o f, {Ack, Nak})
      /\ Has(q \o f, {Ack}) <=> Has(q, {Ack})
      /\ Has(q \o f, {Eof}) <=> Has(q, {Eof})
  BY <1>1, <1>2, MoreFacts, HasMore
<1>4. \A S : /\ Numbered(q, S) /\ p \in S => Numbered(q \o f, S)
             /\ BehindAck(q, S) /\ (Has(q, {Ack}) => p \in S) => BehindAck(q \o f, S)
  BY <1>1, NumberedMore
<1>5. /\ Checksums(q, p) => Checksums(q \o f, p)
      /\ \A S : \A i \in Nat \ {0} : ChecksumAt(q, i, S) => ChecksumAt(q \o f, i, S)
  BY <1>1, ChecksumMore
<1> QED BY <1>3, <1>4, <1>5 DEF f

LEMMA WriteNumbered ==
  ASSUME NEW q \in Seq(Chars), NEW S, Numbered(q, S)
  PROVE  /\ \A c \in {Ack, Nak, Break, Eof} :
              Append(q, c) \in Seq(Chars) /\ Numbered(Append(q, c), S)
         /\ \A p \in 0..MaxAsked :
              q \o Frame(p) \in Seq(Chars) /\ (p \in S => Numbered(q \o Frame(p), S))
<1>1. ASSUME NEW c \in {Ack, Nak, Break, Eof}
      PROVE  Append(q, c) \in Seq(Chars) /\ Numbered(Append(q, c), S)
  <2>1. Append(q, c) \in Seq(Chars) /\ \A T : Numbered(q, T) => Numbered(Append(q, c), T)
    BY WriteChar
  <2> QED BY <2>1
<1>2. ASSUME NEW p \in 0..MaxAsked
      PROVE  q \o Frame(p) \in Seq(Chars) /\ (p \in S => Numbered(q \o Frame(p), S))
  <2>1. /\ q \o Frame(p) \in Seq(Chars)
        /\ \A T : Numbered(q, T) /\ p \in T => Numbered(q \o Frame(p), T)
    BY WriteFrame
  <2> QED BY <2>1
<1> QED BY <1>1, <1>2

-----------------------------------------------------------------------------
(***************************************************************************)
(* Reading a frame.                                                        *)
(***************************************************************************)
LEMMA ReceivedFacts ==
  ASSUME NEW r, NEW c, NEW p \in Received(r, c)
  PROVE  p \in 0..MaxAsked /\ r.at = "lo" /\ c = <<"lo", p>>
  BY DEF Received

LEMMA ReadCharFacts ==
  ASSUME NEW r \in Readers, NEW c \in Chars
  PROVE  /\ ReadChar(r, c) \in Readers
         /\ Len(r.buf) < GDB_BUF_MAX - 1 => Len(ReadChar(r, c).buf) < GDB_BUF_MAX - 1
         /\ ReadChar(r, c).at = "hi" => r.at = "body" /\ c = End
         /\ ReadChar(r, c).at = "lo" => r.at = "hi"
<1> USE PacketAssumption
<1>1. r.at \in {"start", "body", "hi", "lo"} /\ r.buf \in Seq(Chars) /\ r.hi \in Chars \cup {<< >>}
  BY DEF Readers
<1>2. Searching \in Readers /\ Searching.at = "start" /\ Len(Searching.buf) < GDB_BUF_MAX - 1
  BY DEF Searching, Readers
<1>3. CASE r.at = "start"
  <2>1. ReadChar(r, c) = IF c = Start THEN [r EXCEPT !.at = "body"] ELSE r
    BY <1>3 DEF ReadChar
  <2> QED BY <1>1, <1>3, <2>1 DEF Readers
<1>4. CASE r.at = "body" /\ c = Start
  <2>1. ReadChar(r, c) = [r EXCEPT !.buf = << >>]
    BY <1>4, CharFacts DEF ReadChar
  <2>2. << >> \in Seq(Chars) /\ Len(<< >>) = 0
    OBVIOUS
  <2>3. ReadChar(r, c) \in Readers /\ ReadChar(r, c).buf = << >> /\ ReadChar(r, c).at = "body"
    BY <1>1, <1>4, <2>1, <2>2 DEF Readers
  <2> QED BY <2>2, <2>3
<1>5. CASE r.at = "body" /\ c = End
  <2>1. ReadChar(r, c) = [r EXCEPT !.at = "hi"]
    BY <1>5, CharFacts DEF ReadChar
  <2> QED BY <1>1, <1>5, <2>1 DEF Readers
<1>6. CASE r.at = "body" /\ c \notin {Start, End}
  <2>1. ReadChar(r, c) = IF Len(r.buf) + 1 < GDB_BUF_MAX - 1
                         THEN [r EXCEPT !.buf = Append(@, c)] ELSE Searching
    BY <1>6 DEF ReadChar
  <2>2. Append(r.buf, c) \in Seq(Chars) /\ Len(Append(r.buf, c)) = Len(r.buf) + 1
    BY <1>1
  <2>3. CASE Len(r.buf) + 1 < GDB_BUF_MAX - 1
    <3> DEFINE b == Append(r.buf, c)
    <3>1. b \in Seq(Chars) /\ Len(b) < GDB_BUF_MAX - 1 /\ ReadChar(r, c) = [r EXCEPT !.buf = b]
      BY <2>1, <2>2, <2>3
    <3> HIDE DEF b
    <3>2. ReadChar(r, c) \in Readers /\ ReadChar(r, c).buf = b /\ ReadChar(r, c).at = "body"
      BY <1>1, <1>6, <3>1 DEF Readers
    <3> QED BY <3>1, <3>2
  <2> QED BY <1>2, <2>1, <2>3
<1>7. CASE r.at = "hi"
  <2>1. ReadChar(r, c) = [r EXCEPT !.at = "lo", !.hi = c]
    BY <1>7 DEF ReadChar
  <2> QED BY <1>1, <1>7, <2>1 DEF Readers
<1>8. CASE r.at = "lo"
  <2>1. ReadChar(r, c) = Searching
    BY <1>8 DEF ReadChar
  <2> QED BY <1>2, <2>1
<1> QED BY <1>1, <1>3, <1>4, <1>5, <1>6, <1>7, <1>8

-----------------------------------------------------------------------------
(***************************************************************************)
(* The types are kept.                                                     *)
(***************************************************************************)
LEMMA ReadersFacts ==
  Searching \in Readers /\ Searching.at = "start" /\ Len(Searching.buf) < GDB_BUF_MAX - 1
  BY PacketAssumption DEF Searching, Readers

LEMMA SrvReadsFacts ==
  ASSUME TypeInv, SrvReads
  PROVE  /\ toSrv \in Seq(Chars) /\ toSrv # << >> /\ toSrv' = Tail(toSrv)
         /\ toSrv' \in Seq(Chars) /\ Numbered(toSrv', 1..asked) /\ Head(toSrv) \in Chars
         /\ \A p \in 0..MaxAsked : Head(toSrv) = <<"lo", p>> => p \in 1..asked
<1>1. toSrv \in Seq(Chars) /\ toSrv # << >> /\ toSrv' = Tail(toSrv) /\ Numbered(toSrv, 1..asked)
  BY DEF TypeInv, SrvReads
<1> QED BY <1>1, TailFacts, NumberedTail

LEMMA AskedFacts ==
  ASSUME TypeInv
  PROVE  /\ asked \in Nat /\ asked <= MaxAsked /\ MaxAsked \in Nat
         /\ 0..asked \subseteq 0..MaxAsked /\ 1..asked \subseteq 0..asked
         /\ 0 \in 0..asked /\ asked \in 0..MaxAsked
  BY PacketAssumption DEF TypeInv, asked

(***************************************************************************)
(* put_packet() sends a packet with the number of a request.               *)
(***************************************************************************)
LEMMA PutPacketType ==
  ASSUME TypeInv, NEW p \in 0..asked, put_packet(p), asked' = asked
  PROVE  /\ toGdb' \in Seq(Chars) /\ Numbered(toGdb', 0..asked)
         /\ srv' \in [pc : {"poll", "get", "ack", "closed"}, rd : Readers, out : 0..asked]
         /\ Len(srv'.rd.buf) < GDB_BUF_MAX - 1
<1>1. p \in 0..MaxAsked /\ toGdb \in Seq(Chars) /\ Numbered(toGdb, 0..asked)
  BY AskedFacts DEF TypeInv
<1>2. toGdb' \in Seq(Chars) /\ Numbered(toGdb', 0..asked)
  BY <1>1, WriteNumbered DEF put_packet
<1>3. srv' = [pc |-> "ack", rd |-> Searching, out |-> p]
  BY DEF put_packet
<1> QED BY <1>2, <1>3, ReadersFacts

LEMMA PollType ==
  ASSUME TypeInv
  PROVE  /\ Poll \in [pc : {"poll", "get", "ack", "closed"}, rd : Readers, out : 0..asked]
         /\ Len(Poll.rd.buf) < GDB_BUF_MAX - 1
         /\ Poll.pc = "poll" /\ Poll.rd = Searching
<1>1. srv \in [pc : {"poll", "get", "ack", "closed"}, rd : Readers, out : 0..asked]
  BY DEF TypeInv
<1>2. Poll = [srv EXCEPT !.pc = "poll", !.rd = Searching]
  BY DEF Poll
<1> QED BY <1>1, <1>2, ReadersFacts

LEMMA RequestType ==
  ASSUME TypeInv, NEW p \in 1..asked, rsp_client_request(p), asked' = asked
  PROVE  /\ toGdb' \in Seq(Chars) /\ Numbered(toGdb', 0..asked)
         /\ srv' \in [pc : {"poll", "get", "ack", "closed"}, rd : Readers, out : 0..asked]
         /\ Len(srv'.rd.buf) < GDB_BUF_MAX - 1
         /\ cpu' \in {"stopped", "starting", "running"} /\ pipe' = pipe
         /\ target_running' = target_running /\ client_waiting' \in BOOLEAN
         /\ performed' \in Seq(1..asked) /\ (client_waiting' => performed' # << >>)
<1>1. /\ p \in 0..asked /\ p \in 0..MaxAsked /\ 0 \in 0..asked /\ 0 \in 0..MaxAsked
      /\ toGdb \in Seq(Chars) /\ Numbered(toGdb, 0..asked)
  BY AskedFacts DEF TypeInv
<1> DEFINE t == Append(toGdb, Ack)
<1>2. t \in Seq(Chars) /\ Numbered(t, 0..asked)
  BY <1>1, WriteNumbered
<1>3. toGdb \o <<Ack>> = t
  BY <1>1, CharFacts
<1> HIDE DEF t
<1>4. /\ t \o Frame(p) \in Seq(Chars) /\ Numbered(t \o Frame(p), 0..asked)
      /\ t \o Frame(0) \in Seq(Chars) /\ Numbered(t \o Frame(0), 0..asked)
  BY <1>1, <1>2, WriteNumbered
<1>5. /\ performed \in Seq(1..asked) /\ (client_waiting => performed # << >>)
      /\ cpu \in {"stopped", "starting", "running"} /\ client_waiting \in BOOLEAN
  BY DEF TypeInv
<1>6. Append(performed, p) \in Seq(1..asked) /\ Append(performed, p) # << >>
  BY <1>5
<1>7. CASE target_running
  <2>1. /\ toGdb' = t \o Frame(0)
        /\ srv' = [pc |-> "ack", rd |-> Searching, out |-> 0]
        /\ UNCHANGED <<cpu, pipe, target_running, client_waiting, performed>>
    BY <1>3, <1>7 DEF rsp_client_request, NotStopped, cpuVars, rspVars
  <2> QED BY <1>1, <1>4, <1>5, <2>1, ReadersFacts
<1>8. CASE ~target_running /\ kinds[p] = "q"
  <2>1. /\ toGdb' = t \o Frame(p)
        /\ srv' = [pc |-> "ack", rd |-> Searching, out |-> p]
        /\ UNCHANGED <<cpu, pipe, target_running, client_waiting>>
        /\ performed' = Append(performed, p)
    BY <1>3, <1>8 DEF rsp_client_request, cpuVars, rspVars
  <2> QED BY <1>1, <1>4, <1>5, <1>6, <2>1, ReadersFacts
<1>9. CASE ~target_running /\ kinds[p] # "q"
  <2>1. /\ toGdb' = t /\ srv' = Poll
        /\ cpu' = "starting" /\ client_waiting' = TRUE
        /\ UNCHANGED <<pipe, target_running>>
        /\ performed' = Append(performed, p)
    BY <1>9 DEF rsp_client_request, t
  <2> QED BY <1>2, <1>5, <1>6, <2>1, PollType
<1> QED BY <1>7, <1>8, <1>9

LEMMA GetPacketType ==
  ASSUME TypeInv, get_packet
  PROVE  TypeInv'
<1> DEFINE c == Head(toSrv)
           quiet == UNCHANGED <<toGdb, cpu, pipe, target_running, client_waiting, performed>>
<1>1. /\ SrvReads /\ UNCHANGED <<gdb, kinds, answers, incidents>>
      /\ \/ c = Eof /\ srv' = [srv EXCEPT !.pc = "closed"] /\ quiet
         \/ c = Break /\ srv.rd.at = "start" /\ srv' = Poll /\ quiet
         \/ c # Eof /\ \E p \in Received(srv.rd, c) : rsp_client_request(p)
         \/ /\ srv' = [srv EXCEPT !.pc = "get", !.rd = ReadChar(@, c)]
            /\ toGdb' = IF srv.rd.at = "lo" THEN Append(toGdb, Nak) ELSE toGdb
            /\ UNCHANGED <<cpu, pipe, target_running, client_waiting, performed>>
  BY DEF get_packet, cpuVars, rspVars
<1>2. asked' = asked
  BY <1>1 DEF asked
<1>3. /\ toSrv' \in Seq(Chars) /\ Numbered(toSrv', 1..asked) /\ c \in Chars
      /\ \A p \in 0..MaxAsked : c = <<"lo", p>> => p \in 1..asked
  BY <1>1, SrvReadsFacts
<1>4. /\ toGdb \in Seq(Chars) /\ Numbered(toGdb, 0..asked)
      /\ srv \in [pc : {"poll", "get", "ack", "closed"}, rd : Readers, out : 0..asked]
      /\ Len(srv.rd.buf) < GDB_BUF_MAX - 1
  BY DEF TypeInv
<1> HIDE DEF c
<1>5. CASE c = Eof /\ srv' = [srv EXCEPT !.pc = "closed"] /\ quiet
  BY <1>1, <1>2, <1>3, <1>4, <1>5 DEF TypeInv
<1>6. CASE srv' = Poll /\ quiet
  BY <1>1, <1>2, <1>3, <1>6, PollType DEF TypeInv
<1>7. CASE \E p \in Received(srv.rd, c) : rsp_client_request(p)
  <2>1. PICK p \in Received(srv.rd, c) : rsp_client_request(p)
    BY <1>7
  <2>2. p \in 1..asked
    BY <1>3, ReceivedFacts
  <2> QED BY <1>1, <1>2, <1>3, <2>1, <2>2, RequestType DEF TypeInv
<1>8. CASE /\ srv' = [srv EXCEPT !.pc = "get", !.rd = ReadChar(@, c)]
           /\ toGdb' = IF srv.rd.at = "lo" THEN Append(toGdb, Nak) ELSE toGdb
           /\ UNCHANGED <<cpu, pipe, target_running, client_waiting, performed>>
  <2> DEFINE r == ReadChar(srv.rd, c)
  <2>1. r \in Readers /\ Len(r.buf) < GDB_BUF_MAX - 1
    BY <1>3, <1>4, ReadCharFacts
  <2>2. srv' = [srv EXCEPT !.pc = "get", !.rd = r]
    BY <1>8
  <2> HIDE DEF r
  <2>3. /\ srv' \in [pc : {"poll", "get", "ack", "closed"}, rd : Readers, out : 0..asked]
        /\ Len(srv'.rd.buf) < GDB_BUF_MAX - 1
    BY <1>4, <2>1, <2>2
  <2>4. toGdb' \in Seq(Chars) /\ Numbered(toGdb', 0..asked)
    BY <1>4, <1>8, WriteNumbered
  <2> QED BY <1>1, <1>2, <1>3, <1>8, <2>3, <2>4 DEF TypeInv
<1> QED BY <1>1, <1>5, <1>6, <1>7, <1>8

LEMMA AckType ==
  ASSUME TypeInv, put_packet_ack
  PROVE  TypeInv'
<1>1. /\ SrvReads /\ UNCHANGED <<gdb, cpu, pipe, target_running, client_waiting, kinds, performed, answers>>
      /\ \/ srv' = [srv EXCEPT !.pc = "closed"] /\ UNCHANGED toGdb
         \/ srv' = Poll /\ UNCHANGED toGdb
         \/ put_packet(srv.out)
  BY DEF put_packet_ack, cpuVars, rspVars
<1>2. asked' = asked
  BY <1>1 DEF asked
<1>3. /\ srv \in [pc : {"poll", "get", "ack", "closed"}, rd : Readers, out : 0..asked]
      /\ Len(srv.rd.buf) < GDB_BUF_MAX - 1
  BY DEF TypeInv
<1>4. toSrv' \in Seq(Chars) /\ Numbered(toSrv', 1..asked)
  BY <1>1, SrvReadsFacts
<1>5. CASE srv' = [srv EXCEPT !.pc = "closed"] /\ UNCHANGED toGdb
  BY <1>1, <1>2, <1>3, <1>4, <1>5 DEF TypeInv
<1>6. CASE srv' = Poll /\ UNCHANGED toGdb
  BY <1>1, <1>2, <1>4, <1>6, PollType DEF TypeInv
<1>7. CASE put_packet(srv.out)
  <2>1. srv.out \in 0..asked
    BY <1>3
  <2> QED BY <1>1, <1>2, <1>4, <1>7, <2>1, PutPacketType DEF TypeInv
<1> QED BY <1>1, <1>5, <1>6, <1>7

LEMMA LastPerformed ==
  ASSUME TypeInv, performed # << >>
  PROVE  Last(performed) \in 1..asked
<1>1. performed \in Seq(1..asked) /\ Len(performed) \in Nat \ {0}
  BY DEF TypeInv
<1>2. Len(performed) \in 1..Len(performed)
  BY <1>1
<1>3. performed[Len(performed)] \in 1..asked
  BY <1>1, <1>2, ElementOfSeq
<1> QED BY <1>3 DEF Last

LEMMA EventType ==
  ASSUME TypeInv, handle_rsp
  PROVE  TypeInv'
<1>1. /\ pipe # << >> /\ pipe' = Tail(pipe) /\ target_running' = (Head(pipe) = "R")
      /\ UNCHANGED <<toSrv, gdb, cpu, kinds, performed, answers>>
      /\ \/ client_waiting /\ put_packet(Last(performed)) /\ client_waiting' = FALSE
         \/ UNCHANGED <<toGdb, srv, client_waiting>>
  BY DEF handle_rsp
<1>2. asked' = asked
  BY <1>1 DEF asked
<1>3. pipe \in Seq({"R", "H"}) /\ pipe' \in Seq({"R", "H"}) /\ target_running' \in BOOLEAN
  BY <1>1 DEF TypeInv
<1>4. CASE client_waiting /\ put_packet(Last(performed)) /\ client_waiting' = FALSE
  <2>1. Last(performed) \in 0..asked
    BY <1>4, LastPerformed, AskedFacts DEF TypeInv
  <2> QED BY <1>1, <1>2, <1>3, <1>4, <2>1, PutPacketType DEF TypeInv
<1>5. CASE UNCHANGED <<toGdb, srv, client_waiting>>
  BY <1>1, <1>2, <1>3, <1>5 DEF TypeInv
<1> QED BY <1>1, <1>4, <1>5

LEMMA CpuType ==
  ASSUME TypeInv, MonitorRuns \/ CpuStops
  PROVE  TypeInv'
<1>1. /\ cpu' \in {"running", "stopped"}
      /\ pipe' = Append(pipe, "R") \/ pipe' = Append(pipe, "H")
      /\ UNCHANGED <<toSrv, toGdb, srv, gdb, target_running, client_waiting, kinds, performed, answers>>
  BY DEF MonitorRuns, CpuStops, Event, rspVars
<1>2. asked' = asked
  BY <1>1 DEF asked
<1>3. pipe' \in Seq({"R", "H"})
  <2>1. pipe \in Seq({"R", "H"})
    BY DEF TypeInv
  <2>2. Append(pipe, "R") \in Seq({"R", "H"}) /\ Append(pipe, "H") \in Seq({"R", "H"})
    BY <2>1
  <2> QED BY <1>1, <2>2
<1> QED BY <1>1, <1>2, <1>3 DEF TypeInv

(***************************************************************************)
(* GDB's side.                                                             *)
(***************************************************************************)
LEMMA AsksType ==
  ASSUME TypeInv, NEW k \in {"q", "c"}, GdbAsks(k)
  PROVE  TypeInv' /\ asked' = asked + 1
<1>1. /\ gdb.pc = "idle" /\ asked < MaxAsked
      /\ kinds' = Append(kinds, k) /\ toSrv' = toSrv \o Frame(asked + 1)
      /\ gdb' = [pc |-> "ack", rd |-> Searching]
      /\ UNCHANGED <<srv, cpu, pipe, target_running, client_waiting, performed, toGdb, answers>>
  BY DEF GdbAsks, GdbLeaves, cpuVars, rspVars
<1>2. kinds \in Seq({"q", "c"}) /\ asked \in Nat /\ MaxAsked \in Nat
  BY AskedFacts DEF TypeInv
<1>3. kinds' \in Seq({"q", "c"}) /\ asked' = asked + 1
  BY <1>1, <1>2 DEF asked
<1> DEFINE n == asked
<1>4. /\ n \in Nat /\ n + 1 <= MaxAsked /\ n + 1 \in 0..MaxAsked
      /\ 0..n \subseteq 0..(n + 1) /\ 1..n \subseteq 1..(n + 1) /\ n + 1 \in 1..(n + 1)
  BY <1>1, <1>2
<1>5. /\ toSrv \in Seq(Chars) /\ Numbered(toSrv, 1..n)
      /\ toGdb \in Seq(Chars) /\ Numbered(toGdb, 0..n)
      /\ srv \in [pc : {"poll", "get", "ack", "closed"}, rd : Readers, out : 0..n]
      /\ performed \in Seq(1..n) /\ answers \in Seq(1..n)
  BY DEF TypeInv
<1> HIDE DEF n
<1>6. Numbered(toSrv, 1..(n + 1)) /\ Numbered(toGdb, 0..(n + 1))
  BY <1>4, <1>5 DEF Numbered
<1>7. toSrv' \in Seq(Chars) /\ Numbered(toSrv', 1..(n + 1))
  <2>1. toSrv' = toSrv \o Frame(n + 1)
    BY <1>1 DEF n
  <2> QED BY <1>4, <1>5, <1>6, <2>1, WriteNumbered
<1>8. srv \in [pc : {"poll", "get", "ack", "closed"}, rd : Readers, out : 0..(n + 1)]
  BY <1>4, <1>5
<1>9. performed \in Seq(1..(n + 1)) /\ answers \in Seq(1..(n + 1))
  BY <1>4, <1>5, SeqMonotonic
<1>10. gdb' \in [pc : {"idle", "ack", "reply", "dead"}, rd : Readers]
  BY <1>1, ReadersFacts
<1>11. n + 1 = asked' /\ asked' > 0 /\ asked' <= MaxAsked
  BY <1>3, <1>4 DEF n
<1> QED BY <1>1, <1>3, <1>5, <1>6, <1>7, <1>8, <1>9, <1>10, <1>11 DEF TypeInv

LEMMA RepeatsType ==
  ASSUME TypeInv, GdbRepeats
  PROVE  TypeInv'
<1>1. /\ gdb.pc \in {"ack", "reply"}
      /\ toSrv' = toSrv \o Frame(asked) \/ (\E c \in {Break, Nak} : toSrv' = Append(toSrv, c))
      /\ gdb' = gdb \/ gdb' = [gdb EXCEPT !.rd = Searching]
      /\ UNCHANGED <<srv, cpu, pipe, target_running, client_waiting, performed, toGdb, kinds, answers>>
  BY DEF GdbRepeats, GdbLeaves, cpuVars, rspVars
<1>2. asked' = asked
  BY <1>1 DEF asked
<1>3. gdb \in [pc : {"idle", "ack", "reply", "dead"}, rd : Readers] /\ asked > 0
  BY <1>1 DEF TypeInv
<1>4. gdb' \in [pc : {"idle", "ack", "reply", "dead"}, rd : Readers]
  BY <1>1, <1>3, ReadersFacts
<1>5. asked \in 0..MaxAsked /\ asked \in 1..asked
  BY <1>3, AskedFacts
<1>6. toSrv \in Seq(Chars) /\ Numbered(toSrv, 1..asked)
  BY DEF TypeInv
<1>7. toSrv' \in Seq(Chars) /\ Numbered(toSrv', 1..asked)
  <2>1. toSrv \o Frame(asked) \in Seq(Chars) /\ Numbered(toSrv \o Frame(asked), 1..asked)
    BY <1>5, <1>6, WriteNumbered
  <2>2. \A c \in {Break, Nak} : Append(toSrv, c) \in Seq(Chars) /\ Numbered(Append(toSrv, c), 1..asked)
    BY <1>6, WriteNumbered
  <2> QED BY <1>1, <2>1, <2>2
<1> QED BY <1>1, <1>2, <1>3, <1>4, <1>7 DEF TypeInv

(***************************************************************************)
(* What GDB does with the character c it reads: '+' and '-' when it waits  *)
(* for them, the end of its reply, and anything else.                      *)
(***************************************************************************)
TakesAck(c) ==
  /\ gdb.pc = "ack" /\ gdb.rd.at = "start" /\ c = Ack
  /\ gdb' = [gdb EXCEPT !.pc = "reply"] /\ answers' = answers /\ toSrv' = toSrv
TakesNak(c) ==
  /\ gdb.pc = "ack" /\ gdb.rd.at = "start" /\ c = Nak
  /\ gdb' = [gdb EXCEPT !.rd = ReadChar(@, c)] /\ answers' = answers
  /\ toSrv' = toSrv \o Frame(asked)
TakesReply(c) ==
  /\ gdb.pc = "reply" /\ gdb' = [pc |-> "idle", rd |-> Searching]
  /\ \E p \in (0..MaxAsked) \ {0} : c = <<"lo", p>> /\ answers' = Append(answers, p)
  /\ toSrv' = Append(toSrv, Ack)
Skips(c) ==
  /\ gdb' = [gdb EXCEPT !.rd = ReadChar(@, c)] /\ answers' = answers
  /\ toSrv' = toSrv \/ toSrv' = Append(toSrv, Ack) \/ toSrv' = Append(toSrv, Nak)

LEMMA GdbReadsCases ==
  ASSUME TypeInv, GdbReads
  PROVE  /\ gdb.pc \in {"ack", "reply"} /\ toGdb \in Seq(Chars) /\ toGdb # << >> /\ toGdb' = Tail(toGdb)
         /\ UNCHANGED <<srv, cpu, pipe, target_running, client_waiting, performed, kinds, incidents>>
         /\ LET c == Head(toGdb)
            IN TakesAck(c) \/ TakesNak(c) \/ TakesReply(c) \/ Skips(c)
<1> DEFINE c == Head(toGdb)
           outside == gdb.pc = "ack" /\ gdb.rd.at = "start"
           mine == IF gdb.pc = "reply" THEN Received(gdb.rd, c) \ {NotStopped} ELSE {}
           good == gdb.pc = "ack" \/ Received(gdb.rd, c) # {}
<1>1. /\ gdb.pc \in {"ack", "reply"} /\ toGdb # << >> /\ toGdb' = Tail(toGdb)
      /\ UNCHANGED <<srv, cpu, pipe, target_running, client_waiting, performed, kinds, incidents>>
      /\ gdb' = IF outside /\ c = Ack THEN [gdb EXCEPT !.pc = "reply"]
                ELSE IF mine # {} THEN [pc |-> "idle", rd |-> Searching]
                ELSE [gdb EXCEPT !.rd = ReadChar(@, c)]
      /\ answers' = IF mine # {} THEN Append(answers, CHOOSE p \in mine : TRUE) ELSE answers
      /\ toSrv' = IF outside /\ c = Nak THEN toSrv \o Frame(asked)
                  ELSE IF gdb.rd.at = "lo" THEN Append(toSrv, IF good THEN Ack ELSE Nak)
                  ELSE toSrv
  BY DEF GdbReads, GdbLeaves, cpuVars, rspVars
<1>2. toGdb \in Seq(Chars)
  BY DEF TypeInv
<1> HIDE DEF c
<1>3. CASE mine # {}
  <2>1. PICK p \in mine : p = CHOOSE r \in mine : TRUE
    BY <1>3
  <2>2. gdb.pc = "reply" /\ p \in Received(gdb.rd, c) /\ p # 0
    BY <2>1 DEF NotStopped
  <2>3. p \in 0..MaxAsked /\ gdb.rd.at = "lo" /\ c = <<"lo", p>>
    BY <2>2, ReceivedFacts
  <2>4. answers' = Append(answers, p)
    BY <1>1, <1>3, <2>1
  <2>5. toSrv' = Append(toSrv, Ack) /\ gdb' = [pc |-> "idle", rd |-> Searching]
    BY <1>1, <1>3, <2>2, <2>3
  <2>6. TakesReply(c)
    BY <2>2, <2>3, <2>4, <2>5 DEF TakesReply
  <2> QED BY <1>1, <1>2, <2>6 DEF c
<1>4. CASE mine = {} /\ outside /\ c = Ack
  <2>1. TakesAck(c)
    BY <1>1, <1>4, CharFacts DEF TakesAck
  <2> QED BY <1>1, <1>2, <2>1 DEF c
<1>5. CASE mine = {} /\ outside /\ c = Nak
  <2>1. TakesNak(c)
    BY <1>1, <1>5, CharFacts DEF TakesNak
  <2> QED BY <1>1, <1>2, <2>1 DEF c
<1>6. CASE mine = {} /\ ~(outside /\ c \in {Ack, Nak})
  <2>1. Skips(c)
    BY <1>1, <1>6 DEF Skips
  <2> QED BY <1>1, <1>2, <2>1 DEF c
<1> QED BY <1>3, <1>4, <1>5, <1>6

LEMMA ReadsType ==
  ASSUME TypeInv, GdbReads
  PROVE  TypeInv'
<1> DEFINE c == Head(toGdb)
<1>1. /\ gdb.pc \in {"ack", "reply"} /\ toGdb \in Seq(Chars) /\ toGdb # << >> /\ toGdb' = Tail(toGdb)
      /\ UNCHANGED <<srv, cpu, pipe, target_running, client_waiting, performed, kinds>>
      /\ TakesAck(c) \/ TakesNak(c) \/ TakesReply(c) \/ Skips(c)
  BY GdbReadsCases
<1>2. asked' = asked
  BY <1>1 DEF asked
<1>3. /\ toSrv \in Seq(Chars) /\ Numbered(toSrv, 1..asked) /\ Numbered(toGdb, 0..asked)
      /\ gdb \in [pc : {"idle", "ack", "reply", "dead"}, rd : Readers] /\ asked > 0
      /\ answers \in Seq(1..asked)
  BY <1>1 DEF TypeInv
<1>4. asked \in Nat /\ asked \in 0..MaxAsked /\ asked \in 1..asked
  BY <1>3, AskedFacts
<1>5. /\ toGdb' \in Seq(Chars) /\ Numbered(toGdb', 0..asked) /\ c \in Chars
      /\ \A p \in 0..MaxAsked : c = <<"lo", p>> => p \in 0..asked
  BY <1>1, <1>3, TailFacts, NumberedTail
<1> HIDE DEF c
<1>6. toSrv \o Frame(asked) \in Seq(Chars) /\ Numbered(toSrv \o Frame(asked), 1..asked)
  BY <1>3, <1>4, WriteNumbered
<1>7. /\ Append(toSrv, Ack) \in Seq(Chars) /\ Numbered(Append(toSrv, Ack), 1..asked)
      /\ Append(toSrv, Nak) \in Seq(Chars) /\ Numbered(Append(toSrv, Nak), 1..asked)
  BY <1>3, WriteNumbered
<1>8. ReadChar(gdb.rd, c) \in Readers
  BY <1>3, <1>5, ReadCharFacts
<1>9. CASE TakesAck(c)
  BY <1>1, <1>2, <1>3, <1>5, <1>9 DEF TakesAck, TypeInv
<1>10. CASE TakesNak(c)
  <2>1. gdb' \in [pc : {"idle", "ack", "reply", "dead"}, rd : Readers] /\ gdb'.pc = gdb.pc
    BY <1>3, <1>8, <1>10 DEF TakesNak
  <2> QED BY <1>1, <1>2, <1>3, <1>5, <1>6, <1>10, <2>1 DEF TakesNak, TypeInv
<1>11. CASE TakesReply(c)
  <2>1. PICK p \in (0..MaxAsked) \ {0} : c = <<"lo", p>> /\ answers' = Append(answers, p)
    BY <1>11 DEF TakesReply
  <2>2. p \in 1..asked
    BY <1>4, <1>5, <2>1
  <2>3. answers' \in Seq(1..asked)
    BY <1>3, <2>1, <2>2
  <2>4. gdb' \in [pc : {"idle", "ack", "reply", "dead"}, rd : Readers] /\ gdb'.pc = "idle"
    BY <1>11, ReadersFacts DEF TakesReply
  <2>5. toSrv' \in Seq(Chars) /\ Numbered(toSrv', 1..asked)
    BY <1>7, <1>11 DEF TakesReply
  <2> QED BY <1>1, <1>2, <1>3, <1>5, <2>3, <2>4, <2>5 DEF TypeInv
<1>12. CASE Skips(c)
  <2>1. gdb' \in [pc : {"idle", "ack", "reply", "dead"}, rd : Readers] /\ gdb'.pc = gdb.pc
    BY <1>3, <1>8, <1>12 DEF Skips
  <2>2. toSrv' \in Seq(Chars) /\ Numbered(toSrv', 1..asked)
    BY <1>3, <1>7, <1>12 DEF Skips
  <2> QED BY <1>1, <1>2, <1>3, <1>5, <1>12, <2>1, <2>2 DEF Skips, TypeInv
<1> QED BY <1>1, <1>9, <1>10, <1>11, <1>12

LEMMA DiesType ==
  ASSUME TypeInv, GdbDies
  PROVE  TypeInv'
<1>1. /\ gdb' = [gdb EXCEPT !.pc = "dead"] /\ toSrv' = Append(toSrv, Eof)
      /\ UNCHANGED <<srv, cpu, pipe, target_running, client_waiting, performed, toGdb, kinds, answers>>
  BY DEF GdbDies, GdbLeaves, cpuVars, rspVars
<1>2. asked' = asked
  BY <1>1 DEF asked
<1>3. toSrv \in Seq(Chars) /\ Numbered(toSrv, 1..asked)
  BY DEF TypeInv
<1>4. toSrv' \in Seq(Chars) /\ Numbered(toSrv', 1..asked)
  BY <1>1, <1>3, WriteNumbered
<1>5. gdb' \in [pc : {"idle", "ack", "reply", "dead"}, rd : Readers] /\ gdb'.pc = "dead"
  BY <1>1 DEF TypeInv
<1> QED BY <1>1, <1>2, <1>4, <1>5 DEF TypeInv

LEMMA DamageType ==
  ASSUME TypeInv, DamageLine
  PROVE  TypeInv'
<1>1. /\ UNCHANGED <<srv, gdb, cpu, pipe, target_running, client_waiting, performed, kinds, answers>>
      /\ \/ \E i \in DOMAIN toSrv : toSrv' = [toSrv EXCEPT ![i] = Noise] /\ UNCHANGED toGdb
         \/ \E i \in DOMAIN toGdb : toGdb' = [toGdb EXCEPT ![i] = Noise] /\ UNCHANGED toSrv
  BY DEF DamageLine, GdbLeaves, cpuVars, rspVars
<1>2. asked' = asked
  BY <1>1 DEF asked
<1>3. /\ toSrv \in Seq(Chars) /\ Numbered(toSrv, 1..asked) /\ DOMAIN toSrv = 1..Len(toSrv)
      /\ toGdb \in Seq(Chars) /\ Numbered(toGdb, 0..asked) /\ DOMAIN toGdb = 1..Len(toGdb)
  BY DEF TypeInv
<1>4. CASE \E i \in DOMAIN toSrv : toSrv' = [toSrv EXCEPT ![i] = Noise] /\ UNCHANGED toGdb
  <2>1. toSrv' \in Seq(Chars) /\ Numbered(toSrv', 1..asked)
    <3>1. PICK i \in 1..Len(toSrv) : toSrv' = [toSrv EXCEPT ![i] = Noise]
      BY <1>3, <1>4
    <3>2. Noise \notin {}
      OBVIOUS
    <3> QED BY <1>3, <3>1, <3>2, Damaged
  <2> QED BY <1>1, <1>2, <1>4, <2>1 DEF TypeInv
<1>5. CASE \E i \in DOMAIN toGdb : toGdb' = [toGdb EXCEPT ![i] = Noise] /\ UNCHANGED toSrv
  <2>1. toGdb' \in Seq(Chars) /\ Numbered(toGdb', 0..asked)
    <3>1. PICK i \in 1..Len(toGdb) : toGdb' = [toGdb EXCEPT ![i] = Noise]
      BY <1>3, <1>5
    <3>2. Noise \notin {}
      OBVIOUS
    <3> QED BY <1>3, <3>1, <3>2, Damaged
  <2> QED BY <1>1, <1>2, <1>5, <2>1 DEF TypeInv
<1> QED BY <1>1, <1>4, <1>5

LEMMA TypeStart == Init => TypeInv
<1> SUFFICES ASSUME Init PROVE TypeInv
  OBVIOUS
<1>1. asked = 0
  BY DEF Init, asked
<1>2. << >> \in Seq(Chars) /\ Numbered(<< >>, 0..asked) /\ Numbered(<< >>, 1..asked)
  BY DEF Numbered
<1>3. Append(<< >>, Ack) = <<Ack>>
  OBVIOUS
<1>4. toSrv \in Seq(Chars) /\ Numbered(toSrv, 1..asked)
  BY <1>2, <1>3, WriteNumbered DEF Init
<1>5. /\ srv \in [pc : {"poll", "get", "ack", "closed"}, rd : Readers, out : 0..asked]
      /\ Len(srv.rd.buf) < GDB_BUF_MAX - 1
      /\ gdb \in [pc : {"idle", "ack", "reply", "dead"}, rd : Readers] /\ gdb.pc = "idle"
  BY <1>1, ReadersFacts DEF Init, NotStopped
<1>6. << >> \in Seq({"q", "c"}) /\ << >> \in Seq(1..asked) /\ << >> \in Seq({"R", "H"})
  OBVIOUS
<1>7. /\ kinds \in Seq({"q", "c"}) /\ performed \in Seq(1..asked) /\ answers \in Seq(1..asked)
      /\ pipe \in Seq({"R", "H"}) /\ toGdb \in Seq(Chars) /\ Numbered(toGdb, 0..asked)
      /\ cpu = "stopped" /\ target_running = FALSE /\ client_waiting = FALSE
  BY <1>2, <1>6 DEF Init
<1>8. asked <= MaxAsked
  BY <1>1, PacketAssumption
<1> QED BY <1>4, <1>5, <1>7, <1>8 DEF TypeInv

LEMMA TypeStep == TypeInv /\ [Next]_vars => TypeInv'
<1> SUFFICES ASSUME TypeInv, [Next]_vars PROVE TypeInv'
  OBVIOUS
<1>1. CASE Server
  BY <1>1, GetPacketType, AckType, EventType DEF Server
<1>2. CASE MonitorRuns \/ CpuStops
  BY <1>2, CpuType
<1>3. CASE \E k \in {"q", "c"} : GdbAsks(k)
  BY <1>3, AsksType
<1>4. CASE GdbReads
  BY <1>4, ReadsType
<1>5. CASE TimesOut \/ TimesOutEarly \/ TypesBreak
  BY <1>5, RepeatsType DEF TimesOut, TimesOutEarly, TypesBreak
<1>6. CASE GdbDies
  BY <1>6, DiesType
<1>7. CASE DamageLine
  BY <1>7, DamageType
<1>8. CASE UNCHANGED vars
  BY <1>8 DEF vars, cpuVars, rspVars, TypeInv, asked, Numbered
<1> QED BY <1>1, <1>2, <1>3, <1>4, <1>5, <1>6, <1>7, <1>8 DEF Next

(***************************************************************************)
(* The lines, both readers and the numbers of the packets keep their       *)
(* types, and get_packet() never writes past its buffer, for every buffer  *)
(* size, any incidents and any early repetition.                           *)
(***************************************************************************)
THEOREM PacketTypes == Spec => []PacketTypeOK
<1>1. Spec => []TypeInv
  BY TypeStart, TypeStep, PTL DEF Spec
<1>2. TypeInv => PacketTypeOK
  BY DEF TypeInv, PacketTypeOK
<1> QED BY <1>1, <1>2, PTL

-----------------------------------------------------------------------------
(***************************************************************************)
(* Requests and replies stay in step.  First what follows from the absence *)
(* of a character, and what the server reads and GDB takes.                *)
(***************************************************************************)
LEMMA Without ==
  ASSUME NEW q
  PROVE  /\ Has(q, {Ack}) => Has(q, {Ack, Nak})
         /\ ~Has(q, {Ack}) => \A S : BehindAck(q, S)
         /\ ~Has(q, {End}) => \A n : Checksums(q, n)
         /\ \A cs : ~Has(q, cs) => Once(q, cs)
  BY DEF Has, Once, BehindAck, Checksums

LEMMA Wider ==
  ASSUME NEW q, NEW S, NEW T, S \subseteq T
  PROVE  /\ Numbered(q, S) => Numbered(q, T)
         /\ BehindAck(q, S) => BehindAck(q, T)
  BY DEF Numbered, BehindAck

(***************************************************************************)
(* A packet the server receives is GDB's current request, GDB waits, and   *)
(* nothing else of the turn is under way.                                  *)
(***************************************************************************)
LEMMA ReceivesCurrent ==
  ASSUME TypeInv, StepInv, srv.pc \in {"poll", "get"}, SrvReads,
         NEW p \in Received(srv.rd, Head(toSrv))
  PROVE  /\ p = asked /\ p \in 1..asked /\ srv.rd.at = "lo"
         /\ ~RequestComes /\ ~AckComes
         /\ gdb.pc \in {"ack", "dead"} /\ Len(answers) < asked
<1>1. p \in 0..MaxAsked /\ srv.rd.at = "lo" /\ Head(toSrv) = <<"lo", p>>
  BY ReceivedFacts
<1>2. p \in 1..asked /\ toSrv \in Seq(Chars) /\ toSrv # << >>
  BY <1>1, SrvReadsFacts
<1>3. ChecksumAt(toSrv, 1, asked)
  BY <1>1 DEF StepInv, FrameInv
<1>4. Head(toSrv) = toSrv[1]
  BY <1>2, TailFacts
<1>5. p = asked
  BY <1>1, <1>3, <1>4 DEF ChecksumAt
<1>6. InChecksum
  BY <1>1 DEF InChecksum
<1> QED BY <1>1, <1>2, <1>5, <1>6 DEF StepInv, TurnInv

(***************************************************************************)
(* The reply GDB takes is its own.                                         *)
(***************************************************************************)
LEMMA TakesOwn ==
  ASSUME TypeInv, StepInv, GdbReads, TakesReply(Head(toGdb))
  PROVE  /\ answers' = Append(answers, asked) /\ Len(answers') = asked
         /\ DoneNow /\ ~client_waiting /\ Len(answers) < asked
<1> DEFINE c == Head(toGdb)
<1>1. toGdb \in Seq(Chars) /\ toGdb # << >> /\ gdb.pc = "reply"
  BY GdbReadsCases DEF TakesReply
<1>2. PICK p \in (0..MaxAsked) \ {0} : c = <<"lo", p>> /\ answers' = Append(answers, p)
  BY DEF TakesReply
<1>3. Numbered(toGdb, OwnReplies)
  BY <1>1 DEF StepInv, ReplyInv
<1>4. p \in OwnReplies
  BY <1>1, <1>2, <1>3, NumberedTail
<1>5. p = asked /\ DoneNow /\ ~client_waiting
  BY <1>2, <1>4 DEF OwnReplies, NotStopped
<1>6. Len(answers) = asked - 1 /\ asked \in Nat /\ answers \in Seq(1..asked)
  BY <1>1, AskedFacts DEF StepInv, WaitInv, TypeInv
<1>7. Len(answers') = Len(answers) + 1
  BY <1>2, <1>5, <1>6
<1> QED BY <1>2, <1>5, <1>6, <1>7

(***************************************************************************)
(* The server's steps.                                                     *)
(***************************************************************************)
LEMMA RequestStep ==
  ASSUME TypeInv, StepInv, get_packet, NEW p \in Received(srv.rd, Head(toSrv)), rsp_client_request(p)
  PROVE  StepInv'
<1>1. /\ srv.pc \in {"poll", "get"} /\ SrvReads /\ UNCHANGED <<gdb, kinds, answers>>
  BY DEF get_packet
<1>2. /\ p = asked /\ p \in 1..asked /\ ~RequestComes /\ ~AckComes
      /\ gdb.pc \in {"ack", "dead"} /\ Len(answers) < asked
  BY <1>1, ReceivesCurrent
<1>3. asked' = asked /\ asked \in 0..MaxAsked /\ 0 \in 0..MaxAsked
  BY <1>1, AskedFacts DEF asked
<1>4. /\ toSrv \in Seq(Chars) /\ toSrv # << >> /\ toSrv' = Tail(toSrv)
      /\ toGdb \in Seq(Chars) /\ performed \in Seq(1..asked) /\ kinds \in Seq({"q", "c"})
  BY <1>1, SrvReadsFacts DEF TypeInv
<1> DEFINE t == Append(toGdb, Ack)
<1>5. /\ t \in Seq(Chars) /\ Has(t, {Ack, Nak}) /\ Once(t, {Ack, Nak}) /\ Has(t, {Ack})
      /\ \A S : BehindAck(t, S)
  <2>1. ~Has(toGdb, {Ack, Nak}) /\ ~Has(toGdb, {Ack}) /\ Once(toGdb, {Ack, Nak})
    BY <1>2, Without DEF AckComes
  <2>2. \A S : BehindAck(toGdb, S)
    BY <2>1, Without
  <2>3. /\ t \in Seq(Chars) /\ Has(t, {Ack, Nak}) /\ Has(t, {Ack}) /\ Once(t, {Ack, Nak})
        /\ \A S : BehindAck(toGdb, S) => BehindAck(t, S)
    BY <1>4, <2>1, WriteChar
  <2> HIDE DEF t
  <2> QED BY <2>2, <2>3
<1>6. toGdb \o <<Ack>> = t
  BY <1>4, CharFacts
<1> HIDE DEF t
<1>7. ASSUME NEW r \in 0..MaxAsked, NEW S, r \in S
      PROVE  /\ t \o Frame(r) \in Seq(Chars) /\ Once(t \o Frame(r), {Ack, Nak})
             /\ BehindAck(t \o Frame(r), S)
  BY <1>5, <1>7, WriteFrame
<1>8. ~Has(toSrv', {End}) /\ (Has(toSrv', {Eof}) => Has(toSrv, {Eof}))
  BY <1>2, <1>4, HasTail DEF RequestComes
<1>9. /\ srv'.rd.at = "start" /\ srv'.pc \in {"ack", "poll"}
      /\ Once(toGdb', {Ack, Nak}) /\ BehindAck(toGdb', OwnReplies')
      /\ srv'.pc = "ack" => srv'.out \in OwnReplies'
      /\ client_waiting' => DoneNow' /\ kinds'[asked'] = "c" /\ gdb'.pc # "idle"
  <2>1. CASE target_running
    <3>1. /\ toGdb' = t \o Frame(0) /\ srv' = [pc |-> "ack", rd |-> Searching, out |-> 0]
          /\ UNCHANGED <<client_waiting, performed>>
      BY <1>6, <2>1 DEF rsp_client_request, NotStopped, rspVars
    <3>2. 0 \in OwnReplies' /\ (DoneNow' <=> DoneNow)
      BY <1>3, <3>1 DEF OwnReplies, DoneNow, NotStopped
    <3>3. client_waiting => DoneNow /\ kinds[asked] = "c"
      BY DEF StepInv, ReplyInv
    <3>4. Once(toGdb', {Ack, Nak}) /\ BehindAck(toGdb', OwnReplies')
      BY <1>3, <1>7, <3>1, <3>2
    <3> QED BY <1>1, <1>2, <1>3, <3>1, <3>2, <3>3, <3>4, ReadersFacts
  <2>2. performed' = Append(performed, asked) => DoneNow'
    <3> HAVE performed' = Append(performed, asked)
    <3>1. Len(performed') = Len(performed) + 1 /\ performed'[Len(performed) + 1] = asked
      BY <1>2, <1>4
    <3>2. Len(performed) \in Nat
      BY <1>4
    <3>3. performed' # << >>
      BY <3>1, <3>2
    <3> QED BY <1>3, <3>1, <3>3 DEF DoneNow, Last
  <2>3. CASE ~target_running /\ kinds[p] = "q"
    <3>1. /\ toGdb' = t \o Frame(p) /\ srv' = [pc |-> "ack", rd |-> Searching, out |-> p]
          /\ UNCHANGED <<client_waiting>> /\ performed' = Append(performed, p)
      BY <1>6, <2>3 DEF rsp_client_request, rspVars
    <3>2. ~client_waiting
      BY <1>2, <2>3 DEF StepInv, ReplyInv
    <3>3. DoneNow' /\ asked \in OwnReplies'
      BY <1>2, <1>3, <2>2, <3>1, <3>2 DEF OwnReplies
    <3>4. Once(toGdb', {Ack, Nak}) /\ BehindAck(toGdb', OwnReplies')
      BY <1>2, <1>3, <1>7, <3>1, <3>3
    <3> QED BY <1>2, <3>1, <3>2, <3>3, <3>4, ReadersFacts
  <2>4. CASE ~target_running /\ kinds[p] # "q"
    <3>1. /\ toGdb' = t /\ srv' = Poll
          /\ client_waiting' = TRUE /\ performed' = Append(performed, p)
      BY <2>4 DEF rsp_client_request, t
    <3>2. kinds[asked] \in {"q", "c"}
      <4>1. asked \in 1..Len(kinds)
        BY <1>2 DEF asked
      <4> QED BY <1>4, <4>1, ElementOfSeq
    <3> QED BY <1>1, <1>2, <1>3, <1>5, <2>2, <2>4, <3>1, <3>2, PollType, ReadersFacts
  <2> QED BY <2>1, <2>3, <2>4
<1>10. WaitInv'
  BY <1>1, <1>3, <1>8, <1>9 DEF StepInv, WaitInv
<1>11. TurnInv'
  <2>1. ~Has(toSrv', {End}) /\ Once(toSrv', {End})
    BY <1>8, Without
  <2> QED BY <1>1, <1>2, <1>3, <1>9, <2>1 DEF TurnInv, RequestComes, InChecksum
<1>12. FrameInv'
  BY <1>8, <1>9, Without DEF FrameInv
<1>13. ReplyInv'
  BY <1>1, <1>2, <1>9 DEF ReplyInv
<1> QED BY <1>10, <1>11, <1>12, <1>13 DEF StepInv

(***************************************************************************)
(* What StepInv speaks of is unchanged.                                    *)
(***************************************************************************)
LEMMA SameReplies ==
  ASSUME UNCHANGED <<client_waiting, performed, kinds>>
  PROVE  asked' = asked /\ DoneNow' = DoneNow /\ OwnReplies' = OwnReplies
  BY DEF asked, DoneNow, OwnReplies

LEMMA StepSame ==
  ASSUME StepInv, UNCHANGED <<toSrv, toGdb, srv, gdb, client_waiting, performed, kinds, answers>>
  PROVE  StepInv'
<1>1. asked' = asked /\ DoneNow' = DoneNow /\ OwnReplies' = OwnReplies
  BY SameReplies
<1> QED BY <1>1 DEF StepInv, WaitInv, TurnInv, FrameInv, ReplyInv, RequestComes, InChecksum, AckComes

(***************************************************************************)
(* The server goes back to searching for a frame, or closes, and at most   *)
(* repeats its packet.                                                     *)
(***************************************************************************)
LEMMA BackStep ==
  ASSUME TypeInv, StepInv, SrvReads,
         UNCHANGED <<gdb, client_waiting, performed, kinds, answers>>,
         \/ Head(toSrv) = Eof /\ srv' = [srv EXCEPT !.pc = "closed"] /\ UNCHANGED toGdb
         \/ srv' = Poll /\ UNCHANGED toGdb
         \/ srv.pc = "ack" /\ put_packet(srv.out)
  PROVE  StepInv'
<1>1. /\ toSrv \in Seq(Chars) /\ toSrv # << >> /\ toSrv' = Tail(toSrv)
      /\ toGdb \in Seq(Chars)
      /\ srv \in [pc : {"poll", "get", "ack", "closed"}, rd : Readers, out : 0..asked]
  BY SrvReadsFacts DEF TypeInv
<1>2. asked' = asked /\ DoneNow' = DoneNow /\ OwnReplies' = OwnReplies
  BY SameReplies
<1>3. /\ Has(toSrv', {End}) => Has(toSrv, {End})
      /\ Has(toSrv', {Eof}) => Has(toSrv, {Eof})
      /\ Once(toSrv, {End}) => Once(toSrv', {End})
      /\ Head(toSrv) = Eof => Has(toSrv, {Eof})
  BY <1>1, HasTail
<1>4. Checksums(toSrv, asked) => Checksums(toSrv', asked)
  BY <1>1, ChecksumTail
<1>5. CASE Head(toSrv) = Eof /\ srv' = [srv EXCEPT !.pc = "closed"] /\ UNCHANGED toGdb
  <2>1. srv'.pc = "closed" /\ srv'.rd = srv.rd
    BY <1>1, <1>5
  <2>2. WaitInv'
    BY <1>2, <1>3, <1>5 DEF StepInv, WaitInv
  <2>3. TurnInv'
    BY <1>2, <1>3, <1>5, <2>1 DEF StepInv, TurnInv, RequestComes, InChecksum, AckComes
  <2>4. FrameInv'
    BY <1>2, <1>4, <2>1 DEF StepInv, FrameInv
  <2>5. ReplyInv'
    BY <1>2, <1>5, <2>1 DEF StepInv, ReplyInv
  <2> QED BY <2>2, <2>3, <2>4, <2>5 DEF StepInv
<1>6. CASE srv' = Poll /\ UNCHANGED toGdb
  <2>1. srv'.pc = "poll" /\ srv'.rd.at = "start"
    BY <1>6, PollType, ReadersFacts
  <2>2. WaitInv'
    BY <1>2, <1>3, <2>1 DEF StepInv, WaitInv
  <2>3. TurnInv'
    BY <1>2, <1>3, <1>6, <2>1 DEF StepInv, TurnInv, RequestComes, InChecksum, AckComes
  <2>4. FrameInv'
    BY <1>2, <1>4, <2>1 DEF StepInv, FrameInv
  <2>5. ReplyInv'
    BY <1>2, <1>6, <2>1 DEF StepInv, ReplyInv
  <2> QED BY <2>2, <2>3, <2>4, <2>5 DEF StepInv
<1>7. CASE srv.pc = "ack" /\ put_packet(srv.out)
  <2> DEFINE o == srv.out
  <2>1. /\ toGdb' = toGdb \o Frame(o) /\ srv' = [pc |-> "ack", rd |-> Searching, out |-> o]
        /\ o \in 0..MaxAsked
    BY <1>1, <1>7, AskedFacts DEF put_packet
  <2>2. srv'.pc = "ack" /\ srv'.rd.at = "start" /\ srv'.out = srv.out
    BY <2>1, ReadersFacts
  <2> HIDE DEF o
  <2>3. /\ Has(toGdb', {Ack, Nak}) <=> Has(toGdb, {Ack, Nak})
        /\ Has(toGdb', {Ack}) <=> Has(toGdb, {Ack})
        /\ Once(toGdb, {Ack, Nak}) => Once(toGdb', {Ack, Nak})
    BY <1>1, <2>1, WriteFrame
  <2>4. ASSUME NEW S
        PROVE  /\ Numbered(toGdb, S) /\ o \in S => Numbered(toGdb', S)
               /\ BehindAck(toGdb, S) /\ (Has(toGdb, {Ack}) => o \in S) => BehindAck(toGdb', S)
    BY <1>1, <2>1, WriteFrame
  <2>5. WaitInv'
    BY <1>2, <1>3, <2>2 DEF StepInv, WaitInv
  <2>6. TurnInv'
    BY <1>2, <1>3, <2>2, <2>3 DEF StepInv, TurnInv, RequestComes, InChecksum, AckComes
  <2>7. FrameInv'
    BY <1>2, <1>4, <2>2 DEF StepInv, FrameInv
  <2>8. /\ BehindAck(toGdb, OwnReplies) /\ (gdb.pc = "reply" => Numbered(toGdb, OwnReplies))
        /\ gdb.pc = "reply" \/ Has(toGdb, {Ack}) => o \in OwnReplies
        /\ client_waiting => DoneNow /\ kinds[asked] = "c" /\ gdb.pc # "idle"
    BY <1>7 DEF StepInv, ReplyInv, o
  <2>9. BehindAck(toGdb', OwnReplies) /\ (gdb.pc = "reply" => Numbered(toGdb', OwnReplies))
    BY <2>4, <2>8
  <2>10. ReplyInv'
    BY <1>2, <2>2, <2>3, <2>8, <2>9 DEF ReplyInv, o
  <2> QED BY <2>5, <2>6, <2>7, <2>10 DEF StepInv
<1> QED BY <1>5, <1>6, <1>7

(***************************************************************************)
(* get_packet() reads on: at '#' the token passes to the reading of the    *)
(* checksum, and with a wrong checksum to the '-'.                         *)
(***************************************************************************)
LEMMA ReadOnStep ==
  ASSUME TypeInv, StepInv, SrvReads, srv.pc \in {"poll", "get"},
         UNCHANGED <<gdb, client_waiting, performed, kinds, answers>>,
         srv' = [srv EXCEPT !.pc = "get", !.rd = ReadChar(@, Head(toSrv))],
         toGdb' = IF srv.rd.at = "lo" THEN Append(toGdb, Nak) ELSE toGdb
  PROVE  StepInv'
<1> DEFINE c == Head(toSrv)
           r == ReadChar(srv.rd, c)
<1>1. /\ toSrv \in Seq(Chars) /\ toSrv # << >> /\ toSrv' = Tail(toSrv) /\ c \in Chars
      /\ toGdb \in Seq(Chars)
      /\ srv \in [pc : {"poll", "get", "ack", "closed"}, rd : Readers, out : 0..asked]
  BY SrvReadsFacts DEF TypeInv
<1>2. asked' = asked /\ DoneNow' = DoneNow /\ OwnReplies' = OwnReplies
  BY SameReplies
<1>3. srv'.pc = "get" /\ srv'.rd = r
  BY <1>1
<1>4. (r.at = "hi" => srv.rd.at = "body" /\ c = End) /\ (r.at = "lo" => srv.rd.at = "hi")
  BY <1>1, ReadCharFacts
<1> HIDE DEF r
<1>5. /\ Has(toSrv', {End}) => Has(toSrv, {End})
      /\ Has(toSrv', {Eof}) => Has(toSrv, {Eof})
      /\ Once(toSrv, {End}) => Once(toSrv', {End}) /\ (c = End => ~Has(toSrv', {End}))
      /\ c = End => Has(toSrv, {End})
  BY <1>1, HasTail
<1>6. /\ Checksums(toSrv, asked) => Checksums(toSrv', asked)
      /\ Checksums(toSrv, asked) /\ c = End => ChecksumAt(toSrv', 2, asked)
      /\ ChecksumAt(toSrv, 2, asked) => ChecksumAt(toSrv', 1, asked)
  BY <1>1, ChecksumTail
<1> HIDE DEF c
<1>7. /\ Has(toGdb', {Ack, Nak}) => Has(toGdb, {Ack, Nak}) \/ srv.rd.at = "lo"
      /\ Has(toGdb', {Ack}) => Has(toGdb, {Ack})
      /\ Once(toGdb, {Ack, Nak}) /\ (srv.rd.at = "lo" => ~Has(toGdb, {Ack, Nak}))
           => Once(toGdb', {Ack, Nak})
  BY <1>1, WriteChar, CharFacts
<1>8. ASSUME NEW S
      PROVE  /\ Numbered(toGdb, S) => Numbered(toGdb', S)
             /\ BehindAck(toGdb, S) => BehindAck(toGdb', S)
  BY <1>1, WriteChar
<1>9. WaitInv'
  BY <1>2, <1>3, <1>5 DEF StepInv, WaitInv
<1>10. TurnInv'
  BY <1>2, <1>3, <1>4, <1>5, <1>7 DEF StepInv, TurnInv, RequestComes, InChecksum, AckComes
<1>11. FrameInv'
  BY <1>2, <1>3, <1>4, <1>6 DEF StepInv, FrameInv
<1>12. BehindAck(toGdb', OwnReplies) /\ (gdb.pc = "reply" => Numbered(toGdb', OwnReplies))
  BY <1>8 DEF StepInv, ReplyInv
<1>13. ReplyInv'
  BY <1>2, <1>3, <1>12 DEF StepInv, ReplyInv
<1> QED BY <1>9, <1>10, <1>11, <1>13 DEF StepInv

LEMMA GetPacketStep ==
  ASSUME TypeInv, StepInv, get_packet
  PROVE  StepInv'
<1> DEFINE c == Head(toSrv)
<1>1. /\ SrvReads /\ srv.pc \in {"poll", "get"} /\ UNCHANGED <<gdb, kinds, answers>>
      /\ \/ /\ c = Eof /\ srv' = [srv EXCEPT !.pc = "closed"]
            /\ UNCHANGED <<toGdb, client_waiting, performed>>
         \/ srv' = Poll /\ UNCHANGED <<toGdb, client_waiting, performed>>
         \/ \E p \in Received(srv.rd, c) : rsp_client_request(p)
         \/ /\ srv' = [srv EXCEPT !.pc = "get", !.rd = ReadChar(@, c)]
            /\ toGdb' = IF srv.rd.at = "lo" THEN Append(toGdb, Nak) ELSE toGdb
            /\ UNCHANGED <<client_waiting, performed>>
  BY DEF get_packet, cpuVars, rspVars
<1>2. CASE /\ c = Eof /\ srv' = [srv EXCEPT !.pc = "closed"]
           /\ UNCHANGED <<toGdb, client_waiting, performed>>
  BY <1>1, <1>2, BackStep
<1>3. CASE srv' = Poll /\ UNCHANGED <<toGdb, client_waiting, performed>>
  BY <1>1, <1>3, BackStep
<1>4. CASE \E p \in Received(srv.rd, c) : rsp_client_request(p)
  BY <1>4, RequestStep
<1>5. CASE /\ srv' = [srv EXCEPT !.pc = "get", !.rd = ReadChar(@, c)]
           /\ toGdb' = IF srv.rd.at = "lo" THEN Append(toGdb, Nak) ELSE toGdb
           /\ UNCHANGED <<client_waiting, performed>>
  BY <1>1, <1>5, ReadOnStep
<1> QED BY <1>1, <1>2, <1>3, <1>4, <1>5

LEMMA AckStep ==
  ASSUME TypeInv, StepInv, put_packet_ack
  PROVE  StepInv'
<1>1. /\ SrvReads /\ UNCHANGED <<gdb, client_waiting, performed, kinds, answers>>
      /\ \/ Head(toSrv) = Eof /\ srv' = [srv EXCEPT !.pc = "closed"] /\ UNCHANGED toGdb
         \/ srv' = Poll /\ UNCHANGED toGdb
         \/ srv.pc = "ack" /\ put_packet(srv.out)
  BY DEF put_packet_ack, rspVars
<1> QED BY <1>1, BackStep

(***************************************************************************)
(* handle_rsp() reports the stop of the current continue.                  *)
(***************************************************************************)
LEMMA EventStep ==
  ASSUME TypeInv, StepInv, handle_rsp
  PROVE  StepInv'
<1>1. /\ UNCHANGED <<toSrv, gdb, kinds, performed, answers>>
      /\ \/ client_waiting /\ put_packet(Last(performed)) /\ client_waiting' = FALSE
         \/ UNCHANGED <<toGdb, srv, client_waiting>>
  BY DEF handle_rsp
<1>2. CASE client_waiting /\ put_packet(Last(performed)) /\ client_waiting' = FALSE
  <2>1. DoneNow /\ Last(performed) = asked
    BY <1>2 DEF StepInv, ReplyInv, DoneNow
  <2>2. asked' = asked /\ DoneNow'
    BY <1>1, <2>1 DEF DoneNow, asked
  <2>3. OwnReplies \subseteq OwnReplies' /\ asked \in OwnReplies'
    BY <1>2, <2>1, <2>2 DEF OwnReplies
  <2>4. /\ toGdb' = toGdb \o Frame(asked) /\ srv' = [pc |-> "ack", rd |-> Searching, out |-> asked]
        /\ asked \in 0..MaxAsked /\ toGdb \in Seq(Chars)
    BY <1>2, <2>1, AskedFacts DEF put_packet, TypeInv
  <2>5. srv'.pc = "ack" /\ srv'.rd.at = "start" /\ srv'.out = asked
    BY <2>4, ReadersFacts
  <2>6. /\ Has(toGdb', {Ack, Nak}) <=> Has(toGdb, {Ack, Nak})
        /\ Once(toGdb, {Ack, Nak}) => Once(toGdb', {Ack, Nak})
    BY <2>4, WriteFrame
  <2>7. ASSUME NEW S, asked \in S
        PROVE  /\ Numbered(toGdb, S) => Numbered(toGdb', S)
               /\ BehindAck(toGdb, S) => BehindAck(toGdb', S)
    BY <2>4, <2>7, WriteFrame
  <2>8. WaitInv'
    BY <1>1, <2>2, <2>5 DEF StepInv, WaitInv
  <2>9. TurnInv'
    BY <1>1, <2>2, <2>5, <2>6 DEF StepInv, TurnInv, RequestComes, InChecksum, AckComes
  <2>10. FrameInv'
    BY <1>1, <2>2, <2>5 DEF StepInv, FrameInv
  <2>11. BehindAck(toGdb, OwnReplies') /\ (gdb.pc = "reply" => Numbered(toGdb, OwnReplies'))
    BY <2>3, Wider DEF StepInv, ReplyInv
  <2>12. BehindAck(toGdb', OwnReplies') /\ (gdb.pc = "reply" => Numbered(toGdb', OwnReplies'))
    BY <2>3, <2>7, <2>11
  <2>13. ReplyInv'
    BY <1>1, <1>2, <2>3, <2>5, <2>12 DEF ReplyInv
  <2> QED BY <2>8, <2>9, <2>10, <2>13 DEF StepInv
<1>3. CASE UNCHANGED <<toGdb, srv, client_waiting>>
  BY <1>1, <1>3, StepSame
<1> QED BY <1>1, <1>2, <1>3

LEMMA CpuStep ==
  ASSUME StepInv, MonitorRuns \/ CpuStops
  PROVE  StepInv'
  BY StepSame DEF MonitorRuns, CpuStops, Event, rspVars

(***************************************************************************)
(* GDB's steps.  An idle GDB has nothing of the last turn left.            *)
(***************************************************************************)
LEMMA AsksStep ==
  ASSUME TypeInv, StepInv, NEW k \in {"q", "c"}, GdbAsks(k)
  PROVE  StepInv'
<1>1. /\ gdb.pc = "idle" /\ asked < MaxAsked /\ toSrv' = toSrv \o Frame(asked + 1)
      /\ gdb' = [pc |-> "ack", rd |-> Searching]
      /\ UNCHANGED <<srv, client_waiting, performed, toGdb, answers>>
  BY DEF GdbAsks, GdbLeaves, rspVars
<1>2. asked' = asked + 1 /\ asked \in Nat /\ asked + 1 \in 0..MaxAsked
  BY <1>1, AskedFacts, AsksType
<1>3. /\ ~RequestComes /\ ~InChecksum /\ ~AckComes /\ ~client_waiting
      /\ Len(answers) = asked /\ srv.pc # "closed" /\ ~Has(toSrv, {Eof})
  BY <1>1 DEF StepInv, WaitInv, TurnInv, ReplyInv
<1>4. toSrv \in Seq(Chars) /\ toGdb \in Seq(Chars)
  BY DEF TypeInv
<1> DEFINE n == asked + 1
<1>5. n \in 0..MaxAsked /\ toSrv' = toSrv \o Frame(n) /\ asked' = n /\ Len(answers) = n - 1 /\ n \in Nat
  BY <1>1, <1>2, <1>3
<1> HIDE DEF n
<1>6. ~Has(toSrv, {End}) /\ Checksums(toSrv, n)
  BY <1>3, Without DEF RequestComes
<1>7. /\ Has(toSrv', {Eof}) <=> Has(toSrv, {Eof})
      /\ Once(toSrv', {End}) /\ Checksums(toSrv', n)
  BY <1>4, <1>5, <1>6, WriteFrame
<1>8. ~Has(toGdb, {Ack, Nak}) /\ ~Has(toGdb, {Ack}) /\ Once(toGdb, {Ack, Nak})
  BY <1>3, Without DEF AckComes
<1>9. BehindAck(toGdb, OwnReplies')
  BY <1>8, Without
<1>10. gdb'.pc = "ack"
  BY <1>1
<1>11. WaitInv'
  BY <1>1, <1>3, <1>5, <1>7, <1>10 DEF WaitInv
<1>12. TurnInv'
  BY <1>1, <1>3, <1>5, <1>7, <1>8, <1>10 DEF TurnInv, RequestComes, InChecksum, AckComes
<1>13. FrameInv'
  BY <1>1, <1>3, <1>5, <1>7 DEF FrameInv, InChecksum
<1>14. ReplyInv'
  BY <1>1, <1>3, <1>8, <1>9, <1>10 DEF ReplyInv
<1> QED BY <1>11, <1>12, <1>13, <1>14 DEF StepInv

(***************************************************************************)
(* GDB takes characters from its line and appends an acknowledgement, a    *)
(* BREAK or the end of file to the server's, and goes on waiting.          *)
(***************************************************************************)
LEMMA AppendFacts ==
  ASSUME TypeInv, NEW c \in {Ack, Nak, Break, Eof}, toSrv' = toSrv \/ toSrv' = Append(toSrv, c)
  PROVE  /\ Has(toSrv', {End}) <=> Has(toSrv, {End})
         /\ Has(toSrv', {Eof}) => Has(toSrv, {Eof}) \/ c = Eof
         /\ Once(toSrv, {End}) => Once(toSrv', {End})
         /\ Checksums(toSrv, asked) => Checksums(toSrv', asked)
         /\ ChecksumAt(toSrv, 1, asked) => ChecksumAt(toSrv', 1, asked)
         /\ ChecksumAt(toSrv, 2, asked) => ChecksumAt(toSrv', 2, asked)
<1>1. toSrv \in Seq(Chars)
  BY DEF TypeInv
<1> DEFINE n == asked
<1> HIDE DEF n
<1>2. CASE toSrv' = Append(toSrv, c)
  <2>1. /\ Has(toSrv', {End}) <=> Has(toSrv, {End})
        /\ Has(toSrv', {Eof}) => Has(toSrv, {Eof}) \/ c = Eof
        /\ Once(toSrv, {End}) => Once(toSrv', {End})
    BY <1>1, <1>2, WriteChar
  <2>2. \A S : /\ Checksums(toSrv, S) => Checksums(toSrv', S)
               /\ \A i \in Nat \ {0} : ChecksumAt(toSrv, i, S) => ChecksumAt(toSrv', i, S)
    BY <1>1, <1>2, WriteChar
  <2>3. /\ Checksums(toSrv, n) => Checksums(toSrv', n)
        /\ \A i \in Nat \ {0} : ChecksumAt(toSrv, i, n) => ChecksumAt(toSrv', i, n)
    BY <2>2
  <2>4. 1 \in Nat \ {0} /\ 2 \in Nat \ {0}
    OBVIOUS
  <2> QED BY <2>1, <2>3, <2>4 DEF n
<1>3. CASE toSrv' = toSrv
  BY <1>3
<1> QED BY <1>2, <1>3

LEMMA SkipStep ==
  ASSUME TypeInv, StepInv, UNCHANGED <<srv, client_waiting, performed, kinds, answers>>,
         NEW c \in {Ack, Nak, Break}, toSrv' = toSrv \/ toSrv' = Append(toSrv, c),
         toGdb' = toGdb \/ (toGdb # << >> /\ toGdb' = Tail(toGdb)), gdb'.pc = gdb.pc
  PROVE  StepInv'
<1>1. asked' = asked /\ DoneNow' = DoneNow /\ OwnReplies' = OwnReplies
  BY SameReplies
<1>2. toGdb \in Seq(Chars) /\ c # Eof
  BY CharFacts DEF TypeInv
<1>3. /\ Has(toSrv', {End}) <=> Has(toSrv, {End})
      /\ Has(toSrv', {Eof}) => Has(toSrv, {Eof})
      /\ Once(toSrv, {End}) => Once(toSrv', {End})
      /\ Checksums(toSrv, asked) => Checksums(toSrv', asked)
      /\ ChecksumAt(toSrv, 1, asked) => ChecksumAt(toSrv', 1, asked)
      /\ ChecksumAt(toSrv, 2, asked) => ChecksumAt(toSrv', 2, asked)
  BY <1>2, AppendFacts
<1>4. /\ Has(toGdb', {Ack, Nak}) => Has(toGdb, {Ack, Nak})
      /\ Has(toGdb', {Ack}) => Has(toGdb, {Ack})
      /\ Once(toGdb, {Ack, Nak}) => Once(toGdb', {Ack, Nak})
  <2>1. CASE toGdb' = toGdb
    BY <2>1
  <2>2. CASE toGdb # << >> /\ toGdb' = Tail(toGdb)
    BY <1>2, <2>2, HasTail
  <2> QED BY <2>1, <2>2
<1>5. ASSUME NEW S
      PROVE  /\ Numbered(toGdb, S) => Numbered(toGdb', S)
             /\ BehindAck(toGdb, S) => BehindAck(toGdb', S)
  BY <1>2, NumberedTail
<1>6. WaitInv'
  BY <1>1, <1>3 DEF StepInv, WaitInv
<1>7. TurnInv'
  BY <1>1, <1>3, <1>4 DEF StepInv, TurnInv, RequestComes, InChecksum, AckComes
<1>8. FrameInv'
  BY <1>1, <1>3 DEF StepInv, FrameInv
<1>9. BehindAck(toGdb', OwnReplies) /\ (gdb.pc = "reply" => Numbered(toGdb', OwnReplies))
  BY <1>5 DEF StepInv, ReplyInv
<1>10. ReplyInv'
  BY <1>1, <1>4, <1>9 DEF StepInv, ReplyInv
<1> QED BY <1>6, <1>7, <1>8, <1>10 DEF StepInv

(***************************************************************************)
(* GDB sends its request again when nothing of its turn is under way.      *)
(***************************************************************************)
LEMMA RequestAgain ==
  ASSUME TypeInv, StepInv, UNCHANGED <<srv, client_waiting, performed, kinds, answers>>,
         gdb.pc = "ack", gdb'.pc = "ack", toSrv' = toSrv \o Frame(asked),
         ~RequestComes, ~InChecksum, ~Has(toGdb', {Ack, Nak})
  PROVE  StepInv'
<1>1. asked' = asked /\ DoneNow' = DoneNow /\ OwnReplies' = OwnReplies
  BY SameReplies
<1>2. toSrv \in Seq(Chars) /\ asked \in 0..MaxAsked /\ asked \in Nat
  BY AskedFacts DEF TypeInv
<1> DEFINE n == asked
<1>3. n \in 0..MaxAsked /\ toSrv' = toSrv \o Frame(n) /\ asked' = n
  BY <1>1, <1>2
<1> HIDE DEF n
<1>4. ~Has(toSrv, {End}) /\ Checksums(toSrv, n)
  BY Without DEF RequestComes
<1>5. /\ Has(toSrv', {Eof}) <=> Has(toSrv, {Eof})
      /\ Once(toSrv', {End}) /\ Checksums(toSrv', n)
  BY <1>2, <1>3, <1>4, WriteFrame
<1>6. ~Has(toGdb', {Ack}) /\ Once(toGdb', {Ack, Nak})
  BY Without
<1>7. BehindAck(toGdb', OwnReplies')
  BY <1>6, Without
<1>8. WaitInv'
  BY <1>1, <1>5 DEF StepInv, WaitInv
<1>9. Len(answers) < asked
  BY <1>2 DEF StepInv, WaitInv
<1>10. TurnInv'
  BY <1>1, <1>5, <1>6, <1>9 DEF TurnInv, RequestComes, InChecksum, AckComes
<1>11. FrameInv'
  BY <1>3, <1>5 DEF FrameInv, InChecksum
<1>12. ReplyInv'
  BY <1>1, <1>6, <1>7 DEF StepInv, ReplyInv
<1> QED BY <1>8, <1>10, <1>11, <1>12 DEF StepInv

LEMMA ReadsStep ==
  ASSUME TypeInv, StepInv, GdbReads
  PROVE  StepInv'
<1> DEFINE c == Head(toGdb)
<1>1. /\ gdb.pc \in {"ack", "reply"} /\ toGdb \in Seq(Chars) /\ toGdb # << >> /\ toGdb' = Tail(toGdb)
      /\ UNCHANGED <<srv, client_waiting, performed, kinds>>
      /\ TakesAck(c) \/ TakesNak(c) \/ TakesReply(c) \/ Skips(c)
  BY GdbReadsCases
<1>2. asked' = asked /\ DoneNow' = DoneNow /\ OwnReplies' = OwnReplies
  BY <1>1, SameReplies
<1>3. gdb \in [pc : {"idle", "ack", "reply", "dead"}, rd : Readers] /\ asked \in Nat
  BY AskedFacts DEF TypeInv
<1>4. /\ Has(toGdb', {Ack}) => Has(toGdb, {Ack})
      /\ c = Ack => Has(toGdb, {Ack})
      /\ c \in {Ack, Nak} => Has(toGdb, {Ack, Nak})
      /\ Once(toGdb, {Ack, Nak}) /\ c \in {Ack, Nak} => ~Has(toGdb', {Ack, Nak})
  BY <1>1, HasTail
<1>5. ASSUME c \in {Ack, Nak}
      PROVE  ~RequestComes /\ ~InChecksum /\ ~Has(toGdb', {Ack, Nak})
  BY <1>4, <1>5 DEF StepInv, TurnInv, AckComes
<1>6. CASE TakesAck(c)
  <2>1. c = Ack /\ gdb'.pc = "reply" /\ toSrv' = toSrv /\ answers' = answers /\ gdb.pc = "ack"
    BY <1>3, <1>6 DEF TakesAck
  <2>2. BehindAck(toGdb, OwnReplies)
    BY DEF StepInv, ReplyInv
  <2>3. Numbered(toGdb', OwnReplies)
    BY <1>1, <2>1, <2>2, NumberedTail
  <2>4. ~RequestComes /\ ~InChecksum /\ ~Has(toGdb', {Ack, Nak})
    BY <1>5, <2>1
  <2>5. ~Has(toGdb', {Ack}) /\ Once(toGdb', {Ack, Nak})
    BY <2>4, Without
  <2>6. BehindAck(toGdb', OwnReplies)
    BY <2>5, Without
  <2>7. WaitInv'
    BY <1>1, <1>2, <2>1 DEF StepInv, WaitInv
  <2>8. TurnInv'
    BY <1>1, <2>1, <2>4, <2>5 DEF StepInv, TurnInv, RequestComes, InChecksum, AckComes
  <2>9. FrameInv'
    BY <1>1, <1>2, <2>1 DEF StepInv, FrameInv
  <2>10. ReplyInv'
    BY <1>1, <1>2, <1>4, <2>1, <2>3, <2>6 DEF StepInv, ReplyInv
  <2> QED BY <2>7, <2>8, <2>9, <2>10 DEF StepInv
<1>7. CASE TakesNak(c)
  <2>1. c = Nak /\ gdb'.pc = "ack" /\ toSrv' = toSrv \o Frame(asked) /\ answers' = answers /\ gdb.pc = "ack"
    BY <1>3, <1>7 DEF TakesNak
  <2> QED BY <1>1, <1>5, <2>1, RequestAgain
<1>8. CASE TakesReply(c)
  <2>1. gdb.pc = "reply" /\ gdb'.pc = "idle" /\ toSrv' = Append(toSrv, Ack)
    BY <1>8 DEF TakesReply
  <2>2. Len(answers') = asked /\ ~client_waiting
    BY <1>8, TakesOwn
  <2>3. ~RequestComes /\ ~InChecksum /\ ~AckComes /\ srv.pc # "closed" /\ ~Has(toSrv, {Eof})
    BY <2>1 DEF StepInv, TurnInv, WaitInv
  <2>4. ~Has(toSrv', {End}) /\ ~Has(toSrv', {Eof})
    BY <2>1, <2>3, AppendFacts, CharFacts DEF RequestComes
  <2>5. Once(toSrv', {End}) /\ Checksums(toSrv', asked)
    BY <2>4, Without
  <2>6. ~Has(toGdb', {Ack, Nak})
    BY <1>1, <2>3, HasTail DEF AckComes
  <2>7. ~Has(toGdb', {Ack}) /\ Once(toGdb', {Ack, Nak})
    BY <2>6, Without
  <2>8. BehindAck(toGdb', OwnReplies)
    BY <2>7, Without
  <2>9. WaitInv'
    BY <1>1, <1>2, <2>1, <2>2, <2>3, <2>4 DEF WaitInv
  <2>10. TurnInv'
    BY <1>1, <2>3, <2>4, <2>5, <2>6, <2>7 DEF TurnInv, RequestComes, InChecksum, AckComes
  <2>11. FrameInv'
    BY <1>1, <1>2, <2>3, <2>5 DEF FrameInv, InChecksum
  <2>12. ReplyInv'
    BY <1>1, <1>2, <2>1, <2>2, <2>7, <2>8 DEF ReplyInv
  <2> QED BY <2>9, <2>10, <2>11, <2>12 DEF StepInv
<1>9. CASE Skips(c)
  <2>1. gdb'.pc = gdb.pc /\ answers' = answers
    BY <1>3, <1>9 DEF Skips
  <2>2. \E a \in {Ack, Nak, Break} : toSrv' = toSrv \/ toSrv' = Append(toSrv, a)
    BY <1>9 DEF Skips
  <2> QED BY <1>1, <2>1, <2>2, SkipStep
<1> QED BY <1>1, <1>6, <1>7, <1>8, <1>9

(***************************************************************************)
(* A timeout comes when nothing is on its way, so the token is lost: the   *)
(* checksum behind a '#' the server has read would still be there.         *)
(***************************************************************************)
LEMMA RepeatsStep ==
  ASSUME TypeInv, StepInv, EarlyKinds = {}, TimesOut \/ TimesOutEarly \/ TypesBreak
  PROVE  StepInv'
<1>1. /\ gdb.pc \in {"ack", "reply"}
      /\ toSrv' = IF gdb.pc = "ack" THEN toSrv \o Frame(asked)
                  ELSE Append(toSrv, IF IsContinue THEN Break ELSE Nak)
      /\ gdb' = IF IsContinue THEN gdb ELSE [gdb EXCEPT !.rd = Searching]
      /\ UNCHANGED <<srv, client_waiting, performed, toGdb, kinds, answers>>
  BY DEF TimesOut, TimesOutEarly, TypesBreak, GdbRepeats, GdbLeaves, rspVars
<1>2. gdb \in [pc : {"idle", "ack", "reply", "dead"}, rd : Readers]
  BY DEF TypeInv
<1>3. gdb'.pc = gdb.pc
  BY <1>1, <1>2
<1>4. CASE gdb.pc = "ack"
  <2>1. toSrv = << >> /\ toGdb = << >>
    BY <1>4 DEF TimesOut, TimesOutEarly, TypesBreak, Idle, IsContinue
  <2>2. ~RequestComes /\ ~Has(toGdb', {Ack, Nak})
    BY <1>1, <2>1 DEF RequestComes, Has
  <2>3. ~ChecksumAt(toSrv, 1, asked) /\ ~ChecksumAt(toSrv, 2, asked)
    BY <2>1 DEF ChecksumAt
  <2>4. ~InChecksum
    BY <1>4, <2>3 DEF StepInv, WaitInv, FrameInv, InChecksum
  <2> QED BY <1>1, <1>3, <1>4, <2>2, <2>4, RequestAgain
<1>5. CASE gdb.pc = "reply"
  <2>1. \E a \in {Ack, Nak, Break} : toSrv' = Append(toSrv, a)
    BY <1>1, <1>5
  <2> QED BY <1>1, <1>3, <2>1, SkipStep
<1> QED BY <1>1, <1>4, <1>5

LEMMA DiesStep ==
  ASSUME TypeInv, StepInv, GdbDies
  PROVE  StepInv'
<1>1. /\ gdb' = [gdb EXCEPT !.pc = "dead"] /\ toSrv' = Append(toSrv, Eof)
      /\ UNCHANGED <<srv, client_waiting, performed, toGdb, kinds, answers>>
  BY DEF GdbDies, GdbLeaves, rspVars
<1>2. gdb'.pc = "dead"
  BY <1>1 DEF TypeInv
<1>3. asked' = asked /\ DoneNow' = DoneNow /\ OwnReplies' = OwnReplies
  BY <1>1, SameReplies
<1>4. /\ Has(toSrv', {End}) <=> Has(toSrv, {End})
      /\ Once(toSrv, {End}) => Once(toSrv', {End})
      /\ Checksums(toSrv, asked) => Checksums(toSrv', asked)
      /\ ChecksumAt(toSrv, 1, asked) => ChecksumAt(toSrv', 1, asked)
      /\ ChecksumAt(toSrv, 2, asked) => ChecksumAt(toSrv', 2, asked)
  BY <1>1, AppendFacts
<1>5. WaitInv'
  BY <1>2 DEF WaitInv
<1>6. TurnInv'
  BY <1>1, <1>2, <1>3, <1>4 DEF StepInv, TurnInv, RequestComes, InChecksum, AckComes
<1>7. FrameInv'
  BY <1>1, <1>3, <1>4 DEF StepInv, FrameInv
<1>8. ReplyInv'
  BY <1>1, <1>2, <1>3 DEF StepInv, ReplyInv
<1> QED BY <1>5, <1>6, <1>7, <1>8 DEF StepInv

LEMMA DamageStep ==
  ASSUME TypeInv, StepInv, DamageLine
  PROVE  StepInv'
<1>1. /\ UNCHANGED <<srv, gdb, client_waiting, performed, kinds, answers>>
      /\ \/ \E i \in DOMAIN toSrv : toSrv' = [toSrv EXCEPT ![i] = Noise] /\ UNCHANGED toGdb
         \/ \E i \in DOMAIN toGdb : toGdb' = [toGdb EXCEPT ![i] = Noise] /\ UNCHANGED toSrv
  BY DEF DamageLine, GdbLeaves, rspVars
<1>2. asked' = asked /\ DoneNow' = DoneNow /\ OwnReplies' = OwnReplies
  BY <1>1, SameReplies
<1>3. /\ toSrv \in Seq(Chars) /\ DOMAIN toSrv = 1..Len(toSrv)
      /\ toGdb \in Seq(Chars) /\ DOMAIN toGdb = 1..Len(toGdb)
  BY DEF TypeInv
<1>4. Noise \notin {End} /\ Noise \notin {Eof} /\ Noise \notin {Ack} /\ Noise \notin {Ack, Nak}
  BY CharFacts
<1>5. CASE \E i \in DOMAIN toSrv : toSrv' = [toSrv EXCEPT ![i] = Noise] /\ UNCHANGED toGdb
  <2>1. PICK i \in 1..Len(toSrv) : toSrv' = [toSrv EXCEPT ![i] = Noise]
    BY <1>3, <1>5
  <2> DEFINE n == asked
  <2> HIDE DEF n
  <2>2. /\ Has(toSrv', {End}) => Has(toSrv, {End})
        /\ Once(toSrv, {End}) => Once(toSrv', {End})
        /\ Checksums(toSrv, n) => Checksums(toSrv', n)
        /\ \A j \in Nat \ {0} : ChecksumAt(toSrv, j, n) => ChecksumAt(toSrv', j, n)
    BY <1>3, <1>4, <2>1, Damaged
  <2>3. Has(toSrv', {Eof}) => Has(toSrv, {Eof})
    BY <1>3, <1>4, <2>1, Damaged
  <2>4. /\ ChecksumAt(toSrv, 1, n) => ChecksumAt(toSrv', 1, n)
        /\ ChecksumAt(toSrv, 2, n) => ChecksumAt(toSrv', 2, n)
    <3>1. 1 \in Nat \ {0} /\ 2 \in Nat \ {0}
      OBVIOUS
    <3> QED BY <2>2, <3>1
  <2>5. WaitInv'
    BY <1>1, <1>2, <2>3 DEF StepInv, WaitInv
  <2>6. TurnInv'
    BY <1>1, <1>2, <1>5, <2>2 DEF StepInv, TurnInv, RequestComes, InChecksum, AckComes
  <2>7. FrameInv'
    BY <1>1, <1>2, <2>2, <2>4 DEF StepInv, FrameInv, n
  <2>8. ReplyInv'
    BY <1>1, <1>2, <1>5 DEF StepInv, ReplyInv
  <2> QED BY <2>5, <2>6, <2>7, <2>8 DEF StepInv
<1>6. CASE \E i \in DOMAIN toGdb : toGdb' = [toGdb EXCEPT ![i] = Noise] /\ UNCHANGED toSrv
  <2>1. PICK i \in 1..Len(toGdb) : toGdb' = [toGdb EXCEPT ![i] = Noise]
    BY <1>3, <1>6
  <2>2. /\ Has(toGdb', {Ack, Nak}) => Has(toGdb, {Ack, Nak})
        /\ Once(toGdb, {Ack, Nak}) => Once(toGdb', {Ack, Nak})
    BY <1>3, <1>4, <2>1, Damaged
  <2>3. Has(toGdb', {Ack}) => Has(toGdb, {Ack})
    BY <1>3, <1>4, <2>1, Damaged
  <2>4. ASSUME NEW S
        PROVE  /\ Numbered(toGdb, S) => Numbered(toGdb', S)
               /\ BehindAck(toGdb, S) => BehindAck(toGdb', S)
    BY <1>3, <1>4, <2>1, Damaged
  <2>5. BehindAck(toGdb', OwnReplies) /\ (gdb.pc = "reply" => Numbered(toGdb', OwnReplies))
    BY <2>4 DEF StepInv, ReplyInv
  <2>6. WaitInv'
    BY <1>1, <1>2, <1>6 DEF StepInv, WaitInv
  <2>7. TurnInv'
    BY <1>1, <1>2, <1>6, <2>2 DEF StepInv, TurnInv, RequestComes, InChecksum, AckComes
  <2>8. FrameInv'
    BY <1>1, <1>2, <1>6 DEF StepInv, FrameInv
  <2>9. ReplyInv'
    BY <1>1, <1>2, <2>3, <2>5 DEF StepInv, ReplyInv
  <2> QED BY <2>6, <2>7, <2>8, <2>9 DEF StepInv
<1> QED BY <1>1, <1>5, <1>6

LEMMA StepStart == Init => StepInv
<1> SUFFICES ASSUME Init PROVE StepInv
  OBVIOUS
<1>1. /\ asked = 0 /\ Len(answers) = 0 /\ toGdb = << >> /\ toSrv = Append(<< >>, Ack)
      /\ srv.pc = "poll" /\ srv.rd.at = "start" /\ gdb.pc = "idle" /\ client_waiting = FALSE
  BY ReadersFacts DEF Init, asked
<1>2. << >> \in Seq(Chars) /\ \A cs : ~Has(<< >>, cs)
  BY DEF Has
<1>3. ~Has(toSrv, {End}) /\ ~Has(toSrv, {Eof}) /\ ~Has(toGdb, {Ack, Nak}) /\ ~Has(toGdb, {Ack})
  <2>1. ~Has(<< >>, {End}) /\ ~Has(<< >>, {Eof}) /\ ~Has(<< >>, {Ack, Nak}) /\ ~Has(<< >>, {Ack})
    BY DEF Has
  <2> QED BY <1>1, <1>2, <2>1, WriteChar, CharFacts
<1>4. Once(toSrv, {End}) /\ Once(toGdb, {Ack, Nak}) /\ Checksums(toSrv, asked) /\ BehindAck(toGdb, OwnReplies)
  BY <1>3, Without
<1>5. WaitInv
  BY <1>1, <1>3 DEF WaitInv
<1>6. TurnInv
  BY <1>1, <1>3, <1>4 DEF TurnInv, RequestComes, InChecksum, AckComes
<1>7. FrameInv
  BY <1>1, <1>4 DEF FrameInv
<1>8. ReplyInv
  BY <1>1, <1>3, <1>4 DEF ReplyInv
<1> QED BY <1>5, <1>6, <1>7, <1>8 DEF StepInv

LEMMA StepKept ==
  ASSUME EarlyKinds = {}
  PROVE  TypeInv /\ StepInv /\ [Next]_vars => StepInv'
<1> SUFFICES ASSUME TypeInv, StepInv, [Next]_vars PROVE StepInv'
  OBVIOUS
<1>1. CASE Server
  BY <1>1, GetPacketStep, AckStep, EventStep DEF Server
<1>2. CASE MonitorRuns \/ CpuStops
  BY <1>2, CpuStep
<1>3. CASE \E k \in {"q", "c"} : GdbAsks(k)
  BY <1>3, AsksStep
<1>4. CASE GdbReads
  BY <1>4, ReadsStep
<1>5. CASE TimesOut \/ TimesOutEarly \/ TypesBreak
  BY <1>5, RepeatsStep
<1>6. CASE GdbDies
  BY <1>6, DiesStep
<1>7. CASE DamageLine
  BY <1>7, DamageStep
<1>8. CASE UNCHANGED vars
  BY <1>8, StepSame DEF vars, rspVars
<1> QED BY <1>1, <1>2, <1>3, <1>4, <1>5, <1>6, <1>7, <1>8 DEF Next

(***************************************************************************)
(* Each step is one of the channel's or leaves it alone.                   *)
(***************************************************************************)
LEMMA ChannelStep ==
  TypeInv /\ StepInv /\ [Next]_vars
    => [Channel!Ask \/ Channel!Perform \/ Channel!Answer]_<<asked, performed, answers>>
<1> SUFFICES ASSUME TypeInv, StepInv, [Next]_vars
             PROVE  \/ Channel!Ask \/ Channel!Perform \/ Channel!Answer
                    \/ UNCHANGED <<asked, performed, answers>>
  OBVIOUS
<1>1. CASE get_packet
  <2>1. SrvReads /\ srv.pc \in {"poll", "get"} /\ UNCHANGED <<kinds, answers>> /\ asked' = asked
    BY <1>1 DEF get_packet, asked
  <2>2. CASE UNCHANGED performed
    BY <2>1, <2>2
  <2>3. CASE \E p \in Received(srv.rd, Head(toSrv)) : rsp_client_request(p)
    <3>1. PICK p \in Received(srv.rd, Head(toSrv)) : rsp_client_request(p)
      BY <2>3
    <3>2. p = asked /\ Len(answers) < asked
      BY <2>1, ReceivesCurrent
    <3>3. UNCHANGED performed \/ performed' = Append(performed, p)
      BY <3>1 DEF rsp_client_request
    <3>4. performed' = Append(performed, asked) => Channel!Perform
      BY <2>1, <3>2 DEF Channel!Perform, Channel!Waiting
    <3> QED BY <2>1, <3>2, <3>3, <3>4
  <2> QED BY <1>1, <2>2, <2>3 DEF get_packet
<1>2. CASE put_packet_ack \/ handle_rsp \/ MonitorRuns \/ CpuStops
  BY <1>2 DEF put_packet_ack, handle_rsp, MonitorRuns, CpuStops, Event, asked
<1>3. CASE \E k \in {"q", "c"} : GdbAsks(k)
  <2>1. gdb.pc = "idle" /\ UNCHANGED <<performed, answers>>
    BY <1>3 DEF GdbAsks, GdbLeaves
  <2>2. asked' = asked + 1
    BY <1>3, AsksType
  <2>3. Len(answers) = asked /\ asked \in Nat
    BY <2>1, AskedFacts DEF StepInv, WaitInv
  <2>4. Channel!Ask
    BY <2>1, <2>2, <2>3 DEF Channel!Ask, Channel!Waiting
  <2> QED BY <2>4
<1>4. CASE GdbReads
  <2> DEFINE c == Head(toGdb)
  <2>1. /\ UNCHANGED <<performed, kinds>>
        /\ TakesAck(c) \/ TakesNak(c) \/ TakesReply(c) \/ Skips(c)
    BY <1>4, GdbReadsCases
  <2>2. asked' = asked
    BY <2>1 DEF asked
  <2>3. CASE TakesReply(c)
    <3>1. answers' = Append(answers, asked) /\ DoneNow /\ Len(answers) < asked
      BY <1>4, <2>3, TakesOwn
    <3>2. Channel!Answer
      BY <2>1, <2>2, <3>1 DEF Channel!Answer, Channel!Waiting, Channel!Last, Last, DoneNow
    <3> QED BY <3>2
  <2>4. CASE TakesAck(c) \/ TakesNak(c) \/ Skips(c)
    BY <2>1, <2>2, <2>4 DEF TakesAck, TakesNak, Skips
  <2> QED BY <2>1, <2>3, <2>4
<1>5. CASE TimesOut \/ TimesOutEarly \/ TypesBreak
  BY <1>5 DEF TimesOut, TimesOutEarly, TypesBreak, GdbRepeats, GdbLeaves, asked
<1>6. CASE GdbDies \/ DamageLine
  BY <1>6 DEF GdbDies, DamageLine, GdbLeaves, asked
<1>7. CASE UNCHANGED vars
  BY <1>7 DEF vars, asked
<1> QED BY <1>1, <1>2, <1>3, <1>4, <1>5, <1>6, <1>7 DEF Next, Server

(***************************************************************************)
(* get_packet() and put_packet() keep requests and replies in step, for    *)
(* every number of requests, damaged characters and BREAKs, with a GDB     *)
(* that does not repeat a request while the server still answers it: the   *)
(* server performs only the request GDB waits on, and GDB takes only the   *)
(* reply to it.  TLC shows that two early repetitions do break it.         *)
(***************************************************************************)
THEOREM RequestsInStep ==
  ASSUME EarlyKinds = {}
  PROVE  Spec => InStep
<1>1. Init => TypeInv /\ StepInv
  BY TypeStart, StepStart
<1>2. TypeInv /\ StepInv /\ [Next]_vars => TypeInv' /\ StepInv'
  BY TypeStep, StepKept
<1>3. Init => Channel!Init
  BY DEF Init, Channel!Init, asked
<1>4. TypeInv /\ StepInv /\ [Next]_vars
        => [Channel!Ask \/ Channel!Perform \/ Channel!Answer]_<<asked, performed, answers>>
  BY ChannelStep
<1> QED BY <1>1, <1>2, <1>3, <1>4, PTL DEF Spec, InStep, Channel!Spec

=============================================================================
