-------------------------- MODULE ChainSetupProofs --------------------------
(***************************************************************************)
(* Proofs about start-up: for chains of any length whose devices have any  *)
(* instruction registers and IDCODEs, for every word size, any BSDL files  *)
(* and options, and any number of failures of the cable.                   *)
(***************************************************************************)
EXTENDS ChainSetup, WellFoundedInduction, SequenceTheorems, TLAPS

(***************************************************************************)
(* Induction over numbers: a set that holds 0 and, with every number, the  *)
(* next one holds them all, for the least number outside it cannot exist.  *)
(***************************************************************************)
LEMMA SetInduction ==
  ASSUME NEW S, 0 \in S, \A n \in Nat : n \in S => n + 1 \in S
  PROVE  \A n \in Nat : n \in S
<1> DEFINE D == {n \in Nat : n \notin S}
<1>1. SUFFICES ASSUME D # {} PROVE FALSE
  OBVIOUS
<1>2. D \subseteq Nat
  OBVIOUS
<1>3. PICK x \in D : \A y \in D : ~ (<<y, x>> \in OpToRel(<, Nat))
  BY <1>1, <1>2, WFMin, NatLessThanWellFounded
<1>4. \A y \in D : ~ (y < x)
  BY <1>2, <1>3 DEF OpToRel
<1>5. x # 0 /\ x - 1 \in Nat /\ x - 1 \notin D
  BY <1>4
<1> QED BY <1>5

Flat(s, n, g) == \A k \in 1..n : g[k] = IF k = 1 THEN s[k] ELSE g[k - 1] \o s[k]

LEMMA FlatStep ==
  ASSUME NEW A, NEW n \in Nat, NEW s \in Seq(Seq(A)), n + 1 <= Len(s),
         NEW g \in [1..n -> Seq(A)], Flat(s, n, g)
  PROVE  \E h \in [1..(n + 1) -> Seq(A)] : Flat(s, n + 1, h)
<1> DEFINE h == [k \in 1..(n + 1) |-> IF k <= n THEN g[k] ELSE IF n = 0 THEN s[k] ELSE g[n] \o s[k]]
<1>1. \A k \in 1..(n + 1) : s[k] \in Seq(A)
  OBVIOUS
<1>2. n # 0 => g[n] \in Seq(A)
  OBVIOUS
<1>3. \A k \in 1..(n + 1) : h[k] \in Seq(A)
  BY <1>1, <1>2
<1>4. h \in [1..(n + 1) -> Seq(A)]
  BY <1>3
<1>5. ASSUME NEW k \in 1..(n + 1) PROVE h[k] = IF k = 1 THEN s[k] ELSE h[k - 1] \o s[k]
  <2>1. CASE k <= n
    <3>1. k \in 1..n /\ (k # 1 => k - 1 \in 1..n)
      BY <2>1
    <3>2. g[k] = IF k = 1 THEN s[k] ELSE g[k - 1] \o s[k]
      BY <3>1 DEF Flat
    <3>3. h[k] = g[k] /\ (k # 1 => h[k - 1] = g[k - 1])
      BY <3>1
    <3> HIDE DEF h
    <3> QED BY <3>2, <3>3
  <2>2. CASE k = n + 1 /\ n # 0
    <3>1. k - 1 = n /\ k # 1 /\ ~ (k <= n) /\ n \in 1..(n + 1) /\ n <= n
      BY <2>2
    <3>2. h[k] = g[n] \o s[k]
      BY <2>2, <3>1
    <3>3. h[k - 1] = g[n]
      BY <2>2, <3>1
    <3> HIDE DEF h
    <3> QED BY <3>1, <3>2, <3>3
  <2>3. CASE k = n + 1 /\ n = 0
    BY <2>3
  <2> QED BY <2>1, <2>2, <2>3
<1>6. Flat(s, n + 1, h)
  BY <1>5 DEF Flat
<1> HIDE DEF h
<1> QED BY <1>4, <1>6

LEMMA FlatExists ==
  ASSUME NEW A, NEW s \in Seq(Seq(A))
  PROVE  \E g \in [1..Len(s) -> Seq(A)] : Flat(s, Len(s), g)
<1> DEFINE P(n) == n <= Len(s) => \E g \in [1..n -> Seq(A)] : Flat(s, n, g)
<1> DEFINE S == {n \in Nat : P(n)}
<1>1. P(0)
  <2>1. [k \in 1..0 |-> << >>] \in [1..0 -> Seq(A)]
    OBVIOUS
  <2>2. Flat(s, 0, [k \in 1..0 |-> << >>])
    BY DEF Flat
  <2> QED BY <2>1, <2>2
<1>2. ASSUME NEW n \in Nat, P(n) PROVE P(n + 1)
  <2>1. SUFFICES ASSUME n + 1 <= Len(s) PROVE \E g \in [1..(n + 1) -> Seq(A)] : Flat(s, n + 1, g)
    OBVIOUS
  <2>2. PICK g \in [1..n -> Seq(A)] : Flat(s, n, g)
    BY <1>2, <2>1
  <2> QED BY <2>1, <2>2, FlatStep
<1> HIDE DEF P
<1>3. 0 \in S /\ \A n \in Nat : n \in S => n + 1 \in S
  BY <1>1, <1>2
<1>4. Len(s) \in S
  <2> HIDE DEF S
  <2>1. Len(s) \in Nat
    OBVIOUS
  <2> QED BY <1>3, <2>1, SetInduction
<1> QED BY <1>4 DEF P

LEMMA FlatUnique ==
  ASSUME NEW n \in Nat, NEW m \in 0..n, NEW s, NEW g, NEW h,
         Flat(s, n, g), Flat(s, m, h)
  PROVE  \A k \in 1..m : g[k] = h[k]
<1> DEFINE P(k) == k \in 1..m => g[k] = h[k]
<1> DEFINE S == {k \in Nat : P(k)}
<1>1. P(0)
  OBVIOUS
<1>2. ASSUME NEW k \in Nat, P(k) PROVE P(k + 1)
  <2>1. SUFFICES ASSUME k + 1 \in 1..m PROVE g[k + 1] = h[k + 1]
    OBVIOUS
  <2>2. k + 1 \in 1..n /\ (k # 0 => k \in 1..m) /\ (k + 1) - 1 = k
    BY <2>1
  <2>3. g[k + 1] = IF k + 1 = 1 THEN s[k + 1] ELSE g[k] \o s[k + 1]
    BY <2>2 DEF Flat
  <2>4. h[k + 1] = IF k + 1 = 1 THEN s[k + 1] ELSE h[k] \o s[k + 1]
    BY <2>1, <2>2 DEF Flat
  <2> QED BY <1>2, <2>2, <2>3, <2>4
<1> HIDE DEF P
<1>3. 0 \in S /\ \A k \in Nat : k \in S => k + 1 \in S
  BY <1>1, <1>2
<1>4. \A k \in Nat : k \in S
  <2> HIDE DEF S
  <2> QED BY <1>3, SetInduction
<1>5. \A k \in Nat : P(k)
  BY <1>4
<1> QED BY <1>5 DEF P

LEMMA FlattenIs ==
  ASSUME NEW A, NEW s \in Seq(Seq(A)), s # << >>
  PROVE  \E g \in [1..Len(s) -> Seq(A)] : Flat(s, Len(s), g) /\ FlattenSeq(s) = g[Len(s)]
<1> DEFINE Eq(g) == g = [k \in 1..Len(s) |-> IF k = 1 THEN s[k] ELSE g[k - 1] \o s[k]]
           f == CHOOSE g : Eq(g)
<1>1. PICK g \in [1..Len(s) -> Seq(A)] : Flat(s, Len(s), g)
  BY FlatExists
<1>2. Eq(g)
  BY <1>1 DEF Flat
<1>3. FlattenSeq(s) = f[Len(s)]
  BY DEF FlattenSeq
<1>4. Eq(f)
  <2> HIDE DEF Eq
  <2> QED BY <1>2
<1> HIDE DEF f
<1>5. Flat(s, Len(s), f)
  BY <1>4 DEF Flat
<1>6. Len(s) \in Nat /\ Len(s) \in 1..Len(s)
  OBVIOUS
<1>7. \A k \in 1..Len(s) : f[k] = g[k]
  BY <1>1, <1>5, <1>6, FlatUnique
<1> QED BY <1>1, <1>3, <1>6, <1>7

Upto(s, n) == [k \in 1..n |-> s[k]]

LEMMA FlattenNext ==
  ASSUME NEW A, NEW s, NEW n \in Nat, \A k \in 1..(n + 1) : s[k] \in Seq(A)
  PROVE  FlattenSeq(Upto(s, n + 1)) = FlattenSeq(Upto(s, n)) \o s[n + 1]
<1>1. Upto(s, n + 1) \in Seq(Seq(A)) /\ Len(Upto(s, n + 1)) = n + 1 /\ Upto(s, n + 1) # << >>
  BY DEF Upto
<1>2. PICK g : g \in [1..(n + 1) -> Seq(A)] /\
        Flat(Upto(s, n + 1), n + 1, g) /\ FlattenSeq(Upto(s, n + 1)) = g[n + 1]
  BY <1>1, FlattenIs
<1>3. g[n + 1] = IF n = 0 THEN s[1] ELSE g[n] \o s[n + 1]
  <2>1. n + 1 \in 1..(n + 1) /\ (n + 1) - 1 = n /\ (n + 1 = 1 <=> n = 0)
    OBVIOUS
  <2>2. Upto(s, n + 1)[n + 1] = s[n + 1]
    BY <2>1 DEF Upto
  <2> QED BY <1>2, <2>1, <2>2 DEF Flat
<1>4. CASE n = 0
  <2>1. FlattenSeq(Upto(s, n)) = << >>
    <3>1. Upto(s, n) = << >> /\ Len(Upto(s, n)) = 0
      BY <1>4 DEF Upto
    <3> QED BY <3>1 DEF FlattenSeq
  <2>2. s[n + 1] \in Seq(A)
    OBVIOUS
  <2> QED BY <1>2, <1>3, <1>4, <2>1, <2>2
<1>5. CASE n # 0
  <2>1. Upto(s, n) \in Seq(Seq(A)) /\ Len(Upto(s, n)) = n /\ Upto(s, n) # << >>
    <3>1. \A k \in 1..n : s[k] \in Seq(A)
      OBVIOUS
    <3>2. Upto(s, n) \in Seq(Seq(A)) /\ Len(Upto(s, n)) = n
      BY <3>1 DEF Upto
    <3> QED BY <1>5, <3>2
  <2>2. PICK h : h \in [1..n -> Seq(A)] /\ Flat(Upto(s, n), n, h) /\ FlattenSeq(Upto(s, n)) = h[n]
    BY <2>1, FlattenIs
  <2>3. Flat(s, n + 1, g) /\ Flat(s, n, h)
    BY <1>2, <2>2 DEF Flat, Upto
  <2>4. \A k \in 1..n : g[k] = h[k]
    <3>1. n + 1 \in Nat /\ n \in 0..(n + 1)
      OBVIOUS
    <3> QED BY <2>3, <3>1, FlatUnique
  <2>5. g[n] = h[n]
    BY <1>5, <2>4
  <2> QED BY <1>2, <1>3, <1>5, <2>2, <2>5
<1> QED BY <1>4, <1>5

LEMMA FlattenNone ==
  ASSUME NEW s
  PROVE  FlattenSeq(Upto(s, 0)) = << >>
<1>1. Upto(s, 0) = << >> /\ Len(Upto(s, 0)) = 0
  BY DEF Upto
<1> QED BY <1>1 DEF FlattenSeq

LEMMA FlattenType ==
  ASSUME NEW A, NEW s \in Seq(Seq(A))
  PROVE  FlattenSeq(s) \in Seq(A)
<1>1. CASE s = << >>
  BY <1>1 DEF FlattenSeq
<1>2. CASE s # << >>
  <2>1. Len(s) \in 1..Len(s)
    BY <1>2
  <2>2. PICK g \in [1..Len(s) -> Seq(A)] : FlattenSeq(s) = g[Len(s)]
    BY <1>2, FlattenIs
  <2> QED BY <2>1, <2>2
<1> QED BY <1>1, <1>2
LEMMA UptoType ==
  ASSUME NEW A, NEW s \in Seq(Seq(A)), NEW n \in 0..Len(s)
  PROVE  Upto(s, n) \in Seq(Seq(A)) /\ Len(Upto(s, n)) = n /\ FlattenSeq(Upto(s, n)) \in Seq(A)
<1>1. \A k \in 1..n : s[k] \in Seq(A)
  OBVIOUS
<1>2. Upto(s, n) \in Seq(Seq(A)) /\ Len(Upto(s, n)) = n
  BY <1>1 DEF Upto
<1> QED BY <1>2, FlattenType

LEMMA UptoAll ==
  ASSUME NEW A, NEW s \in Seq(A)
  PROVE  Upto(s, Len(s)) = s
BY DEF Upto

(***************************************************************************)
(* What is put together from the first k sequences is a prefix of what is  *)
(* put together from the first n.                                          *)
(***************************************************************************)
IsPrefixOf(p, q) == Len(p) <= Len(q) /\ \A j \in 1..Len(p) : q[j] = p[j]

LEMMA FlattenPrefix ==
  ASSUME NEW A, NEW s \in Seq(Seq(A)), NEW k \in 0..Len(s)
  PROVE  IsPrefixOf(FlattenSeq(Upto(s, k)), FlattenSeq(s))
<1> DEFINE F(n) == FlattenSeq(Upto(s, n))
           P(n) == k + n <= Len(s) => IsPrefixOf(F(k), F(k + n))
           S == {n \in Nat : P(n)}
<1>0. \A n \in 0..Len(s) : F(n) \in Seq(A)
  BY UptoType
<1>1. P(0)
  <2>1. k + 0 = k /\ F(k) \in Seq(A)
    BY <1>0
  <2> HIDE DEF F
  <2> QED BY <2>1 DEF IsPrefixOf
<1>2. ASSUME NEW n \in Nat, P(n) PROVE P(n + 1)
  <2>1. SUFFICES ASSUME k + (n + 1) <= Len(s) PROVE IsPrefixOf(F(k), F(k + (n + 1)))
    OBVIOUS
  <2>2. PICK m \in Nat : m = k + n /\ m + 1 = k + (n + 1) /\ m + 1 \in 1..Len(s) /\ m \in 0..Len(s)
    BY <2>1
  <2>3. \A j \in 1..(m + 1) : s[j] \in Seq(A)
    BY <2>2
  <2>4. F(m + 1) = F(m) \o s[m + 1]
    BY <2>3, FlattenNext
  <2>5. F(k) \in Seq(A) /\ F(m) \in Seq(A) /\ s[m + 1] \in Seq(A)
    BY <1>0, <2>2
  <2>6. IsPrefixOf(F(k), F(m))
    BY <1>2, <2>1, <2>2
  <2> HIDE DEF F
  <2>7. IsPrefixOf(F(k), F(m) \o s[m + 1])
    BY <2>5, <2>6 DEF IsPrefixOf
  <2> QED BY <2>2, <2>4, <2>7
<1> HIDE DEF P
<1>3. 0 \in S /\ \A n \in Nat : n \in S => n + 1 \in S
  BY <1>1, <1>2
<1>4. \A n \in Nat : n \in S
  <2> HIDE DEF S
  <2> QED BY <1>3, SetInduction
<1>5. P(Len(s) - k)
  BY <1>4
<1>6. k + (Len(s) - k) = Len(s)
  OBVIOUS
<1>7. F(Len(s)) = FlattenSeq(s)
  BY UptoAll
<1>8. IsPrefixOf(F(k), F(Len(s)))
  <2> HIDE DEF F
  <2> QED BY <1>5, <1>6 DEF P
<1> QED BY <1>7, <1>8

(***************************************************************************)
(* Where the d-th sequence is in what is put together.                     *)
(***************************************************************************)
Before(s, d) == Len(FlattenSeq(Upto(s, d - 1)))

LEMMA BeforeEnds ==
  ASSUME NEW A, NEW s \in Seq(Seq(A))
  PROVE  Before(s, 1) = 0 /\ Before(s, Len(s) + 1) = Len(FlattenSeq(s))
<1>1. 1 - 1 = 0 /\ (Len(s) + 1) - 1 = Len(s)
  OBVIOUS
<1>2. Len(FlattenSeq(Upto(s, 0))) = 0 /\ Upto(s, Len(s)) = s
  BY FlattenNone, UptoAll
<1> QED BY <1>1, <1>2 DEF Before

LEMMA FlattenPart ==
  ASSUME NEW A, NEW s \in Seq(Seq(A)), NEW d \in 1..Len(s)
  PROVE  /\ Before(s, d) \in Nat
         /\ Before(s, d + 1) = Before(s, d) + Len(s[d])
         /\ Before(s, d) + Len(s[d]) <= Len(FlattenSeq(s))
         /\ \A j \in 1..Len(s[d]) : FlattenSeq(s)[Before(s, d) + j] = s[d][j]
<1> DEFINE F(n) == FlattenSeq(Upto(s, n))
           b == Before(s, d)
<1>1. PICK n \in Nat : n = d - 1 /\ d = n + 1 /\ n \in 0..Len(s) /\ d \in 0..Len(s) /\ (d + 1) - 1 = d
  OBVIOUS
<1>2. \A j \in 1..(n + 1) : s[j] \in Seq(A)
  BY <1>1
<1>3. F(n + 1) = F(n) \o s[n + 1]
  BY <1>2, FlattenNext
<1>4. F(n) \in Seq(A) /\ F(d) \in Seq(A)
  BY <1>1, UptoType
<1>5. IsPrefixOf(F(d), FlattenSeq(s))
  BY <1>1, FlattenPrefix
<1>6. s[d] \in Seq(A)
  OBVIOUS
<1>7. b = Len(F(n)) /\ Before(s, d + 1) = Len(F(d))
  BY <1>1 DEF Before
<1> HIDE DEF F, b
<1>8. F(d) = F(n) \o s[d]
  BY <1>1, <1>3
<1>9. b \in Nat /\ Len(F(d)) = b + Len(s[d])
  <2>1. Len(F(n) \o s[d]) = Len(F(n)) + Len(s[d]) /\ Len(F(n)) \in Nat
    BY <1>4, <1>6
  <2> QED BY <1>7, <1>8, <2>1
<1>10. ASSUME NEW j \in 1..Len(s[d]) PROVE FlattenSeq(s)[b + j] = s[d][j]
  <2>1. b + j \in 1..Len(F(d))
    BY <1>6, <1>9
  <2>2. F(d)[b + j] = s[d][j]
    BY <1>4, <1>6, <1>7, <1>8, <1>9
  <2> QED BY <1>5, <2>1, <2>2 DEF IsPrefixOf
<1>11. b + Len(s[d]) <= Len(FlattenSeq(s))
  BY <1>5, <1>9 DEF IsPrefixOf
<1> QED BY <1>7, <1>9, <1>10, <1>11 DEF b

-----------------------------------------------------------------------------
(***************************************************************************)
(* The first and the last place of a sequence that fits.                   *)
(***************************************************************************)
LEMMA Least ==
  ASSUME NEW D, D \subseteq Nat, D # {}
  PROVE  \E x \in D : \A y \in D : x <= y
<1>1. PICK x \in D : \A y \in D : ~ (<<y, x>> \in OpToRel(<, Nat))
  BY WFMin, NatLessThanWellFounded
<1>2. \A y \in D : ~ (y < x)
  BY <1>1 DEF OpToRel
<1>3. \A y \in D : x <= y
  BY <1>2
<1> QED BY <1>3

LEMMA MinIn ==
  ASSUME NEW I, I \subseteq Nat, I # {}
  PROVE  Min(I) \in I /\ \A y \in I : Min(I) <= y
<1>1. PICK x \in I : \A y \in I : x <= y
  BY Least
<1> QED BY <1>1 DEF Min

LEMMA MaxIn ==
  ASSUME NEW n \in Nat, NEW I, I \subseteq 1..n, I # {}
  PROVE  Max(I) \in I /\ \A y \in I : Max(I) >= y
<1> DEFINE U == {m \in Nat : \A y \in I : y <= m}
<1>1. n \in U /\ U \subseteq Nat
  OBVIOUS
<1>2. PICK m \in U : \A y \in U : m <= y
  <2> HIDE DEF U
  <2> QED BY <1>1, Least
<1>3. PICK z \in I : z \in 1..n
  OBVIOUS
<1>4. m \in I
  <2>1. SUFFICES ASSUME m \notin I PROVE FALSE
    OBVIOUS
  <2>2. m \in Nat /\ z <= m
    BY <1>2
  <2>3. m - 1 \in Nat
    BY <1>3, <2>2
  <2>4. ASSUME NEW y \in I PROVE y <= m - 1
    <3>1. y \in 1..n /\ y <= m /\ y # m
      BY <1>2, <2>1
    <3> QED BY <2>2, <3>1
  <2>5. m - 1 \in U
    BY <2>3, <2>4
  <2>6. m <= m - 1
    BY <1>2, <2>5
  <2> QED BY <2>2, <2>6
<1>5. m \in Nat /\ \A y \in I : y \in Nat /\ y <= m
  BY <1>2
<1>6. \A y \in I : m >= y
  BY <1>5
<1> QED BY <1>4, <1>6 DEF Max

-----------------------------------------------------------------------------
(***************************************************************************)
(* The BSDL reader: what is known of a device has its type, and is either  *)
(* nothing or matches the IDCODE that was asked about.                     *)
(***************************************************************************)
Infos == [idcode : Seq({0, 1}), mask : Seq({0, 1}), ir : Int \ {0}, debug : Seq({0, 1}),
          user1 : Seq({0, 1}), idc : Seq({0, 1})]
Readers(A, F) == [parsed : Seq(A), last : A, dirs : Seq(Seq(F))]

LEMMA NoInfoType == NoInfo \in Infos /\ Spins \in Infos
<1>1. NoCmd \in Seq({0, 1}) /\ << >> \in Seq({0, 1}) /\ NoSize \in Int \ {0} /\ -2 \in Int \ {0}
  BY DEF NoCmd, NoSize
<1>2. NoInfo \in Infos
  BY <1>1 DEF NoInfo, Infos
<1>3. Spins \in Infos
  <2> HIDE DEF NoInfo
  <2> QED BY <1>1, <1>2 DEF Spins, Infos
<1> QED BY <1>2, <1>3

LEMMA KindType ==
  ASSUME NEW ss \in Seq(Statements), NEW t, NEW A, \A x \in Statements : x.t = t => x.v \in A
  PROVE  Kind(ss, t) \in Seq(A)
<1> DEFINE q == [n \in DOMAIN ss |-> IF n \in Read(ss) /\ ss[n].t = t THEN <<ss[n].v>> ELSE << >>]
<1>1. Len(ss) \in Nat /\ DOMAIN ss = 1..Len(ss) /\ \A n \in 1..Len(ss) : ss[n] \in Statements
  OBVIOUS
<1>2. \A n \in 1..Len(ss) : (IF n \in Read(ss) /\ ss[n].t = t THEN <<ss[n].v>> ELSE << >>) \in Seq(A)
  BY <1>1
<1>3. q \in Seq(Seq(A))
  BY <1>1, <1>2
<1> HIDE DEF q
<1>4. FlattenSeq(q) \in Seq(A)
  BY <1>3, FlattenType
<1> QED BY <1>4 DEF Kind, q

LEMMA OpcodeType ==
  ASSUME NEW pairs \in Seq(STRING \X Seq({0, 1})), NEW name
  PROVE  ParseOpcodes(pairs, name) \in Seq({0, 1})
<1> DEFINE I == {n \in 1..Len(pairs) : pairs[n][1] = name}
<1>1. ParseOpcodes(pairs, name) = LET hit == IF I # {} THEN Max(I) ELSE 0 IN IF hit = 0 THEN NoCmd ELSE pairs[hit][2]
  BY DEF ParseOpcodes, SelectLastInSeq
<1>2. I \subseteq 1..Len(pairs) /\ Len(pairs) \in Nat
  OBVIOUS
<1> HIDE DEF I
<1>3. CASE I = {}
  BY <1>1, <1>3 DEF NoCmd
<1>4. CASE I # {}
  <2>1. Max(I) \in 1..Len(pairs) /\ Max(I) # 0
    <3>1. PICK n \in Nat : n = Len(pairs) /\ I \subseteq 1..n
      BY <1>2
    <3>2. Max(I) \in I
      BY <1>4, <3>1, MaxIn
    <3>3. Max(I) \in 1..Len(pairs)
      BY <1>2, <3>2
    <3> HIDE DEF I
    <3> QED BY <1>2, <3>3
  <2>2. pairs[Max(I)] \in STRING \X Seq({0, 1})
    BY <2>1
  <2> QED BY <1>1, <1>4, <2>1, <2>2
<1> QED BY <1>3, <1>4

LEMMA ExtractType ==
  ASSUME NEW f \in Files
  PROVE  ParseExtractValues(f) \in Infos
<1> DEFINE ss == f.statements
           lengths == Kind(ss, "INSTRUCTION_LENGTH")
           opcodes == Kind(ss, "INSTRUCTION_OPCODE")
           pairs == FlattenSeq(opcodes)
           codes == Kind(ss, "IDCODE_REGISTER")
<1>1. ss \in Seq(Statements)
  BY DEF Files
<1>2. lengths \in Seq(Nat \ {0})
  <2>1. \A x \in Statements : x.t = "INSTRUCTION_LENGTH" => x.v \in Nat \ {0}
    BY DEF Statements, Attributes
  <2> HIDE DEF ss
  <2> QED BY <1>1, <2>1, KindType
<1>3. opcodes \in Seq(Seq(STRING \X Seq({0, 1})))
  <2>1. \A x \in Statements : x.t = "INSTRUCTION_OPCODE" => x.v \in Seq(STRING \X Seq({0, 1}))
    BY DEF Statements, Attributes
  <2> HIDE DEF ss
  <2> QED BY <1>1, <2>1, KindType
<1> HIDE DEF ss, lengths, opcodes, codes
<1>4. pairs \in Seq(STRING \X Seq({0, 1}))
  BY <1>3, FlattenType
<1> HIDE DEF pairs
<1>6. ParseInstructionLength(lengths) \in Int \ {0}
  <2>1. CASE lengths = << >>
    BY <2>1 DEF ParseInstructionLength, NoSize
  <2>2. CASE lengths # << >>
    <3>1. Len(lengths) \in 1..Len(lengths)
      BY <1>2, <2>2
    <3>2. lengths[Len(lengths)] \in Nat \ {0}
      BY <1>2, <3>1
    <3> QED BY <2>2, <3>2 DEF ParseInstructionLength, Last
  <2> QED BY <2>1, <2>2
<1>7. ParseIdcode(codes, 1, 1, 0) \in Seq({0, 1}) /\ ParseIdcode(codes, X, 0, 1) \in Seq({0, 1})
  <2>1. IdBits \in Nat
    BY IdBitsAssumption
  <2> QED BY <2>1 DEF ParseIdcode
<1>8. Extracted(lengths, pairs, codes) \in Infos
  <2>1. /\ ParseOpcodes(pairs, "DEBUG") \in Seq({0, 1}) /\ ParseOpcodes(pairs, "USER1") \in Seq({0, 1})
        /\ ParseOpcodes(pairs, "IDCODE") \in Seq({0, 1})
    BY <1>4, OpcodeType
  <2> QED BY <1>6, <1>7, <2>1 DEF Extracted, Infos
<1>9. ParseExtractValues(f) \in {NoInfo, Spins, Extracted(lengths, pairs, codes)}
  BY DEF ParseExtractValues, lengths, pairs, codes, opcodes, ss
<1> QED BY <1>8, <1>9, NoInfoType

LEMMA ReadOnType ==
  ASSUME NEW A, NEW F, NEW r \in Readers(A, F), NEW infos \in Seq(A), Len(infos) = Len(Unread(r)), NEW n \in 0..Len(infos)
  PROVE  ReadOn(r, infos, n) \in Readers(A, F)
<1> DEFINE q == [k \in 1..n |-> IF Stored(infos[k]) THEN <<infos[k]>> ELSE << >>]
<1>1. r.parsed \in Seq(A) /\ r.last \in A /\ r.dirs \in Seq(Seq(F)) /\ n \in Nat
  BY DEF Readers
<1>2. \A k \in 1..n : (IF Stored(infos[k]) THEN <<infos[k]>> ELSE << >>) \in Seq(A)
  OBVIOUS
<1>3. q \in Seq(Seq(A))
  BY <1>1, <1>2
<1> HIDE DEF q
<1>4. FlattenSeq(q) \in Seq(A)
  BY <1>3, FlattenType
<1>5. r.parsed \o FlattenSeq(q) \in Seq(A)
  BY <1>1, <1>4
<1>6. DropFiles(r, n) \in Seq(Seq(F))
  <2> DEFINE u == Unread(r)
  <2>1. u \in Seq(F)
    BY <1>1, FlattenType DEF Unread
  <2> HIDE DEF u
  <2>2. n + 1 \in 1..(Len(u) + 1) /\ Len(u) \in Nat
    BY <2>1 DEF u
  <2>3. SubSeq(u, n + 1, Len(u)) \in Seq(F)
    BY <2>1, <2>2
  <2> QED BY <2>3 DEF DropFiles, u
<1>7. ReadOn(r, infos, n) = [r EXCEPT !.parsed = r.parsed \o FlattenSeq(q), !.dirs = DropFiles(r, n)]
  BY <1>1 DEF ReadOn, q, Readers
<1> QED BY <1>1, <1>5, <1>6, <1>7 DEF Readers

\* The reader's answer to a question about an IDCODE.
Answers(a, A, F, idcode) ==
  a.info \in A /\ a.bsdl \in Readers(A, F) /\ (a.info \in {NoInfo, Spins} \/ Matches(a.info, idcode))

LEMMA FromFilesType ==
  ASSUME NEW A, NEW F, NEW r \in Readers(A, F), NEW infos \in Seq(A), Len(infos) = Len(Unread(r)), NEW idcode,
         NEW stop \in 0..Len(infos), NoInfo \in A, Spins \in A,
         stop # 0 => infos[stop] = Spins \/ Matches(infos[stop], idcode)
  PROVE  Answers(FromFiles(r, infos, stop), A, F, idcode)
<1>1. CASE stop = 0
  <2>1. Len(infos) \in 0..Len(infos)
    OBVIOUS
  <2>2. ReadOn(r, infos, Len(infos)) \in Readers(A, F)
    BY <2>1, ReadOnType
  <2> QED BY <1>1, <2>2 DEF FromFiles, Answers
<1>2. CASE stop # 0 /\ infos[stop] = Spins
  BY <1>2 DEF FromFiles, Answers
<1>3. CASE stop # 0 /\ infos[stop] # Spins
  <2>1. ReadOn(r, infos, stop) \in Readers(A, F) /\ infos[stop] \in A
    BY <1>3, ReadOnType
  <2> DEFINE z == ReadOn(r, infos, stop)
  <2> HIDE DEF z
  <2>2. [z EXCEPT !.last = infos[stop]] \in Readers(A, F)
    BY <2>1 DEF Readers, z
  <2>3. FromFiles(r, infos, stop) = [info |-> infos[stop], bsdl |-> [z EXCEPT !.last = infos[stop]]]
    BY <1>3 DEF FromFiles, z
  <2> QED BY <1>3, <2>1, <2>2, <2>3 DEF Answers
<1> QED BY <1>1, <1>2, <1>3

LEMMA AnswerType ==
  ASSUME NEW A, NEW F, NEW r \in Readers(A, F), NEW idcode, NoInfo \in A, Spins \in A,
         \A f \in F : ParseExtractValues(f) \in A
  PROVE  Answers(GetBsdlInfo(r, idcode), A, F, idcode)
<1> DEFINE u == Unread(r)
           infos == [n \in DOMAIN u |-> ParseExtractValues(u[n])]
           I == {n \in 1..Len(r.parsed) : Matches(r.parsed[n], idcode)}
           J == {n \in 1..Len(infos) : infos[n] = Spins \/ Matches(infos[n], idcode)}
           known == IF I # {} THEN Min(I) ELSE 0
           stop == IF J # {} THEN Min(J) ELSE 0
<1>1. r.parsed \in Seq(A) /\ r.last \in A /\ r.dirs \in Seq(Seq(F))
  BY DEF Readers
<1>2. u \in Seq(F)
  BY <1>1, FlattenType DEF Unread
<1>3. infos \in Seq(A) /\ Len(infos) = Len(u)
  <2> HIDE DEF u
  <2>1. \A n \in 1..Len(u) : ParseExtractValues(u[n]) \in A
    BY <1>2
  <2>2. DOMAIN u = 1..Len(u) /\ Len(u) \in Nat
    BY <1>2
  <2> QED BY <2>1, <2>2
<1>4. GetBsdlInfo(r, idcode) =
        IF Matches(r.last, idcode) THEN [info |-> r.last, bsdl |-> r]
        ELSE IF known # 0 THEN [info |-> r.parsed[known], bsdl |-> [r EXCEPT !.last = r.parsed[known]]]
        ELSE FromFiles(r, infos, stop)
  BY DEF GetBsdlInfo, LookUp, SelectInSeq
<1> HIDE DEF infos, u
<1>5. known # 0 => known \in 1..Len(r.parsed) /\ Matches(r.parsed[known], idcode)
  <2>1. I \subseteq Nat
    BY <1>1
  <2>2. I # {} => Min(I) \in I
    <3> HIDE DEF I
    <3> QED BY <2>1, MinIn
  <2> QED BY <2>2
<1>6. stop \in 0..Len(infos) /\ (stop # 0 => infos[stop] = Spins \/ Matches(infos[stop], idcode))
  <2>1. J \subseteq Nat /\ Len(infos) \in Nat
    BY <1>3
  <2>2. J # {} => Min(J) \in J
    <3> HIDE DEF J
    <3> QED BY <2>1, MinIn
  <2> QED BY <2>1, <2>2
<1> HIDE DEF known, stop, I, J
<1>7. CASE Matches(r.last, idcode)
  BY <1>1, <1>4, <1>7 DEF Answers
<1>8. CASE ~ Matches(r.last, idcode) /\ known # 0
  <2>1. r.parsed[known] \in A
    BY <1>1, <1>5, <1>8
  <2>2. [r EXCEPT !.last = r.parsed[known]] \in Readers(A, F)
    BY <2>1 DEF Readers
  <2> QED BY <1>4, <1>5, <1>8, <2>1, <2>2 DEF Answers
<1>9. CASE ~ Matches(r.last, idcode) /\ known = 0
  <2>1. Len(infos) = Len(Unread(r))
    BY <1>3 DEF u
  <2> QED BY <1>3, <1>4, <1>6, <1>9, <2>1, FromFilesType
<1> QED BY <1>7, <1>8, <1>9
-----------------------------------------------------------------------------
(***************************************************************************)
(* A chain c after a reset: what each device puts into the scan path, the  *)
(* whole path, and how many of its bits belong to the first k devices.     *)
(***************************************************************************)
Register(c, d) == IF c[d].id = NoId THEN <<0>> ELSE <<1>> \o c[d].id
Registers(c)   == [d \in DOMAIN c |-> Register(c, d)]
Whole(c)       == FlattenSeq(Registers(c))
Base(c, k)     == Before(Registers(c), k + 1)

\* What jtag_enumerate_chain() shifts in, and the bits it so sees at TDO.
Places  == Nat \ {0}
Code    == [p \in Places |-> IF p <= IdBits + 1 THEN InvalidCode[p] ELSE 0]
Seen(c) == [p \in Places |-> IF p <= Len(Whole(c)) THEN Whole(c)[p] ELSE Code[p - Len(Whole(c))]]

Smaller(m, n) == IF m < n THEN m ELSE n

LEMMA CodeFacts ==
  /\ InvalidCode \in Seq({0, 1}) /\ Len(InvalidCode) = IdBits + 1
  /\ InvalidCode[1] = 1
  /\ DoneCode \in Seq({0, 1}) /\ Len(DoneCode) = ManufBits
  /\ \A j \in 1..ManufBits : DoneCode[j] = InvalidCode[j + 1]
<1> USE SetupAssumption, IdBitsAssumption
<1> DEFINE a == Bits(StartOnes, 1)
           z == Bits(IdBits + 1 - StartOnes, 0)
<1>1. StartOnes \in Nat /\ IdBits + 1 - StartOnes \in Nat /\ ManufBits \in Nat /\ StartOnes > 1 /\ ManufBits + 1 <= IdBits
  OBVIOUS
<1>2. a \in Seq({0, 1}) /\ Len(a) = StartOnes /\ a[1] = 1
  BY <1>1 DEF Bits
<1>3. z \in Seq({0, 1}) /\ Len(z) = IdBits + 1 - StartOnes
  BY <1>1 DEF Bits
<1> HIDE DEF a, z
<1>4. InvalidCode = a \o z
  BY DEF InvalidCode, a, z
<1>5. InvalidCode \in Seq({0, 1}) /\ Len(InvalidCode) = IdBits + 1 /\ InvalidCode[1] = 1
  <2>1. Len(a \o z) = Len(a) + Len(z) /\ a \o z \in Seq({0, 1}) /\ (a \o z)[1] = a[1]
    BY <1>1, <1>2, <1>3
  <2>2. IdBits \in Nat /\ StartOnes + (IdBits + 1 - StartOnes) = IdBits + 1
    OBVIOUS
  <2> QED BY <1>2, <1>3, <1>4, <2>1, <2>2
<1>6. DoneCode = SubSeq(InvalidCode, 2, ManufBits + 1)
  BY DEF DoneCode
<1>7. DoneCode \in Seq({0, 1}) /\ Len(DoneCode) = ManufBits /\ \A j \in 1..ManufBits : DoneCode[j] = InvalidCode[j + 1]
  <2>1. 2 \in 1..(Len(InvalidCode) + 1) /\ ManufBits + 1 \in 1..Len(InvalidCode)
    BY <1>1, <1>5
  <2> QED BY <1>1, <1>5, <1>6, <2>1
<1> QED BY <1>5, <1>7

LEMMA CodeType == Code \in [Places -> {0, 1}]
<1>1. IdBits \in Nat
  BY IdBitsAssumption
<1>2. ASSUME NEW p \in Places PROVE (IF p <= IdBits + 1 THEN InvalidCode[p] ELSE 0) \in {0, 1}
  <2>1. p <= IdBits + 1 => p \in 1..Len(InvalidCode)
    BY <1>1, CodeFacts DEF Places
  <2> QED BY <2>1, CodeFacts
<1> QED BY <1>2 DEF Code

(***************************************************************************)
(* The registers of a scenario's chain.                                    *)
(***************************************************************************)
LEMMA RegisterFacts ==
  ASSUME NEW s \in Scenarios, NEW d \in 1..Len(s.chain)
  PROVE  /\ Register(s.chain, d) \in Seq({0, 1})
         /\ s.chain[d].id = NoId => Len(Register(s.chain, d)) = 1 /\ Register(s.chain, d)[1] = 0
         /\ s.chain[d].id # NoId => /\ s.chain[d].id \in [1..IdBits -> {0, 1}]
                                    /\ s.chain[d].id # Bits(IdBits, 1)
                                    /\ Manuf(s.chain[d].id) # DoneCode
                                    /\ Len(Register(s.chain, d)) = IdBits + 1
                                    /\ Register(s.chain, d)[1] = 1
                                    /\ \A j \in 1..IdBits : Register(s.chain, d)[j + 1] = s.chain[d].id[j]
<1> DEFINE v == s.chain[d]
<1>1. s.chain \in Seq(Chips)
  BY ChainAssumption
<1>2. v \in Chips /\ d \in DOMAIN s.chain
  BY <1>1
<1>3. v.id \in {NoId} \cup [1..IdBits -> {0, 1}]
  BY <1>2 DEF Chips
<1>4. v.id # NoId => v.id # Bits(IdBits, 1) /\ Manuf(v.id) # DoneCode
  BY <1>2, ChainAssumption
<1>5. Register(s.chain, d) = IF v.id = NoId THEN <<0>> ELSE <<1>> \o v.id
  BY DEF Register
<1> HIDE DEF v
<1>6. CASE v.id = NoId
  BY <1>5, <1>6 DEF v
<1>7. CASE v.id # NoId
  <2>1. IdBits \in Nat /\ v.id \in [1..IdBits -> {0, 1}]
    BY <1>3, <1>7, IdBitsAssumption
  <2>2. v.id \in Seq({0, 1}) /\ Len(v.id) = IdBits
    BY <2>1
  <2>3. <<1>> \in Seq({0, 1}) /\ Len(<<1>>) = 1 /\ <<1>>[1] = 1
    OBVIOUS
  <2> DEFINE w == <<1>> \o v.id
  <2>4. w \in Seq({0, 1}) /\ Len(w) = IdBits + 1 /\ w[1] = 1 /\ \A j \in 1..IdBits : w[j + 1] = v.id[j]
    BY <2>1, <2>2, <2>3
  <2> HIDE DEF w
  <2>5. Register(s.chain, d) = w
    BY <1>5, <1>7 DEF w
  <2> QED BY <1>4, <1>7, <2>1, <2>4, <2>5 DEF v
<1> QED BY <1>6, <1>7

LEMMA RegistersType ==
  ASSUME NEW s \in Scenarios
  PROVE  /\ Len(s.chain) \in Nat \ {0} /\ DOMAIN s.chain = 1..Len(s.chain)
         /\ Registers(s.chain) \in Seq(Seq({0, 1}))
         /\ Len(Registers(s.chain)) = Len(s.chain)
         /\ \A d \in 1..Len(s.chain) : Registers(s.chain)[d] = Register(s.chain, d)
<1>1. s.chain \in Seq(Chips) /\ s.chain # << >>
  BY ChainAssumption
<1>2. Len(s.chain) \in Nat \ {0} /\ DOMAIN s.chain = 1..Len(s.chain)
  BY <1>1
<1>3. \A d \in 1..Len(s.chain) : Register(s.chain, d) \in Seq({0, 1})
  BY RegisterFacts
<1> QED BY <1>2, <1>3 DEF Registers

(***************************************************************************)
(* What enumeration sees of the chain: the registers one after the other,  *)
(* then the code it has shifted in itself.                                 *)
(***************************************************************************)
LEMMA BaseFacts ==
  ASSUME NEW s \in Scenarios
  PROVE  /\ Whole(s.chain) \in Seq({0, 1})
         /\ Base(s.chain, 0) = 0
         /\ Base(s.chain, Len(s.chain)) = Len(Whole(s.chain))
         /\ \A k \in 0..Len(s.chain) : Base(s.chain, k) \in Nat
<1> DEFINE r == Registers(s.chain)
<1>1. r \in Seq(Seq({0, 1})) /\ Len(r) = Len(s.chain)
  BY RegistersType
<1> HIDE DEF r
<1>2. FlattenSeq(r) \in Seq({0, 1})
  BY <1>1, FlattenType
<1>3. Before(r, 1) = 0 /\ Before(r, Len(r) + 1) = Len(FlattenSeq(r))
  BY <1>1, BeforeEnds
<1>4. Base(s.chain, 0) = 0 /\ Base(s.chain, Len(s.chain)) = Len(Whole(s.chain))
  BY <1>1, <1>3 DEF Base, Whole, r
<1>5. ASSUME NEW k \in 0..Len(s.chain) PROVE Base(s.chain, k) \in Nat
  <2>1. CASE k = Len(s.chain)
    BY <1>2, <1>4, <2>1 DEF Whole, r
  <2>2. CASE k + 1 \in 1..Len(r)
    <3>1. PICK d \in 1..Len(r) : d = k + 1
      BY <2>2
    <3>2. Before(r, d) \in Nat
      BY <1>1, FlattenPart
    <3> QED BY <3>1, <3>2 DEF Base, r
  <2> QED BY <1>1, <2>1, <2>2
<1> QED BY <1>2, <1>4, <1>5 DEF Whole, r

LEMMA SeenType ==
  ASSUME NEW s \in Scenarios
  PROVE  Seen(s.chain) \in [Places -> {0, 1}]
<1> DEFINE w == Whole(s.chain)
<1>1. w \in Seq({0, 1})
  BY BaseFacts
<1>2. ASSUME NEW p \in Places PROVE (IF p <= Len(w) THEN w[p] ELSE Code[p - Len(w)]) \in {0, 1}
  <2>1. p <= Len(w) => p \in 1..Len(w)
    BY <1>1 DEF Places
  <2>2. ~ (p <= Len(w)) => p - Len(w) \in Places
    BY <1>1 DEF Places
  <2> HIDE DEF w
  <2> QED BY <1>1, <2>1, <2>2, CodeType
<1> QED BY <1>2 DEF Seen

LEMMA SeenRegister ==
  ASSUME NEW s \in Scenarios, NEW k \in 0..(Len(s.chain) - 1)
  PROVE  LET n == Len(Register(s.chain, k + 1)) IN
         /\ Base(s.chain, k + 1) = Base(s.chain, k) + n
         /\ \A j \in 1..n : Seen(s.chain)[Base(s.chain, k) + j] = Register(s.chain, k + 1)[j]
<1> DEFINE r == Registers(s.chain)
           b == Base(s.chain, k)
           n == Len(Register(s.chain, k + 1))
<1>1. r \in Seq(Seq({0, 1})) /\ k + 1 \in 1..Len(r) /\ r[k + 1] = Register(s.chain, k + 1) /\ Len(s.chain) \in Nat
  BY RegistersType
<1>2. PICK d \in 1..Len(r) : d = k + 1 /\ b = Before(r, d)
  BY <1>1 DEF Base
<1>3. r[d] \in Seq({0, 1})
  BY <1>1
<1>4. /\ Before(r, d) \in Nat
      /\ Before(r, d + 1) = Before(r, d) + Len(r[d])
      /\ Before(r, d) + Len(r[d]) <= Len(FlattenSeq(r))
      /\ \A j \in 1..Len(r[d]) : FlattenSeq(r)[Before(r, d) + j] = r[d][j]
  <2> HIDE DEF r, b
  <2> QED BY <1>1, FlattenPart
<1>5. Base(s.chain, k + 1) = b + n
  BY <1>1, <1>2, <1>4 DEF Base
<1>6. Whole(s.chain) = FlattenSeq(r) /\ Len(Whole(s.chain)) \in Nat
  BY BaseFacts DEF Whole
<1>7. ASSUME NEW j \in 1..n PROVE Seen(s.chain)[b + j] = Register(s.chain, k + 1)[j]
  <2>1. n \in Nat /\ n = Len(r[d])
    BY <1>1, <1>2, <1>3
  <2> HIDE DEF r, b, n
  <2>2. b + j <= Len(Whole(s.chain)) /\ Whole(s.chain)[b + j] = r[d][j]
    <3>1. j \in 1..Len(r[d])
      BY <2>1
    <3>2. FlattenSeq(r)[Before(r, d) + j] = r[d][j]
      BY <1>4, <3>1
    <3>3. b + j <= Len(FlattenSeq(r))
      BY <1>2, <1>4, <1>6, <2>1, <3>1
    <3> QED BY <1>2, <1>6, <3>2, <3>3
  <2>3. b + j \in Places
    BY <1>2, <1>4, <2>1 DEF Places
  <2> QED BY <1>1, <1>2, <2>2, <2>3 DEF Seen
<1> QED BY <1>5, <1>7

LEMMA SeenEnd ==
  ASSUME NEW s \in Scenarios, NEW j \in 1..(IdBits + 1)
  PROVE  Seen(s.chain)[Base(s.chain, Len(s.chain)) + j] = InvalidCode[j]
<1>1. Base(s.chain, Len(s.chain)) = Len(Whole(s.chain)) /\ Len(Whole(s.chain)) \in Nat
  BY BaseFacts
<1>2. IdBits \in Nat
  BY IdBitsAssumption
<1> DEFINE n == Len(Whole(s.chain))
<1> HIDE DEF n
<1>3. n \in Nat /\ ~ (n + j <= n) /\ (n + j) - n = j
  BY <1>1, <1>2 DEF n
<1>4. n + j \in Places /\ j \in Places /\ j <= IdBits + 1
  BY <1>2, <1>3 DEF Places
<1> QED BY <1>1, <1>3, <1>4 DEF Seen, Code, n

LEMMA SeenCode ==
  ASSUME NEW s \in Scenarios, NEW p \in Places
  PROVE  Seen(s.chain)[Len(Whole(s.chain)) + p] = Code[p]
<1> DEFINE n == Len(Whole(s.chain))
<1>1. n \in Nat
  BY BaseFacts
<1> HIDE DEF n
<1>2. ~ (n + p <= n) /\ (n + p) - n = p /\ n + p \in Places
  BY <1>1 DEF Places
<1> QED BY <1>2 DEF Seen, n

-----------------------------------------------------------------------------
(***************************************************************************)
(* n entries of f from place m + 1 on, as a sequence.                      *)
(***************************************************************************)
Window(f, m, n) == [j \in 1..n |-> f[m + j]]

LEMMA WindowType ==
  ASSUME NEW A, NEW f \in [Places -> A], NEW m \in Nat, NEW n \in Nat
  PROVE  Window(f, m, n) \in Seq(A) /\ Len(Window(f, m, n)) = n
<1>1. \A j \in 1..n : f[m + j] \in A
  BY DEF Places
<1> QED BY <1>1 DEF Window

LEMMA WindowTail ==
  ASSUME NEW A, NEW f \in [Places -> A], NEW m \in Nat, NEW n \in Nat \ {0}
  PROVE  /\ Head(Window(f, m, n)) = f[m + 1]
         /\ Tail(Window(f, m, n)) = Window(f, m + 1, n - 1)
<1> DEFINE w == Window(f, m, n)
           t == Window(f, m + 1, n - 1)
<1>1. w \in Seq(A) /\ Len(w) = n
  BY WindowType, ZenonT(40)
<1>2. t \in Seq(A) /\ Len(t) = n - 1
  <2>1. m + 1 \in Nat /\ n - 1 \in Nat
    OBVIOUS
  <2> QED BY <2>1, WindowType, ZenonT(40)
<1>3. w[1] = f[m + 1]
  BY DEF Window
<1>4. ASSUME NEW j \in 1..(n - 1) PROVE w[j + 1] = t[j]
  <2>1. j + 1 \in 1..n /\ m + (j + 1) = (m + 1) + j
    OBVIOUS
  <2> QED BY <2>1 DEF Window
<1> HIDE DEF w, t
<1>5. Head(w) = w[1] /\ Tail(w) \in Seq(A) /\ Len(Tail(w)) = n - 1 /\ \A j \in 1..(n - 1) : Tail(w)[j] = w[j + 1]
  BY <1>1
<1>6. Tail(w) = t
  BY <1>2, <1>4, <1>5, SeqEqual
<1> QED BY <1>3, <1>5, <1>6 DEF w, t

LEMMA WindowAppend ==
  ASSUME NEW A, NEW f \in [Places -> A], NEW m \in Nat, NEW n \in Nat
  PROVE  Append(Window(f, m, n), f[(m + n) + 1]) = Window(f, m, n + 1)
<1> DEFINE w == Window(f, m, n)
           t == Window(f, m, n + 1)
           e == f[(m + n) + 1]
<1>1. w \in Seq(A) /\ Len(w) = n
  BY WindowType
<1>2. t \in Seq(A) /\ Len(t) = n + 1
  BY WindowType
<1>3. e \in A
  BY DEF Places
<1>4. t[n + 1] = e
  BY DEF Window
<1>5. ASSUME NEW j \in 1..n PROVE t[j] = w[j]
  BY DEF Window
<1> HIDE DEF w, t, e
<1>6. Append(w, e) \in Seq(A) /\ Len(Append(w, e)) = n + 1 /\ \A j \in 1..(n + 1) : Append(w, e)[j] = t[j]
  BY <1>1, <1>3, <1>4, <1>5
<1>7. Append(w, e) = t
  BY <1>2, <1>6, SeqEqual
<1> QED BY <1>7 DEF w, t, e

LEMMA WindowShift ==
  ASSUME NEW A, NEW f \in [Places -> A], NEW m \in Nat, NEW n \in Nat \ {0}
  PROVE  Append(Tail(Window(f, m, n)), f[(m + n) + 1]) = Window(f, m + 1, n)
<1>1. Tail(Window(f, m, n)) = Window(f, m + 1, n - 1)
  BY WindowTail
<1>2. PICK k \in Nat, l \in Nat : k = m + 1 /\ l = n - 1 /\ (k + l) + 1 = (m + n) + 1 /\ l + 1 = n
  OBVIOUS
<1>3. Append(Window(f, k, l), f[(k + l) + 1]) = Window(f, k, l + 1)
  BY WindowAppend
<1> QED BY <1>1, <1>2, <1>3

-----------------------------------------------------------------------------
(***************************************************************************)
(* The clocks of the functions used before and during enumeration.         *)
(***************************************************************************)
Clocks == [tms : {0, 1}, tdi : {0, 1}, trst : BOOLEAN, rd : BOOLEAN]
Calm   == [tms : {0, 1}, tdi : {0, 1}, trst : {FALSE}, rd : BOOLEAN]

ReadClk(bit) == [tms |-> 0, tdi |-> bit, trst |-> FALSE, rd |-> TRUE]
CodeClocks   == [p \in Places |-> ReadClk(Code[p])]

\* q is what is left of the sequence of clocks s.
Rest(q, s) == Len(q) <= Len(s) /\ \A j \in 1..Len(q) : q[j] = s[(Len(s) - Len(q)) + j]

LEMMA RestTail ==
  ASSUME NEW A, NEW q \in Seq(A), NEW s \in Seq(A), Rest(q, s), q # << >>
  PROVE  /\ Tail(q) \in Seq(A) /\ Len(Tail(q)) = Len(q) - 1 /\ Rest(Tail(q), s)
         /\ Head(q) = s[(Len(s) - Len(q)) + 1]
<1>1. Len(q) \in Nat \ {0} /\ Len(s) \in Nat /\ Len(q) <= Len(s)
  BY DEF Rest
<1>2. Tail(q) \in Seq(A) /\ Len(Tail(q)) = Len(q) - 1 /\ Head(q) = q[1] /\ \A j \in 1..(Len(q) - 1) : Tail(q)[j] = q[j + 1]
  OBVIOUS
<1>3. Head(q) = s[(Len(s) - Len(q)) + 1]
  BY <1>1, <1>2 DEF Rest
<1>4. ASSUME NEW j \in 1..(Len(q) - 1) PROVE Tail(q)[j] = s[(Len(s) - (Len(q) - 1)) + j]
  <2>1. j + 1 \in 1..Len(q) /\ (Len(s) - (Len(q) - 1)) + j = (Len(s) - Len(q)) + (j + 1)
    BY <1>1
  <2>2. q[j + 1] = s[(Len(s) - Len(q)) + (j + 1)]
    BY <2>1 DEF Rest
  <2> QED BY <1>2, <2>1, <2>2
<1> QED BY <1>1, <1>2, <1>3, <1>4 DEF Rest

LEMMA ClkType ==
  ASSUME NEW tms \in {0, 1}, NEW tdi \in {0, 1}
  PROVE  Clk(tms, tdi) \in Clocks /\ ReadClk(tdi) \in Clocks /\ Trst \in Clocks /\ Clk(tms, tdi) \in Calm
BY DEF Clk, ReadClk, Trst, Clocks, Calm

LEMMA CalmClocks == \A q \in Seq(Calm) : q \in Seq(Clocks)
<1>1. \A c \in Calm : c \in Clocks
  BY DEF Calm, Clocks
<1> QED BY <1>1

LEMMA ReadingClk ==
  ASSUME NEW bit \in {0, 1}
  PROVE  [Clk(0, bit) EXCEPT !.rd = TRUE] = ReadClk(bit)
<1> DEFINE a == [Clk(0, bit) EXCEPT !.rd = TRUE]
           b == ReadClk(bit)
<1>1. a \in Clocks /\ a.tms = 0 /\ a.tdi = bit /\ a.trst = FALSE /\ a.rd = TRUE
  BY DEF Clk, Clocks
<1>2. b \in Clocks /\ b.tms = 0 /\ b.tdi = bit /\ b.trst = FALSE /\ b.rd = TRUE
  BY DEF ReadClk, Clocks
<1> HIDE DEF a, b
<1>3. a = b
  BY <1>1, <1>2 DEF Clocks
<1> QED BY <1>3 DEF a, b

LEMMA ConcatAt ==
  ASSUME NEW A, NEW s \in Seq(A), NEW t \in Seq(A)
  PROVE  /\ s \o t \in Seq(A) /\ Len(s \o t) = Len(s) + Len(t)
         /\ \A j \in 1..Len(s) : (s \o t)[j] = s[j]
         /\ \A j \in 1..Len(t) : (s \o t)[Len(s) + j] = t[j]
OBVIOUS

LEMMA CodeClocksType == CodeClocks \in [Places -> Clocks]
<1>1. \A p \in Places : ReadClk(Code[p]) \in Clocks
  BY CodeType DEF ReadClk, Clocks
<1> QED BY <1>1 DEF CodeClocks

LEMMA TapResetIs ==
  /\ TapReset \in Seq(Clocks) /\ Len(TapReset) = 11
  /\ TapReset[1] = Clk(0, 0) /\ \A j \in 2..9 : TapReset[j] = Clk(1, 0)
  /\ TapReset[10] = Trst /\ TapReset[11] = Clk(0, 0)
<1> DEFINE a == <<Clk(0, 0)>>
           b == [k \in 1..8 |-> Clk(1, 0)]
           z == <<Trst, Clk(0, 0)>>
<1>1. Clk(0, 0) \in Clocks /\ Clk(1, 0) \in Clocks /\ Trst \in Clocks
  BY ClkType
<1>2. a \in Seq(Clocks) /\ b \in Seq(Clocks) /\ z \in Seq(Clocks)
  BY <1>1
<1>3. Len(a) = 1 /\ a[1] = Clk(0, 0) /\ Len(b) = 8 /\ \A j \in 1..8 : b[j] = Clk(1, 0)
  OBVIOUS
<1>4. Len(z) = 2 /\ z[1] = Trst /\ z[2] = Clk(0, 0)
  OBVIOUS
<1> DEFINE ab == a \o b
           t == ab \o z
<1>5. TapReset = t
  BY DEF TapReset
<1> HIDE DEF a, b, z
<1>6. /\ ab \in Seq(Clocks) /\ Len(ab) = Len(a) + Len(b)
      /\ \A j \in 1..Len(a) : ab[j] = a[j]
      /\ \A j \in 1..Len(b) : ab[Len(a) + j] = b[j]
  BY <1>2, ConcatAt
<1> HIDE DEF ab
<1>7. /\ t \in Seq(Clocks) /\ Len(t) = Len(ab) + Len(z)
      /\ \A j \in 1..Len(ab) : t[j] = ab[j]
      /\ \A j \in 1..Len(z) : t[Len(ab) + j] = z[j]
  <2>1. ab \in Seq(Clocks)
    BY <1>6
  <2> QED BY <1>2, <2>1, ConcatAt
<1> HIDE DEF t
<1>8. Len(ab) = 9 /\ Len(t) = 11
  BY <1>3, <1>4, <1>6, <1>7
<1>9. t[1] = Clk(0, 0)
  <2>1. 1 \in 1..Len(a) /\ 1 \in 1..Len(ab)
    BY <1>3, <1>8
  <2> QED BY <1>3, <1>6, <1>7, <2>1
<1>10. ASSUME NEW j \in 2..9 PROVE t[j] = Clk(1, 0)
  <2>1. j \in 1..Len(ab) /\ j - 1 \in 1..Len(b) /\ Len(a) + (j - 1) = j
    BY <1>3, <1>8
  <2>2. t[j] = ab[j] /\ ab[Len(a) + (j - 1)] = b[j - 1]
    BY <1>6, <1>7, <2>1
  <2>3. b[j - 1] = Clk(1, 0)
    BY <1>3, <2>1
  <2> QED BY <2>1, <2>2, <2>3
<1>11. t[10] = Trst /\ t[11] = Clk(0, 0)
  <2>1. 1 \in 1..Len(z) /\ 2 \in 1..Len(z) /\ Len(ab) + 1 = 10 /\ Len(ab) + 2 = 11
    BY <1>4, <1>8
  <2> QED BY <1>4, <1>7, <2>1
<1> QED BY <1>5, <1>7, <1>8, <1>9, <1>10, <1>11

LEMMA TapSetShiftDrIs ==
  /\ TapSetShiftDr \in Seq(Clocks) /\ Len(TapSetShiftDr) = 3 /\ TapSetShiftDr \in Seq(Calm)
  /\ TapSetShiftDr[1] = Clk(1, 0) /\ TapSetShiftDr[2] = Clk(0, 0) /\ TapSetShiftDr[3] = Clk(0, 0)
<1>1. Clk(0, 0) \in Clocks /\ Clk(1, 0) \in Clocks /\ Clk(0, 0) \in Calm /\ Clk(1, 0) \in Calm
  BY ClkType
<1> QED BY <1>1 DEF TapSetShiftDr

(***************************************************************************)
(* A stream of up to a word that is read back.                             *)
(***************************************************************************)
LEMMA StreamIs ==
  ASSUME NEW n \in 1..WordBits, NEW bits \in Seq({0, 1}), Len(bits) = n
  PROVE  CableReadWriteStream(bits, n, 0) = [j \in 1..n |-> ReadClk(bits[j])]
<1>0. WordBits \in Nat /\ n \in Nat /\ n - 1 \in 0..(WordBits - 1)
  BY ScanAssumption
<1>1. (n - 1) \div WordBits = 0
  BY <1>0
<1>2. Count(n - 1) = n - 1
  BY <1>0 DEF Count
<1>3. LastBit(bits, n) = bits[n]
  BY <1>0, <1>1, <1>2 DEF LastBit
<1> DEFINE f == [k \in 1..(n - 1) |-> Clk(0, bits[k])]
           w == Append(f, Clk(0, bits[n]))
<1>4. CableWriteStream(bits, n, 0) = w
  BY <1>3 DEF CableWriteStream
<1>5. \A k \in 1..n : Clk(0, bits[k]) \in Clocks
  BY ClkType
<1>6. f \in Seq(Clocks) /\ Len(f) = n - 1 /\ \A k \in 1..(n - 1) : f[k] = Clk(0, bits[k])
  BY <1>0, <1>5
<1> HIDE DEF f
<1>7. w \in Seq(Clocks) /\ Len(w) = n /\ \A k \in 1..n : w[k] = Clk(0, bits[k])
  BY <1>0, <1>5, <1>6
<1> HIDE DEF w
<1>8. DOMAIN w = 1..n
  BY <1>0, <1>7
<1>9. \A k \in 1..n : [w[k] EXCEPT !.rd = TRUE] = ReadClk(bits[k])
  BY <1>7, ReadingClk
<1>10. Reading(w) = [j \in 1..n |-> ReadClk(bits[j])]
  BY <1>8, <1>9 DEF Reading
<1> QED BY <1>4, <1>10 DEF CableReadWriteStream

\* What the host takes from the code when it has sent p bits of it.
LEMMA FromInvalidIs ==
  ASSUME NEW p \in Nat, NEW n \in Nat, invalid = Smaller(p, IdBits + 1)
  PROVE  FromInvalid(n) = Window(Code, p, n)
<1>1. IdBits \in Nat /\ Len(InvalidCode) = IdBits + 1
  BY IdBitsAssumption, CodeFacts
<1>2. ASSUME NEW j \in 1..n
      PROVE  (IF invalid + j <= Len(InvalidCode) THEN InvalidCode[invalid + j] ELSE 0) = Code[p + j]
  <2>1. p + j \in Places
    BY DEF Places
  <2>2. CASE p < IdBits + 1
    BY <1>1, <2>1, <2>2 DEF Smaller, Code
  <2>3. CASE ~ (p < IdBits + 1)
    <3>1. ~ (invalid + j <= Len(InvalidCode)) /\ ~ (p + j <= IdBits + 1)
      BY <1>1, <2>3 DEF Smaller
    <3> QED BY <2>1, <3>1 DEF Code
  <2> QED BY <2>2, <2>3
<1> QED BY <1>2 DEF FromInvalid, Window

LEMMA CodeStream ==
  ASSUME NEW p \in Nat, NEW n \in 1..WordBits, invalid = Smaller(p, IdBits + 1)
  PROVE  CableReadWriteStream(FromInvalid(n), n, 0) = Window(CodeClocks, p, n)
<1>1. n \in Nat
  BY ScanAssumption
<1> DEFINE b == Window(Code, p, n)
<1>2. FromInvalid(n) = b /\ b \in Seq({0, 1}) /\ Len(b) = n
  BY <1>1, FromInvalidIs, WindowType, CodeType
<1>3. \A j \in 1..n : b[j] = Code[p + j] /\ p + j \in Places
  BY <1>1 DEF Window, Places
<1> HIDE DEF b
<1>4. CableReadWriteStream(b, n, 0) = [j \in 1..n |-> ReadClk(b[j])]
  BY <1>2, StreamIs
<1>5. [j \in 1..n |-> ReadClk(b[j])] = Window(CodeClocks, p, n)
  BY <1>3 DEF Window, CodeClocks
<1> QED BY <1>2, <1>4, <1>5

LEMMA StartBitClock ==
  ASSUME NEW p \in Nat, invalid = Smaller(p, IdBits + 1)
  PROVE  Reading(<<Clk(0, FromInvalid(1)[1])>>) = Window(CodeClocks, p, 1)
<1>1. FromInvalid(1) = Window(Code, p, 1)
  BY FromInvalidIs
<1>2. FromInvalid(1)[1] = Code[p + 1] /\ p + 1 \in Places
  BY <1>1 DEF Window, Places
<1> DEFINE q == <<Clk(0, Code[p + 1])>>
<1>3. DOMAIN q = 1..1 /\ q[1] = Clk(0, Code[p + 1])
  OBVIOUS
<1>4. Reading(q) = [j \in 1..1 |-> ReadClk(Code[p + 1])]
  <2>1. [Clk(0, Code[p + 1]) EXCEPT !.rd = TRUE] = ReadClk(Code[p + 1])
    BY <1>2, CodeType, ReadingClk
  <2>2. Reading(q) = [k \in 1..1 |-> [q[k] EXCEPT !.rd = TRUE]]
    BY <1>3 DEF Reading
  <2> HIDE DEF q
  <2>3. ASSUME NEW k \in 1..1 PROVE [q[k] EXCEPT !.rd = TRUE] = ReadClk(Code[p + 1])
    <3>1. k = 1
      OBVIOUS
    <3>2. q[k] = Clk(0, Code[p + 1])
      BY <1>3, <3>1
    <3> QED BY <2>1, <3>2
  <2> QED BY <2>2, <2>3
<1>5. Window(CodeClocks, p, 1) = [j \in 1..1 |-> ReadClk(Code[p + 1])]
  BY <1>2 DEF Window, CodeClocks
<1> QED BY <1>2, <1>4, <1>5

-----------------------------------------------------------------------------
(***************************************************************************)
(* Division, and sequences put together from words.                        *)
(***************************************************************************)
LEMMA Division ==
  ASSUME NEW a \in Nat, NEW w \in Nat \ {0}
  PROVE  a \div w \in Nat /\ a % w \in 0..(w - 1) /\ a = w * (a \div w) + (a % w)
OBVIOUS

LEMMA FlattenWords ==
  ASSUME NEW A, NEW w \in Nat, NEW s \in Seq(Seq(A)), \A k \in 1..Len(s) : Len(s[k]) = w
  PROVE  /\ Len(FlattenSeq(s)) = Len(s) * w
         /\ \A d \in 1..Len(s) : Before(s, d) = (d - 1) * w
<1> DEFINE P(n) == n \in 0..Len(s) => Before(s, n + 1) = n * w
           S == {n \in Nat : P(n)}
<1>1. P(0)
  BY BeforeEnds
<1>2. ASSUME NEW n \in Nat, P(n) PROVE P(n + 1)
  <2>1. SUFFICES ASSUME n + 1 \in 0..Len(s) PROVE Before(s, (n + 1) + 1) = (n + 1) * w
    OBVIOUS
  <2>2. PICK d \in 1..Len(s) : d = n + 1 /\ n \in 0..Len(s)
    BY <2>1
  <2>3. Before(s, d + 1) = Before(s, d) + Len(s[d])
    BY FlattenPart
  <2>4. Before(s, d) = n * w /\ Len(s[d]) = w
    BY <1>2, <2>2
  <2>5. (n * w) + w = (n + 1) * w
    OBVIOUS
  <2> QED BY <2>2, <2>3, <2>4, <2>5
<1> HIDE DEF P
<1>3. 0 \in S /\ \A n \in Nat : n \in S => n + 1 \in S
  BY <1>1, <1>2
<1>4. \A n \in Nat : n \in S
  <2> HIDE DEF S
  <2> QED BY <1>3, SetInduction
<1>5. \A n \in Nat : P(n)
  BY <1>4
<1>6. Len(s) \in Nat /\ Len(s) \in 0..Len(s)
  OBVIOUS
<1>7. Before(s, Len(s) + 1) = Len(s) * w
  BY <1>5, <1>6 DEF P
<1>8. Len(FlattenSeq(s)) = Len(s) * w
  BY <1>7, BeforeEnds
<1>9. ASSUME NEW d \in 1..Len(s) PROVE Before(s, d) = (d - 1) * w
  <2>1. PICK n \in Nat : n = d - 1 /\ n \in 0..Len(s) /\ n + 1 = d
    OBVIOUS
  <2> QED BY <1>5, <2>1 DEF P
<1> QED BY <1>8, <1>9

(***************************************************************************)
(* Words.                                                                  *)
(***************************************************************************)
Words == [1..WordBits -> {0, 1}]

LEMMA WordsAre ==
  ASSUME NEW a \in Words
  PROVE  a \in Seq({0, 1}) /\ Len(a) = WordBits
BY ScanAssumption DEF Words

LEMMA CountType ==
  ASSUME NEW n \in Nat
  PROVE  Count(n) \in Nat
<1>1. WordBits \in Nat \ {0}
  BY ScanAssumption
<1>2. n % WordBits \in Nat
  BY <1>1, Division
<1> QED BY <1>2 DEF Count

LEMMA WordType ==
  ASSUME NEW bits \in Seq({0, 1})
  PROVE  Word(bits) \in Words
<1>1. WordBits \in Nat
  BY ScanAssumption
<1> QED BY <1>1 DEF Word, Words

LEMMA OnesType == Ones \in Words
BY DEF Ones, Bits, Words

LEMMA OrType ==
  ASSUME NEW a \in Words, NEW b \in Words
  PROVE  Or(a, b) \in Words
BY DEF Or, Words

LEMMA NotType ==
  ASSUME NEW a \in Words
  PROVE  Not(a) \in Words
<1>1. \A k \in 1..WordBits : a[k] = 0 \/ a[k] = 1
  BY DEF Words
<1>2. \A k \in 1..WordBits : 1 - a[k] \in {0, 1}
  BY <1>1
<1> QED BY <1>2 DEF Not, Words

LEMMA ShlType ==
  ASSUME NEW a \in Words, NEW n \in Nat
  PROVE  Shl(a, n) \in Words
<1>1. WordBits \in Nat /\ Count(n) \in Nat
  BY ScanAssumption, CountType
<1>2. \A k \in 1..WordBits : k > Count(n) => k - Count(n) \in 1..WordBits
  BY <1>1
<1> QED BY <1>2 DEF Shl, Words

LEMMA ShrType ==
  ASSUME NEW a \in Words, NEW n \in Nat
  PROVE  Shr(a, n) \in Words
<1>1. WordBits \in Nat /\ Count(n) \in Nat
  BY ScanAssumption, CountType
<1>2. \A k \in 1..WordBits : k + Count(n) <= WordBits => k + Count(n) \in 1..WordBits
  BY <1>1
<1> QED BY <1>2 DEF Shr, Words

(***************************************************************************)
(* The functions of chain_commands.c send clocks.                          *)
(***************************************************************************)
Cfgs == [irSize : Int, irPre : Nat, irPost : Nat, drPre : Nat, drPost : Nat, debug : Seq({0, 1}),
         alt : BOOLEAN, xilinx : BOOLEAN, vir : Seq({0, 1}), vdr : Seq({0, 1})]

LEMMA ReadingType ==
  ASSUME NEW w \in Seq(Clocks)
  PROVE  Reading(w) \in Seq(Clocks) /\ Len(Reading(w)) = Len(w)
<1>1. ASSUME NEW c \in Clocks PROVE [c EXCEPT !.rd = TRUE] \in Clocks
  BY DEF Clocks
<1>2. DOMAIN w = 1..Len(w) /\ Len(w) \in Nat /\ \A k \in 1..Len(w) : w[k] \in Clocks
  OBVIOUS
<1>3. \A k \in 1..Len(w) : [w[k] EXCEPT !.rd = TRUE] \in Clocks
  BY <1>1, <1>2
<1> QED BY <1>2, <1>3 DEF Reading

LEMMA ReadingCalm ==
  ASSUME NEW w \in Seq(Calm)
  PROVE  Reading(w) \in Seq(Calm) /\ Len(Reading(w)) = Len(w)
<1>1. ASSUME NEW c \in Calm PROVE [c EXCEPT !.rd = TRUE] \in Calm
  BY DEF Calm
<1>2. DOMAIN w = 1..Len(w) /\ Len(w) \in Nat /\ \A k \in 1..Len(w) : w[k] \in Calm
  OBVIOUS
<1>3. \A k \in 1..Len(w) : [w[k] EXCEPT !.rd = TRUE] \in Calm
  BY <1>1, <1>2
<1> QED BY <1>2, <1>3 DEF Reading

LEMMA StreamType ==
  ASSUME NEW bits \in Seq({0, 1}), NEW len \in Nat \ {0}, len <= Len(bits), NEW last \in {0, 1}
  PROVE  /\ CableWriteStream(bits, len, last) \in Seq(Calm)
         /\ CableReadWriteStream(bits, len, last) \in Seq(Calm)
<1>1. WordBits \in Nat \ {0} /\ len - 1 \in Nat
  BY ScanAssumption
<1>2. Count(len - 1) \in Nat /\ (len - 1) \div WordBits \in Nat
  BY <1>1, CountType, Division
<1> DEFINE word == ((len - 1) \div WordBits) * WordBits
           n == word + Count(len - 1) + 1
<1>3. n \in Nat \ {0}
  BY <1>1, <1>2
<1>4. LastBit(bits, len) = IF Count(len - 1) < WordBits /\ n <= Len(bits) THEN bits[n] ELSE 0
  BY DEF LastBit
<1> HIDE DEF n
<1>5. LastBit(bits, len) \in {0, 1}
  <2>1. n <= Len(bits) => n \in 1..Len(bits)
    BY <1>3
  <2>2. n <= Len(bits) => bits[n] \in {0, 1}
    BY <2>1
  <2> QED BY <1>4, <2>2
<1> DEFINE f == [k \in 1..(len - 1) |-> Clk(0, bits[k])]
           w == Append(f, Clk(last, LastBit(bits, len)))
<1>6. \A k \in 1..(len - 1) : Clk(0, bits[k]) \in Calm
  <2>1. \A k \in 1..(len - 1) : bits[k] \in {0, 1}
    BY <1>1
  <2> QED BY <2>1, ClkType
<1>7. f \in Seq(Calm)
  BY <1>1, <1>6
<1>8. Clk(last, LastBit(bits, len)) \in Calm
  BY <1>5, ClkType
<1> HIDE DEF f
<1>9. w \in Seq(Calm)
  BY <1>7, <1>8
<1>10. CableWriteStream(bits, len, last) = w
  BY DEF CableWriteStream, f
<1> HIDE DEF w
<1>11. Reading(w) \in Seq(Calm)
  BY <1>9, ReadingCalm
<1> QED BY <1>9, <1>10, <1>11 DEF CableReadWriteStream

LEMMA IrChainType ==
  ASSUME NEW c \in Cfgs, c.irSize > 0, NEW cmd \in Seq({0, 1})
  PROVE  LET size == c.irSize + c.irPre + c.irPost
             bits == FlattenSeq(IrChain(c, cmd))
         IN size \in Nat \ {0} /\ bits \in Seq({0, 1}) /\ size <= Len(bits)
<1> DEFINE size == c.irSize + c.irPre + c.irPost
           shift == c.irPost % WordBits
           offset == (c.irPost \div WordBits) + 1
           N == (size \div WordBits) + 1
           q == IrChain(c, cmd)
<1>1. c.irSize \in Nat \ {0} /\ c.irPre \in Nat /\ c.irPost \in Nat
  BY DEF Cfgs
<1>2. size \in Nat \ {0} /\ WordBits \in Nat \ {0}
  <2>1. PICK x \in Nat \ {0}, y \in Nat, z \in Nat : x = c.irSize /\ y = c.irPre /\ z = c.irPost
    BY <1>1
  <2>2. x + y + z \in Nat \ {0}
    OBVIOUS
  <2>3. WordBits \in Nat \ {0}
    BY ScanAssumption
  <2> QED BY <2>1, <2>2, <2>3
<1>3. shift \in Nat /\ shift <= WordBits - 1 /\ offset \in Nat
  <2>1. PICK z \in Nat : z = c.irPost
    BY <1>1
  <2>2. z \div WordBits \in Nat /\ z % WordBits \in 0..(WordBits - 1)
    BY <1>2, Division
  <2>3. PICK a \in Nat, b \in 0..(WordBits - 1) : a = z \div WordBits /\ b = z % WordBits
    BY <2>2
  <2>4. shift = b /\ offset = a + 1
    BY <2>1, <2>3
  <2> HIDE DEF shift, offset
  <2> QED BY <1>2, <2>4
<1>4. N \in Nat /\ size <= N * WordBits
  <2> HIDE DEF size
  <2>1. size \div WordBits \in Nat /\ size % WordBits \in 0..(WordBits - 1) /\ size = WordBits * (size \div WordBits) + (size % WordBits)
    BY <1>2, Division
  <2> DEFINE d == size \div WordBits
  <2>2. d \in Nat /\ (d + 1) * WordBits = WordBits * d + WordBits
    BY <1>2, <2>1
  <2>3. WordBits * d \in Nat
    BY <1>2, <2>2
  <2> HIDE DEF d
  <2>4. N = d + 1
    BY DEF d
  <2>5. size <= WordBits * d + WordBits
    BY <1>2, <2>1, <2>3 DEF d
  <2> QED BY <2>2, <2>4, <2>5
<1> DEFINE first == Or(Or(Shl(Word(cmd), shift), Not(Shl(Ones, shift))), Shl(Ones, shift + c.irSize))
           spill == Or(Shr(Word(cmd), WordBits - shift), Shl(Ones, c.irSize - (WordBits - shift)))
<1>5. q = [w \in 1..N |-> CASE w = offset -> first
                            [] w = offset + 1 /\ shift + c.irSize > WordBits -> spill
                            [] OTHER -> Ones]
  BY DEF IrChain
<1> HIDE DEF shift, size, N, offset
<1>6. first \in Words
  <2>1. shift + c.irSize \in Nat
    BY <1>1, <1>3
  <2>2. Word(cmd) \in Words /\ Ones \in Words
    BY WordType, OnesType
  <2>3. Shl(Word(cmd), shift) \in Words /\ Shl(Ones, shift) \in Words /\ Shl(Ones, shift + c.irSize) \in Words
    BY <1>3, <2>1, <2>2, ShlType
  <2>4. Not(Shl(Ones, shift)) \in Words
    BY <2>3, NotType
  <2>5. Or(Shl(Word(cmd), shift), Not(Shl(Ones, shift))) \in Words
    BY <2>3, <2>4, OrType
  <2> QED BY <2>3, <2>5, OrType
<1>7. shift + c.irSize > WordBits => spill \in Words
  <2>1. SUFFICES ASSUME shift + c.irSize > WordBits PROVE spill \in Words
    OBVIOUS
  <2>2. WordBits - shift \in Nat /\ c.irSize - (WordBits - shift) \in Nat
    BY <1>1, <1>2, <1>3, <2>1
  <2>3. Word(cmd) \in Words /\ Ones \in Words
    BY WordType, OnesType
  <2>4. Shr(Word(cmd), WordBits - shift) \in Words
    BY <2>2, <2>3, ShrType
  <2>5. Shl(Ones, c.irSize - (WordBits - shift)) \in Words
    BY <2>2, <2>3, ShlType
  <2> QED BY <2>4, <2>5, OrType
<1> HIDE DEF first, spill, q
<1>8. ASSUME NEW w \in 1..N
      PROVE  (CASE w = offset -> first
                [] w = offset + 1 /\ shift + c.irSize > WordBits -> spill
                [] OTHER -> Ones) \in Words
  <2>1. Ones \in Words
    BY OnesType
  <2>2. offset \in Nat
    BY <1>3
  <2>3. CASE w = offset
    <3>1. ~ (w = offset + 1 /\ shift + c.irSize > WordBits)
      BY <2>2, <2>3
    <3> QED BY <1>6, <2>3, <3>1
  <2>4. CASE w # offset /\ w = offset + 1 /\ shift + c.irSize > WordBits
    BY <1>7, <2>4
  <2>5. CASE w # offset /\ ~ (w = offset + 1 /\ shift + c.irSize > WordBits)
    BY <2>1, <2>5
  <2> QED BY <2>3, <2>4, <2>5
<1>9. q \in Seq(Words) /\ Len(q) = N /\ \A w \in 1..N : q[w] \in Words
  BY <1>4, <1>5, <1>8
<1>10. q \in Seq(Seq({0, 1})) /\ \A w \in 1..Len(q) : Len(q[w]) = WordBits
  <2>1. \A w \in 1..N : q[w] \in Seq({0, 1}) /\ Len(q[w]) = WordBits
    BY <1>9, WordsAre
  <2>2. Len(q) = N
    BY <1>9
  <2> QED BY <1>9, <2>1, <2>2
<1>11. FlattenSeq(q) \in Seq({0, 1}) /\ Len(FlattenSeq(q)) = Len(q) * WordBits
  BY <1>2, <1>10, FlattenType, FlattenWords
<1>12. size <= Len(FlattenSeq(q))
  BY <1>4, <1>9, <1>11
<1> QED BY <1>2, <1>11, <1>12 DEF q, size

LEMMA TapSetIrType ==
  ASSUME NEW c \in Cfgs, c.irSize > 0, NEW cmd \in Seq({0, 1})
  PROVE  TapSetIr(c, cmd) \in Seq(Calm)
<1> DEFINE size == c.irSize + c.irPre + c.irPost
           bits == FlattenSeq(IrChain(c, cmd))
           a == <<Clk(1, 0), Clk(1, 0), Clk(0, 0), Clk(0, 0)>>
           b == CableWriteStream(bits, size, 1)
<1>1. size \in Nat \ {0} /\ bits \in Seq({0, 1}) /\ size <= Len(bits)
  BY IrChainType
<1> HIDE DEF size, bits
<1>2. b \in Seq(Calm)
  BY <1>1, StreamType
<1>3. Clk(0, 0) \in Calm /\ Clk(1, 0) \in Calm
  BY ClkType
<1>4. a \in Seq(Calm) /\ TapExitToIdle \in Seq(Calm)
  BY <1>3 DEF TapExitToIdle
<1>5. TapSetIr(c, cmd) = (a \o b) \o TapExitToIdle
  BY DEF TapSetIr, bits, size
<1> HIDE DEF a, b
<1> QED BY <1>2, <1>4, <1>5

LEMMA WriteType ==
  ASSUME NEW c \in Cfgs, NEW bits \in Seq({0, 1}), NEW len \in Nat \ {0}, len <= Len(bits)
  PROVE  /\ JtagWriteStream(c, bits, len, 1) \in Seq(Calm)
         /\ JtagReadWriteStream(c, bits, len, TRUE, 1) \in Seq(Calm)
<1>1. /\ CableWriteStream(bits, len, 0) \in Seq(Calm) /\ CableWriteStream(bits, len, 1) \in Seq(Calm)
      /\ CableReadWriteStream(bits, len, 0) \in Seq(Calm) /\ CableReadWriteStream(bits, len, 1) \in Seq(Calm)
  BY StreamType
<1>2. c.drPre \in Nat /\ c.drPost \in Nat /\ Clk(0, 0) \in Calm /\ Clk(1, 0) \in Calm
  BY ClkType DEF Cfgs
<1>3. PrefixZeros(c) \in Seq(Calm)
  <2>1. \A k \in 1..c.drPre : Clk(IF k = c.drPre THEN 1 ELSE 0, 0) \in Calm
    BY <1>2
  <2> QED BY <1>2, <2>1 DEF PrefixZeros
<1> DEFINE p == [k \in 1..c.drPost |-> Clk(0, 0)]
<1>4. p \in Seq(Calm)
  BY <1>2
<1> HIDE DEF p
<1>5. JtagWriteStream(c, bits, len, 1) \in Seq(Calm)
  BY <1>1, <1>3 DEF JtagWriteStream
<1> DEFINE z == IF c.drPre = 0 THEN CableReadWriteStream(bits, len, 1) ELSE CableReadWriteStream(bits, len, 0) \o PrefixZeros(c)
<1>6. z \in Seq(Calm)
  BY <1>1, <1>3
<1>7. JtagReadWriteStream(c, bits, len, TRUE, 1) = p \o z
  BY DEF JtagReadWriteStream, p
<1> HIDE DEF z
<1>8. p \o z \in Seq(Calm)
  BY <1>4, <1>6
<1> QED BY <1>5, <1>7, <1>8, Zenon

LEMMA EnableType ==
  ASSUME NEW c \in Cfgs, c.irSize > 0, sc \in Scenarios
  PROVE  TapEnableDebugModule(c) \in Seq(Calm)
<1>1. TapSetIr(c, c.debug) \in Seq(Calm) /\ TapSetIr(c, c.vir) \in Seq(Calm) /\ TapSetIr(c, c.vdr) \in Seq(Calm)
  <2>1. c.debug \in Seq({0, 1}) /\ c.vir \in Seq({0, 1}) /\ c.vdr \in Seq({0, 1})
    BY DEF Cfgs
  <2> QED BY <2>1, TapSetIrType
<1>2. TapSetShiftDr \in Seq(Calm) /\ TapExitToIdle \in Seq(Calm)
  BY TapSetShiftDrIs, ClkType DEF TapExitToIdle
<1>3. JtagWriteStream(c, sc.virDebug, VirBits + 1, 1) \in Seq(Calm)
  <2>1. VirBits + 1 \in Nat \ {0} /\ sc.virDebug \in [1..(VirBits + 1) -> {0, 1}]
    BY ScanAssumption, ScenarioAssumption
  <2>2. sc.virDebug \in Seq({0, 1}) /\ Len(sc.virDebug) = VirBits + 1
    BY <2>1
  <2>3. VirBits + 1 <= Len(sc.virDebug)
    BY <2>1, <2>2
  <2> QED BY <2>1, <2>2, <2>3, WriteType
<1> DEFINE x == TapSetIr(c, c.vir)
           y == JtagWriteStream(c, sc.virDebug, VirBits + 1, 1)
           z == TapSetIr(c, c.vdr)
<1>4. TapEnableDebugModule(c) = IF ~ c.alt THEN TapSetIr(c, c.debug) ELSE (((x \o TapSetShiftDr) \o y) \o TapExitToIdle) \o z
  BY DEF TapEnableDebugModule
<1> HIDE DEF x, y, z
<1>5. x \in Seq(Calm) /\ y \in Seq(Calm) /\ z \in Seq(Calm)
  BY <1>1, <1>3 DEF x, y, z
<1> QED BY <1>1, <1>2, <1>4, <1>5

LEMMA GetIdcodeType ==
  ASSUME NEW c \in Cfgs, c.irSize > 0, NEW cmd \in Seq({0, 1})
  PROVE  JtagGetIdcode(c, cmd, IdBits + 1) \in Seq(Calm)
<1>1. TapSetIr(c, cmd) \in Seq(Calm)
  BY TapSetIrType
<1>2. TapSetShiftDr \in Seq(Calm) /\ TapExitToIdle \in Seq(Calm)
  BY TapSetShiftDrIs, ClkType DEF TapExitToIdle
<1> DEFINE n == IdBits + 1
           bits == Bits(n, 0)
           y == JtagReadWriteStream(c, bits, n, TRUE, 1)
           x == TapSetIr(c, cmd)
<1>3. n \in Nat \ {0}
  BY IdBitsAssumption
<1> HIDE DEF n
<1>4. bits \in Seq({0, 1}) /\ n <= Len(bits)
  BY <1>3 DEF Bits
<1> HIDE DEF bits
<1>5. y \in Seq(Calm)
  BY <1>3, <1>4, WriteType
<1>6. JtagGetIdcode(c, cmd, n) = ((x \o TapSetShiftDr) \o y) \o TapExitToIdle
  BY DEF JtagGetIdcode, bits
<1> HIDE DEF x, y
<1>7. x \in Seq(Calm)
  BY <1>1 DEF x
<1>8. JtagGetIdcode(c, cmd, n) \in Seq(Calm)
  BY <1>2, <1>5, <1>6, <1>7
<1> QED BY <1>8 DEF n

-----------------------------------------------------------------------------
(***************************************************************************)
(* The TAP controllers on the way through a reset: how many clocks with    *)
(* TMS lead to RESET.                                                      *)
(***************************************************************************)
OnesToReset(s) == CASE s = "RESET" -> 0 [] s = "SELECT_IR" -> 1 [] s = "SELECT_DR" -> 2
                    [] s \in {"IDLE", "UPDATE_DR", "UPDATE_IR"} -> 3
                    [] s \in {"EXIT1_DR", "EXIT2_DR", "EXIT1_IR", "EXIT2_IR"} -> 4
                    [] OTHER -> 5

LEMMA TapMoves ==
  ASSUME NEW s \in TapStates, NEW tms \in {0, 1}
  PROVE  NextTapState(s, tms) \in TapStates
<1>1. CASE tms = 0
  BY <1>1 DEF NextTapState, TapStates
<1>2. CASE tms = 1
  BY <1>2 DEF NextTapState, TapStates
<1> QED BY <1>1, <1>2

LEMMA OnesMove ==
  ASSUME NEW s \in TapStates
  PROVE  /\ OnesToReset(s) \in 0..5 /\ OnesToReset(NextTapState(s, 1)) \in 0..5
         /\ OnesToReset(s) = 0 => OnesToReset(NextTapState(s, 1)) = 0
         /\ OnesToReset(s) # 0 => OnesToReset(NextTapState(s, 1)) < OnesToReset(s)
         /\ OnesToReset(s) = 0 => s = "RESET"
<1>1. /\ OnesToReset("RESET") = 0 /\ OnesToReset("IDLE") = 3 /\ OnesToReset("SELECT_DR") = 2
      /\ OnesToReset("CAPTURE_DR") = 5 /\ OnesToReset("SHIFT_DR") = 5 /\ OnesToReset("EXIT1_DR") = 4
      /\ OnesToReset("PAUSE_DR") = 5 /\ OnesToReset("EXIT2_DR") = 4 /\ OnesToReset("UPDATE_DR") = 3
      /\ OnesToReset("SELECT_IR") = 1 /\ OnesToReset("CAPTURE_IR") = 5 /\ OnesToReset("SHIFT_IR") = 5
      /\ OnesToReset("EXIT1_IR") = 4 /\ OnesToReset("PAUSE_IR") = 5 /\ OnesToReset("EXIT2_IR") = 4
      /\ OnesToReset("UPDATE_IR") = 3
  BY DEF OnesToReset
<1>2. /\ NextTapState("RESET", 1) = "RESET" /\ NextTapState("IDLE", 1) = "SELECT_DR"
      /\ NextTapState("SELECT_DR", 1) = "SELECT_IR" /\ NextTapState("CAPTURE_DR", 1) = "EXIT1_DR"
      /\ NextTapState("SHIFT_DR", 1) = "EXIT1_DR" /\ NextTapState("EXIT1_DR", 1) = "UPDATE_DR"
      /\ NextTapState("PAUSE_DR", 1) = "EXIT2_DR" /\ NextTapState("EXIT2_DR", 1) = "UPDATE_DR"
      /\ NextTapState("UPDATE_DR", 1) = "SELECT_DR" /\ NextTapState("SELECT_IR", 1) = "RESET"
      /\ NextTapState("CAPTURE_IR", 1) = "EXIT1_IR" /\ NextTapState("SHIFT_IR", 1) = "EXIT1_IR"
      /\ NextTapState("EXIT1_IR", 1) = "UPDATE_IR" /\ NextTapState("PAUSE_IR", 1) = "EXIT2_IR"
      /\ NextTapState("EXIT2_IR", 1) = "UPDATE_IR" /\ NextTapState("UPDATE_IR", 1) = "SELECT_DR"
  BY DEF NextTapState
<1> QED BY <1>1, <1>2 DEF TapStates

LEMMA TapWalk ==
  /\ NextTapState("RESET", 0) = "IDLE" /\ NextTapState("RESET", 1) = "RESET"
  /\ NextTapState("IDLE", 0) = "IDLE" /\ NextTapState("IDLE", 1) = "SELECT_DR"
  /\ NextTapState("SELECT_DR", 0) = "CAPTURE_DR" /\ NextTapState("CAPTURE_DR", 0) = "SHIFT_DR"
  /\ NextTapState("SHIFT_DR", 0) = "SHIFT_DR"
BY DEF NextTapState

(***************************************************************************)
(* The invariant.  As long as no call has failed and TDO is not stuck, the *)
(* place in the code and the clocks still to be sent say where the TAP     *)
(* controllers are, what is in the scan path, and what has been read.      *)
(***************************************************************************)
Clean == ~err /\ ~resetErr /\ sc.stuck = "no"

\* With n clocks of tap_reset() still to be sent, the controllers are in t and the
\* instructions are x; the reset leaves them at y.
ResetAt(n, t, x, y) ==
  /\ n >= 2 => OnesToReset(t) <= (IF n >= 5 THEN n - 5 ELSE 0)
  /\ n = 1 => t \in {"RESET", "IDLE"}
  /\ n = 0 => t = "IDLE"
  /\ n <= 5 => x = y

ResetInv ==
  pc \in {"args", "reset", "enumerate"} =>
    /\ tap \in TapStates /\ dev = << >> /\ invalid = 0
    /\ pc # "enumerate" => todo = << >>
    /\ pc = "enumerate" => /\ todo \in Seq(Clocks) /\ Rest(todo, TapReset)
                           /\ ~err => ResetAt(Len(todo), tap, ir, IrAfterReset)

\* jtag_enumerate_chain() on its way to SHIFT_DR.
SelectInv ==
  (pc = "startbit" /\ todo # << >> /\ Clean) =>
    /\ dev = << >> /\ invalid = 0
    /\ todo \in Seq(Clocks) /\ Rest(todo, TapSetShiftDr)
    /\ ir = IrAfterReset
    /\ Len(todo) = 3 => tap = "IDLE"
    /\ Len(todo) = 2 => tap = "SELECT_DR"
    /\ Len(todo) = 1 => tap = "CAPTURE_DR"

\* Bits of a device the host has sent clocks for, and those it no longer has in got.
ScanPlaces == {"startbit", "gotbit", "gotmanuf", "gotrest"}
Out  == CASE pc = "startbit" -> 0 [] pc = "gotbit" -> 1 [] pc = "gotmanuf" -> ManufBits + 1
          [] OTHER -> IdBits + 1
Gone == IF pc \in {"startbit", "gotbit"} THEN 0 ELSE 1

Shifting ==
  LET c == sc.chain
      b == Base(c, Len(dev))
  IN /\ tap = "SHIFT_DR"
     /\ Len(dev) \in 0..Len(c) /\ dev = [d \in 1..Len(dev) |-> c[d].id]
     /\ Len(dev) <= MaxDevices /\ (pc # "startbit" => Len(dev) < MaxDevices)
     /\ Len(todo) \in 0..(Out - Gone)
     /\ todo = Window(CodeClocks, b + (Out - Len(todo)), Len(todo))
     /\ path = Window(Seen(c), b + (Out - Len(todo)), Len(Whole(c)))
     /\ invalid = Smaller(b + Out, IdBits + 1)
     /\ pc # "startbit" => got = Window(Seen(c), b + Gone, (Out - Gone) - Len(todo))
     /\ pc \in {"gotmanuf", "gotrest"} => Seen(c)[b + 1] = 1
     /\ pc = "gotrest" => Len(dev) < Len(c)

ShiftInv == (Clean /\ pc \in ScanPlaces /\ (pc = "startbit" => todo = << >>)) => Shifting

\* The devices found when jtag_enumerate_chain() ends.
FoundInv ==
  (Clean /\ pc \notin ScanPlaces \cup {"args", "reset", "enumerate", "exit"})
    => dev = [d \in 1..Smaller(Len(sc.chain), MaxDevices) |-> sc.chain[d].id]

EnumInv == sc \in Scenarios /\ ResetInv /\ SelectInv /\ ShiftInv /\ FoundInv

-----------------------------------------------------------------------------
(***************************************************************************)
(* What one clock does.                                                    *)
(***************************************************************************)
LEMMA TapClockDoes ==
  ASSUME NEW c \in Clocks, tap \in TapStates, TapClock(c)
  PROVE  /\ tap' \in TapStates
         /\ tap' \in {"RESET", NextTapState(tap, c.tms)}
         /\ ~ c.trst => tap' = NextTapState(tap, c.tms)
         /\ tap' = "RESET" => ir' = IrAfterReset
         /\ tap' \notin {"RESET", "UPDATE_IR"} => ir' = ir
         /\ tap = "CAPTURE_DR" => path' = FlattenSeq(DrCapture)
         /\ tap = "SHIFT_DR" => path' = Append(Tail(path), c.tdi)
<1> DEFINE s == IF c.trst /\ sc.trst THEN "RESET" ELSE NextTapState(tap, c.tms)
<1>1. tap' = s /\ Latch(s)
  BY DEF TapClock
<1>2. c.tms \in {0, 1} /\ c.trst \in BOOLEAN
  BY DEF Clocks
<1>3. NextTapState(tap, c.tms) \in TapStates /\ "RESET" \in TapStates
  BY <1>2, TapMoves DEF TapStates
<1>4. s \in {"RESET", NextTapState(tap, c.tms)} /\ (~ c.trst => s = NextTapState(tap, c.tms))
  BY <1>2
<1> HIDE DEF s
<1>5. (s = "RESET" => ir' = IrAfterReset) /\ (s \notin {"RESET", "UPDATE_IR"} => ir' = ir)
  BY <1>1 DEF Latch
<1>6. tap = "CAPTURE_DR" => path' = FlattenSeq(DrCapture)
  BY DEF TapClock
<1>7. tap = "SHIFT_DR" => path' = Append(Tail(path), c.tdi)
  BY DEF TapClock
<1> QED BY <1>1, <1>3, <1>4, <1>5, <1>6, <1>7

LEMMA ResetIrKept ==
  ASSUME sc' = sc
  PROVE  IrAfterReset' = IrAfterReset
BY DEF IrAfterReset, Devices, Bypass, Bits

(***************************************************************************)
(* After a reset every device has its IDCODE or, without one, its bypass   *)
(* register in the path, the target too.                                   *)
(***************************************************************************)
LEMMA CaptureAfterReset ==
  ASSUME sc \in Scenarios, ir = IrAfterReset
  PROVE  DrCapture = Registers(sc.chain)
<1>1. ASSUME NEW d \in Devices PROVE CaptureDr(d) = Register(sc.chain, d)
  <2> DEFINE v == sc.chain[d]
  <2>1. ir[d] = IF v.id = << >> THEN Bits(v.irlen, 1) ELSE v.idcode
    BY DEF IrAfterReset, Bypass
  <2>2. \A n \in {"debug", "vir", "vdr"} : v[n] # Bits(v.irlen, 1) /\ (v.id # << >> => v[n] # v.idcode)
    BY ChainAssumption DEF Devices, NoId
  <2> HIDE DEF v
  <2>3. \A n \in {"debug", "vir", "vdr"} : ir[d] # v[n]
    BY <2>1, <2>2
  <2>4. d = Target => ~ TargetHas({"debug", "vdr"}) /\ ~ TargetHas({"vir"})
    BY <2>3 DEF TargetHas, v
  <2>5. CASE v.id = << >>
    BY <2>4, <2>5 DEF CaptureDr, Register, NoId, v
  <2>6. CASE v.id # << >>
    BY <2>1, <2>4, <2>6 DEF CaptureDr, Register, NoId, v
  <2> QED BY <2>5, <2>6
<1> QED BY <1>1 DEF DrCapture, Registers, Devices

LEMMA WholeWindow ==
  ASSUME NEW s \in Scenarios
  PROVE  Whole(s.chain) = Window(Seen(s.chain), 0, Len(Whole(s.chain)))
<1> DEFINE w == Whole(s.chain)
<1>1. w \in Seq({0, 1}) /\ Len(w) \in Nat
  BY BaseFacts
<1>2. \A j \in 1..Len(w) : Seen(s.chain)[0 + j] = w[j]
  BY <1>1 DEF Seen, Places
<1>3. Window(Seen(s.chain), 0, Len(w)) = [j \in 1..Len(w) |-> w[j]]
  BY <1>2 DEF Window
<1> HIDE DEF w
<1>4. w = [j \in 1..Len(w) |-> w[j]]
  BY <1>1
<1> QED BY <1>3, <1>4 DEF w

LEMMA WholeLong ==
  ASSUME NEW s \in Scenarios
  PROVE  Len(Whole(s.chain)) \in Nat \ {0}
<1>1. Len(s.chain) \in Nat \ {0} /\ 0 \in 0..(Len(s.chain) - 1) /\ 1 \in 1..Len(s.chain)
  BY RegistersType
<1> DEFINE r == Registers(s.chain)
<1>2. r \in Seq(Seq({0, 1})) /\ 1 \in 1..Len(r) /\ r[1] = Register(s.chain, 1)
  BY <1>1, RegistersType
<1>3. Len(r[1]) \in Nat \ {0}
  <2>1. Len(Register(s.chain, 1)) = 1 \/ Len(Register(s.chain, 1)) = IdBits + 1
    BY <1>1, RegisterFacts
  <2>2. Len(Register(s.chain, 1)) \in Nat \ {0}
    BY <2>1, IdBitsAssumption
  <2> HIDE DEF r
  <2> QED BY <1>2, <2>2
<1>4. Before(r, 1) \in Nat /\ Before(r, 1) + Len(r[1]) <= Len(FlattenSeq(r))
  <2> HIDE DEF r
  <2> QED BY <1>2, FlattenPart
<1>5. Len(Whole(s.chain)) \in Nat
  BY BaseFacts
<1> QED BY <1>3, <1>4, <1>5 DEF Whole

-----------------------------------------------------------------------------
(***************************************************************************)
(* The invariant holds at the start and when enumeration is over.          *)
(***************************************************************************)
EarlyPlaces == ScanPlaces \cup {"args", "reset", "enumerate"}

LEMMA EnumInit == Init => EnumInv
<1> SUFFICES ASSUME Init PROVE EnumInv
  OBVIOUS
<1>1. sc \in Scenarios /\ pc = "args" /\ todo = << >> /\ tap \in TapStates /\ dev = << >> /\ invalid = 0
  BY DEF Init
<1> QED BY <1>1 DEF EnumInv, ResetInv, SelectInv, ShiftInv, FoundInv, ScanPlaces

LEMMA LateStep ==
  ASSUME EnumInv, sc' = sc, dev' = dev, resetErr' = resetErr, err => err',
         pc \notin EarlyPlaces, pc' \notin EarlyPlaces, pc = "exit" => pc' = "exit"
  PROVE  EnumInv'
<1>1. sc' \in Scenarios
  BY DEF EnumInv
<1>2. ResetInv' /\ SelectInv' /\ ShiftInv'
  BY DEF ResetInv, SelectInv, ShiftInv, EarlyPlaces, ScanPlaces
<1>3. Clean' => Clean
  BY DEF Clean
<1>4. FoundInv'
  <2>1. SUFFICES ASSUME Clean', pc' # "exit"
                 PROVE  dev' = [d \in 1..Smaller(Len(sc'.chain), MaxDevices) |-> sc'.chain[d].id]
    BY DEF FoundInv
  <2>2. dev = [d \in 1..Smaller(Len(sc.chain), MaxDevices) |-> sc.chain[d].id]
    BY <1>3, <2>1 DEF EnumInv, FoundInv, EarlyPlaces
  <2> QED BY <2>2
<1> QED BY <1>1, <1>2, <1>4 DEF EnumInv

(***************************************************************************)
(* The steps before the enumeration.                                       *)
(***************************************************************************)
LEMMA EnumParseArgs == EnumInv /\ ParseArgs => EnumInv'
<1> SUFFICES ASSUME EnumInv, ParseArgs PROVE EnumInv'
  OBVIOUS
<1>1. pc = "args" /\ todo = << >> /\ todo' = todo /\ pc' \in {"args", "reset", "exit"}
  BY DEF ParseArgs, At, Quiet
<1>2. sc' = sc /\ tap' = tap /\ dev' = dev /\ invalid' = invalid
  BY DEF ParseArgs, Hardware
<1> QED BY <1>1, <1>2 DEF EnumInv, ResetInv, SelectInv, ShiftInv, FoundInv, ScanPlaces

LEMMA EnumReset == EnumInv /\ Reset => EnumInv'
<1> SUFFICES ASSUME EnumInv, Reset PROVE EnumInv'
  OBVIOUS
<1>1. pc = "reset" /\ todo' = TapReset /\ pc' = "enumerate"
  BY DEF Reset, At, Send
<1>2. sc' = sc /\ tap' = tap /\ dev' = dev /\ invalid' = invalid
  BY DEF Reset, Hardware
<1>3. Len(TapReset) = 11 /\ TapReset \in Seq(Clocks) /\ Rest(TapReset, TapReset)
  BY TapResetIs DEF Rest
<1>4. tap \in TapStates /\ dev = << >> /\ invalid = 0 /\ sc \in Scenarios
  BY <1>1 DEF EnumInv, ResetInv
<1>5. ResetAt(11, tap', ir', IrAfterReset')
  BY <1>2, <1>4, OnesMove DEF ResetAt
<1>6. ResetInv'
  <2>1. TapReset' = TapReset
    BY DEF TapReset, Clk, Trst
  <2>2. todo' \in Seq(Clocks) /\ Rest(todo', TapReset') /\ Len(todo') = 11
    BY <1>1, <1>3, <2>1
  <2> QED BY <1>1, <1>2, <1>4, <1>5, <2>2 DEF ResetInv
<1> QED BY <1>1, <1>2, <1>4, <1>6 DEF EnumInv, SelectInv, ShiftInv, FoundInv, ScanPlaces

LEMMA EnumEnumerate == EnumInv /\ Enumerate => EnumInv'
<1> SUFFICES ASSUME EnumInv, Enumerate PROVE EnumInv'
  OBVIOUS
<1>1. pc = "enumerate" /\ todo = << >> /\ todo' = TapSetShiftDr /\ pc' = "startbit" /\ resetErr' = err
  BY DEF Enumerate, At, Send
<1>2. sc' = sc /\ tap' = tap /\ dev' = dev /\ invalid' = invalid /\ ir' = ir
  BY DEF Enumerate
<1>3. Len(TapSetShiftDr) = 3 /\ TapSetShiftDr \in Seq(Clocks) /\ Rest(TapSetShiftDr, TapSetShiftDr)
  BY TapSetShiftDrIs DEF Rest
<1>4. dev = << >> /\ invalid = 0 /\ sc \in Scenarios /\ (~err => tap = "IDLE" /\ ir = IrAfterReset)
  BY <1>1 DEF EnumInv, ResetInv, ResetAt
<1>5. SelectInv'
  <2>1. SUFFICES ASSUME Clean' PROVE (/\ dev = << >> /\ invalid = 0 /\ todo \in Seq(Clocks) /\ Rest(todo, TapSetShiftDr)
                                     /\ ir = IrAfterReset /\ Len(todo) = 3 /\ tap = "IDLE")'
    BY DEF SelectInv
  <2>2. ~ err
    BY <1>1, <2>1 DEF Clean
  <2>3. IrAfterReset' = IrAfterReset /\ TapSetShiftDr' = TapSetShiftDr
    BY <1>2, ResetIrKept DEF TapSetShiftDr, Clk
  <2> QED BY <1>1, <1>2, <1>3, <1>4, <2>2, <2>3
<1>6. todo' # << >>
  BY <1>1, <1>3
<1>7. ResetInv' /\ ShiftInv' /\ FoundInv'
  BY <1>1, <1>6 DEF ResetInv, ShiftInv, FoundInv, ScanPlaces
<1> QED BY <1>2, <1>4, <1>5, <1>7 DEF EnumInv

(***************************************************************************)
(* The clocks of the reset and of the walk to SHIFT_DR.                    *)
(***************************************************************************)
LEMMA EnumResetClock ==
  ASSUME EnumInv, pc = "enumerate", todo # << >>, TapClock(Head(todo)),
         todo' = Tail(todo), err' = err, UNCHANGED <<sc, hostVars>>
  PROVE  EnumInv'
<1>1. /\ tap \in TapStates /\ dev = << >> /\ invalid = 0 /\ sc \in Scenarios
      /\ todo \in Seq(Clocks) /\ Rest(todo, TapReset) /\ (~err => ResetAt(Len(todo), tap, ir, IrAfterReset))
  BY DEF EnumInv, ResetInv
<1>2. sc' = sc /\ dev' = dev /\ invalid' = invalid /\ pc' = pc
  BY DEF hostVars
<1> DEFINE n == Len(todo)
           c == Head(todo)
<1>3. /\ Tail(todo) \in Seq(Clocks) /\ Len(Tail(todo)) = n - 1 /\ Rest(Tail(todo), TapReset)
      /\ c = TapReset[(Len(TapReset) - n) + 1] /\ n \in Nat \ {0} /\ n <= Len(TapReset) /\ c \in Clocks
  <2>1. TapReset \in Seq(Clocks)
    BY TapResetIs
  <2>2. n \in Nat \ {0} /\ n <= Len(TapReset) /\ c \in Clocks
    BY <1>1 DEF Rest
  <2> QED BY <1>1, <2>1, <2>2, RestTail
<1>4. n \in 1..11 /\ c \in Clocks /\ c = TapReset[(11 - n) + 1]
  <2>1. Len(TapReset) = 11
    BY TapResetIs
  <2> HIDE DEF n, c
  <2> QED BY <1>3, <2>1
<1>0. todo' \in Seq(Clocks) /\ Len(todo') = n - 1 /\ Rest(todo', TapReset)
  BY <1>3
<1> HIDE DEF n, c
<1>5. TapClock(c)
  BY DEF c
<1>6. /\ tap' \in TapStates
      /\ tap' \in {"RESET", NextTapState(tap, c.tms)}
      /\ ~ c.trst => tap' = NextTapState(tap, c.tms)
      /\ tap' = "RESET" => ir' = IrAfterReset
      /\ tap' \notin {"RESET", "UPDATE_IR"} => ir' = ir
  BY <1>1, <1>4, <1>5, TapClockDoes
<1>7. ASSUME ~err PROVE ResetAt(n - 1, tap', ir', IrAfterReset')
  <2>1. ResetAt(n, tap, ir, IrAfterReset)
    BY <1>1, <1>7 DEF n
  <2>2. IrAfterReset' = IrAfterReset
    BY <1>2, ResetIrKept
  <2>3. CASE n = 11
    BY <1>6, <2>3, OnesMove DEF ResetAt
  <2>4. CASE n \in 3..10
    <3>1. (11 - n) + 1 \in 2..9
      BY <2>4
    <3>2. c = Clk(1, 0)
      BY <1>4, <3>1, TapResetIs
    <3>3. tap' = NextTapState(tap, 1)
      BY <1>6, <3>2 DEF Clk
    <3>4. OnesToReset(tap) \in Nat /\ OnesToReset(tap) <= (IF n >= 5 THEN n - 5 ELSE 0)
      BY <1>1, <2>1, <2>4, OnesMove DEF ResetAt
    <3>5. OnesToReset(tap') \in Nat /\ OnesToReset(tap') <= (IF n - 1 >= 5 THEN (n - 1) - 5 ELSE 0)
      <4>1. /\ OnesToReset(tap') \in 0..5
            /\ OnesToReset(tap) = 0 => OnesToReset(tap') = 0
            /\ OnesToReset(tap) # 0 => OnesToReset(tap') < OnesToReset(tap)
        BY <1>1, <3>3, OnesMove
      <4> HIDE DEF OnesToReset
      <4> QED BY <2>4, <3>4, <4>1
    <3>6. n - 1 <= 5 => tap' = "RESET"
      <4>1. n - 1 <= 5 => OnesToReset(tap') = 0
        BY <2>4, <3>5
      <4> QED BY <1>6, <4>1, OnesMove
    <3>7. n - 1 >= 2
      BY <2>4
    <3> QED BY <1>6, <2>2, <3>5, <3>6, <3>7 DEF ResetAt
  <2>5. CASE n = 2
    <3>1. tap = "RESET" /\ ir = IrAfterReset
      <4>1. OnesToReset(tap) \in 0..5 /\ OnesToReset(tap) <= 0 /\ ir = IrAfterReset
        BY <1>1, <2>1, <2>5, OnesMove DEF ResetAt
      <4> QED BY <1>1, <4>1, OnesMove
    <3>2. c = Trst
      BY <1>4, <2>5, TapResetIs
    <3>3. c.tms = 0
      BY <3>2 DEF Trst, Clk
    <3>4. tap' \in {"RESET", "IDLE"}
      BY <1>6, <3>1, <3>3, TapWalk
    <3>5. ir' = IrAfterReset
      BY <1>6, <3>1, <3>4
    <3> QED BY <2>2, <2>5, <3>4, <3>5 DEF ResetAt
  <2>6. CASE n = 1
    <3>1. tap \in {"RESET", "IDLE"} /\ ir = IrAfterReset
      BY <2>1, <2>6 DEF ResetAt
    <3>2. c = Clk(0, 0)
      BY <1>4, <2>6, TapResetIs
    <3>3. tap' = "IDLE"
      BY <1>6, <3>1, <3>2, TapWalk DEF Clk
    <3> QED BY <1>6, <2>2, <2>6, <3>1, <3>3 DEF ResetAt
  <2> QED BY <1>4, <2>3, <2>4, <2>5, <2>6
<1>8. ResetInv'
  <2>1. TapReset' = TapReset
    BY DEF TapReset, Clk, Trst
  <2>2. todo' \in Seq(Clocks) /\ Rest(todo', TapReset') /\ (~err' => ResetAt(Len(todo'), tap', ir', IrAfterReset'))
    BY <1>0, <1>7, <2>1
  <2> QED BY <1>1, <1>2, <1>6, <2>2 DEF ResetInv
<1> QED BY <1>1, <1>2, <1>8 DEF EnumInv, SelectInv, ShiftInv, FoundInv, ScanPlaces

LEMMA EnumSelectClock ==
  ASSUME EnumInv, pc = "startbit", todo # << >>, TapClock(Head(todo)),
         todo' = Tail(todo), err' = err, UNCHANGED <<sc, hostVars>>
  PROVE  EnumInv'
<1>1. sc' = sc /\ dev' = dev /\ invalid' = invalid /\ pc' = pc /\ resetErr' = resetErr /\ sc \in Scenarios
  BY DEF hostVars, EnumInv
<1>2. ResetInv' /\ FoundInv'
  BY <1>1 DEF ResetInv, FoundInv, ScanPlaces
<1>3. SUFFICES ASSUME Clean' PROVE SelectInv' /\ ShiftInv'
  BY <1>1, <1>2 DEF EnumInv, SelectInv, ShiftInv
<1>4. Clean
  BY <1>1, <1>3 DEF Clean
<1>5. /\ dev = << >> /\ invalid = 0 /\ todo \in Seq(Clocks) /\ Rest(todo, TapSetShiftDr) /\ ir = IrAfterReset
      /\ Len(todo) = 3 => tap = "IDLE"
      /\ Len(todo) = 2 => tap = "SELECT_DR"
      /\ Len(todo) = 1 => tap = "CAPTURE_DR"
  BY <1>4 DEF EnumInv, SelectInv
<1> DEFINE n == Len(todo)
           c == Head(todo)
<1>6. /\ Tail(todo) \in Seq(Clocks) /\ Len(Tail(todo)) = n - 1 /\ Rest(Tail(todo), TapSetShiftDr)
      /\ c = TapSetShiftDr[(Len(TapSetShiftDr) - n) + 1] /\ n \in Nat \ {0} /\ n <= Len(TapSetShiftDr) /\ c \in Clocks
  <2>1. TapSetShiftDr \in Seq(Clocks)
    BY TapSetShiftDrIs
  <2>2. n \in Nat \ {0} /\ n <= Len(TapSetShiftDr) /\ c \in Clocks
    BY <1>5 DEF Rest
  <2> QED BY <1>5, <2>1, <2>2, RestTail
<1>7. n \in 1..3 /\ c \in Clocks /\ c = TapSetShiftDr[(3 - n) + 1]
  <2>1. Len(TapSetShiftDr) = 3
    BY TapSetShiftDrIs
  <2> HIDE DEF n, c
  <2> QED BY <1>6, <2>1
<1>0. todo' \in Seq(Clocks) /\ Len(todo') = n - 1 /\ Rest(todo', TapSetShiftDr)
  BY <1>6
<1> HIDE DEF n, c
<1>8. tap \in {"IDLE", "SELECT_DR", "CAPTURE_DR"} /\ tap \in TapStates /\ TapClock(c)
  BY <1>5, <1>7 DEF n, c, TapStates
<1>9. /\ ~ c.trst => tap' = NextTapState(tap, c.tms)
      /\ tap' \notin {"RESET", "UPDATE_IR"} => ir' = ir
      /\ tap = "CAPTURE_DR" => path' = FlattenSeq(DrCapture)
  BY <1>7, <1>8, TapClockDoes
<1>10. c = Clk(IF n = 3 THEN 1 ELSE 0, 0)
  BY <1>7, TapSetShiftDrIs
<1>11. /\ n = 3 => tap' = "SELECT_DR"
       /\ n = 2 => tap' = "CAPTURE_DR"
       /\ n = 1 => tap' = "SHIFT_DR"
  <2>1. c.tms = (IF n = 3 THEN 1 ELSE 0) /\ c.trst = FALSE
    BY <1>10 DEF Clk
  <2>2. tap' = NextTapState(tap, IF n = 3 THEN 1 ELSE 0)
    BY <1>9, <2>1
  <2>3. /\ n = 3 => tap = "IDLE"
        /\ n = 2 => tap = "SELECT_DR"
        /\ n = 1 => tap = "CAPTURE_DR"
    BY <1>5 DEF n
  <2> QED BY <2>2, <2>3, TapWalk
<1>12. ir' = IrAfterReset'
  <2>1. tap' \notin {"RESET", "UPDATE_IR"}
    BY <1>7, <1>11
  <2> QED BY <1>1, <1>5, <1>9, <2>1, ResetIrKept
<1>13. CASE n # 1
  <2>1. todo' # << >>
    <3>1. Len(todo') # 0
      BY <1>0, <1>7, <1>13, SMTT(30)
    <3> QED BY <3>1
  <2>2. Rest(todo', TapSetShiftDr') /\ todo' \in Seq(Clocks)
    <3>1. TapSetShiftDr' = TapSetShiftDr
      BY DEF TapSetShiftDr, Clk
    <3> QED BY <1>0, <3>1
  <2>3. /\ Len(todo') = 3 => tap' = "IDLE"
        /\ Len(todo') = 2 => tap' = "SELECT_DR"
        /\ Len(todo') = 1 => tap' = "CAPTURE_DR"
    <3>1. n - 1 \in 1..2 /\ (n - 1 = 2 => n = 3) /\ (n - 1 = 1 => n = 2)
      BY <1>7, <1>13
    <3>2. PICK k \in 1..2 : k = n - 1
      BY <3>1
    <3>3. /\ k = 3 => tap' = "IDLE"
          /\ k = 2 => tap' = "SELECT_DR"
          /\ k = 1 => tap' = "CAPTURE_DR"
      BY <1>11, <3>1, <3>2
    <3> QED BY <1>0, <3>2, <3>3
  <2>4. SelectInv'
    BY <1>1, <1>5, <1>12, <2>2, <2>3 DEF SelectInv
  <2> QED BY <1>1, <2>1, <2>4 DEF ShiftInv
<1>14. CASE n = 1
  <2>1. todo' = << >> /\ Len(todo') = 0
    <3>1. Len(todo') = 0
      BY <1>0, <1>14
    <3> QED BY <1>0, <3>1
  <2>2. tap' = "SHIFT_DR" /\ path' = Whole(sc.chain)
    <3>1. tap = "CAPTURE_DR"
      BY <1>5, <1>14 DEF n
    <3> QED BY <1>1, <1>5, <1>9, <1>11, <1>14, <3>1, CaptureAfterReset DEF Whole
  <2>3. path' = Window(Seen(sc.chain), 0, Len(Whole(sc.chain)))
    BY <1>1, <2>2, WholeWindow
  <2>4. Base(sc.chain, 0) = 0 /\ Len(sc.chain) \in Nat
    BY <1>1, BaseFacts, RegistersType
  <2>5. << >> = Window(CodeClocks, 0, 0)
    BY DEF Window
  <2>6. Out' = 0 /\ Gone' = 0
    BY <1>1 DEF Out, Gone
  <2>7. Len(dev') = 0 /\ dev' = [d \in 1..Len(dev') |-> sc.chain[d].id]
    BY <1>1, <1>5
  <2>8. 0 = Smaller(0 + 0, IdBits + 1) /\ 0 <= MaxDevices
    BY IdBitsAssumption, SetupAssumption DEF Smaller
  <2>9. Shifting'
    <3>1. pc' = "startbit" /\ sc' = sc
      BY <1>1
    <3>2. Len(todo') \in 0..(0 - 0) /\ 0 + (0 - Len(todo')) = 0
      BY <2>1
    <3>3. todo' = Window(CodeClocks', 0, Len(todo'))
      BY <2>1, <2>5 DEF CodeClocks, Places, ReadClk, Code
    <3> QED BY <1>1, <1>5, <2>2, <2>3, <2>4, <2>6, <2>7, <2>8, <3>1, <3>2, <3>3 DEF Shifting
  <2> QED BY <2>1, <2>9 DEF SelectInv, ShiftInv
<1> QED BY <1>13, <1>14

(***************************************************************************)
(* The clocks of the scan: each moves the path by one place, and the bit   *)
(* that was next to TDO is appended to what was read.                      *)
(***************************************************************************)
LEMMA BitCounts ==
  ASSUME pc \in ScanPlaces
  PROVE  /\ Out \in Nat /\ Gone \in Nat /\ Gone <= Out
         /\ pc = "startbit" => Out = 0 /\ Gone = 0
         /\ pc = "gotbit" => Out = 1 /\ Gone = 0
         /\ pc = "gotmanuf" => Out = ManufBits + 1 /\ Gone = 1
         /\ pc = "gotrest" => Out = IdBits + 1 /\ Gone = 1
<1>1. ManufBits \in Nat /\ IdBits \in Nat
  BY SetupAssumption, IdBitsAssumption
<1> QED BY <1>1 DEF Out, Gone, ScanPlaces

LEMMA ShiftOneBit ==
  ASSUME sc \in Scenarios, NEW m \in Nat, NEW n \in Nat \ {0}, sc.stuck = "no", tap = "SHIFT_DR",
         todo = Window(CodeClocks, m, n),
         path = Window(Seen(sc.chain), m, Len(Whole(sc.chain))),
         Clock
  PROVE  /\ tap' = "SHIFT_DR"
         /\ todo' = Window(CodeClocks, m + 1, n - 1)
         /\ path' = Window(Seen(sc.chain), m + 1, Len(Whole(sc.chain)))
         /\ got' = Append(got, Seen(sc.chain)[m + 1])
<1> DEFINE L == Len(Whole(sc.chain))
           S == Seen(sc.chain)
           c == ReadClk(Code[m + 1])
<1>1. L \in Nat \ {0} /\ S \in [Places -> {0, 1}]
  BY WholeLong, SeenType
<1>2. Head(todo) = CodeClocks[m + 1] /\ Tail(todo) = Window(CodeClocks, m + 1, n - 1)
  BY CodeClocksType, WindowTail
<1>3. m + 1 \in Places /\ Code[m + 1] \in {0, 1}
  BY CodeType DEF Places
<1>4. Head(todo) = c
  BY <1>2, <1>3 DEF CodeClocks
<1>5. S[(m + L) + 1] = Code[m + 1]
  <2>1. L + (m + 1) = (m + L) + 1
    BY <1>1
  <2>2. S[L + (m + 1)] = Code[m + 1]
    BY <1>3, SeenCode
  <2> QED BY <2>1, <2>2
<1> HIDE DEF L, S
<1>6. Append(Tail(path), Code[m + 1]) = Window(S, m + 1, L) /\ Head(path) = S[m + 1]
  <2>1. path = Window(S, m, L)
    BY DEF S, L
  <2>2. Append(Tail(Window(S, m, L)), S[(m + L) + 1]) = Window(S, m + 1, L)
    BY <1>1, WindowShift
  <2>3. Head(Window(S, m, L)) = S[m + 1]
    BY <1>1, WindowTail
  <2> QED BY <1>5, <2>1, <2>2, <2>3
<1>7. c \in Clocks /\ c.tms = 0 /\ c.tdi = Code[m + 1] /\ c.trst = FALSE /\ c.rd = TRUE
  BY <1>3, ClkType DEF ReadClk
<1> HIDE DEF c
<1>8. /\ TapClock(c) /\ todo' = Tail(todo)
      /\ got' = IF c.rd THEN Append(got, Tdo) ELSE got
  BY <1>4 DEF Clock
<1>9. tap' = "SHIFT_DR" /\ path' = Append(Tail(path), Code[m + 1])
  <2>1. tap \in TapStates
    BY DEF TapStates
  <2>2. tap' = NextTapState(tap, c.tms) /\ path' = Append(Tail(path), c.tdi)
    BY <1>7, <1>8, <2>1, TapClockDoes
  <2> QED BY <1>7, <2>2, TapWalk
<1>10. got' = Append(got, S[m + 1])
  <2>1. Tdo = Head(path)
    BY DEF Tdo
  <2> QED BY <1>6, <1>7, <1>8, <2>1
<1> QED BY <1>2, <1>6, <1>8, <1>9, <1>10 DEF S, L

LEMMA EnumShiftClock ==
  ASSUME EnumInv, pc \in {"gotbit", "gotmanuf", "gotrest"}, Clock, UNCHANGED <<sc, hostVars>>
  PROVE  EnumInv'
<1>1. sc' = sc /\ dev' = dev /\ invalid' = invalid /\ pc' = pc /\ resetErr' = resetErr /\ sc \in Scenarios
  BY DEF hostVars, EnumInv
<1>2. ResetInv' /\ SelectInv' /\ FoundInv'
  BY <1>1 DEF ResetInv, SelectInv, FoundInv, ScanPlaces
<1>3. SUFFICES ASSUME Clean' PROVE Shifting'
  BY <1>1, <1>2 DEF EnumInv, ShiftInv
<1>4. Clean /\ pc \in ScanPlaces /\ pc # "startbit"
  BY <1>1, <1>3 DEF Clean, ScanPlaces, Clock
<1>5. Shifting
  BY <1>4 DEF EnumInv, ShiftInv
<1>6. Out' = Out /\ Gone' = Gone
  BY <1>1 DEF Out, Gone
<1> DEFINE n == Len(todo)
           b == Base(sc.chain, Len(dev))
           a == b + Gone
           l == (Out - Gone) - n
           m == b + (Out - n)
<1>7. /\ tap = "SHIFT_DR" /\ Len(dev) \in 0..Len(sc.chain) /\ n \in 0..(Out - Gone)
      /\ todo = Window(CodeClocks, m, n)
      /\ path = Window(Seen(sc.chain), m, Len(Whole(sc.chain)))
      /\ got = Window(Seen(sc.chain), a, l)
  BY <1>4, <1>5 DEF Shifting
<1>8. b \in Nat
  BY <1>1, <1>7, BaseFacts
<1>9. Out \in Nat /\ Gone \in Nat /\ Gone <= Out
  BY <1>4, BitCounts
<1>10. n # 0
  <2>1. todo # << >> /\ n \in Nat
    BY <1>7, <1>9 DEF Clock
  <2>2. todo \in Seq(Clocks)
    <3>1. m \in Nat
      <4> HIDE DEF n, b
      <4> QED BY <1>7, <1>8, <1>9
    <3> QED BY <1>7, <2>1, <3>1, CodeClocksType, WindowType
  <2> QED BY <2>1, <2>2
<1> HIDE DEF n, b
<1>11. /\ n \in Nat \ {0} /\ m \in Nat /\ a \in Nat /\ l \in Nat /\ a + l = m
       /\ m + 1 = b + (Out - (n - 1)) /\ l + 1 = (Out - Gone) - (n - 1) /\ n - 1 \in 0..(Out - Gone) /\ n - 1 \in Nat
  BY <1>7, <1>8, <1>9, <1>10
<1> HIDE DEF a, l, m
<1>12. /\ tap' = "SHIFT_DR"
       /\ todo' = Window(CodeClocks, m + 1, n - 1)
       /\ path' = Window(Seen(sc.chain), m + 1, Len(Whole(sc.chain)))
       /\ got' = Window(Seen(sc.chain), a, l + 1)
  <2>1. sc.stuck = "no" /\ sc \in Scenarios /\ tap = "SHIFT_DR"
    BY <1>1, <1>4, <1>7 DEF Clean
  <2>2. n \in Nat \ {0} /\ m \in Nat
    BY <1>11
  <2>3. /\ todo = Window(CodeClocks, m, n)
        /\ path = Window(Seen(sc.chain), m, Len(Whole(sc.chain)))
    BY <1>7
  <2>4. /\ tap' = "SHIFT_DR"
        /\ todo' = Window(CodeClocks, m + 1, n - 1)
        /\ path' = Window(Seen(sc.chain), m + 1, Len(Whole(sc.chain)))
        /\ got' = Append(got, Seen(sc.chain)[m + 1])
    BY <2>1, <2>2, <2>3, ShiftOneBit
  <2>5. Append(Window(Seen(sc.chain), a, l), Seen(sc.chain)[(a + l) + 1]) = Window(Seen(sc.chain), a, l + 1)
    BY <1>11, <2>1, SeenType, WindowAppend
  <2> QED BY <1>7, <1>11, <2>4, <2>5
<1>13. Len(todo') = n - 1
  <2>1. PICK p \in Nat, q \in Nat : p = m + 1 /\ q = n - 1
    BY <1>11
  <2>2. Len(Window(CodeClocks, p, q)) = q
    BY CodeClocksType, WindowType
  <2> QED BY <1>12, <2>1, <2>2
<1>14. /\ todo' = Window(CodeClocks, b + (Out - Len(todo')), Len(todo'))
       /\ path' = Window(Seen(sc.chain), b + (Out - Len(todo')), Len(Whole(sc.chain)))
       /\ got' = Window(Seen(sc.chain), b + Gone, (Out - Gone) - Len(todo'))
       /\ Len(todo') \in 0..(Out - Gone)
  BY <1>11, <1>12, <1>13 DEF a
<1> QED BY <1>1, <1>5, <1>6, <1>12, <1>14 DEF Shifting, b

LEMMA EnumCableFails ==
  ASSUME EnumInv, CableFails, UNCHANGED <<sc, hostVars>>
  PROVE  EnumInv'
<1>1. sc' = sc /\ dev' = dev /\ invalid' = invalid /\ pc' = pc /\ sc \in Scenarios /\ err'
  BY DEF hostVars, EnumInv, CableFails
<1>2. SelectInv' /\ ShiftInv' /\ FoundInv'
  BY <1>1 DEF SelectInv, ShiftInv, FoundInv, Clean
<1>3. ResetInv'
  <2>1. SUFFICES ASSUME pc \in {"args", "reset", "enumerate"} PROVE ResetInv'
    BY <1>1 DEF ResetInv
  <2>2. todo # << >> /\ todo' = Tail(todo) /\ (TapClock(Head(todo)) \/ tap' = tap)
    BY DEF CableFails
  <2>3. pc = "enumerate" /\ tap \in TapStates /\ dev = << >> /\ invalid = 0 /\ todo \in Seq(Clocks) /\ Rest(todo, TapReset)
    BY <2>1, <2>2 DEF EnumInv, ResetInv
  <2>4. Head(todo) \in Clocks
    BY <2>2, <2>3
  <2>5. tap' \in TapStates
    BY <2>2, <2>3, <2>4, TapClockDoes
  <2>6. Tail(todo) \in Seq(Clocks) /\ Rest(Tail(todo), TapReset)
    <3>1. TapReset \in Seq(Clocks)
      BY TapResetIs
    <3> QED BY <2>2, <2>3, <3>1, RestTail
  <2>7. TapReset' = TapReset
    BY DEF TapReset, Clk, Trst
  <2> QED BY <1>1, <2>2, <2>3, <2>5, <2>6, <2>7 DEF ResetInv
<1> QED BY <1>1, <1>2, <1>3 DEF EnumInv

-----------------------------------------------------------------------------
(***************************************************************************)
(* The steps of jtag_enumerate_chain() between its clocks.                 *)
(***************************************************************************)
LEMMA SentIs ==
  ASSUME NEW p \in Nat, NEW n \in Nat, invalid = Smaller(p, IdBits + 1), Sent(n)
  PROVE  invalid' = Smaller(p + n, IdBits + 1)
<1>1. IdBits \in Nat /\ Len(InvalidCode) = IdBits + 1
  BY IdBitsAssumption, CodeFacts
<1> QED BY <1>1 DEF Sent, Smaller

LEMMA NoWindow ==
  ASSUME NEW f, NEW m
  PROVE  << >> = Window(f, m, 0)
BY DEF Window

\* All clocks of a place have been sent.
ScanDone ==
  LET c == sc.chain
      b == Base(c, Len(dev))
  IN /\ tap = "SHIFT_DR" /\ sc \in Scenarios
     /\ b \in Nat /\ b + Out \in Nat
     /\ Len(dev) \in 0..Len(c) /\ dev = [d \in 1..Len(dev) |-> c[d].id]
     /\ Len(dev) <= MaxDevices /\ (pc # "startbit" => Len(dev) < MaxDevices)
     /\ path = Window(Seen(c), b + Out, Len(Whole(c)))
     /\ invalid = Smaller(b + Out, IdBits + 1)
     /\ pc # "startbit" => got = Window(Seen(c), b + Gone, Out - Gone)
     /\ pc \in {"gotmanuf", "gotrest"} => Seen(c)[b + 1] = 1
     /\ pc = "gotrest" => Len(dev) < Len(c)

LEMMA DoneScanning ==
  ASSUME EnumInv, Clean, pc \in ScanPlaces, todo = << >>
  PROVE  ScanDone
<1>1. Shifting /\ sc \in Scenarios
  BY DEF EnumInv, ShiftInv
<1>2. Out \in Nat /\ Gone \in Nat /\ Gone <= Out
  BY BitCounts
<1>3. Base(sc.chain, Len(dev)) \in Nat
  BY <1>1, BaseFacts DEF Shifting
<1>4. Len(todo) = 0
  OBVIOUS
<1>5. Out - Len(todo) = Out /\ (Out - Gone) - Len(todo) = Out - Gone
  BY <1>2, <1>4
<1>6. Base(sc.chain, Len(dev)) + Out \in Nat
  BY <1>2, <1>3
<1> QED BY <1>1, <1>3, <1>5, <1>6 DEF Shifting, ScanDone

LEMMA AppendedId ==
  ASSUME NEW c, NEW k \in Nat, NEW q, q = [d \in 1..k |-> c[d].id]
  PROVE  /\ Append(q, c[k + 1].id) = [d \in 1..(k + 1) |-> c[d].id]
         /\ Len([d \in 1..(k + 1) |-> c[d].id]) = k + 1
<1> DEFINE A == {c[d].id : d \in 1..(k + 1)}
           e == c[k + 1].id
           t == [d \in 1..(k + 1) |-> c[d].id]
<1>1. /\ q \in Seq(A) /\ Len(q) = k /\ e \in A
      /\ \A d \in 1..k : q[d] = c[d].id
  OBVIOUS
<1>2. t \in Seq(A) /\ Len(t) = k + 1 /\ (\A d \in 1..k : t[d] = c[d].id) /\ t[k + 1] = e
  OBVIOUS
<1> HIDE DEF A, e, t
<1>3. Append(q, e) \in Seq(A) /\ Len(Append(q, e)) = k + 1 /\ \A d \in 1..(k + 1) : Append(q, e)[d] = t[d]
  BY <1>1, <1>2
<1>4. Append(q, e) = t
  BY <1>2, <1>3, SeqEqual
<1> QED BY <1>2, <1>4 DEF e, t

LEMMA EnumReadStartBit == EnumInv /\ ReadStartBit => EnumInv'
<1> SUFFICES ASSUME EnumInv, ReadStartBit PROVE EnumInv'
  OBVIOUS
<1>1. /\ pc = "startbit" /\ todo = << >> /\ sc' = sc /\ dev' = dev /\ err' = err /\ resetErr' = resetErr
      /\ tap' = tap /\ path' = path /\ sc \in Scenarios
  BY DEF ReadStartBit, At, Hardware, EnumInv
<1>2. pc' \in {"exit", "gotbit", "leave"}
  BY DEF ReadStartBit
<1>3. ResetInv' /\ SelectInv'
  BY <1>2 DEF ResetInv, SelectInv
<1>4. SUFFICES ASSUME Clean' PROVE ShiftInv' /\ FoundInv'
  BY <1>1, <1>3 DEF EnumInv, ShiftInv, FoundInv
<1>5. Clean /\ ~err
  BY <1>1, <1>4 DEF Clean
<1>6. ScanDone /\ Out = 0
  BY <1>1, <1>5, DoneScanning, BitCounts DEF ScanPlaces
<1> DEFINE k == Len(dev)
           b == Base(sc.chain, k)
<1>7. /\ b \in Nat /\ tap = "SHIFT_DR" /\ k \in 0..Len(sc.chain) /\ dev = [d \in 1..k |-> sc.chain[d].id] /\ k <= MaxDevices
      /\ path = Window(Seen(sc.chain), b + Out, Len(Whole(sc.chain))) /\ invalid = Smaller(b + Out, IdBits + 1)
  BY <1>6 DEF ScanDone
<1> HIDE DEF k, b
<1>8. path = Window(Seen(sc.chain), b, Len(Whole(sc.chain))) /\ invalid = Smaller(b, IdBits + 1)
  <2>1. b + Out = b
    BY <1>6, <1>7
  <2> QED BY <1>7, <2>1
<1>9. MaxDevices \in Nat /\ k \in Nat /\ Len(sc.chain) \in Nat
  BY <1>1, <1>7, SetupAssumption, RegistersType
<1>10. CASE k < MaxDevices
  <2>1. /\ todo' = Reading(<<Clk(0, FromInvalid(1)[1])>>) /\ got' = << >> /\ Sent(1) /\ pc' = "gotbit"
    BY <1>5, <1>10 DEF ReadStartBit, Send, k
  <2>2. todo' = Window(CodeClocks, b, 1)
    BY <1>7, <1>8, <2>1, StartBitClock
  <2>3. Len(todo') = 1
    BY <1>7, <2>2, CodeClocksType, WindowType, ZenonT(60)
  <2>4. invalid' = Smaller(b + 1, IdBits + 1)
    BY <1>7, <1>8, <2>1, SentIs
  <2>5. got' = Window(Seen(sc.chain), b, 0)
    BY <2>1, NoWindow
  <2>6. Out' = 1 /\ Gone' = 0
    BY <2>1 DEF Out, Gone
  <2>7. /\ Len(todo') \in 0..(Out' - Gone') /\ b + (Out' - Len(todo')) = b
        /\ b + Gone' = b /\ (Out' - Gone') - Len(todo') = 0
    BY <1>7, <2>3, <2>6
  <2>8. Len(dev') = k /\ Base(sc'.chain, Len(dev')) = b /\ Seen(sc'.chain) = Seen(sc.chain)
    BY <1>1 DEF b, k
  <2>9. Shifting'
    <3>1. todo' = Window(CodeClocks, b + (Out' - Len(todo')), Len(todo'))
      BY <2>2, <2>3, <2>7
    <3>2. path' = Window(Seen(sc.chain), b + (Out' - Len(todo')), Len(Whole(sc.chain)))
      BY <1>1, <1>8, <2>7
    <3>3. got' = Window(Seen(sc.chain), b + Gone', (Out' - Gone') - Len(todo'))
      BY <2>5, <2>7
    <3>4. invalid' = Smaller(b + Out', IdBits + 1)
      BY <2>4, <2>6
    <3> HIDE DEF Shifting
    <3> QED BY <1>1, <1>7, <1>9, <1>10, <2>1, <2>7, <2>8, <3>1, <3>2, <3>3, <3>4 DEF Shifting
  <2> QED BY <2>1, <2>9 DEF ShiftInv, FoundInv, ScanPlaces
<1>11. CASE ~ (k < MaxDevices)
  <2>1. pc' = "leave"
    BY <1>5, <1>11 DEF ReadStartBit, k
  <2>2. k = Smaller(Len(sc.chain), MaxDevices)
    BY <1>7, <1>9, <1>11 DEF Smaller
  <2> QED BY <1>1, <1>7, <2>1, <2>2 DEF ShiftInv, FoundInv, ScanPlaces
<1> QED BY <1>10, <1>11

\* The next device, when the scan is at its first bit, and the end of the chain.
LEMMA AtRegister ==
  ASSUME NEW s \in Scenarios, NEW k \in 0..Len(s.chain), k < Len(s.chain)
  PROVE  LET b == Base(s.chain, k)
             v == s.chain[k + 1]
         IN /\ v.id = NoId => Seen(s.chain)[b + 1] = 0 /\ Base(s.chain, k + 1) = b + 1
            /\ v.id # NoId => /\ Seen(s.chain)[b + 1] = 1
                              /\ Base(s.chain, k + 1) = b + (IdBits + 1)
                              /\ Window(Seen(s.chain), b + 1, IdBits) = v.id
                              /\ Window(Seen(s.chain), b + 1, ManufBits) = Manuf(v.id)
                              /\ v.id # Bits(IdBits, 1) /\ Manuf(v.id) # DoneCode
<1> DEFINE b == Base(s.chain, k)
           v == s.chain[k + 1]
           r == Register(s.chain, k + 1)
           S == Seen(s.chain)
<1>1. Len(s.chain) \in Nat /\ k \in 0..(Len(s.chain) - 1) /\ k + 1 \in 1..Len(s.chain)
  BY RegistersType
<1>2. b \in Nat /\ IdBits \in Nat /\ ManufBits \in 1..(IdBits - 1)
  BY BaseFacts, IdBitsAssumption, SetupAssumption
<1>3. Base(s.chain, k + 1) = b + Len(r) /\ \A j \in 1..Len(r) : S[b + j] = r[j]
  BY <1>1, SeenRegister
<1>4. PICK d \in 1..Len(s.chain) : d = k + 1
  BY <1>1
<1>5. /\ v.id = NoId => Len(r) = 1 /\ r[1] = 0
      /\ v.id # NoId => /\ v.id \in [1..IdBits -> {0, 1}] /\ v.id # Bits(IdBits, 1) /\ Manuf(v.id) # DoneCode
                        /\ Len(r) = IdBits + 1 /\ r[1] = 1 /\ \A j \in 1..IdBits : r[j + 1] = v.id[j]
  <2>1. /\ s.chain[d].id = NoId => Len(Register(s.chain, d)) = 1 /\ Register(s.chain, d)[1] = 0
        /\ s.chain[d].id # NoId => /\ s.chain[d].id \in [1..IdBits -> {0, 1}]
                                   /\ s.chain[d].id # Bits(IdBits, 1)
                                   /\ Manuf(s.chain[d].id) # DoneCode
                                   /\ Len(Register(s.chain, d)) = IdBits + 1
                                   /\ Register(s.chain, d)[1] = 1
                                   /\ \A j \in 1..IdBits : Register(s.chain, d)[j + 1] = s.chain[d].id[j]
    BY RegisterFacts
  <2> QED BY <1>4, <2>1
<1> HIDE DEF b, v, r, S
<1>6. CASE v.id = NoId
  <2>1. 1 \in 1..Len(r)
    <3>1. Len(r) = 1
      BY <1>5, <1>6
    <3> QED BY <3>1
  <2> QED BY <1>3, <1>5, <1>6, <2>1 DEF b, v, S
<1>7. CASE v.id # NoId
  <2>1. 1 \in 1..Len(r) /\ \A j \in 1..IdBits : j + 1 \in 1..Len(r)
    <3>1. Len(r) = IdBits + 1
      BY <1>5, <1>7
    <3> QED BY <1>2, <3>1
  <2>2. S[b + 1] = 1 /\ Base(s.chain, k + 1) = b + (IdBits + 1)
    BY <1>3, <1>5, <1>7, <2>1
  <2>3. ASSUME NEW j \in 1..IdBits PROVE S[(b + 1) + j] = v.id[j]
    <3>1. j + 1 \in 1..Len(r) /\ b + (j + 1) = (b + 1) + j
      BY <1>2, <2>1
    <3>2. S[b + (j + 1)] = r[j + 1]
      BY <1>3, <3>1
    <3> QED BY <1>5, <1>7, <3>1, <3>2
  <2>4. Window(S, b + 1, IdBits) = v.id
    <3>1. v.id = [j \in 1..IdBits |-> v.id[j]]
      BY <1>5, <1>7
    <3> QED BY <2>3, <3>1 DEF Window
  <2>5. Window(S, b + 1, ManufBits) = Manuf(v.id)
    <3>1. v.id \in Seq({0, 1}) /\ Len(v.id) = IdBits
      BY <1>2, <1>5, <1>7
    <3>2. Manuf(v.id) = [j \in 1..ManufBits |-> v.id[j]]
      <4>1. Manuf(v.id) = [j \in 1..((ManufBits - 1) + 1) |-> v.id[(j + 1) - 1]]
        BY <1>2 DEF Manuf
      <4>2. (ManufBits - 1) + 1 = ManufBits /\ \A j \in 1..ManufBits : (j + 1) - 1 = j
        BY <1>2
      <4> QED BY <4>1, <4>2
    <3>3. \A j \in 1..ManufBits : j \in 1..IdBits
      BY <1>2
    <3> QED BY <2>3, <3>2, <3>3 DEF Window
  <2> QED BY <1>5, <1>7, <2>2, <2>4, <2>5 DEF b, v, S
<1> QED BY <1>6, <1>7

LEMMA AtEnd ==
  ASSUME NEW s \in Scenarios, NEW k, k = Len(s.chain)
  PROVE  LET b == Base(s.chain, k)
         IN /\ Seen(s.chain)[b + 1] = 1
            /\ Window(Seen(s.chain), b + 1, ManufBits) = DoneCode
<1> DEFINE b == Base(s.chain, k)
           S == Seen(s.chain)
<1>1. b \in Nat /\ IdBits \in Nat /\ ManufBits \in 1..(IdBits - 1)
  <2>1. Len(s.chain) \in 0..Len(s.chain)
    BY RegistersType
  <2> QED BY <2>1, BaseFacts, IdBitsAssumption, SetupAssumption
<1>2. \A j \in 1..(IdBits + 1) : S[b + j] = InvalidCode[j]
  BY SeenEnd
<1> HIDE DEF b, S
<1>3. S[b + 1] = 1
  <2>1. 1 \in 1..(IdBits + 1)
    BY <1>1
  <2> QED BY <1>2, <2>1, CodeFacts
<1>4. ASSUME NEW j \in 1..ManufBits PROVE S[(b + 1) + j] = DoneCode[j]
  <2>1. j + 1 \in 1..(IdBits + 1) /\ b + (j + 1) = (b + 1) + j
    BY <1>1
  <2>2. S[b + (j + 1)] = InvalidCode[j + 1]
    BY <1>2, <2>1
  <2>3. DoneCode[j] = InvalidCode[j + 1]
    BY CodeFacts
  <2> QED BY <2>1, <2>2, <2>3
<1>5. DoneCode = [j \in 1..ManufBits |-> DoneCode[j]]
  <2>1. DoneCode \in Seq({0, 1}) /\ Len(DoneCode) = ManufBits
    BY CodeFacts
  <2> QED BY <2>1
<1>6. Window(S, b + 1, ManufBits) = DoneCode
  BY <1>4, <1>5 DEF Window
<1> QED BY <1>3, <1>6 DEF b, S

LEMMA EnumGotStartBit == EnumInv /\ GotStartBit => EnumInv'
<1> SUFFICES ASSUME EnumInv, GotStartBit PROVE EnumInv'
  OBVIOUS
<1>1. /\ pc = "gotbit" /\ todo = << >> /\ sc' = sc /\ err' = err /\ resetErr' = resetErr
      /\ tap' = tap /\ path' = path /\ sc \in Scenarios
  BY DEF GotStartBit, At, Hardware, EnumInv
<1>2. pc' \in {"startbit", "gotmanuf"} /\ (pc' = "startbit" => todo' = << >>)
  BY <1>1 DEF GotStartBit, Quiet
<1>3. ResetInv' /\ SelectInv' /\ FoundInv'
  BY <1>2 DEF ResetInv, SelectInv, FoundInv, ScanPlaces
<1>4. SUFFICES ASSUME Clean' PROVE Shifting'
  BY <1>1, <1>3 DEF EnumInv, ShiftInv
<1>5. Clean
  BY <1>1, <1>4 DEF Clean
<1>6. ScanDone /\ Out = 1 /\ Gone = 0
  BY <1>1, <1>5, DoneScanning, BitCounts DEF ScanPlaces
<1> DEFINE k == Len(dev)
           b == Base(sc.chain, k)
           S == Seen(sc.chain)
           L == Len(Whole(sc.chain))
<1>7. /\ b \in Nat /\ tap = "SHIFT_DR" /\ k \in 0..Len(sc.chain) /\ dev = [d \in 1..k |-> sc.chain[d].id] /\ k < MaxDevices
      /\ path = Window(S, b + 1, L) /\ invalid = Smaller(b + 1, IdBits + 1)
  BY <1>1, <1>6 DEF ScanDone
<1>8. got = Window(S, b, 1)
  <2>1. got = Window(S, b + Gone, Out - Gone)
    BY <1>1, <1>6 DEF ScanDone
  <2>2. b + Gone = b /\ Out - Gone = 1
    <3> HIDE DEF b
    <3> QED BY <1>6, <1>7
  <2> HIDE DEF b, S
  <2> QED BY <2>1, <2>2
<1>9. MaxDevices \in Nat /\ k \in Nat /\ Len(sc.chain) \in Nat
  BY <1>1, <1>7, SetupAssumption, RegistersType
<1>10. S \in [Places -> {0, 1}] /\ S[b + 1] \in {0, 1}
  BY <1>1, <1>7, SeenType, SMTT(30) DEF Places
<1>11. got = <<0>> <=> S[b + 1] = 0
  <2> HIDE DEF b, S
  <2>1. got = [j \in 1..1 |-> S[b + j]]
    BY <1>8 DEF Window
  <2>2. got[1] = S[b + 1]
    BY <2>1
  <2>3. S[b + 1] = 0 => got = <<0>>
    <3>1. SUFFICES ASSUME S[b + 1] = 0 PROVE got = <<0>>
      OBVIOUS
    <3>2. got \in Seq(Nat) /\ Len(got) = 1 /\ got[1] = 0
      BY <2>1, <3>1
    <3> QED BY <3>2
  <2> QED BY <2>2, <2>3
<1>12. CASE S[b + 1] = 0
  <2>1. dev' = Append(dev, NoId) /\ pc' = "startbit" /\ todo' = << >> /\ invalid' = invalid
    BY <1>1, <1>11, <1>12 DEF GotStartBit, Record, Quiet
  <2>2. k < Len(sc.chain)
    <3>1. k # Len(sc.chain)
      BY <1>1, <1>12, AtEnd
    <3> HIDE DEF k
    <3> QED BY <1>7, <1>9, <3>1
  <2>3. sc.chain[k + 1].id = NoId /\ Base(sc.chain, k + 1) = b + 1
    BY <1>1, <1>7, <1>12, <2>2, AtRegister
  <2>4. dev' = [d \in 1..(k + 1) |-> sc.chain[d].id] /\ Len(dev') = k + 1
    <3> HIDE DEF k
    <3> QED BY <1>7, <1>9, <2>1, <2>3, AppendedId
  <2> HIDE DEF k, b, S, L
  <2>5. k + 1 \in 0..Len(sc.chain) /\ k + 1 <= MaxDevices
    BY <1>7, <1>9, <2>2
  <2>6. Out' = 0 /\ Gone' = 0 /\ Len(todo') = 0
    BY <2>1 DEF Out, Gone
  <2>7. (b + 1) + (Out' - Len(todo')) = b + 1 /\ (b + 1) + Out' = b + 1 /\ Len(todo') \in 0..(Out' - Gone')
    BY <1>7, <2>6
  <2>8. todo' = Window(CodeClocks, (b + 1) + (Out' - Len(todo')), Len(todo'))
    BY <2>1, <2>6, NoWindow
  <2>9. Base(sc'.chain, Len(dev')) = b + 1 /\ Seen(sc'.chain) = S /\ Len(Whole(sc'.chain)) = L
    BY <1>1, <2>3, <2>4 DEF S, L
  <2> QED BY <1>1, <1>7, <2>1, <2>4, <2>5, <2>7, <2>8, <2>9 DEF Shifting
<1>13. CASE S[b + 1] = 1
  <2>1. /\ todo' = CableReadWriteStream(FromInvalid(ManufBits), ManufBits, 0) /\ got' = << >>
        /\ Sent(ManufBits) /\ pc' = "gotmanuf" /\ dev' = dev
    BY <1>11, <1>13 DEF GotStartBit, Send
  <2>2. ManufBits \in Nat /\ ManufBits \in 1..WordBits /\ b + 1 \in Nat
    <3>1. ManufBits \in 1..(IdBits - 1) /\ IdBits \in Nat /\ IdBits <= WordBits /\ WordBits \in Nat
      BY SetupAssumption, IdBitsAssumption, ChainAssumption, ScanAssumption
    <3> HIDE DEF b
    <3> QED BY <1>7, <3>1
  <2> HIDE DEF k, b, S, L
  <2>3. PICK p \in Nat : p = b + 1
    BY <2>2
  <2>4. todo' = Window(CodeClocks, p, ManufBits)
    BY <1>7, <2>1, <2>2, <2>3, CodeStream
  <2>5. Len(todo') = ManufBits
    BY <2>2, <2>4, CodeClocksType, WindowType
  <2>6. invalid' = Smaller(p + ManufBits, IdBits + 1)
    BY <1>7, <2>1, <2>2, <2>3, SentIs
  <2>7. Out' = ManufBits + 1 /\ Gone' = 1
    BY <2>1 DEF Out, Gone
  <2>8. /\ Len(todo') \in 0..(Out' - Gone') /\ b + (Out' - Len(todo')) = p
        /\ b + Gone' = p /\ (Out' - Gone') - Len(todo') = 0 /\ b + Out' = p + ManufBits
    BY <1>7, <2>2, <2>3, <2>5, <2>7
  <2>9. Base(sc'.chain, Len(dev')) = b /\ Seen(sc'.chain) = S /\ Len(Whole(sc'.chain)) = L /\ Len(dev') = k
    BY <1>1, <2>1 DEF b, S, L, k
  <2>10. todo' = Window(CodeClocks, b + (Out' - Len(todo')), Len(todo'))
    BY <2>4, <2>5, <2>8
  <2>11. path' = Window(S, b + (Out' - Len(todo')), L)
    BY <1>1, <1>7, <2>3, <2>8
  <2>12. got' = Window(S, b + Gone', (Out' - Gone') - Len(todo'))
    BY <2>1, <2>8, NoWindow
  <2>13. invalid' = Smaller(b + Out', IdBits + 1)
    BY <2>6, <2>8
  <2>14. k <= MaxDevices
    BY <1>7, <1>9
  <2> QED BY <1>1, <1>7, <1>13, <2>1, <2>8, <2>9, <2>10, <2>11, <2>12, <2>13, <2>14 DEF Shifting
<1> QED BY <1>10, <1>12, <1>13

LEMMA EnumGotManuf == EnumInv /\ GotManuf => EnumInv'
<1> SUFFICES ASSUME EnumInv, GotManuf PROVE EnumInv'
  OBVIOUS
<1>1. /\ pc = "gotmanuf" /\ todo = << >> /\ sc' = sc /\ err' = err /\ resetErr' = resetErr
      /\ tap' = tap /\ path' = path /\ dev' = dev /\ sc \in Scenarios
  BY DEF GotManuf, At, Hardware, EnumInv
<1>2. pc' \in {"leave", "gotrest"}
  BY DEF GotManuf
<1>3. ResetInv' /\ SelectInv'
  BY <1>2 DEF ResetInv, SelectInv
<1>4. SUFFICES ASSUME Clean' PROVE ShiftInv' /\ FoundInv'
  BY <1>1, <1>3 DEF EnumInv, ShiftInv, FoundInv
<1>5. Clean
  BY <1>1, <1>4 DEF Clean
<1>6. ScanDone /\ Out = ManufBits + 1 /\ Gone = 1
  BY <1>1, <1>5, DoneScanning, BitCounts DEF ScanPlaces
<1>0. /\ ManufBits \in Nat /\ IdBits \in Nat /\ IdBits - ManufBits \in 1..WordBits /\ IdBits - ManufBits \in Nat
      /\ ManufBits + (IdBits - ManufBits) = IdBits
  <2>1. ManufBits \in 1..(IdBits - 1) /\ IdBits \in Nat /\ IdBits <= WordBits /\ WordBits \in Nat
    BY SetupAssumption, IdBitsAssumption, ChainAssumption, ScanAssumption
  <2> QED BY <2>1
<1> DEFINE k == Len(dev)
           b == Base(sc.chain, k)
           S == Seen(sc.chain)
           L == Len(Whole(sc.chain))
           p == (b + 1) + ManufBits
<1>7. /\ b \in Nat /\ tap = "SHIFT_DR" /\ k \in 0..Len(sc.chain) /\ dev = [d \in 1..k |-> sc.chain[d].id] /\ k < MaxDevices
      /\ S[b + 1] = 1
  BY <1>1, <1>6 DEF ScanDone
<1>8. p \in Nat /\ path = Window(S, p, L) /\ invalid = Smaller(p, IdBits + 1) /\ got = Window(S, b + 1, ManufBits)
  <2>1. path = Window(S, b + Out, L) /\ invalid = Smaller(b + Out, IdBits + 1) /\ got = Window(S, b + Gone, Out - Gone)
    BY <1>1, <1>6 DEF ScanDone
  <2> HIDE DEF b, S, L
  <2>2. p \in Nat /\ b + Out = p /\ b + Gone = b + 1 /\ Out - Gone = ManufBits
    BY <1>0, <1>6, <1>7
  <2> HIDE DEF p
  <2> QED BY <2>1, <2>2
<1>9. MaxDevices \in Nat /\ k \in Nat /\ Len(sc.chain) \in Nat
  BY <1>1, <1>7, SetupAssumption, RegistersType
<1>10. got = DoneCode <=> k = Len(sc.chain)
  <2>1. k = Len(sc.chain) => got = DoneCode
    BY <1>1, <1>8, AtEnd
  <2>2. k < Len(sc.chain) => got # DoneCode
    <3>1. SUFFICES ASSUME k < Len(sc.chain) PROVE got # DoneCode
      OBVIOUS
    <3>2. /\ sc.chain[k + 1].id = NoId => S[b + 1] = 0
          /\ sc.chain[k + 1].id # NoId => /\ Window(S, b + 1, ManufBits) = Manuf(sc.chain[k + 1].id)
                                          /\ Manuf(sc.chain[k + 1].id) # DoneCode
      BY <1>1, <1>7, <3>1, AtRegister
    <3> HIDE DEF k, b, S
    <3> QED BY <1>7, <1>8, <3>2
  <2>3. k = Len(sc.chain) \/ k < Len(sc.chain)
    <3> HIDE DEF k
    <3> QED BY <1>7, <1>9
  <2> QED BY <2>1, <2>2, <2>3
<1> HIDE DEF k, b, S, L, p
<1>11. CASE got = DoneCode
  <2>1. pc' = "leave" /\ k = Len(sc.chain)
    BY <1>10, <1>11 DEF GotManuf
  <2>2. k = Smaller(Len(sc.chain), MaxDevices)
    BY <1>7, <2>1 DEF Smaller
  <2> QED BY <1>1, <1>7, <2>1, <2>2 DEF ShiftInv, FoundInv, ScanPlaces
<1>12. CASE got # DoneCode
  <2> DEFINE n == IdBits - ManufBits
  <2>1. /\ todo' = CableReadWriteStream(FromInvalid(n), n, 0) /\ got' = got
        /\ Sent(n) /\ pc' = "gotrest"
    BY <1>12 DEF GotManuf
  <2>2. k < Len(sc.chain)
    BY <1>7, <1>9, <1>10, <1>12
  <2>3. n \in Nat /\ n \in 1..WordBits
    BY <1>0
  <2> HIDE DEF n
  <2>4. todo' = Window(CodeClocks, p, n)
    BY <1>8, <2>1, <2>3, CodeStream
  <2>5. Len(todo') = n
    BY <1>8, <2>3, <2>4, CodeClocksType, WindowType
  <2>6. invalid' = Smaller(p + n, IdBits + 1)
    BY <1>8, <2>1, <2>3, SentIs
  <2>7. Out' = IdBits + 1 /\ Gone' = 1
    BY <2>1 DEF Out, Gone
  <2>8. /\ Len(todo') \in 0..(Out' - Gone') /\ b + (Out' - Len(todo')) = p
        /\ b + Gone' = b + 1 /\ (Out' - Gone') - Len(todo') = ManufBits /\ b + Out' = p + n
    BY <1>0, <1>7, <2>5, <2>7 DEF n, p
  <2>9. Base(sc'.chain, Len(dev')) = b /\ Seen(sc'.chain) = S /\ Len(Whole(sc'.chain)) = L /\ Len(dev') = k
    BY <1>1 DEF b, S, L, k
  <2>10. todo' = Window(CodeClocks, b + (Out' - Len(todo')), Len(todo'))
    BY <2>4, <2>5, <2>8
  <2>11. path' = Window(S, b + (Out' - Len(todo')), L)
    BY <1>1, <1>8, <2>8
  <2>12. got' = Window(S, b + Gone', (Out' - Gone') - Len(todo'))
    BY <1>8, <2>1, <2>8
  <2>13. invalid' = Smaller(b + Out', IdBits + 1)
    BY <2>6, <2>8
  <2>14. k <= MaxDevices
    BY <1>7, <1>9
  <2>15. Shifting'
    BY <1>1, <1>7, <2>1, <2>2, <2>8, <2>9, <2>10, <2>11, <2>12, <2>13, <2>14 DEF Shifting
  <2> QED BY <2>1, <2>15 DEF ShiftInv, FoundInv, ScanPlaces
<1> QED BY <1>11, <1>12

LEMMA EnumGotRest == EnumInv /\ GotRest => EnumInv'
<1> SUFFICES ASSUME EnumInv, GotRest PROVE EnumInv'
  OBVIOUS
<1>1. /\ pc = "gotrest" /\ todo = << >> /\ sc' = sc /\ err' = err /\ resetErr' = resetErr /\ todo' = todo
      /\ tap' = tap /\ path' = path /\ invalid' = invalid /\ pc' = "startbit" /\ sc \in Scenarios
  BY DEF GotRest, At, Hardware, EnumInv, Quiet
<1>3. ResetInv' /\ SelectInv' /\ FoundInv'
  BY <1>1 DEF ResetInv, SelectInv, FoundInv, ScanPlaces
<1>4. SUFFICES ASSUME Clean' PROVE Shifting'
  BY <1>1, <1>3 DEF EnumInv, ShiftInv
<1>5. Clean
  BY <1>1, <1>4 DEF Clean
<1>6. ScanDone /\ Out = IdBits + 1 /\ Gone = 1
  BY <1>1, <1>5, DoneScanning, BitCounts DEF ScanPlaces
<1>0. IdBits \in Nat
  BY IdBitsAssumption
<1> DEFINE k == Len(dev)
           b == Base(sc.chain, k)
           S == Seen(sc.chain)
           L == Len(Whole(sc.chain))
           p == b + (IdBits + 1)
           id == sc.chain[k + 1].id
<1>7. /\ b \in Nat /\ tap = "SHIFT_DR" /\ k \in 0..Len(sc.chain) /\ dev = [d \in 1..k |-> sc.chain[d].id] /\ k < MaxDevices
      /\ S[b + 1] = 1 /\ k < Len(sc.chain)
  BY <1>1, <1>6 DEF ScanDone
<1>8. p \in Nat /\ path = Window(S, p, L) /\ invalid = Smaller(p, IdBits + 1) /\ got = Window(S, b + 1, IdBits)
  <2>1. path = Window(S, b + Out, L) /\ invalid = Smaller(b + Out, IdBits + 1) /\ got = Window(S, b + Gone, Out - Gone)
    BY <1>1, <1>6 DEF ScanDone
  <2> HIDE DEF b, S, L
  <2>2. p \in Nat /\ b + Out = p /\ b + Gone = b + 1 /\ Out - Gone = IdBits
    BY <1>0, <1>6, <1>7
  <2> HIDE DEF p
  <2> QED BY <2>1, <2>2
<1>9. MaxDevices \in Nat /\ k \in Nat /\ Len(sc.chain) \in Nat
  BY <1>1, <1>7, SetupAssumption, RegistersType
<1>10. id = got /\ got # Bits(IdBits, 1) /\ Base(sc.chain, k + 1) = p
  <2>1. /\ id = NoId => S[b + 1] = 0
        /\ id # NoId => /\ Window(S, b + 1, IdBits) = id /\ id # Bits(IdBits, 1)
                        /\ Base(sc.chain, k + 1) = p
    BY <1>1, <1>7, AtRegister
  <2> HIDE DEF k, b, S, id, p
  <2> QED BY <1>7, <1>8, <2>1
<1>11. dev' = [d \in 1..(k + 1) |-> sc.chain[d].id] /\ Len(dev') = k + 1
  <2>1. dev' = Append(dev, id)
    BY <1>10 DEF GotRest, Record
  <2> HIDE DEF k
  <2> QED BY <1>7, <1>9, <2>1, AppendedId
<1> HIDE DEF k, b, S, L, p, id
<1>12. k + 1 \in 0..Len(sc.chain) /\ k + 1 <= MaxDevices
  BY <1>7, <1>9
<1>13. Out' = 0 /\ Gone' = 0 /\ Len(todo') = 0
  BY <1>1 DEF Out, Gone
<1>14. p + (Out' - Len(todo')) = p /\ p + Out' = p /\ Len(todo') \in 0..(Out' - Gone')
  BY <1>8, <1>13
<1>15. todo' = Window(CodeClocks, p + (Out' - Len(todo')), Len(todo'))
  BY <1>1, <1>13, NoWindow
<1>16. Base(sc'.chain, Len(dev')) = p /\ Seen(sc'.chain) = S /\ Len(Whole(sc'.chain)) = L
  BY <1>1, <1>10, <1>11 DEF S, L
<1> QED BY <1>1, <1>7, <1>8, <1>11, <1>12, <1>14, <1>15, <1>16 DEF Shifting

-----------------------------------------------------------------------------
(***************************************************************************)
(* The steps that come after the enumeration keep what it found.           *)
(***************************************************************************)
LEMMA EnumLate ==
  ASSUME EnumInv,
         \/ LeaveShift \/ CheckEnumeration \/ ListDevices \/ ConfigureIr \/ ConfigureDebugCmd
         \/ AskIdcode \/ CheckIdcode \/ EnableDebugModule \/ CheckEnabled
         \/ \E data \in [1..DbgBits -> {0, 1}], read \in BOOLEAN : DebugScan(data, read)
  PROVE  EnumInv'
<1> USE DEF At, Hardware, EarlyPlaces, ScanPlaces
<1>1. CASE LeaveShift
  BY <1>1, LateStep DEF LeaveShift
<1>2. CASE CheckEnumeration
  BY <1>2, LateStep DEF CheckEnumeration
<1>3. CASE ListDevices
  BY <1>3, LateStep DEF ListDevices
<1>4. CASE ConfigureIr
  <2>1. pc = "irsize" /\ sc' = sc /\ dev' = dev /\ err' = err /\ resetErr' = resetErr
    BY <1>4 DEF ConfigureIr
  <2>2. pc' \in {"debugcmd", "exit", "irsize"}
    BY <1>4, <2>1 DEF ConfigureIr
  <2> QED BY <2>1, <2>2, LateStep
<1>5. CASE ConfigureDebugCmd
  BY <1>5, LateStep DEF ConfigureDebugCmd
<1>6. CASE AskIdcode
  BY <1>6, LateStep DEF AskIdcode
<1>7. CASE CheckIdcode
  BY <1>7, LateStep DEF CheckIdcode
<1>8. CASE EnableDebugModule
  BY <1>8, LateStep DEF EnableDebugModule
<1>9. CASE CheckEnabled
  BY <1>9, LateStep DEF CheckEnabled
<1>10. ASSUME NEW data \in [1..DbgBits -> {0, 1}], NEW read \in BOOLEAN, DebugScan(data, read)
       PROVE  EnumInv'
  BY <1>10, LateStep DEF DebugScan
<1> QED BY <1>1, <1>2, <1>3, <1>4, <1>5, <1>6, <1>7, <1>8, <1>9, <1>10

LEMMA EnumClock ==
  ASSUME EnumInv, Clock, UNCHANGED <<sc, hostVars>>
  PROVE  EnumInv'
<1>1. /\ todo # << >> /\ TapClock(Head(todo)) /\ todo' = Tail(todo) /\ err' = err
      /\ sc' = sc /\ dev' = dev /\ resetErr' = resetErr /\ pc' = pc
  BY DEF Clock, hostVars
<1>2. CASE pc = "enumerate"
  BY <1>1, <1>2, EnumResetClock
<1>3. CASE pc = "startbit"
  BY <1>1, <1>3, EnumSelectClock
<1>4. CASE pc \in {"gotbit", "gotmanuf", "gotrest"}
  BY <1>4, EnumShiftClock
<1>5. CASE pc \in {"args", "reset"}
  BY <1>1, <1>5 DEF EnumInv, ResetInv
<1>6. CASE pc \notin EarlyPlaces
  BY <1>1, <1>6, LateStep
<1> QED BY <1>2, <1>3, <1>4, <1>5, <1>6 DEF EarlyPlaces, ScanPlaces

LEMMA EnumStutter ==
  ASSUME EnumInv, UNCHANGED vars
  PROVE  EnumInv'
<1>1. /\ sc' = sc /\ tap' = tap /\ path' = path /\ ir' = ir /\ todo' = todo /\ got' = got /\ err' = err
      /\ pc' = pc /\ dev' = dev /\ invalid' = invalid /\ resetErr' = resetErr
  BY DEF vars, scanVars, hostVars
<1> QED BY <1>1 DEF EnumInv, ResetInv, SelectInv, ShiftInv, FoundInv, Shifting, Clean, Out, Gone,
                    IrAfterReset, Devices, Bypass, Bits

LEMMA EnumNext == EnumInv /\ [Next]_vars => EnumInv'
<1> SUFFICES ASSUME EnumInv, [Next]_vars PROVE EnumInv'
  OBVIOUS
<1>1. CASE ParseArgs
  BY <1>1, EnumParseArgs
<1>2. CASE Reset
  BY <1>2, EnumReset
<1>3. CASE Enumerate
  BY <1>3, EnumEnumerate
<1>4. CASE ReadStartBit
  BY <1>4, EnumReadStartBit
<1>5. CASE GotStartBit
  BY <1>5, EnumGotStartBit
<1>6. CASE GotManuf
  BY <1>6, EnumGotManuf
<1>7. CASE GotRest
  BY <1>7, EnumGotRest
<1>8. CASE \/ LeaveShift \/ CheckEnumeration \/ ListDevices \/ ConfigureIr \/ ConfigureDebugCmd
           \/ AskIdcode \/ CheckIdcode \/ EnableDebugModule \/ CheckEnabled
           \/ \E data \in [1..DbgBits -> {0, 1}], read \in BOOLEAN : DebugScan(data, read)
  BY <1>8, EnumLate
<1>9. CASE Clock /\ UNCHANGED <<sc, hostVars>>
  BY <1>9, EnumClock
<1>10. CASE CableFails /\ UNCHANGED <<sc, hostVars>>
  BY <1>10, EnumCableFails
<1>11. CASE UNCHANGED vars
  BY <1>11, EnumStutter
<1> QED BY <1>1, <1>2, <1>3, <1>4, <1>5, <1>6, <1>7, <1>8, <1>9, <1>10, <1>11 DEF Next, Host, Over

(***************************************************************************)
(* What jtag_enumerate_chain() knows at every place of its loop is so on   *)
(* every chain: the scan path is what is left of the devices' registers    *)
(* and of the code sent after them, and what was read is what went by.     *)
(***************************************************************************)
THEOREM EnumerationInvariant == Spec => []EnumInv
BY EnumInit, EnumNext, PTL DEF Spec

(***************************************************************************)
(* jtag_enumerate_chain(), if no call failed, lists exactly the devices of *)
(* the chain in their order, on chains of any length with any IDCODEs.     *)
(***************************************************************************)
THEOREM EnumerationIsExact == Spec => []EnumerationExact
<1>1. EnumInv => EnumerationExact
  <2>1. EnumInv => FoundInv
    BY DEF EnumInv
  <2>2. FoundInv => EnumerationExact
    BY DEF FoundInv, EnumerationExact, Clean, ScanPlaces, Smaller
  <2> QED BY <2>1, <2>2
<1> QED BY <1>1, EnumerationInvariant, PTL

-----------------------------------------------------------------------------
(***************************************************************************)
(* Types.  The lengths of the parts of an instruction scan are those of    *)
(* the instruction registers; a device is only recorded while there is     *)
(* room; and from irsize on the target is one of the devices found, with   *)
(* a length once it has been looked up.                                    *)
(***************************************************************************)
IrScan == {"SHIFT_IR", "EXIT1_IR", "PAUSE_IR", "EXIT2_IR"}

WireTypes ==
  /\ sc \in Scenarios
  /\ tap \in TapStates
  /\ path \in Seq({0, 1}) /\ path # << >>
  /\ tap \in IrScan => Len(path) = Len(FlattenSeq(IrCapture))
  /\ \A d \in Devices : ir[d] \in [1..sc.chain[d].irlen -> {0, 1}]

CableTypes ==
  /\ todo \in Seq(Clocks)
  /\ got \in Seq({0, 1})
  /\ err \in BOOLEAN /\ faults \in 0..MaxFaults

Opts == [target : Nat, irSets : Seq(Nat \X (Nat \ {0})), debugCmd : Seq({0, 1}), forceAlt : {-1, 0, 1}]
Found == {"debugcmd", "idcode", "gotidcode", "enable", "enabled", "ready"}
Pcs == {"args", "reset", "enumerate", "startbit", "gotbit", "gotmanuf", "gotrest", "leave", "enumerated", "list",
        "irsize", "debugcmd", "idcode", "gotidcode", "enable", "enabled", "ready", "exit", "spin"}

FoundTypes ==
  /\ dev \in Seq(Seq({0, 1})) /\ alloc \in Nat \ {0} /\ invalid \in 0..Len(InvalidCode)
  /\ Len(dev) <= alloc /\ Len(dev) <= MaxDevices
  /\ pc \in {"gotbit", "gotmanuf", "gotrest"} => Len(dev) < MaxDevices

ConfigTypes ==
  /\ opt \in Opts /\ cfg \in Cfgs /\ bsdl \in Readers(Infos, Files)
  /\ pc \in {"irsize"} \cup Found => opt.target < Len(dev)
  /\ pc \in Found \/ (pc = "irsize" /\ i # 0) => cfg.irSize > 0

LocalTypes ==
  /\ pc \in Pcs
  /\ i \in Nat /\ (pc # "exit" => total \in Nat) /\ (pc = "args" => i # 0)
  /\ resetErr \in BOOLEAN
  /\ sane \in {"untested", "passed", "failed"}

TypeInv == WireTypes /\ CableTypes /\ FoundTypes /\ ConfigTypes /\ LocalTypes

(***************************************************************************)
(* The registers of the chain.                                             *)
(***************************************************************************)
LEMMA ChipFacts ==
  ASSUME sc \in Scenarios, NEW d \in Devices
  PROVE  /\ Devices = 1..Len(sc.chain) /\ Len(sc.chain) \in Nat \ {0}
         /\ sc.chain[d].irlen \in Nat \ {0}
         /\ sc.chain[d].id \in Seq({0, 1})
         /\ Bypass(d) \in [1..sc.chain[d].irlen -> {0, 1}]
         /\ sc.chain[d].id # << >> => sc.chain[d].idcode \in [1..sc.chain[d].irlen -> {0, 1}]
<1>1. sc.chain \in Seq(Chips) /\ sc.chain # << >>
  BY ChainAssumption
<1>2. Devices = 1..Len(sc.chain) /\ Len(sc.chain) \in Nat \ {0}
  BY <1>1 DEF Devices
<1>3. sc.chain[d] \in Chips
  BY <1>1, <1>2
<1>4. sc.chain[d].irlen \in Nat \ {0} /\ sc.chain[d].id \in {NoId} \cup [1..IdBits -> {0, 1}]
  BY <1>3 DEF Chips
<1>5. sc.chain[d].id \in Seq({0, 1})
  <2>1. IdBits \in Nat
    BY IdBitsAssumption
  <2>2. CASE sc.chain[d].id = NoId
    BY <2>2 DEF NoId
  <2>3. CASE sc.chain[d].id \in [1..IdBits -> {0, 1}]
    <3>1. PICK f \in [1..IdBits -> {0, 1}] : f = sc.chain[d].id
      BY <2>3
    <3>2. f \in Seq({0, 1})
      BY <2>1
    <3> QED BY <3>1, <3>2
  <2> QED BY <1>4, <2>2, <2>3
<1>6. Bypass(d) \in [1..sc.chain[d].irlen -> {0, 1}]
  BY DEF Bypass, Bits
<1>7. sc.chain[d].id # << >> => sc.chain[d].idcode \in [1..sc.chain[d].irlen -> {0, 1}]
  BY ChainAssumption DEF Devices, NoId
<1> QED BY <1>2, <1>4, <1>5, <1>6, <1>7

LEMMA ChainNonempty ==
  ASSUME sc \in Scenarios
  PROVE  Devices = 1..Len(sc.chain) /\ Len(sc.chain) \in Nat \ {0}
BY ChainAssumption DEF Devices

\* Registers of n devices, none of them empty, make a path of bits that is not empty.
LEMMA PathType ==
  ASSUME NEW n \in Nat \ {0}, NEW r, r \in [1..n -> Seq({0, 1})], \A d \in 1..n : r[d] # << >>
  PROVE  r \in Seq(Seq({0, 1})) /\ FlattenSeq(r) \in Seq({0, 1}) /\ FlattenSeq(r) # << >>
<1>1. r \in Seq(Seq({0, 1})) /\ Len(r) = n /\ 1 \in 1..Len(r)
  OBVIOUS
<1>2. FlattenSeq(r) \in Seq({0, 1})
  BY <1>1, FlattenType
<1>3. Before(r, 1) \in Nat /\ Before(r, 1) + Len(r[1]) <= Len(FlattenSeq(r))
  BY <1>1, FlattenPart
<1>4. r[1] \in Seq({0, 1}) /\ r[1] # << >>
  OBVIOUS
<1>5. Len(r[1]) \in Nat \ {0}
  BY <1>4
<1>6. Len(FlattenSeq(r)) # 0
  BY <1>2, <1>3, <1>5
<1> QED BY <1>1, <1>2, <1>6

LEMMA CaptureIrType ==
  ASSUME sc \in Scenarios
  PROVE  /\ IrCapture \in Seq(Seq({0, 1})) /\ FlattenSeq(IrCapture) \in Seq({0, 1}) /\ FlattenSeq(IrCapture) # << >>
         /\ Len(IrCapture) = Len(sc.chain) /\ \A d \in Devices : Len(IrCapture[d]) = sc.chain[d].irlen
<1>1. ASSUME NEW d \in Devices
      PROVE  CaptureIr(d) \in Seq({0, 1}) /\ CaptureIr(d) # << >> /\ Len(CaptureIr(d)) = sc.chain[d].irlen
  <2>1. PICK m \in Nat \ {0} : m = sc.chain[d].irlen
    BY ChipFacts
  <2>2. \A k \in 1..m : k % 2 \in {0, 1}
    OBVIOUS
  <2>3. CaptureIr(d) = [k \in 1..m |-> k % 2]
    BY <2>1 DEF CaptureIr
  <2>4. CaptureIr(d) \in [1..m -> {0, 1}]
    BY <2>2, <2>3
  <2>5. CaptureIr(d) \in Seq({0, 1}) /\ Len(CaptureIr(d)) = m
    BY <2>4
  <2> QED BY <2>1, <2>5
<1>2. PICK n \in Nat \ {0} : n = Len(sc.chain) /\ Devices = 1..n
  BY ChainNonempty
<1>3. IrCapture \in [1..n -> Seq({0, 1})] /\ \A d \in 1..n : IrCapture[d] = CaptureIr(d)
  BY <1>1, <1>2 DEF IrCapture
<1>4. \A d \in 1..n : IrCapture[d] # << >>
  BY <1>1, <1>2, <1>3
<1>5. IrCapture \in Seq(Seq({0, 1})) /\ FlattenSeq(IrCapture) \in Seq({0, 1}) /\ FlattenSeq(IrCapture) # << >>
  BY <1>3, <1>4, PathType
<1>6. Len(IrCapture) = n
  BY <1>3
<1> QED BY <1>1, <1>2, <1>3, <1>5, <1>6

LEMMA CaptureDrType ==
  ASSUME sc \in Scenarios
  PROVE  FlattenSeq(DrCapture) \in Seq({0, 1}) /\ FlattenSeq(DrCapture) # << >>
<1>1. ASSUME NEW d \in Devices
      PROVE  CaptureDr(d) \in Seq({0, 1}) /\ CaptureDr(d) # << >>
  <2> DEFINE a == <<1>> \o sc.chain[d].id
             b == Bits(VirBits + 1, 0)
  <2>1. a \in Seq({0, 1}) /\ a # << >>
    <3>1. PICK id \in Seq({0, 1}) : id = sc.chain[d].id
      BY ChipFacts
    <3>2. <<1>> \in Seq({0, 1}) /\ Len(<<1>>) = 1
      OBVIOUS
    <3>3. <<1>> \o id \in Seq({0, 1}) /\ Len(<<1>> \o id) # 0
      BY <3>2
    <3> QED BY <3>1, <3>3
  <2>2. b \in Seq({0, 1}) /\ b # << >>
    <3>1. PICK m \in Nat \ {0} : m = VirBits + 1
      BY ScanAssumption
    <3>2. Bits(m, 0) \in Seq({0, 1}) /\ Len(Bits(m, 0)) = m
      BY DEF Bits
    <3> QED BY <3>1, <3>2
  <2>3. sc.status \in Seq({0, 1}) /\ sc.status # << >>
    <3>1. PICK m \in Nat \ {0} : m = DbgBits
      BY ScanAssumption
    <3>2. PICK f \in [1..m -> {0, 1}] : f = sc.status
      BY <3>1, ScenarioAssumption
    <3>3. f \in Seq({0, 1}) /\ Len(f) = m
      OBVIOUS
    <3> QED BY <3>2, <3>3
  <2>4. <<0>> \in Seq({0, 1}) /\ <<0>> # << >>
    OBVIOUS
  <2>5. CaptureDr(d) \in {a, sc.status, b, <<0>>}
    <3> HIDE DEF a, b
    <3>1. CASE sc.chain[d].id # << >> /\ ir[d] = sc.chain[d].idcode
      BY <3>1 DEF CaptureDr, a, b
    <3>2. CASE ~ (sc.chain[d].id # << >> /\ ir[d] = sc.chain[d].idcode)
      BY <3>2 DEF CaptureDr, a, b
    <3> QED BY <3>1, <3>2
  <2> HIDE DEF a, b
  <2> QED BY <2>1, <2>2, <2>3, <2>4, <2>5
<1>2. PICK n \in Nat \ {0} : n = Len(sc.chain) /\ Devices = 1..n
  BY ChainNonempty
<1>3. DrCapture \in [1..n -> Seq({0, 1})] /\ \A d \in 1..n : DrCapture[d] # << >>
  BY <1>1, <1>2 DEF DrCapture
<1> QED BY <1>2, <1>3, PathType

LEMMA PartIs ==
  ASSUME NEW A, NEW s \in Seq(A), NEW m \in Nat, NEW l \in Nat, m + l <= Len(s)
  PROVE  /\ SubSeq(s, m + 1, m + l) \in Seq(A) /\ Len(SubSeq(s, m + 1, m + l)) = l
         /\ \A j \in 1..l : SubSeq(s, m + 1, m + l)[j] = s[m + j]
<1>1. PICK x \in Int, y \in Int : x = m + 1 /\ y = m + l
  OBVIOUS
<1>2. \A j \in x..y : s[j] \in A
  BY <1>1
<1>3. /\ SubSeq(s, x, y) \in Seq(A) /\ Len(SubSeq(s, x, y)) = (IF x <= y THEN y - x + 1 ELSE 0)
      /\ \A j \in 1..(y - x + 1) : SubSeq(s, x, y)[j] = s[x + j - 1]
  BY <1>2, SubSeqProperties
<1>4. (IF x <= y THEN y - x + 1 ELSE 0) = l /\ y - x + 1 = l /\ \A j \in 1..l : x + j - 1 = m + j
  BY <1>1
<1>5. Len(SubSeq(s, x, y)) = l /\ \A j \in 1..l : SubSeq(s, x, y)[j] = s[m + j]
  BY <1>3, <1>4
<1> QED BY <1>1, <1>3, <1>5

\* At the end of an instruction scan every device takes a whole instruction over.
LEMMA PartType ==
  ASSUME sc \in Scenarios, path \in Seq({0, 1}), Len(path) = Len(FlattenSeq(IrCapture)), NEW d \in Devices
  PROVE  PartOf(d, IrCapture) \in [1..sc.chain[d].irlen -> {0, 1}]
<1> DEFINE r == IrCapture
           b == Before(r, d)
           l == Len(r[d])
<1>1. r \in Seq(Seq({0, 1})) /\ Len(r) = Len(sc.chain) /\ Len(r[d]) = sc.chain[d].irlen
  BY CaptureIrType
<1>2. d \in 1..Len(r) /\ l \in Nat
  BY <1>1, ChainNonempty, ChipFacts
<1> HIDE DEF r
<1>3. b \in Nat /\ b + l <= Len(FlattenSeq(r))
  BY <1>1, <1>2, FlattenPart
<1>4. PartOf(d, r) = SubSeq(path, b + 1, b + l)
  BY DEF PartOf, Before, Upto
<1> HIDE DEF b, l
<1>5. SubSeq(path, b + 1, b + l) \in Seq({0, 1}) /\ Len(SubSeq(path, b + 1, b + l)) = l
  <2>1. b + l <= Len(path)
    BY <1>3 DEF r
  <2> QED BY <1>2, <1>3, <2>1, PartIs
<1>6. PartOf(d, r) \in [1..l -> {0, 1}]
  <2>1. PICK q \in Seq({0, 1}) : q = SubSeq(path, b + 1, b + l)
    BY <1>5
  <2>2. q \in [1..Len(q) -> {0, 1}]
    OBVIOUS
  <2>3. Len(q) = l
    BY <1>5, <2>1
  <2> QED BY <1>4, <2>1, <2>2, <2>3
<1> QED BY <1>1, <1>6 DEF l, r

(***************************************************************************)
(* A clock keeps the types of the hardware.                                *)
(***************************************************************************)
LEMMA CapturesKept ==
  ASSUME sc' = sc
  PROVE  IrCapture' = IrCapture /\ Devices' = Devices
BY DEF IrCapture, CaptureIr, Devices

\* Only a capture leads into an instruction scan.
LEMMA IrScanEntered ==
  ASSUME NEW s \in TapStates, NEW tms \in {0, 1}
  PROVE  /\ NextTapState(s, tms) \in IrScan => s \in IrScan \cup {"CAPTURE_IR"}
         /\ NextTapState(s, tms) = "UPDATE_IR" => s \in IrScan
<1>1. CASE tms = 0
  BY <1>1 DEF NextTapState, TapStates, IrScan
<1>2. CASE tms = 1
  BY <1>2 DEF NextTapState, TapStates, IrScan
<1> QED BY <1>1, <1>2

LEMMA PathMoves ==
  ASSUME TypeInv, NEW c \in Clocks, TapClock(c)
  PROVE  /\ path' \in Seq({0, 1}) /\ path' # << >>
         /\ tap = "CAPTURE_IR" => Len(path') = Len(FlattenSeq(IrCapture))
         /\ tap \notin {"CAPTURE_IR", "CAPTURE_DR"} => Len(path') = Len(path)
<1>1. path \in Seq({0, 1}) /\ path # << >> /\ sc \in Scenarios
  BY DEF TypeInv, WireTypes
<1>2. c.tdi \in {0, 1}
  BY DEF Clocks
<1> DEFINE p == Append(Tail(path), c.tdi)
<1>3. p \in Seq({0, 1}) /\ p # << >> /\ Len(p) = Len(path)
  <2>1. Tail(path) \in Seq({0, 1}) /\ Len(Tail(path)) = Len(path) - 1
    BY <1>1, SMTT(40)
  <2>2. PICK t \in Seq({0, 1}) : t = Tail(path) /\ Len(t) = Len(path) - 1
    BY <2>1, Zenon
  <2>3. Append(t, c.tdi) \in Seq({0, 1}) /\ Len(Append(t, c.tdi)) = Len(t) + 1 /\ Append(t, c.tdi) # << >>
    BY <1>2
  <2>4. Len(path) \in Nat
    BY <1>1
  <2> QED BY <2>2, <2>3, <2>4
<1> HIDE DEF p
<1>4. CASE tap = "CAPTURE_DR"
  <2>1. path' = FlattenSeq(DrCapture)
    BY <1>4 DEF TapClock
  <2> QED BY <1>1, <1>4, <2>1, CaptureDrType
<1>5. CASE tap = "CAPTURE_IR"
  <2>1. path' = FlattenSeq(IrCapture)
    BY <1>5 DEF TapClock
  <2> QED BY <1>1, <1>5, <2>1, CaptureIrType
<1>6. CASE tap \in {"SHIFT_DR", "SHIFT_IR"}
  <2>1. path' = p
    BY <1>6 DEF TapClock, p
  <2> QED BY <1>3, <1>6, <2>1
<1>7. CASE tap \notin {"CAPTURE_DR", "CAPTURE_IR", "SHIFT_DR", "SHIFT_IR"}
  <2>1. path' = path
    BY <1>7 DEF TapClock
  <2> QED BY <1>1, <1>7, <2>1
<1> QED BY <1>4, <1>5, <1>6, <1>7

LEMMA IrMoves ==
  ASSUME TypeInv, NEW c \in Clocks, TapClock(c), NEW d \in Devices
  PROVE  ir'[d] \in [1..sc.chain[d].irlen -> {0, 1}]
<1> DEFINE s == IF c.trst /\ sc.trst THEN "RESET" ELSE NextTapState(tap, c.tms)
<1>1. tap' = s /\ Latch(s) /\ sc \in Scenarios /\ path \in Seq({0, 1}) /\ tap \in TapStates
  BY DEF TapClock, TypeInv, WireTypes
<1>2. s = "UPDATE_IR" => tap \in IrScan
  BY <1>1, IrScanEntered DEF Clocks
<1> HIDE DEF s
<1>3. CASE s = "RESET"
  <2>1. ir' = IrAfterReset
    BY <1>1, <1>3 DEF Latch
  <2>2. ir'[d] = IF sc.chain[d].id = << >> THEN Bypass(d) ELSE sc.chain[d].idcode
    BY <2>1 DEF IrAfterReset
  <2> QED BY <1>1, <2>2, ChipFacts
<1>4. CASE s = "UPDATE_IR"
  <2>1. ir' = [e \in Devices |-> PartOf(e, IrCapture)]
    BY <1>1, <1>4 DEF Latch
  <2>2. ir'[d] = PartOf(d, IrCapture)
    BY <2>1
  <2>3. Len(path) = Len(FlattenSeq(IrCapture))
    BY <1>2, <1>4 DEF TypeInv, WireTypes
  <2> QED BY <1>1, <2>2, <2>3, PartType
<1>5. CASE s \notin {"RESET", "UPDATE_IR"}
  <2>1. ir' = ir
    BY <1>1, <1>5 DEF Latch
  <2> QED BY <2>1 DEF TypeInv, WireTypes
<1> QED BY <1>3, <1>4, <1>5

LEMMA WireClock ==
  ASSUME TypeInv, NEW c \in Clocks, TapClock(c), sc' = sc
  PROVE  WireTypes'
<1>1. sc \in Scenarios /\ tap \in TapStates /\ c.tms \in {0, 1}
  BY DEF TypeInv, WireTypes, Clocks
<1>2. tap' \in TapStates /\ tap' \in {"RESET", NextTapState(tap, c.tms)}
  BY <1>1, TapClockDoes
<1>3. tap' \in IrScan => Len(path') = Len(FlattenSeq(IrCapture'))
  <2>1. SUFFICES ASSUME tap' \in IrScan PROVE Len(path') = Len(FlattenSeq(IrCapture))
    BY CapturesKept
  <2>2. tap' = NextTapState(tap, c.tms)
    BY <1>2, <2>1 DEF IrScan
  <2>3. tap \in IrScan \cup {"CAPTURE_IR"}
    BY <1>1, <2>1, <2>2, IrScanEntered
  <2>4. CASE tap = "CAPTURE_IR"
    BY <2>4, PathMoves
  <2>5. CASE tap \in IrScan
    <3>1. Len(path) = Len(FlattenSeq(IrCapture))
      BY <2>5 DEF TypeInv, WireTypes
    <3>2. tap \notin {"CAPTURE_IR", "CAPTURE_DR"}
      BY <2>5 DEF IrScan
    <3> QED BY <3>1, <3>2, PathMoves
  <2> QED BY <2>3, <2>4, <2>5
<1>4. path' \in Seq({0, 1}) /\ path' # << >>
  BY PathMoves
<1>5. \A d \in Devices' : ir'[d] \in [1..sc'.chain[d].irlen -> {0, 1}]
  BY IrMoves, CapturesKept
<1> QED BY <1>1, <1>2, <1>3, <1>4, <1>5 DEF WireTypes

LEMMA TdoType ==
  ASSUME TypeInv
  PROVE  Tdo \in {0, 1}
<1>1. sc.level \in {0, 1}
  BY ScenarioAssumption DEF TypeInv, WireTypes
<1>2. path \in Seq({0, 1}) /\ path # << >>
  BY DEF TypeInv, WireTypes
<1>3. Head(path) \in {0, 1}
  BY <1>2
<1> QED BY <1>1, <1>3 DEF Tdo

LEMMA TypeClock ==
  ASSUME TypeInv, Clock \/ CableFails, UNCHANGED <<sc, hostVars>>
  PROVE  TypeInv'
<1>1. /\ sc' = sc /\ opt' = opt /\ pc' = pc /\ dev' = dev /\ invalid' = invalid /\ alloc' = alloc /\ bsdl' = bsdl
      /\ cfg' = cfg /\ i' = i /\ total' = total /\ resetErr' = resetErr /\ sane' = sane
  BY DEF hostVars
<1>2. /\ todo # << >> /\ todo' = Tail(todo) /\ todo \in Seq(Clocks) /\ got \in Seq({0, 1}) /\ err \in BOOLEAN
      /\ faults \in 0..MaxFaults
  BY DEF Clock, CableFails, TypeInv, CableTypes
<1>3. Head(todo) \in Clocks /\ todo' \in Seq(Clocks)
  BY <1>2
<1>4. TapClock(Head(todo)) \/ UNCHANGED <<tap, path, ir>>
  BY DEF Clock, CableFails
<1>5. WireTypes'
  <2>1. CASE TapClock(Head(todo))
    BY <1>1, <1>3, <2>1, WireClock
  <2>2. CASE UNCHANGED <<tap, path, ir>>
    BY <1>1, <2>2, CapturesKept DEF TypeInv, WireTypes
  <2> QED BY <1>4, <2>1, <2>2
<1>6. PICK b \in {0, 1} : got' = IF Head(todo).rd THEN Append(got, b) ELSE got
  <2>1. CASE Clock
    <3>1. got' = IF Head(todo).rd THEN Append(got, Tdo) ELSE got
      BY <2>1 DEF Clock
    <3>2. Tdo \in {0, 1}
      BY TdoType
    <3> QED BY <3>1, <3>2
  <2>2. CASE CableFails
    BY <2>2 DEF CableFails
  <2> QED BY <2>1, <2>2
<1>7. got' \in Seq({0, 1})
  BY <1>2, <1>6
<1>8. err' \in BOOLEAN /\ faults' \in 0..MaxFaults
  <2>1. MaxFaults \in Nat
    BY ScanAssumption
  <2>2. CASE Clock
    BY <1>2, <2>2 DEF Clock
  <2>3. CASE CableFails
    <3>1. err' = TRUE /\ faults' = faults + 1 /\ faults < MaxFaults
      BY <2>3 DEF CableFails
    <3>2. faults' \in 0..MaxFaults
      BY <1>2, <2>1, <3>1
    <3> QED BY <3>1, <3>2
  <2> QED BY <2>2, <2>3
<1>9. CableTypes'
  BY <1>3, <1>7, <1>8 DEF CableTypes
<1>10. InvalidCode' = InvalidCode
  BY DEF InvalidCode, Bits
<1>11. FoundTypes' /\ ConfigTypes' /\ LocalTypes'
  BY <1>1, <1>10 DEF TypeInv, FoundTypes, ConfigTypes, LocalTypes
<1> QED BY <1>5, <1>9, <1>11 DEF TypeInv

(***************************************************************************)
(* The steps of the host.                                                  *)
(***************************************************************************)
LEMMA HostWires ==
  ASSUME TypeInv, sc' = sc, tap' = tap, path' = path, ir' = ir,
         todo' \in Seq(Clocks), got' \in Seq({0, 1}), err' \in BOOLEAN, faults' = faults
  PROVE  WireTypes' /\ CableTypes'
<1>1. WireTypes'
  BY CapturesKept DEF TypeInv, WireTypes
<1>2. CableTypes'
  BY DEF TypeInv, CableTypes
<1> QED BY <1>1, <1>2

LEMMA SameFound ==
  ASSUME TypeInv, dev' = dev, alloc' = alloc, invalid' = invalid,
         pc' \in {"gotbit", "gotmanuf", "gotrest"} => pc \in {"gotbit", "gotmanuf", "gotrest"}
  PROVE  FoundTypes'
<1>1. InvalidCode' = InvalidCode
  BY DEF InvalidCode, Bits
<1> QED BY <1>1 DEF TypeInv, FoundTypes

LEMMA SameConfig ==
  ASSUME TypeInv, opt' = opt, cfg' = cfg, bsdl' = bsdl, dev' = dev,
         pc' \notin {"irsize"} \cup Found \/ (pc \in Found /\ pc' \in Found)
  PROVE  ConfigTypes'
BY DEF TypeInv, ConfigTypes, Found

\* The clocks the enumeration sends.
LEMMA FromInvalidType ==
  ASSUME TypeInv, NEW n \in Nat \ {0}
  PROVE  /\ FromInvalid(n) \in Seq({0, 1}) /\ Len(FromInvalid(n)) = n /\ FromInvalid(n)[1] \in {0, 1}
         /\ CableReadWriteStream(FromInvalid(n), n, 0) \in Seq(Clocks)
<1>1. invalid \in Nat /\ InvalidCode \in Seq({0, 1}) /\ Len(InvalidCode) \in Nat
  BY CodeFacts DEF TypeInv, FoundTypes
<1>2. \A k \in 1..n : (IF invalid + k <= Len(InvalidCode) THEN InvalidCode[invalid + k] ELSE 0) \in {0, 1}
  BY <1>1
<1>3. FromInvalid(n) \in [1..n -> {0, 1}]
  BY <1>2 DEF FromInvalid
<1>4. PICK f \in [1..n -> {0, 1}] : f = FromInvalid(n)
  BY <1>3
<1>5. f \in Seq({0, 1}) /\ Len(f) = n /\ f[1] \in {0, 1}
  OBVIOUS
<1>6. n <= Len(f)
  BY <1>5
<1>7. CableReadWriteStream(f, n, 0) \in Seq(Clocks)
  BY <1>5, <1>6, StreamType, CalmClocks
<1> QED BY <1>4, <1>5, <1>7

LEMMA SentType ==
  ASSUME TypeInv, NEW n \in Nat, Sent(n)
  PROVE  invalid' \in 0..Len(InvalidCode')
<1>1. InvalidCode' = InvalidCode
  BY DEF InvalidCode, Bits
<1>2. invalid \in 0..Len(InvalidCode) /\ Len(InvalidCode) \in Nat
  BY CodeFacts DEF TypeInv, FoundTypes
<1> QED BY <1>1, <1>2 DEF Sent

LEMMA TypeReset == TypeInv /\ Reset => TypeInv'
<1> SUFFICES ASSUME TypeInv, Reset PROVE TypeInv'
  OBVIOUS
<1>1. /\ pc = "reset" /\ todo' = TapReset /\ got' = << >> /\ pc' = "enumerate" /\ sc' = sc /\ tap' = tap /\ path' = path
      /\ ir' = ir /\ err' = err /\ faults' = faults /\ opt' = opt /\ dev' = dev /\ invalid' = invalid /\ alloc' = alloc
      /\ bsdl' = bsdl /\ cfg' = cfg /\ i' = i /\ total' = total /\ resetErr' = resetErr /\ sane' = sane
  BY DEF Reset, At, Send, Hardware
<1>2. todo' \in Seq(Clocks) /\ got' \in Seq({0, 1}) /\ err' \in BOOLEAN
  BY <1>1, TapResetIs DEF TypeInv, CableTypes
<1>3. WireTypes' /\ CableTypes'
  BY <1>1, <1>2, HostWires
<1>4. FoundTypes' /\ ConfigTypes'
  BY <1>1, SameFound, SameConfig DEF Found
<1>5. LocalTypes'
  BY <1>1 DEF TypeInv, LocalTypes, Pcs
<1> QED BY <1>3, <1>4, <1>5 DEF TypeInv

LEMMA TypeEnumerate == TypeInv /\ Enumerate => TypeInv'
<1> SUFFICES ASSUME TypeInv, Enumerate PROVE TypeInv'
  OBVIOUS
<1>1. /\ pc = "enumerate" /\ todo' = TapSetShiftDr /\ got' = << >> /\ pc' = "startbit" /\ sc' = sc /\ tap' = tap
      /\ path' = path /\ ir' = ir /\ faults' = faults /\ opt' = opt /\ dev' = dev /\ invalid' = invalid /\ alloc' = alloc
      /\ bsdl' = bsdl /\ cfg' = cfg /\ i' = i /\ total' = total /\ sane' = sane
  BY DEF Enumerate, At, Send
<1>2. resetErr' = err /\ err' = FALSE /\ err \in BOOLEAN
  BY DEF Enumerate, TypeInv, CableTypes
<1>3. todo' \in Seq(Clocks) /\ got' \in Seq({0, 1}) /\ err' \in BOOLEAN
  <2>1. todo' \in Seq(Clocks) /\ got' \in Seq({0, 1})
    BY <1>1, TapSetShiftDrIs
  <2>2. err' \in BOOLEAN
    BY <1>2
  <2> QED BY <2>1, <2>2
<1>4. WireTypes' /\ CableTypes'
  BY <1>1, <1>3, HostWires
<1>5. FoundTypes' /\ ConfigTypes'
  BY <1>1, SameFound, SameConfig DEF Found
<1>6. LocalTypes'
  BY <1>1, <1>2 DEF TypeInv, LocalTypes, Pcs
<1> QED BY <1>4, <1>5, <1>6 DEF TypeInv

LEMMA TypeLeaveShift == TypeInv /\ LeaveShift => TypeInv'
<1> SUFFICES ASSUME TypeInv, LeaveShift PROVE TypeInv'
  OBVIOUS
<1>1. /\ pc = "leave" /\ todo' = <<Clk(1, 0)>> \o TapExitToIdle /\ got' = << >> /\ pc' = "enumerated" /\ sc' = sc
      /\ tap' = tap /\ path' = path /\ ir' = ir /\ err' = err /\ faults' = faults /\ opt' = opt /\ dev' = dev
      /\ invalid' = invalid /\ alloc' = alloc /\ bsdl' = bsdl /\ cfg' = cfg /\ i' = i /\ total' = total
      /\ resetErr' = resetErr /\ sane' = sane
  BY DEF LeaveShift, At, Send, Hardware
<1>2. Clk(1, 0) \in Clocks /\ Clk(0, 0) \in Clocks
  BY ClkType
<1>3. <<Clk(1, 0)>> \in Seq(Clocks) /\ TapExitToIdle \in Seq(Clocks)
  BY <1>2 DEF TapExitToIdle
<1>4. todo' \in Seq(Clocks)
  BY <1>1, <1>3
<1>5. got' \in Seq({0, 1}) /\ err' \in BOOLEAN
  BY <1>1 DEF TypeInv, CableTypes
<1>6. WireTypes' /\ CableTypes'
  BY <1>1, <1>4, <1>5, HostWires
<1>7. FoundTypes' /\ ConfigTypes'
  BY <1>1, SameFound, SameConfig DEF Found
<1>8. LocalTypes'
  BY <1>1 DEF TypeInv, LocalTypes, Pcs
<1> QED BY <1>6, <1>7, <1>8 DEF TypeInv

\* The steps that only read.
LEMMA TypeChecks == TypeInv /\ (CheckEnumeration \/ CheckIdcode \/ CheckEnabled) => TypeInv'
<1> SUFFICES ASSUME TypeInv, CheckEnumeration \/ CheckIdcode \/ CheckEnabled PROVE TypeInv'
  OBVIOUS
<1>1. /\ todo' = todo /\ got' = got /\ sc' = sc /\ tap' = tap /\ path' = path
      /\ ir' = ir /\ err' = err /\ faults' = faults /\ opt' = opt /\ dev' = dev /\ invalid' = invalid /\ alloc' = alloc
      /\ bsdl' = bsdl /\ cfg' = cfg /\ i' = i /\ total' = total /\ resetErr' = resetErr
  BY DEF CheckEnumeration, CheckIdcode, CheckEnabled, Quiet, Hardware
<1>2. todo' \in Seq(Clocks) /\ got' \in Seq({0, 1}) /\ err' \in BOOLEAN
  BY <1>1 DEF TypeInv, CableTypes
<1>3. WireTypes' /\ CableTypes'
  BY <1>1, <1>2, HostWires
<1>4. /\ pc' \in {"exit", "list", "enable", "ready"}
      /\ pc' \in {"enable", "ready"} => pc \in {"gotidcode", "enabled"}
      /\ pc # "exit" /\ pc \in {"enumerated", "gotidcode", "enabled"}
  BY DEF CheckEnumeration, CheckIdcode, CheckEnabled, At
<1>5. sane' = sane \/ sane' \in {"passed", "failed"}
  BY DEF CheckEnumeration, CheckIdcode, CheckEnabled
<1>6. FoundTypes' /\ ConfigTypes'
  <2>1. pc' \notin {"gotbit", "gotmanuf", "gotrest"}
    BY <1>4
  <2>2. pc' \notin {"irsize"} \cup Found \/ (pc \in Found /\ pc' \in Found)
    BY <1>4 DEF Found
  <2> QED BY <1>1, <2>1, <2>2, SameFound, SameConfig
<1>7. LocalTypes'
  BY <1>1, <1>4, <1>5 DEF TypeInv, LocalTypes, Pcs
<1> QED BY <1>3, <1>6, <1>7 DEF TypeInv

(***************************************************************************)
(* parse_args(): every option is put into a field of its type.             *)
(***************************************************************************)
LEMMA OptionType ==
  ASSUME TypeInv, NEW a \in Arguments, ParseOption(a[1], a[2])
  PROVE  opt' \in Opts /\ cfg' \in Cfgs
<1>1. opt \in Opts /\ cfg \in Cfgs
  BY DEF TypeInv, ConfigTypes
<1>2. PICK o, v : o = a[1] /\ v = a[2]
  OBVIOUS
<1>3. /\ o = "x" => v \in Nat
      /\ o = "l" => v \in Nat \X (Nat \ {0})
      /\ o \in {"c", "v", "r"} => v \in Seq({0, 1})
  <2>1. CASE a \in {"x"} \X Nat
    BY <1>2, <2>1
  <2>2. CASE a \in {"l"} \X (Nat \X (Nat \ {0}))
    BY <1>2, <2>2
  <2>3. CASE a \in {"c", "v", "r"} \X Seq({0, 1})
    BY <1>2, <2>3
  <2>4. CASE a \in (STRING \ {"x", "l", "c", "v", "r"}) \X {0, 1}
    BY <1>2, <2>4
  <2> QED BY <2>1, <2>2, <2>3, <2>4 DEF Arguments
<1>4. opt' \in Opts
  <2>1. CASE o = "x"
    <3>1. opt' = [opt EXCEPT !.target = v]
      BY <1>2, <2>1 DEF ParseOption
    <3> QED BY <1>1, <1>3, <2>1, <3>1 DEF Opts
  <2>2. CASE o = "l"
    <3>1. opt' = [opt EXCEPT !.irSets = Append(@, v)]
      BY <1>2, <2>2 DEF ParseOption
    <3>2. opt.irSets \in Seq(Nat \X (Nat \ {0}))
      BY <1>1 DEF Opts
    <3>3. v \in Nat \X (Nat \ {0})
      BY <1>3, <2>2
    <3>4. Append(opt.irSets, v) \in Seq(Nat \X (Nat \ {0}))
      BY <3>2, <3>3
    <3> QED BY <1>1, <3>1, <3>4 DEF Opts
  <2>3. CASE o = "c"
    <3>1. opt' = [opt EXCEPT !.debugCmd = v]
      BY <1>2, <2>3 DEF ParseOption
    <3> QED BY <1>1, <1>3, <2>3, <3>1 DEF Opts
  <2>4. CASE o = "a"
    <3>1. opt' = [opt EXCEPT !.forceAlt = IF v = 1 THEN 1 ELSE -1]
      BY <1>2, <2>4 DEF ParseOption
    <3>2. (IF v = 1 THEN 1 ELSE -1) \in {-1, 0, 1}
      OBVIOUS
    <3> QED BY <1>1, <3>1, <3>2 DEF Opts
  <2>5. CASE o \notin {"x", "l", "c", "a"}
    <3>1. opt' = opt
      BY <1>2, <2>5 DEF ParseOption
    <3> QED BY <1>1, <3>1
  <2> QED BY <2>1, <2>2, <2>3, <2>4, <2>5
<1>5. cfg' \in Cfgs
  <2>1. CASE o = "v"
    <3>1. cfg' = [cfg EXCEPT !.vir = v]
      BY <1>2, <2>1 DEF ParseOption
    <3> QED BY <1>1, <1>3, <2>1, <3>1 DEF Cfgs
  <2>2. CASE o = "r"
    <3>1. cfg' = [cfg EXCEPT !.vdr = v]
      BY <1>2, <2>2 DEF ParseOption
    <3> QED BY <1>1, <1>3, <2>2, <3>1 DEF Cfgs
  <2>3. CASE o \notin {"v", "r"}
    <3>1. cfg' = cfg
      BY <1>2, <2>3 DEF ParseOption
    <3> QED BY <1>1, <3>1
  <2> QED BY <2>1, <2>2, <2>3
<1> QED BY <1>4, <1>5

LEMMA TypeParseArgs == TypeInv /\ ParseArgs => TypeInv'
<1> SUFFICES ASSUME TypeInv, ParseArgs PROVE TypeInv'
  OBVIOUS
<1>1. /\ pc = "args" /\ todo' = todo /\ got' = got /\ sc' = sc /\ tap' = tap /\ path' = path
      /\ ir' = ir /\ err' = err /\ faults' = faults /\ dev' = dev /\ invalid' = invalid /\ alloc' = alloc
      /\ bsdl' = bsdl /\ total' = total /\ resetErr' = resetErr /\ sane' = sane
  BY DEF ParseArgs, At, Quiet, Hardware
<1>2. todo' \in Seq(Clocks) /\ got' \in Seq({0, 1}) /\ err' \in BOOLEAN
  BY <1>1 DEF TypeInv, CableTypes
<1>3. WireTypes' /\ CableTypes'
  BY <1>1, <1>2, HostWires
<1>4. pc' \in {"args", "reset", "exit"}
  BY DEF ParseArgs
<1>5. i \in Nat \ {0} /\ sc \in Scenarios
  BY <1>1 DEF TypeInv, LocalTypes, WireTypes
<1>6. opt' \in Opts /\ cfg' \in Cfgs
  <2>1. CASE i <= Len(sc.args)
    <3>1. sc.args \in Seq(Arguments)
      BY <1>5, ScenarioAssumption
    <3>2. i \in 1..Len(sc.args)
      BY <1>5, <2>1, <3>1
    <3>3. sc.args[i] \in Arguments
      BY <3>1, <3>2
    <3>4. ParseOption(sc.args[i][1], sc.args[i][2])
      BY <2>1 DEF ParseArgs
    <3> QED BY <3>3, <3>4, OptionType
  <2>2. CASE ~ (i <= Len(sc.args))
    BY <2>2 DEF ParseArgs, TypeInv, ConfigTypes
  <2> QED BY <2>1, <2>2
<1>7. ConfigTypes'
  BY <1>1, <1>4, <1>6 DEF TypeInv, ConfigTypes, Found
<1>8. FoundTypes'
  BY <1>1, <1>4, SameFound
<1>9. LocalTypes'
  <2>1. i' \in Nat \ {0}
    BY <1>5 DEF ParseArgs
  <2> QED BY <1>1, <1>4, <2>1 DEF TypeInv, LocalTypes, Pcs
<1> QED BY <1>3, <1>7, <1>8, <1>9 DEF TypeInv

(***************************************************************************)
(* jtag_enumerate_chain().                                                 *)
(***************************************************************************)
LEMMA TypeReadStartBit == TypeInv /\ ReadStartBit => TypeInv'
<1> SUFFICES ASSUME TypeInv, ReadStartBit PROVE TypeInv'
  OBVIOUS
<1>1. /\ pc = "startbit" /\ sc' = sc /\ tap' = tap /\ path' = path
      /\ ir' = ir /\ err' = err /\ faults' = faults /\ opt' = opt /\ dev' = dev /\ alloc' = alloc
      /\ bsdl' = bsdl /\ cfg' = cfg /\ i' = i /\ total' = total /\ resetErr' = resetErr /\ sane' = sane
  BY DEF ReadStartBit, At, Hardware
<1>2. pc' \in {"exit", "gotbit", "leave"}
  BY DEF ReadStartBit
<1>3. CASE pc' = "gotbit"
  <2>1. Len(dev) < MaxDevices /\ todo' = Reading(<<Clk(0, FromInvalid(1)[1])>>) /\ got' = << >> /\ Sent(1)
    BY <1>3 DEF ReadStartBit, Send
  <2>2. FromInvalid(1)[1] \in {0, 1}
    BY FromInvalidType
  <2>3. Clk(0, FromInvalid(1)[1]) \in Clocks
    BY <2>2, ClkType
  <2>4. <<Clk(0, FromInvalid(1)[1])>> \in Seq(Clocks)
    BY <2>3
  <2>5. todo' \in Seq(Clocks)
    BY <2>1, <2>4, ReadingType
  <2>6. got' \in Seq({0, 1}) /\ err' \in BOOLEAN
    BY <1>1, <2>1 DEF TypeInv, CableTypes
  <2>7. WireTypes' /\ CableTypes'
    BY <1>1, <2>5, <2>6, HostWires
  <2>8. invalid' \in 0..Len(InvalidCode')
    BY <2>1, SentType
  <2>9. FoundTypes'
    BY <1>1, <2>1, <2>8 DEF TypeInv, FoundTypes
  <2>10. ConfigTypes'
    BY <1>1, <1>3, SameConfig DEF Found
  <2>11. LocalTypes'
    BY <1>1, <1>3 DEF TypeInv, LocalTypes, Pcs
  <2> QED BY <2>7, <2>9, <2>10, <2>11 DEF TypeInv
<1>4. CASE pc' \in {"exit", "leave"}
  <2>1. todo' = todo /\ got' = got /\ invalid' = invalid
    BY <1>4 DEF ReadStartBit, Quiet
  <2>2. todo' \in Seq(Clocks) /\ got' \in Seq({0, 1}) /\ err' \in BOOLEAN
    BY <1>1, <2>1 DEF TypeInv, CableTypes
  <2>3. WireTypes' /\ CableTypes'
    BY <1>1, <2>2, HostWires
  <2>4. FoundTypes' /\ ConfigTypes'
    BY <1>1, <1>4, <2>1, SameFound, SameConfig DEF Found
  <2>5. LocalTypes'
    BY <1>1, <1>4 DEF TypeInv, LocalTypes, Pcs
  <2> QED BY <2>3, <2>4, <2>5 DEF TypeInv
<1> QED BY <1>2, <1>3, <1>4

\* idcodes[] is doubled when it is full.
LEMMA RecordType ==
  ASSUME TypeInv, pc \in {"gotbit", "gotmanuf", "gotrest"}, NEW id \in Seq({0, 1}), Record(id)
  PROVE  /\ dev' \in Seq(Seq({0, 1})) /\ alloc' \in Nat \ {0}
         /\ Len(dev') <= alloc' /\ Len(dev') <= MaxDevices
<1>1. /\ dev \in Seq(Seq({0, 1})) /\ alloc \in Nat \ {0} /\ Len(dev) <= alloc /\ Len(dev) < MaxDevices
      /\ MaxDevices \in Nat
  BY SetupAssumption DEF TypeInv, FoundTypes
<1>2. dev' = Append(dev, id) /\ alloc' = IF Len(dev) >= alloc THEN 2 * alloc ELSE alloc
  BY DEF Record
<1>3. dev' \in Seq(Seq({0, 1})) /\ Len(dev') = Len(dev) + 1
  BY <1>1, <1>2
<1>4. Len(dev) \in Nat
  BY <1>1
<1>5. PICK n \in Nat : n = Len(dev)
  BY <1>4
<1> QED BY <1>1, <1>2, <1>3, <1>5

LEMMA TypeGotStartBit == TypeInv /\ GotStartBit => TypeInv'
<1> SUFFICES ASSUME TypeInv, GotStartBit PROVE TypeInv'
  OBVIOUS
<1>1. /\ pc = "gotbit" /\ sc' = sc /\ tap' = tap /\ path' = path
      /\ ir' = ir /\ err' = err /\ faults' = faults /\ opt' = opt
      /\ bsdl' = bsdl /\ cfg' = cfg /\ i' = i /\ total' = total /\ resetErr' = resetErr /\ sane' = sane
  BY DEF GotStartBit, At, Hardware
<1>2. CASE got = <<0>>
  <2>1. Record(NoId) /\ pc' = "startbit" /\ todo' = todo /\ got' = got /\ invalid' = invalid
    BY <1>2 DEF GotStartBit, Quiet
  <2>2. todo' \in Seq(Clocks) /\ got' \in Seq({0, 1}) /\ err' \in BOOLEAN
    BY <1>1, <2>1 DEF TypeInv, CableTypes
  <2>3. WireTypes' /\ CableTypes'
    BY <1>1, <2>2, HostWires
  <2>4. NoId \in Seq({0, 1})
    BY DEF NoId
  <2>5. /\ dev' \in Seq(Seq({0, 1})) /\ alloc' \in Nat \ {0}
        /\ Len(dev') <= alloc' /\ Len(dev') <= MaxDevices
    BY <1>1, <2>1, <2>4, RecordType
  <2>6. InvalidCode' = InvalidCode
    BY DEF InvalidCode, Bits
  <2>7. FoundTypes'
    BY <2>1, <2>5, <2>6 DEF TypeInv, FoundTypes
  <2>8. ConfigTypes'
    BY <1>1, <2>1 DEF TypeInv, ConfigTypes, Found
  <2>9. LocalTypes'
    BY <1>1, <2>1 DEF TypeInv, LocalTypes, Pcs
  <2> QED BY <2>3, <2>7, <2>8, <2>9 DEF TypeInv
<1>3. CASE got # <<0>>
  <2>1. /\ todo' = CableReadWriteStream(FromInvalid(ManufBits), ManufBits, 0) /\ got' = << >>
        /\ Sent(ManufBits) /\ pc' = "gotmanuf" /\ dev' = dev /\ alloc' = alloc
    BY <1>3 DEF GotStartBit, Send
  <2>2. ManufBits \in Nat \ {0}
    BY SetupAssumption
  <2>3. todo' \in Seq(Clocks) /\ invalid' \in 0..Len(InvalidCode')
    BY <2>1, <2>2, FromInvalidType, SentType
  <2>4. got' \in Seq({0, 1}) /\ err' \in BOOLEAN
    BY <1>1, <2>1 DEF TypeInv, CableTypes
  <2>5. WireTypes' /\ CableTypes'
    BY <1>1, <2>3, <2>4, HostWires
  <2>6. FoundTypes'
    BY <1>1, <2>1, <2>3 DEF TypeInv, FoundTypes
  <2>7. ConfigTypes'
    BY <1>1, <2>1, SameConfig DEF Found
  <2>8. LocalTypes'
    BY <1>1, <2>1 DEF TypeInv, LocalTypes, Pcs
  <2> QED BY <2>5, <2>6, <2>7, <2>8 DEF TypeInv
<1> QED BY <1>2, <1>3

LEMMA TypeGotManuf == TypeInv /\ GotManuf => TypeInv'
<1> SUFFICES ASSUME TypeInv, GotManuf PROVE TypeInv'
  OBVIOUS
<1>1. /\ pc = "gotmanuf" /\ sc' = sc /\ tap' = tap /\ path' = path
      /\ ir' = ir /\ err' = err /\ faults' = faults /\ opt' = opt /\ dev' = dev /\ alloc' = alloc
      /\ bsdl' = bsdl /\ cfg' = cfg /\ i' = i /\ total' = total /\ resetErr' = resetErr /\ sane' = sane
  BY DEF GotManuf, At, Hardware
<1>2. CASE got = DoneCode
  <2>1. pc' = "leave" /\ todo' = todo /\ got' = got /\ invalid' = invalid
    BY <1>2 DEF GotManuf, Quiet
  <2>2. todo' \in Seq(Clocks) /\ got' \in Seq({0, 1}) /\ err' \in BOOLEAN
    BY <1>1, <2>1 DEF TypeInv, CableTypes
  <2>3. WireTypes' /\ CableTypes'
    BY <1>1, <2>2, HostWires
  <2>4. FoundTypes' /\ ConfigTypes'
    BY <1>1, <2>1, SameFound, SameConfig DEF Found
  <2>5. LocalTypes'
    BY <1>1, <2>1 DEF TypeInv, LocalTypes, Pcs
  <2> QED BY <2>3, <2>4, <2>5 DEF TypeInv
<1>3. CASE got # DoneCode
  <2> DEFINE n == IdBits - ManufBits
  <2>1. /\ todo' = CableReadWriteStream(FromInvalid(n), n, 0) /\ got' = got
        /\ Sent(n) /\ pc' = "gotrest"
    BY <1>3 DEF GotManuf
  <2>2. n \in Nat \ {0}
    BY SetupAssumption, IdBitsAssumption
  <2> HIDE DEF n
  <2>3. todo' \in Seq(Clocks) /\ invalid' \in 0..Len(InvalidCode')
    BY <2>1, <2>2, FromInvalidType, SentType
  <2>4. got' \in Seq({0, 1}) /\ err' \in BOOLEAN
    BY <1>1, <2>1 DEF TypeInv, CableTypes
  <2>5. WireTypes' /\ CableTypes'
    BY <1>1, <2>3, <2>4, HostWires
  <2>6. FoundTypes'
    BY <1>1, <2>1, <2>3 DEF TypeInv, FoundTypes
  <2>7. ConfigTypes'
    BY <1>1, <2>1, SameConfig DEF Found
  <2>8. LocalTypes'
    BY <1>1, <2>1 DEF TypeInv, LocalTypes, Pcs
  <2> QED BY <2>5, <2>6, <2>7, <2>8 DEF TypeInv
<1> QED BY <1>2, <1>3

LEMMA TypeGotRest == TypeInv /\ GotRest => TypeInv'
<1> SUFFICES ASSUME TypeInv, GotRest PROVE TypeInv'
  OBVIOUS
<1>1. /\ pc = "gotrest" /\ sc' = sc /\ tap' = tap /\ path' = path /\ todo' = todo /\ got' = got
      /\ ir' = ir /\ err' = err /\ faults' = faults /\ opt' = opt /\ invalid' = invalid /\ pc' = "startbit"
      /\ bsdl' = bsdl /\ cfg' = cfg /\ i' = i /\ total' = total /\ resetErr' = resetErr /\ sane' = sane
  BY DEF GotRest, At, Hardware, Quiet
<1>2. PICK id : id = (IF got = Bits(IdBits, 1) THEN NoId ELSE got) /\ Record(id)
  BY DEF GotRest
<1>3. todo' \in Seq(Clocks) /\ got' \in Seq({0, 1}) /\ err' \in BOOLEAN /\ got \in Seq({0, 1})
  BY <1>1 DEF TypeInv, CableTypes
<1>4. id \in Seq({0, 1})
  BY <1>2, <1>3 DEF NoId
<1>5. WireTypes' /\ CableTypes'
  BY <1>1, <1>3, HostWires
<1>6. /\ dev' \in Seq(Seq({0, 1})) /\ alloc' \in Nat \ {0}
      /\ Len(dev') <= alloc' /\ Len(dev') <= MaxDevices
  BY <1>1, <1>2, <1>4, RecordType
<1>7. InvalidCode' = InvalidCode
  BY DEF InvalidCode, Bits
<1>8. FoundTypes'
  BY <1>1, <1>6, <1>7 DEF TypeInv, FoundTypes
<1>9. ConfigTypes'
  BY <1>1 DEF TypeInv, ConfigTypes, Found
<1>10. LocalTypes'
  BY <1>1 DEF TypeInv, LocalTypes, Pcs
<1> QED BY <1>5, <1>8, <1>9, <1>10 DEF TypeInv

(***************************************************************************)
(* configure_chain(): the BSDL reader, the lengths and the commands.       *)
(***************************************************************************)
LEMMA AskType ==
  ASSUME TypeInv, NEW id
  PROVE  /\ Ask(id).info \in Infos /\ Ask(id).bsdl \in Readers(Infos, Files)
         /\ GetBsdlInfo(bsdl, id).info \in Infos /\ GetBsdlInfo(bsdl, id).bsdl \in Readers(Infos, Files)
<1>1. bsdl \in Readers(Infos, Files)
  BY DEF TypeInv, ConfigTypes
<1>2. NoInfo \in Infos /\ Spins \in Infos /\ \A f \in Files : ParseExtractValues(f) \in Infos
  BY NoInfoType, ExtractType
<1>3. Answers(GetBsdlInfo(bsdl, id), Infos, Files, id)
  BY <1>1, <1>2, AnswerType
<1>4. GetBsdlInfo(bsdl, id).info \in Infos /\ GetBsdlInfo(bsdl, id).bsdl \in Readers(Infos, Files)
  BY <1>3 DEF Answers
<1>5. CASE id = NoId
  <2>1. Ask(id) = [info |-> NoInfo, bsdl |-> bsdl]
    BY <1>5 DEF Ask
  <2>2. Ask(id).info = NoInfo /\ Ask(id).bsdl = bsdl
    BY <2>1
  <2> QED BY <1>1, <1>2, <1>4, <2>2
<1>6. CASE id # NoId
  <2>1. Ask(id) = GetBsdlInfo(bsdl, id)
    BY <1>6 DEF Ask
  <2> QED BY <1>4, <2>1
<1> QED BY <1>5, <1>6

LEMMA IrSizeType ==
  ASSUME TypeInv, NEW d, NEW info \in Infos
  PROVE  GetIrSize(d, info) \in Int \ {0}
<1> DEFINE s == opt.irSets
           I == {n \in 1..Len(s) : s[n][1] = d - 1}
<1>1. s \in Seq(Nat \X (Nat \ {0}))
  BY DEF TypeInv, ConfigTypes, Opts
<1>2. GetIrSize(d, info) = LET set == IF I # {} THEN Max(I) ELSE 0 IN IF set = 0 THEN info.ir ELSE s[set][2]
  BY DEF GetIrSize, SelectLastInSeq
<1>3. info.ir \in Int \ {0}
  BY DEF Infos
<1>4. CASE I = {}
  BY <1>2, <1>3, <1>4
<1>5. CASE I # {}
  <2>1. Len(s) \in Nat /\ I \subseteq 1..Len(s)
    BY <1>1
  <2>2. Max(I) \in I
    <3> HIDE DEF I
    <3> QED BY <1>5, <2>1, MaxIn
  <2>3. PICK m \in 1..Len(s) : m = Max(I)
    BY <2>2
  <2>4. s[m] \in Nat \X (Nat \ {0})
    <3> HIDE DEF s
    <3> QED BY <1>1
  <2>5. s[m][2] \in Int \ {0}
    BY <2>4
  <2>6. GetIrSize(d, info) = s[m][2]
    <3>1. m # 0
      BY <2>1
    <3> HIDE DEF s, I
    <3> QED BY <1>2, <1>5, <2>3, <3>1
  <2> QED BY <2>5, <2>6
<1> QED BY <1>4, <1>5

LEMMA TypeListDevices == TypeInv /\ ListDevices => TypeInv'
<1> SUFFICES ASSUME TypeInv, ListDevices PROVE TypeInv'
  OBVIOUS
<1>1. /\ pc = "list" /\ todo' = todo /\ got' = got /\ sc' = sc /\ tap' = tap /\ path' = path
      /\ ir' = ir /\ err' = err /\ faults' = faults /\ opt' = opt /\ dev' = dev /\ invalid' = invalid /\ alloc' = alloc
      /\ cfg' = cfg /\ total' = total /\ resetErr' = resetErr /\ sane' = sane
  BY DEF ListDevices, At, Quiet, Hardware
<1>2. todo' \in Seq(Clocks) /\ got' \in Seq({0, 1}) /\ err' \in BOOLEAN
  BY <1>1 DEF TypeInv, CableTypes
<1>3. WireTypes' /\ CableTypes'
  BY <1>1, <1>2, HostWires
<1>4. i \in Nat
  BY DEF TypeInv, LocalTypes
<1>5. bsdl' \in Readers(Infos, Files) /\ i' \in Nat /\ pc' \in {"spin", "list", "exit", "irsize"}
      /\ (pc' = "irsize" => i' = 0 /\ opt.target < Len(dev))
  <2>1. CASE i <= Len(dev)
    <3>1. PICK ask \in {Ask(dev[i])} : bsdl' = ask.bsdl /\ pc' = (IF ask.info = Spins THEN "spin" ELSE "list") /\ i' = i + 1
      BY <2>1 DEF ListDevices
    <3>2. bsdl' \in Readers(Infos, Files)
      BY <3>1, AskType
    <3> QED BY <1>4, <3>1, <3>2
  <2>2. CASE ~ (i <= Len(dev))
    <3>1. /\ pc' = (IF (sc.legacy /\ Len(dev) > 1) \/ opt.target >= Len(dev) THEN "exit" ELSE "irsize")
          /\ i' = 0 /\ bsdl' = bsdl
      BY <2>2 DEF ListDevices
    <3>2. opt.target \in Nat /\ Len(dev) \in Nat /\ bsdl \in Readers(Infos, Files)
      BY DEF TypeInv, ConfigTypes, FoundTypes, Opts
    <3> QED BY <3>1, <3>2
  <2> QED BY <2>1, <2>2
<1>6. FoundTypes'
  BY <1>1, <1>5, SameFound
<1>7. ConfigTypes'
  <2>1. opt' \in Opts /\ cfg' \in Cfgs
    BY <1>1 DEF TypeInv, ConfigTypes
  <2> QED BY <1>1, <1>5, <2>1 DEF ConfigTypes, Found
<1>8. LocalTypes'
  BY <1>1, <1>5 DEF TypeInv, LocalTypes, Pcs
<1> QED BY <1>3, <1>6, <1>7, <1>8 DEF TypeInv

LEMMA TypeConfigureIr == TypeInv /\ ConfigureIr => TypeInv'
<1> SUFFICES ASSUME TypeInv, ConfigureIr PROVE TypeInv'
  OBVIOUS
<1>1. /\ pc = "irsize" /\ todo' = todo /\ got' = got /\ sc' = sc /\ tap' = tap /\ path' = path
      /\ ir' = ir /\ err' = err /\ faults' = faults /\ opt' = opt /\ dev' = dev /\ invalid' = invalid /\ alloc' = alloc
      /\ resetErr' = resetErr /\ sane' = sane
  BY DEF ConfigureIr, At, Quiet, Hardware
<1>2. todo' \in Seq(Clocks) /\ got' \in Seq({0, 1}) /\ err' \in BOOLEAN
  BY <1>1 DEF TypeInv, CableTypes
<1>3. WireTypes' /\ CableTypes'
  BY <1>1, <1>2, HostWires
<1>4. i \in Nat /\ total \in Nat
  BY <1>1 DEF TypeInv, LocalTypes
<1>5. /\ opt.target \in Nat /\ Len(dev) \in Nat /\ opt.target < Len(dev) /\ cfg \in Cfgs /\ bsdl \in Readers(Infos, Files)
      /\ i # 0 => cfg.irSize > 0
  BY <1>1 DEF TypeInv, ConfigTypes, FoundTypes, Opts
<1>6. /\ bsdl' \in Readers(Infos, Files) /\ cfg' \in Cfgs /\ i' \in Nat /\ pc' \in {"irsize", "debugcmd", "exit"}
      /\ pc' # "exit" => total' \in Nat /\ (pc' = "debugcmd" \/ i' # 0 => cfg'.irSize > 0)
  <2>1. CASE i > Len(dev)
    <3>1. /\ cfg' = [cfg EXCEPT !.irPre = total, !.drPre = Len(dev) - opt.target - 1, !.drPost = opt.target]
          /\ pc' = "debugcmd" /\ bsdl' = bsdl /\ i' = i /\ total' = total
      BY <2>1 DEF ConfigureIr
    <3>2. Len(dev) - opt.target - 1 \in Nat
      BY <1>5
    <3>3. PICK n \in Nat, m \in Nat : n = Len(dev) - opt.target - 1 /\ m = opt.target
      BY <1>5, <3>2
    <3>4. cfg' \in Cfgs /\ cfg'.irSize = cfg.irSize
      BY <1>4, <1>5, <3>1, <3>3 DEF Cfgs
    <3>5. i # 0
      BY <1>5, <2>1
    <3> QED BY <1>4, <1>5, <3>1, <3>4, <3>5
  <2>2. CASE ~ (i > Len(dev)) /\ i = TargetPos
    <3>1. /\ cfg' = [cfg EXCEPT !.irPost = total] /\ total' = 0 /\ i' = i + 1 /\ bsdl' = bsdl /\ pc' = pc
      BY <2>2 DEF ConfigureIr
    <3>2. cfg' \in Cfgs /\ cfg'.irSize = cfg.irSize
      BY <1>4, <1>5, <3>1 DEF Cfgs
    <3>3. i # 0
      BY <1>5, <2>2 DEF TargetPos
    <3> QED BY <1>1, <1>4, <1>5, <3>1, <3>2, <3>3
  <2>3. CASE ~ (i > Len(dev)) /\ i # TargetPos
    <3> DEFINE d == IF i = 0 THEN TargetPos ELSE i
    <3>1. PICK ask \in {Ask(dev[d])} : \E size \in {GetIrSize(d, ask.info)} :
               /\ bsdl' = ask.bsdl
               /\ pc' = (IF size < 0 THEN "exit" ELSE pc)
               /\ cfg' = (IF i = 0 THEN [cfg EXCEPT !.irSize = size] ELSE cfg)
               /\ total' = (IF i = 0 THEN 0 ELSE total + size)
               /\ i' = i + 1
      BY <2>3 DEF ConfigureIr
    <3> HIDE DEF d
    <3>2. ask.info \in Infos /\ ask.bsdl \in Readers(Infos, Files)
      BY <3>1, AskType
    <3>3. PICK size : /\ size \in Int \ {0}
               /\ bsdl' = ask.bsdl
               /\ pc' = (IF size < 0 THEN "exit" ELSE pc)
               /\ cfg' = (IF i = 0 THEN [cfg EXCEPT !.irSize = size] ELSE cfg)
               /\ total' = (IF i = 0 THEN 0 ELSE total + size)
               /\ i' = i + 1
      <4>1. GetIrSize(d, ask.info) \in Int \ {0}
        BY <3>2, IrSizeType
      <4> QED BY <3>1, <4>1
    <3>4. cfg' \in Cfgs
      BY <1>5, <3>3 DEF Cfgs
    <3>5. i = 0 => cfg'.irSize = size
      BY <1>5, <3>3 DEF Cfgs
    <3>6. i # 0 => cfg' = cfg
      BY <3>3
    <3>7. size < 0 \/ size > 0
      BY <3>3
    <3>8. CASE size < 0
      BY <1>4, <3>2, <3>3, <3>4, <3>8
    <3>9. CASE size > 0
      <4>1. pc' = "irsize" /\ total' \in Nat /\ i' \in Nat
        BY <1>1, <1>4, <3>3, <3>9
      <4>2. cfg'.irSize > 0
        BY <1>5, <3>5, <3>6, <3>9
      <4> QED BY <3>2, <3>3, <3>4, <4>1, <4>2
    <3> QED BY <3>7, <3>8, <3>9
  <2> QED BY <2>1, <2>2, <2>3
<1>7. FoundTypes'
  BY <1>1, <1>6, SameFound
<1>8. ConfigTypes'
  <2>1. opt' \in Opts
    BY <1>1 DEF TypeInv, ConfigTypes
  <2> QED BY <1>1, <1>5, <1>6, <2>1 DEF ConfigTypes, Found
<1>9. LocalTypes'
  BY <1>1, <1>6 DEF TypeInv, LocalTypes, Pcs
<1> QED BY <1>3, <1>7, <1>8, <1>9 DEF TypeInv

LEMMA TypeConfigureDebugCmd == TypeInv /\ ConfigureDebugCmd => TypeInv'
<1> SUFFICES ASSUME TypeInv, ConfigureDebugCmd PROVE TypeInv'
  OBVIOUS
<1>1. /\ pc = "debugcmd" /\ todo' = todo /\ got' = got /\ sc' = sc /\ tap' = tap /\ path' = path
      /\ ir' = ir /\ err' = err /\ faults' = faults /\ opt' = opt /\ dev' = dev /\ invalid' = invalid /\ alloc' = alloc
      /\ i' = i /\ total' = total /\ resetErr' = resetErr /\ sane' = sane
  BY DEF ConfigureDebugCmd, At, Quiet, Hardware
<1>2. todo' \in Seq(Clocks) /\ got' \in Seq({0, 1}) /\ err' \in BOOLEAN
  BY <1>1 DEF TypeInv, CableTypes
<1>3. WireTypes' /\ CableTypes'
  BY <1>1, <1>2, HostWires
<1> DEFINE id == dev[TargetPos]
           xil == id # NoId /\ Manuf(id) = XilinxManuf
           altera == id # NoId /\ Manuf(id) = AlteraManuf
           alt == opt.forceAlt = 1 \/ (opt.forceAlt = 0 /\ altera)
<1>4. PICK ask \in {Ask(id)} :
          /\ bsdl' = IF alt THEN bsdl ELSE ask.bsdl
          /\ pc' = IF ~alt /\ GetDebugCmd(id, ask.info) = NoCmd THEN "exit" ELSE "idcode"
          /\ cfg' = [cfg EXCEPT !.alt = alt, !.debug = IF alt THEN @ ELSE GetDebugCmd(id, ask.info), !.xilinx = xil]
  BY DEF ConfigureDebugCmd
<1>5. alt \in BOOLEAN /\ xil \in BOOLEAN
  OBVIOUS
<1> HIDE DEF id, alt, xil
<1>6. ask.info \in Infos /\ ask.bsdl \in Readers(Infos, Files)
  BY <1>4, AskType
<1>7. opt \in Opts /\ cfg \in Cfgs /\ bsdl \in Readers(Infos, Files) /\ cfg.irSize > 0 /\ opt.target < Len(dev)
  BY <1>1 DEF TypeInv, ConfigTypes, Found
<1>8. GetDebugCmd(id, ask.info) \in Seq({0, 1})
  BY <1>6, <1>7 DEF GetDebugCmd, Infos, Opts
<1> DEFINE dbg == IF alt THEN cfg.debug ELSE GetDebugCmd(id, ask.info)
<1>9. dbg \in Seq({0, 1})
  BY <1>7, <1>8 DEF Cfgs
<1>10. cfg' = [cfg EXCEPT !.alt = alt, !.debug = dbg, !.xilinx = xil]
  BY <1>4
<1> HIDE DEF dbg
<1>11. cfg' \in Cfgs /\ cfg'.irSize = cfg.irSize
  BY <1>5, <1>7, <1>9, <1>10 DEF Cfgs
<1>12. bsdl' \in Readers(Infos, Files) /\ pc' \in {"exit", "idcode"}
  BY <1>4, <1>6, <1>7
<1>13. FoundTypes'
  BY <1>1, <1>12, SameFound
<1>14. ConfigTypes'
  BY <1>1, <1>7, <1>11, <1>12 DEF ConfigTypes, Found
<1>15. LocalTypes'
  BY <1>1, <1>12 DEF TypeInv, LocalTypes, Pcs
<1> QED BY <1>3, <1>13, <1>14, <1>15 DEF TypeInv

LEMMA TypeAskIdcode == TypeInv /\ AskIdcode => TypeInv'
<1> SUFFICES ASSUME TypeInv, AskIdcode PROVE TypeInv'
  OBVIOUS
<1>1. /\ pc = "idcode" /\ sc' = sc /\ tap' = tap /\ path' = path
      /\ ir' = ir /\ err' = err /\ faults' = faults /\ opt' = opt /\ dev' = dev /\ invalid' = invalid /\ alloc' = alloc
      /\ cfg' = cfg /\ i' = i /\ total' = total /\ resetErr' = resetErr /\ sane' = sane
  BY DEF AskIdcode, At, Hardware
<1> DEFINE id == IF dev[TargetPos] = NoId THEN Bits(IdBits, 1) ELSE dev[TargetPos]
<1>2. PICK ask \in {GetBsdlInfo(bsdl, id)} :
        /\ bsdl' = ask.bsdl
        /\ IF ask.info.idc = NoCmd THEN pc' = (IF ask.info = Spins THEN "spin" ELSE "enable") /\ Quiet
           ELSE pc' = "gotidcode" /\ Send(JtagGetIdcode(cfg, ask.info.idc, IdBits + 1))
  BY DEF AskIdcode
<1> HIDE DEF id
<1>3. ask.info \in Infos /\ ask.bsdl \in Readers(Infos, Files)
  BY <1>2, AskType
<1>4. cfg \in Cfgs /\ cfg.irSize > 0 /\ opt \in Opts /\ opt.target < Len(dev)
  BY <1>1 DEF TypeInv, ConfigTypes, Found
<1>5. JtagGetIdcode(cfg, ask.info.idc, IdBits + 1) \in Seq(Clocks)
  <2>1. ask.info.idc \in Seq({0, 1})
    BY <1>3 DEF Infos
  <2> QED BY <1>4, <2>1, GetIdcodeType, CalmClocks
<1>6. todo \in Seq(Clocks) /\ got \in Seq({0, 1}) /\ err' \in BOOLEAN
  BY <1>1 DEF TypeInv, CableTypes
<1>7. todo' \in Seq(Clocks) /\ got' \in Seq({0, 1})
  <2>1. (todo' = todo /\ got' = got) \/ (todo' = JtagGetIdcode(cfg, ask.info.idc, IdBits + 1) /\ got' = << >>)
    BY <1>2 DEF Send, Quiet
  <2>2. << >> \in Seq({0, 1})
    OBVIOUS
  <2> QED BY <1>5, <1>6, <2>1, <2>2
<1>8. pc' \in {"spin", "enable", "gotidcode"} /\ bsdl' \in Readers(Infos, Files)
  BY <1>2, <1>3
<1>9. WireTypes' /\ CableTypes'
  BY <1>1, <1>6, <1>7, HostWires
<1>10. FoundTypes'
  BY <1>1, <1>8, SameFound
<1>11. ConfigTypes'
  BY <1>1, <1>4, <1>8 DEF ConfigTypes, Found
<1>12. LocalTypes'
  BY <1>1, <1>8 DEF TypeInv, LocalTypes, Pcs
<1> QED BY <1>9, <1>10, <1>11, <1>12 DEF TypeInv

LEMMA TypeEnable == TypeInv /\ EnableDebugModule => TypeInv'
<1> SUFFICES ASSUME TypeInv, EnableDebugModule PROVE TypeInv'
  OBVIOUS
<1>1. /\ pc = "enable" /\ pc' = "enabled" /\ todo' = TapEnableDebugModule(cfg) /\ got' = << >>
      /\ sc' = sc /\ tap' = tap /\ path' = path
      /\ ir' = ir /\ err' = err /\ faults' = faults /\ opt' = opt /\ dev' = dev /\ invalid' = invalid /\ alloc' = alloc
      /\ bsdl' = bsdl /\ cfg' = cfg /\ i' = i /\ total' = total /\ resetErr' = resetErr /\ sane' = sane
  BY DEF EnableDebugModule, At, Hardware, Send
<1>2. cfg \in Cfgs /\ cfg.irSize > 0 /\ sc \in Scenarios
  BY <1>1 DEF TypeInv, ConfigTypes, Found, WireTypes
<1>3. todo' \in Seq(Clocks)
  BY <1>1, <1>2, EnableType, CalmClocks
<1>4. got' \in Seq({0, 1}) /\ err' \in BOOLEAN
  BY <1>1 DEF TypeInv, CableTypes
<1>5. WireTypes' /\ CableTypes'
  BY <1>1, <1>3, <1>4, HostWires
<1>6. FoundTypes' /\ ConfigTypes'
  BY <1>1, SameFound, SameConfig DEF Found
<1>7. LocalTypes'
  BY <1>1 DEF TypeInv, LocalTypes, Pcs
<1> QED BY <1>5, <1>6, <1>7 DEF TypeInv

LEMMA TypeDebugScan ==
  ASSUME TypeInv, NEW data \in [1..DbgBits -> {0, 1}], NEW read \in BOOLEAN, DebugScan(data, read)
  PROVE  TypeInv'
<1> DEFINE r == JtagReadWriteStream(cfg, data, DbgBits, TRUE, 1)
           w == JtagWriteStream(cfg, data, DbgBits, 1)
<1>1. /\ pc = "ready" /\ pc' = pc /\ todo' = (TapSetShiftDr \o (IF read THEN r ELSE w)) \o TapExitToIdle /\ got' = << >>
      /\ sc' = sc /\ tap' = tap /\ path' = path
      /\ ir' = ir /\ err' = err /\ faults' = faults /\ opt' = opt /\ dev' = dev /\ invalid' = invalid /\ alloc' = alloc
      /\ bsdl' = bsdl /\ cfg' = cfg /\ i' = i /\ total' = total /\ resetErr' = resetErr /\ sane' = sane
  BY DEF DebugScan, At, Hardware, Send
<1>2. cfg \in Cfgs
  BY DEF TypeInv, ConfigTypes
<1>3. DbgBits \in Nat \ {0}
  BY ScanAssumption
<1>4. data \in Seq({0, 1}) /\ DbgBits <= Len(data)
  BY <1>3
<1>5. r \in Seq(Clocks) /\ w \in Seq(Clocks)
  BY <1>2, <1>3, <1>4, WriteType, CalmClocks
<1> HIDE DEF r, w
<1> DEFINE x == IF read THEN r ELSE w
<1>6. x \in Seq(Clocks)
  BY <1>5
<1>7. TapSetShiftDr \in Seq(Clocks) /\ TapExitToIdle \in Seq(Clocks)
  BY TapSetShiftDrIs, ClkType DEF TapExitToIdle
<1>8. todo' = (TapSetShiftDr \o x) \o TapExitToIdle
  BY <1>1
<1> HIDE DEF x
<1>9. todo' \in Seq(Clocks)
  BY <1>6, <1>7, <1>8
<1>10. got' \in Seq({0, 1}) /\ err' \in BOOLEAN
  BY <1>1 DEF TypeInv, CableTypes
<1>11. WireTypes' /\ CableTypes'
  BY <1>1, <1>9, <1>10, HostWires
<1>12. FoundTypes' /\ ConfigTypes'
  BY <1>1, SameFound, SameConfig DEF Found
<1>13. LocalTypes'
  BY <1>1 DEF TypeInv, LocalTypes, Pcs
<1> QED BY <1>11, <1>12, <1>13 DEF TypeInv

LEMMA TypeInit == Init => TypeInv
<1> SUFFICES ASSUME Init PROVE TypeInv
  OBVIOUS
<1>1. sc \in Scenarios /\ tap \in TapStates /\ path = FlattenSeq(IrCapture) /\ ir = [d \in Devices |-> Bypass(d)]
  BY DEF Init
<1>2. WireTypes
  <2>1. path \in Seq({0, 1}) /\ path # << >>
    BY <1>1, CaptureIrType
  <2>2. ASSUME NEW d \in Devices PROVE ir[d] \in [1..sc.chain[d].irlen -> {0, 1}]
    <3>1. ir[d] = Bypass(d)
      BY <1>1
    <3> QED BY <1>1, <3>1, ChipFacts
  <2> QED BY <1>1, <2>1, <2>2 DEF WireTypes
<1>3. CableTypes
  <2>1. todo = << >> /\ got = << >> /\ err = FALSE /\ faults = 0
    BY DEF Init
  <2>2. todo \in Seq(Clocks) /\ got \in Seq({0, 1})
    BY <2>1
  <2>3. faults \in 0..MaxFaults
    BY <2>1, ScanAssumption
  <2>4. err \in BOOLEAN
    BY <2>1
  <2> QED BY <2>2, <2>3, <2>4 DEF CableTypes
<1>4. FoundTypes
  <2>1. dev = << >> /\ invalid = 0 /\ alloc = AllocSize /\ pc = "args"
    BY DEF Init
  <2>2. dev \in Seq(Seq({0, 1})) /\ Len(dev) = 0
    BY <2>1
  <2>3. alloc \in Nat \ {0} /\ MaxDevices \in Nat /\ Len(InvalidCode) \in Nat
    BY <2>1, SetupAssumption, CodeFacts
  <2> QED BY <2>1, <2>2, <2>3 DEF FoundTypes
<1>5. ConfigTypes
  <2>1. /\ opt = [target |-> 0, irSets |-> << >>, debugCmd |-> NoCmd, forceAlt |-> 0] /\ pc = "args"
        /\ cfg = [irSize |-> 0, irPre |-> 0, irPost |-> 0, drPre |-> 0, drPost |-> 0, debug |-> << >>, alt |-> FALSE,
                  xilinx |-> FALSE, vir |-> VirCmd, vdr |-> VdrCmd]
        /\ bsdl = BsdlInit(sc.dirs)
    BY DEF Init
  <2>2. opt \in Opts
    <3>1. << >> \in Seq(Nat \X (Nat \ {0})) /\ NoCmd \in Seq({0, 1})
      BY DEF NoCmd
    <3> QED BY <2>1, <3>1 DEF Opts
  <2>3. cfg \in Cfgs
    <3>1. << >> \in Seq({0, 1}) /\ VirCmd \in Seq({0, 1}) /\ VdrCmd \in Seq({0, 1})
      BY ScenarioAssumption
    <3> QED BY <2>1, <3>1 DEF Cfgs
  <2>4. bsdl \in Readers(Infos, Files)
    <3>1. PICK dirs \in Seq(Seq(Files)) : dirs = sc.dirs
      BY <1>1, ScenarioAssumption
    <3>2. Reverse(dirs) \in Seq(Seq(Files))
      BY DEF Reverse
    <3>3. bsdl = [parsed |-> << >>, last |-> NoInfo, dirs |-> Reverse(dirs)]
      BY <2>1, <3>1 DEF BsdlInit
    <3>4. << >> \in Seq(Infos) /\ NoInfo \in Infos
      BY NoInfoType
    <3> QED BY <3>2, <3>3, <3>4 DEF Readers
  <2> QED BY <2>1, <2>2, <2>3, <2>4 DEF ConfigTypes, Found
<1>6. LocalTypes
  <2>1. pc = "args" /\ i = 1 /\ total = 0 /\ resetErr = FALSE /\ sane = "untested"
    BY DEF Init
  <2>2. pc \in Pcs /\ i \in Nat /\ total \in Nat /\ i # 0 /\ sane \in {"untested", "passed", "failed"}
    BY <2>1 DEF Pcs
  <2>3. resetErr \in BOOLEAN
    BY <2>1
  <2> QED BY <2>2, <2>3 DEF LocalTypes
<1> QED BY <1>2, <1>3, <1>4, <1>5, <1>6 DEF TypeInv

LEMMA TypeStutter ==
  ASSUME TypeInv, UNCHANGED vars
  PROVE  TypeInv'
<1>1. /\ sc' = sc /\ tap' = tap /\ path' = path /\ ir' = ir /\ todo' = todo /\ got' = got /\ err' = err /\ faults' = faults
      /\ opt' = opt /\ pc' = pc /\ dev' = dev /\ invalid' = invalid /\ alloc' = alloc /\ bsdl' = bsdl /\ cfg' = cfg
      /\ i' = i /\ total' = total /\ resetErr' = resetErr /\ sane' = sane
  BY DEF vars, scanVars, hostVars
<1>2. todo' \in Seq(Clocks) /\ got' \in Seq({0, 1}) /\ err' \in BOOLEAN
  BY <1>1 DEF TypeInv, CableTypes
<1>3. WireTypes' /\ CableTypes'
  BY <1>1, <1>2, HostWires
<1>4. FoundTypes'
  BY <1>1, SameFound
<1>5. ConfigTypes' /\ LocalTypes'
  BY <1>1 DEF TypeInv, ConfigTypes, LocalTypes
<1> QED BY <1>3, <1>4, <1>5 DEF TypeInv

LEMMA TypeNext == TypeInv /\ [Next]_vars => TypeInv'
<1> SUFFICES ASSUME TypeInv, [Next]_vars PROVE TypeInv'
  OBVIOUS
<1>1. CASE ParseArgs \/ Reset \/ Enumerate \/ LeaveShift
  BY <1>1, TypeParseArgs, TypeReset, TypeEnumerate, TypeLeaveShift
<1>2. CASE ReadStartBit \/ GotStartBit \/ GotManuf \/ GotRest
  BY <1>2, TypeReadStartBit, TypeGotStartBit, TypeGotManuf, TypeGotRest
<1>3. CASE CheckEnumeration \/ CheckIdcode \/ CheckEnabled
  BY <1>3, TypeChecks
<1>4. CASE ListDevices \/ ConfigureIr \/ ConfigureDebugCmd \/ AskIdcode \/ EnableDebugModule
  BY <1>4, TypeListDevices, TypeConfigureIr, TypeConfigureDebugCmd, TypeAskIdcode, TypeEnable
<1>5. CASE (Clock \/ CableFails) /\ UNCHANGED <<sc, hostVars>>
  BY <1>5, TypeClock
<1>6. CASE \E data \in [1..DbgBits -> {0, 1}], read \in BOOLEAN : DebugScan(data, read)
  BY <1>6, TypeDebugScan
<1>7. CASE UNCHANGED vars
  BY <1>7, TypeStutter
<1> QED BY <1>1, <1>2, <1>3, <1>4, <1>5, <1>6, <1>7 DEF Next, Host, Over

(***************************************************************************)
(* Start-up keeps the types of chain and bridge: idcodes[] never overflows *)
(* its allocation or MAX_DEVICES, a stream is never shorter than what      *)
(* tap_set_ir() sends of it, every device takes a whole instruction over.  *)
(***************************************************************************)
THEOREM SetupTypes == Spec => []SetupTypeOK
<1>1. TypeInv => SetupTypeOK
  BY DEF TypeInv, WireTypes, CableTypes, FoundTypes, LocalTypes, SetupTypeOK, Pcs
<1> QED BY <1>1, TypeInit, TypeNext, PTL DEF Spec

(***************************************************************************)
(* Scans.  What the clocks of a function do to the chain is put together   *)
(* from what each of them does: Leads says that the clocks q lead from the *)
(* state s of the chain of scenario z to the state t.                      *)
(***************************************************************************)
State(t, p, x, y, g) == [tap |-> t, path |-> p, ir |-> x, latched |-> y, got |-> g]
Now == State(tap, path, ir, latched, got)

TargetOf(z) == z.target + 1
Holds(z, x, names) == TargetOf(z) \in DOMAIN z.chain /\ \E n \in names : x[TargetOf(z)] = z.chain[TargetOf(z)][n]
DrOf(z, x, d) ==
  CASE z.chain[d].id # << >> /\ x[d] = z.chain[d].idcode -> <<1>> \o z.chain[d].id
    [] d = TargetOf(z) /\ Holds(z, x, {"debug", "vdr"}) -> z.status
    [] d = TargetOf(z) /\ Holds(z, x, {"vir"}) -> Bits(VirBits + 1, 0)
    [] OTHER -> <<0>>
DrRegs(z, x) == [d \in DOMAIN z.chain |-> DrOf(z, x, d)]
IrRegs(z) == [d \in DOMAIN z.chain |-> [k \in 1..z.chain[d].irlen |-> k % 2]]
ResetIr(z) == [d \in DOMAIN z.chain |-> IF z.chain[d].id = << >> THEN Bits(z.chain[d].irlen, 1) ELSE z.chain[d].idcode]
Segment(p, d, r) == SubSeq(p, Before(r, d) + 1, Before(r, d) + Len(r[d]))

PathStep(z, s, c) ==
  CASE s.tap = "CAPTURE_DR" -> FlattenSeq(DrRegs(z, s.ir))
    [] s.tap = "CAPTURE_IR" -> FlattenSeq(IrRegs(z))
    [] s.tap \in {"SHIFT_DR", "SHIFT_IR"} -> Append(Tail(s.path), c.tdi)
    [] OTHER -> s.path
IrStep(z, s, t) ==
  CASE t = "RESET" -> ResetIr(z)
    [] t = "UPDATE_IR" -> [d \in DOMAIN z.chain |-> Segment(s.path, d, IrRegs(z))]
    [] OTHER -> s.ir
LatchStep(z, p, x, y, t) ==
  CASE t = "UPDATE_DR" /\ Holds(z, x, {"vir"}) -> [y EXCEPT !.vir = Segment(p, TargetOf(z), DrRegs(z, x))]
    [] t = "UPDATE_DR" /\ Holds(z, x, {"debug", "vdr"}) -> [y EXCEPT !.debug = Segment(p, TargetOf(z), DrRegs(z, x))]
    [] OTHER -> y
Step(z, s, c) ==
  State(NextTapState(s.tap, c.tms), PathStep(z, s, c), IrStep(z, s, NextTapState(s.tap, c.tms)),
        LatchStep(z, s.path, s.ir, s.latched, NextTapState(s.tap, c.tms)),
        IF c.rd THEN Append(s.got, IF s.tap \in {"SHIFT_DR", "SHIFT_IR"} THEN Head(s.path) ELSE 1) ELSE s.got)

Leads(z, s, q, t) ==
  \E h : h[0] = s /\ h[Len(q)] = t /\ \A k \in 1..Len(q) : h[k] = Step(z, h[k - 1], q[k])

LEMMA CapturesAre ==
  /\ IrCapture = IrRegs(sc) /\ IrAfterReset = ResetIr(sc) /\ Target = TargetOf(sc) /\ Devices = DOMAIN sc.chain
  /\ DrCapture = DrRegs(sc, ir)
  /\ \A names : TargetHas(names) <=> Holds(sc, ir, names)
  /\ \A d, r : PartOf(d, r) = Segment(path, d, r)
<1>1. IrCapture = IrRegs(sc)
  BY DEF IrCapture, CaptureIr, IrRegs, Devices
<1>2. IrAfterReset = ResetIr(sc)
  BY DEF IrAfterReset, Bypass, ResetIr, Devices
<1>3. Target = TargetOf(sc) /\ Devices = DOMAIN sc.chain
  BY DEF Target, TargetOf, Devices
<1>4. \A names : TargetHas(names) <=> Holds(sc, ir, names)
  BY <1>3 DEF TargetHas, Holds
<1>5. \A d : CaptureDr(d) = DrOf(sc, ir, d)
  BY <1>3, <1>4 DEF CaptureDr, DrOf
<1>6. DrCapture = DrRegs(sc, ir)
  BY <1>3, <1>5 DEF DrCapture, DrRegs
<1>7. \A d, r : PartOf(d, r) = Segment(path, d, r)
  BY DEF PartOf, Segment, Before, Upto
<1> QED BY <1>1, <1>2, <1>3, <1>4, <1>6, <1>7

LEMMA ClockIsStep ==
  ASSUME NEW c, TapClock(c), c.trst = FALSE, sc.stuck = "no", got' = IF c.rd THEN Append(got, Tdo) ELSE got
  PROVE  Now' = Step(sc, Now, c)
<1> DEFINE t == NextTapState(tap, c.tms)
<1>1. tap' = t /\ Latch(t)
  BY DEF TapClock
<1>2. Now.tap = tap /\ Now.path = path /\ Now.ir = ir /\ Now.latched = latched /\ Now.got = got
  BY DEF Now, State
<1> HIDE DEF t
<1>3. path' = PathStep(sc, Now, c)
  BY <1>2, CapturesAre DEF TapClock, PathStep
<1>4. ir' = IrStep(sc, Now, t)
  BY <1>1, <1>2, CapturesAre DEF Latch, IrStep
<1>5. latched' = LatchStep(sc, path, ir, latched, t)
  BY <1>1, <1>2, CapturesAre DEF Latch, LatchStep
<1>6. got' = IF c.rd THEN Append(got, IF tap \in {"SHIFT_DR", "SHIFT_IR"} THEN Head(path) ELSE 1) ELSE got
  BY DEF Tdo
<1>7. Step(sc, Now, c) = State(t, path', ir', latched', got')
  BY <1>2, <1>3, <1>4, <1>5, <1>6 DEF Step, t
<1>8. Now' = State(tap', path', ir', latched', got')
  BY DEF Now
<1> QED BY <1>1, <1>7, <1>8

LEMMA LeadsNone ==
  ASSUME NEW z, NEW s
  PROVE  Leads(z, s, << >>, s)
<1> DEFINE h == [k \in 0..0 |-> s]
<1>1. h[0] = s /\ Len(<< >>) = 0 /\ 1..0 = {}
  OBVIOUS
<1> HIDE DEF h
<1> QED BY <1>1 DEF Leads

LEMMA LeadsTail ==
  ASSUME NEW A, NEW z, NEW s, NEW t, NEW q \in Seq(A), q # << >>, Leads(z, s, q, t)
  PROVE  Leads(z, Step(z, s, Head(q)), Tail(q), t)
<1>1. PICK h : h[0] = s /\ h[Len(q)] = t /\ \A k \in 1..Len(q) : h[k] = Step(z, h[k - 1], q[k])
  BY SMTT(40) DEF Leads
<1>2. PICK n \in Nat : Len(q) = n + 1
  <2>1. Len(q) \in Nat /\ Len(q) # 0 /\ (Len(q) - 1) + 1 = Len(q) /\ Len(q) - 1 \in Nat
    OBVIOUS
  <2> QED BY <2>1
<1>3. Tail(q) \in Seq(A) /\ Len(Tail(q)) = n /\ \A k \in 1..n : Tail(q)[k] = q[k + 1]
  BY <1>2
<1>4. Head(q) = q[1]
  OBVIOUS
<1> DEFINE g == [k \in 0..n |-> h[k + 1]]
<1>5. g[0] = Step(z, s, Head(q))
  <2>1. 0 \in 0..n /\ 1 \in 1..Len(q) /\ 0 + 1 = 1 /\ 1 - 1 = 0
    BY <1>2
  <2>2. h[1] = Step(z, h[0], q[1])
    BY <1>1, <2>1
  <2> QED BY <1>1, <1>4, <2>1, <2>2
<1>6. g[n] = t
  BY <1>1, <1>2
<1>7. ASSUME NEW k \in 1..n PROVE g[k] = Step(z, g[k - 1], Tail(q)[k])
  <2>1. k \in 0..n /\ k - 1 \in 0..n /\ (k - 1) + 1 = k /\ k + 1 \in 1..Len(q) /\ (k + 1) - 1 = k
    BY <1>2
  <2>2. h[k + 1] = Step(z, h[k], q[k + 1])
    BY <1>1, <2>1
  <2>3. g[k] = h[k + 1] /\ g[k - 1] = h[k]
    BY <2>1
  <2> HIDE DEF g
  <2> QED BY <1>3, <2>2, <2>3
<1> HIDE DEF g
<1> QED BY <1>3, <1>5, <1>6, <1>7 DEF Leads

LEMMA LeadsConcat ==
  ASSUME NEW A, NEW z, NEW s, NEW t, NEW u, NEW p \in Seq(A), NEW q \in Seq(A), Leads(z, s, p, t), Leads(z, t, q, u)
  PROVE  Leads(z, s, p \o q, u)
<1>1. PICK h : h[0] = s /\ h[Len(p)] = t /\ \A k \in 1..Len(p) : h[k] = Step(z, h[k - 1], p[k])
  BY DEF Leads
<1>2. PICK g : g[0] = t /\ g[Len(q)] = u /\ \A k \in 1..Len(q) : g[k] = Step(z, g[k - 1], q[k])
  BY DEF Leads
<1>3. PICK m \in Nat, n \in Nat : m = Len(p) /\ n = Len(q)
  OBVIOUS
<1>4. /\ Len(p \o q) = m + n
      /\ \A k \in 1..m : (p \o q)[k] = p[k]
      /\ \A k \in 1..n : (p \o q)[m + k] = q[k]
  BY <1>3, ConcatAt
<1> DEFINE f == [k \in 0..(m + n) |-> IF k <= m THEN h[k] ELSE g[k - m]]
<1>5. f[0] = s
  BY <1>1
<1>6. f[m + n] = u
  <2>1. CASE n = 0
    <3>1. m + n = m /\ m \in 0..(m + n)
      BY <2>1
    <3>2. f[m] = h[m]
      BY <3>1
    <3> QED BY <1>1, <1>2, <1>3, <2>1, <3>1, <3>2
  <2>2. CASE n # 0
    <3>1. ~ (m + n <= m) /\ (m + n) - m = n /\ m + n \in 0..(m + n)
      BY <2>2
    <3> QED BY <1>2, <1>3, <3>1
  <2> QED BY <2>1, <2>2
<1>7. ASSUME NEW k \in 1..(m + n) PROVE f[k] = Step(z, f[k - 1], (p \o q)[k])
  <2>1. k \in 0..(m + n) /\ k - 1 \in 0..(m + n)
    OBVIOUS
  <2>2. CASE k <= m
    <3>1. k \in 1..m /\ k - 1 <= m
      BY <2>2
    <3>2. f[k] = h[k] /\ f[k - 1] = h[k - 1] /\ (p \o q)[k] = p[k]
      BY <1>4, <2>1, <3>1
    <3>3. h[k] = Step(z, h[k - 1], p[k])
      BY <1>1, <1>3, <3>1
    <3> HIDE DEF f
    <3> QED BY <3>2, <3>3
  <2>3. CASE ~ (k <= m)
    <3>1. PICK j \in 1..n : k = m + j /\ j = k - m /\ j - 1 = (k - 1) - m
      BY <2>3
    <3>2. f[k] = g[j]
      BY <2>1, <2>3, <3>1
    <3>3. f[k - 1] = g[j - 1]
      <4>1. CASE j = 1
        <5>1. k - 1 = m /\ m <= m /\ j - 1 = 0
          BY <3>1, <4>1
        <5>2. f[k - 1] = h[m]
          BY <2>1, <5>1
        <5> QED BY <1>1, <1>2, <1>3, <5>1, <5>2
      <4>2. CASE j # 1
        <5>1. ~ (k - 1 <= m)
          BY <3>1, <4>2
        <5> QED BY <2>1, <3>1, <5>1
      <4> QED BY <4>1, <4>2
    <3>4. (p \o q)[k] = q[j]
      BY <1>4, <3>1
    <3>5. g[j] = Step(z, g[j - 1], q[j])
      BY <1>2, <1>3
    <3> HIDE DEF f
    <3> QED BY <3>2, <3>3, <3>4, <3>5
  <2> QED BY <2>2, <2>3
<1> HIDE DEF f
<1> QED BY <1>4, <1>5, <1>6, <1>7 DEF Leads

LEMMA LeadsOne ==
  ASSUME NEW z, NEW s, NEW c
  PROVE  Leads(z, s, <<c>>, Step(z, s, c))
<1> DEFINE h == [k \in 0..1 |-> IF k = 0 THEN s ELSE Step(z, s, c)]
<1>1. h[0] = s /\ h[1] = Step(z, s, c)
  OBVIOUS
<1>2. Len(<<c>>) = 1 /\ <<c>>[1] = c
  OBVIOUS
<1>3. \A k \in 1..1 : k = 1 /\ k - 1 = 0
  OBVIOUS
<1> HIDE DEF h
<1> QED BY <1>1, <1>2, <1>3 DEF Leads

LEMMA LeadsTwo ==
  ASSUME NEW z, NEW s0, NEW s1, NEW s2, NEW a, NEW b, s1 = Step(z, s0, a), s2 = Step(z, s1, b)
  PROVE  Leads(z, s0, <<a, b>>, s2)
<1> DEFINE h == [k \in 0..2 |-> IF k = 0 THEN s0 ELSE IF k = 1 THEN s1 ELSE s2]
           q == <<a, b>>
<1>1. h[0] = s0 /\ h[1] = s1 /\ h[2] = s2
  OBVIOUS
<1>2. Len(q) = 2 /\ q[1] = a /\ q[2] = b
  OBVIOUS
<1> HIDE DEF h, q
<1>3. ASSUME NEW k \in 1..2 PROVE h[k] = Step(z, h[k - 1], q[k])
  <2>1. (k = 1 /\ k - 1 = 0) \/ (k = 2 /\ k - 1 = 1)
    OBVIOUS
  <2> QED BY <1>1, <1>2, <2>1
<1>4. Leads(z, s0, q, s2)
  BY <1>1, <1>2, <1>3 DEF Leads
<1> QED BY <1>4 DEF q

LEMMA LeadsThree ==
  ASSUME NEW z, NEW s0, NEW s1, NEW s2, NEW s3, NEW a, NEW b, NEW c,
         s1 = Step(z, s0, a), s2 = Step(z, s1, b), s3 = Step(z, s2, c)
  PROVE  Leads(z, s0, <<a, b, c>>, s3)
<1> DEFINE h == [k \in 0..3 |-> IF k = 0 THEN s0 ELSE IF k = 1 THEN s1 ELSE IF k = 2 THEN s2 ELSE s3]
           q == <<a, b, c>>
<1>1. h[0] = s0 /\ h[1] = s1 /\ h[2] = s2 /\ h[3] = s3
  OBVIOUS
<1>2. Len(q) = 3 /\ q[1] = a /\ q[2] = b /\ q[3] = c
  OBVIOUS
<1> HIDE DEF h, q
<1>3. ASSUME NEW k \in 1..3 PROVE h[k] = Step(z, h[k - 1], q[k])
  <2>1. (k = 1 /\ k - 1 = 0) \/ (k = 2 /\ k - 1 = 1) \/ (k = 3 /\ k - 1 = 2)
    OBVIOUS
  <2> QED BY <1>1, <1>2, <2>1
<1>4. Leads(z, s0, q, s3)
  BY <1>1, <1>2, <1>3 DEF Leads
<1> QED BY <1>4 DEF q

LEMMA LeadsFour ==
  ASSUME NEW z, NEW s0, NEW s1, NEW s2, NEW s3, NEW s4, NEW a, NEW b, NEW c, NEW e,
         s1 = Step(z, s0, a), s2 = Step(z, s1, b), s3 = Step(z, s2, c), s4 = Step(z, s3, e)
  PROVE  Leads(z, s0, <<a, b, c, e>>, s4)
<1> DEFINE h == [k \in 0..4 |-> IF k = 0 THEN s0 ELSE IF k = 1 THEN s1 ELSE IF k = 2 THEN s2
                                ELSE IF k = 3 THEN s3 ELSE s4]
           q == <<a, b, c, e>>
<1>1. h[0] = s0 /\ h[1] = s1 /\ h[2] = s2 /\ h[3] = s3 /\ h[4] = s4
  OBVIOUS
<1>2. Len(q) = 4 /\ q[1] = a /\ q[2] = b /\ q[3] = c /\ q[4] = e
  OBVIOUS
<1> HIDE DEF h, q
<1>3. ASSUME NEW k \in 1..4 PROVE h[k] = Step(z, h[k - 1], q[k])
  <2>1. (k = 1 /\ k - 1 = 0) \/ (k = 2 /\ k - 1 = 1) \/ (k = 3 /\ k - 1 = 2) \/ (k = 4 /\ k - 1 = 3)
    OBVIOUS
  <2> QED BY <1>1, <1>2, <2>1
<1>4. Leads(z, s0, q, s4)
  BY <1>1, <1>2, <1>3 DEF Leads
<1> QED BY <1>4 DEF q

(***************************************************************************)
(* One clock: between scans, into a scan, in it and out of it.             *)
(***************************************************************************)
LEMMA StateFields ==
  ASSUME NEW t, NEW p, NEW x, NEW y, NEW g
  PROVE  LET s == State(t, p, x, y, g)
         IN s.tap = t /\ s.path = p /\ s.ir = x /\ s.latched = y /\ s.got = g
BY DEF State

LEMMA StepMoves ==
  ASSUME NEW z, NEW t, NEW p, NEW x, NEW y, NEW g, NEW c, NEW n, n = NextTapState(t, c.tms), ~ c.rd,
         t \notin {"CAPTURE_DR", "CAPTURE_IR", "SHIFT_DR", "SHIFT_IR"}, n \notin {"RESET", "UPDATE_IR", "UPDATE_DR"}
  PROVE  Step(z, State(t, p, x, y, g), c) = State(n, p, x, y, g)
<1> DEFINE s == State(t, p, x, y, g)
<1>1. s.tap = t /\ s.path = p /\ s.ir = x /\ s.latched = y /\ s.got = g
  BY StateFields
<1> HIDE DEF s
<1>2. PathStep(z, s, c) = p
  BY <1>1 DEF PathStep
<1>3. IrStep(z, s, n) = x
  BY <1>1 DEF IrStep
<1>4. LatchStep(z, p, x, y, n) = y
  BY <1>1 DEF LatchStep
<1>5. Step(z, s, c) = State(n, p, x, y, g)
  BY <1>1, <1>2, <1>3, <1>4 DEF Step
<1> QED BY <1>5 DEF s

LEMMA StepCaptures ==
  ASSUME NEW z, NEW t, NEW p, NEW x, NEW y, NEW g, NEW c, c.tms = 0, ~ c.rd
  PROVE  /\ Step(z, State("CAPTURE_DR", p, x, y, g), c) = State("SHIFT_DR", FlattenSeq(DrRegs(z, x)), x, y, g)
         /\ Step(z, State("CAPTURE_IR", p, x, y, g), c) = State("SHIFT_IR", FlattenSeq(IrRegs(z)), x, y, g)
<1>1. NextTapState("CAPTURE_DR", 0) = "SHIFT_DR" /\ NextTapState("CAPTURE_IR", 0) = "SHIFT_IR"
  BY DEF NextTapState
<1>2. Step(z, State("CAPTURE_DR", p, x, y, g), c) = State("SHIFT_DR", FlattenSeq(DrRegs(z, x)), x, y, g)
  <2> DEFINE s == State("CAPTURE_DR", p, x, y, g)
  <2>1. s.tap = "CAPTURE_DR" /\ s.path = p /\ s.ir = x /\ s.latched = y /\ s.got = g
    BY StateFields
  <2> HIDE DEF s
  <2>2. PathStep(z, s, c) = FlattenSeq(DrRegs(z, x))
    BY <2>1 DEF PathStep
  <2>3. IrStep(z, s, "SHIFT_DR") = x
    BY <2>1 DEF IrStep
  <2>4. LatchStep(z, p, x, y, "SHIFT_DR") = y
    BY <2>1 DEF LatchStep
  <2>5. Step(z, s, c) = State("SHIFT_DR", FlattenSeq(DrRegs(z, x)), x, y, g)
    BY <1>1, <2>1, <2>2, <2>3, <2>4 DEF Step
  <2> QED BY <2>5 DEF s
<1>3. Step(z, State("CAPTURE_IR", p, x, y, g), c) = State("SHIFT_IR", FlattenSeq(IrRegs(z)), x, y, g)
  <2> DEFINE s == State("CAPTURE_IR", p, x, y, g)
  <2>1. s.tap = "CAPTURE_IR" /\ s.path = p /\ s.ir = x /\ s.latched = y /\ s.got = g
    BY StateFields
  <2> HIDE DEF s
  <2>2. PathStep(z, s, c) = FlattenSeq(IrRegs(z))
    BY <2>1 DEF PathStep
  <2>3. IrStep(z, s, "SHIFT_IR") = x
    BY <2>1 DEF IrStep
  <2>4. LatchStep(z, p, x, y, "SHIFT_IR") = y
    BY <2>1 DEF LatchStep
  <2>5. Step(z, s, c) = State("SHIFT_IR", FlattenSeq(IrRegs(z)), x, y, g)
    BY <1>1, <2>1, <2>2, <2>3, <2>4 DEF Step
  <2> QED BY <2>5 DEF s
<1> QED BY <1>2, <1>3

LEMMA StepShifts ==
  ASSUME NEW z, NEW t \in {"SHIFT_DR", "SHIFT_IR"}, NEW p, NEW x, NEW y, NEW g, NEW c, NEW n, n = NextTapState(t, c.tms),
         n \notin {"RESET", "UPDATE_IR", "UPDATE_DR"}
  PROVE  Step(z, State(t, p, x, y, g), c) =
           State(n, Append(Tail(p), c.tdi), x, y, IF c.rd THEN Append(g, Head(p)) ELSE g)
<1> DEFINE s == State(t, p, x, y, g)
<1>1. s.tap = t /\ s.path = p /\ s.ir = x /\ s.latched = y /\ s.got = g
  BY StateFields
<1> HIDE DEF s
<1>2. PathStep(z, s, c) = Append(Tail(p), c.tdi)
  BY <1>1 DEF PathStep
<1>3. IrStep(z, s, n) = x
  BY <1>1 DEF IrStep
<1>4. LatchStep(z, p, x, y, n) = y
  BY <1>1 DEF LatchStep
<1>5. Step(z, s, c) = State(n, Append(Tail(p), c.tdi), x, y, IF c.rd THEN Append(g, Head(p)) ELSE g)
  BY <1>1, <1>2, <1>3, <1>4 DEF Step
<1> QED BY <1>5 DEF s

\* Clock c is one of a scan: it shifts in state t, and goes to state n.
Shifts(t, n, c) ==
  /\ t \in {"SHIFT_DR", "SHIFT_IR"} /\ n = NextTapState(t, c.tms)
  /\ n \notin {"RESET", "UPDATE_IR", "UPDATE_DR"}

\* The state a shift of clock c leaves, in state n, from path p and bits read g.
Shifted(n, p, x, y, g, c) == State(n, Append(Tail(p), c.tdi), x, y, IF c.rd THEN Append(g, Head(p)) ELSE g)

LEMMA StepShiftsOnce ==
  ASSUME NEW z, NEW t, NEW p, NEW x, NEW y, NEW g, NEW c, NEW n, Shifts(t, n, c)
  PROVE  Step(z, State(t, p, x, y, g), c) = Shifted(n, p, x, y, g, c)
BY StepShifts DEF Shifted, Shifts

\* The instructions after a scan has left p in the path.
Taken(z, p) == [d \in DOMAIN z.chain |-> Segment(p, d, IrRegs(z))]

LEMMA StepUpdates ==
  ASSUME NEW z, NEW p, NEW x, NEW y, NEW g, NEW c, c.tms = 1, ~ c.rd
  PROVE  /\ Step(z, State("EXIT1_IR", p, x, y, g), c) = State("UPDATE_IR", p, Taken(z, p), y, g)
         /\ Step(z, State("EXIT1_DR", p, x, y, g), c) = State("UPDATE_DR", p, x, LatchStep(z, p, x, y, "UPDATE_DR"), g)
<1>1. NextTapState("EXIT1_IR", 1) = "UPDATE_IR" /\ NextTapState("EXIT1_DR", 1) = "UPDATE_DR"
  BY DEF NextTapState
<1>2. Step(z, State("EXIT1_IR", p, x, y, g), c) = State("UPDATE_IR", p, Taken(z, p), y, g)
  <2> DEFINE s == State("EXIT1_IR", p, x, y, g)
  <2>1. s.tap = "EXIT1_IR" /\ s.path = p /\ s.ir = x /\ s.latched = y /\ s.got = g
    BY StateFields
  <2> HIDE DEF s
  <2>2. PathStep(z, s, c) = p
    BY <2>1 DEF PathStep
  <2>3. IrStep(z, s, "UPDATE_IR") = Taken(z, p)
    BY <2>1 DEF IrStep, Taken
  <2>4. LatchStep(z, p, x, y, "UPDATE_IR") = y
    BY <2>1 DEF LatchStep
  <2>5. Step(z, s, c) = State("UPDATE_IR", p, Taken(z, p), y, g)
    BY <1>1, <2>1, <2>2, <2>3, <2>4 DEF Step
  <2> QED BY <2>5 DEF s
<1>3. Step(z, State("EXIT1_DR", p, x, y, g), c) = State("UPDATE_DR", p, x, LatchStep(z, p, x, y, "UPDATE_DR"), g)
  <2> DEFINE s == State("EXIT1_DR", p, x, y, g)
  <2>1. s.tap = "EXIT1_DR" /\ s.path = p /\ s.ir = x /\ s.latched = y /\ s.got = g
    BY StateFields
  <2> HIDE DEF s
  <2>2. PathStep(z, s, c) = p
    BY <2>1 DEF PathStep
  <2>3. IrStep(z, s, "UPDATE_DR") = x
    BY <2>1 DEF IrStep
  <2>5. Step(z, s, c) = State("UPDATE_DR", p, x, LatchStep(z, p, x, y, "UPDATE_DR"), g)
    BY <1>1, <2>1, <2>2, <2>3 DEF Step
  <2> QED BY <2>5 DEF s
<1> QED BY <1>2, <1>3

(***************************************************************************)
(* The fixed walks of chain_commands.c.                                    *)
(***************************************************************************)
LEMMA ClkFields ==
  ASSUME NEW tms, NEW tdi
  PROVE  Clk(tms, tdi).tms = tms /\ Clk(tms, tdi).tdi = tdi /\ Clk(tms, tdi).trst = FALSE /\ Clk(tms, tdi).rd = FALSE
BY DEF Clk

LEMMA TmsClocks == Clk(0, 0).tms = 0 /\ ~ Clk(0, 0).rd /\ Clk(1, 0).tms = 1 /\ ~ Clk(1, 0).rd
BY ClkFields

LEMMA WalkToShiftDr ==
  ASSUME NEW z, NEW p, NEW x, NEW y, NEW g
  PROVE  Leads(z, State("IDLE", p, x, y, g), TapSetShiftDr, State("SHIFT_DR", FlattenSeq(DrRegs(z, x)), x, y, g))
<1> DEFINE S(t) == State(t, p, x, y, g)
<1>1. Step(z, S("IDLE"), Clk(1, 0)) = S("SELECT_DR")
  BY StepMoves, TmsClocks, TapWalk
<1>2. Step(z, S("SELECT_DR"), Clk(0, 0)) = S("CAPTURE_DR")
  BY StepMoves, TmsClocks, TapWalk
<1>3. Step(z, S("CAPTURE_DR"), Clk(0, 0)) = State("SHIFT_DR", FlattenSeq(DrRegs(z, x)), x, y, g)
  BY StepCaptures, TmsClocks
<1> QED BY <1>1, <1>2, <1>3, LeadsThree DEF TapSetShiftDr

LEMMA WalkToShiftIr ==
  ASSUME NEW z, NEW p, NEW x, NEW y, NEW g
  PROVE  Leads(z, State("IDLE", p, x, y, g), <<Clk(1, 0), Clk(1, 0), Clk(0, 0), Clk(0, 0)>>,
               State("SHIFT_IR", FlattenSeq(IrRegs(z)), x, y, g))
<1> DEFINE S(t) == State(t, p, x, y, g)
<1>1. Step(z, S("IDLE"), Clk(1, 0)) = S("SELECT_DR")
  BY StepMoves, TmsClocks, TapWalk
<1>2. Step(z, S("SELECT_DR"), Clk(1, 0)) = S("SELECT_IR")
  <2>1. NextTapState("SELECT_DR", 1) = "SELECT_IR"
    BY DEF NextTapState
  <2> QED BY <2>1, StepMoves, TmsClocks
<1>3. Step(z, S("SELECT_IR"), Clk(0, 0)) = S("CAPTURE_IR")
  <2>1. NextTapState("SELECT_IR", 0) = "CAPTURE_IR"
    BY DEF NextTapState
  <2> QED BY <2>1, StepMoves, TmsClocks
<1>4. Step(z, S("CAPTURE_IR"), Clk(0, 0)) = State("SHIFT_IR", FlattenSeq(IrRegs(z)), x, y, g)
  BY StepCaptures, TmsClocks
<1> QED BY <1>1, <1>2, <1>3, <1>4, LeadsFour

LEMMA WalkToIdle ==
  ASSUME NEW z, NEW p, NEW x, NEW y, NEW g
  PROVE  /\ Leads(z, State("EXIT1_IR", p, x, y, g), TapExitToIdle, State("IDLE", p, Taken(z, p), y, g))
         /\ Leads(z, State("EXIT1_DR", p, x, y, g), TapExitToIdle, State("IDLE", p, x, LatchStep(z, p, x, y, "UPDATE_DR"), g))
<1>1. NextTapState("UPDATE_IR", 0) = "IDLE" /\ NextTapState("UPDATE_DR", 0) = "IDLE"
  BY DEF NextTapState
<1>2. Step(z, State("EXIT1_IR", p, x, y, g), Clk(1, 0)) = State("UPDATE_IR", p, Taken(z, p), y, g)
  BY StepUpdates, TmsClocks
<1>3. Step(z, State("EXIT1_DR", p, x, y, g), Clk(1, 0)) = State("UPDATE_DR", p, x, LatchStep(z, p, x, y, "UPDATE_DR"), g)
  BY StepUpdates, TmsClocks
<1>4. Step(z, State("UPDATE_IR", p, Taken(z, p), y, g), Clk(0, 0)) = State("IDLE", p, Taken(z, p), y, g)
  BY <1>1, StepMoves, TmsClocks
<1>5. Step(z, State("UPDATE_DR", p, x, LatchStep(z, p, x, y, "UPDATE_DR"), g), Clk(0, 0)) = State("IDLE", p, x, LatchStep(z, p, x, y, "UPDATE_DR"), g)
  BY <1>1, StepMoves, TmsClocks
<1> QED BY <1>2, <1>3, <1>4, <1>5, LeadsTwo DEF TapExitToIdle

(***************************************************************************)
(* A scan: the bits e go into the path p one after the other, what comes   *)
(* out are p's bits and then e's own, and those between a and b are read.  *)
(***************************************************************************)
Wire(p, e) == [j \in Places |-> IF j <= Len(p) THEN p[j] ELSE IF j <= Len(p) + Len(e) THEN e[j - Len(p)] ELSE 0]

StreamOf(q, e, a, b) ==
  /\ q \in Seq(Clocks) /\ Len(q) = Len(e)
  /\ \A k \in 1..Len(e) : /\ q[k].tms = (IF k = Len(e) THEN 1 ELSE 0)
                          /\ q[k].tdi = e[k]
                          /\ (q[k].rd <=> (a < k /\ k <= b))

LEMMA WireIs ==
  ASSUME NEW p \in Seq({0, 1}), NEW e \in Seq({0, 1})
  PROVE  /\ Wire(p, e) \in [Places -> {0, 1}]
         /\ Window(Wire(p, e), 0, Len(p)) = p
         /\ \A k \in 1..Len(p) : Wire(p, e)[k] = p[k]
         /\ \A k \in 1..Len(e) : Wire(p, e)[Len(p) + k] = e[k]
<1>1. PICK m \in Nat, n \in Nat : m = Len(p) /\ n = Len(e)
  OBVIOUS
<1>2. \A j \in 1..m : p[j] \in {0, 1}
  BY <1>1
<1>3. \A j \in 1..n : e[j] \in {0, 1}
  BY <1>1
<1>4. Wire(p, e) = [j \in Places |-> IF j <= m THEN p[j] ELSE IF j <= m + n THEN e[j - m] ELSE 0]
  BY <1>1 DEF Wire
<1>5. ASSUME NEW j \in Places PROVE (IF j <= m THEN p[j] ELSE IF j <= m + n THEN e[j - m] ELSE 0) \in {0, 1}
  <2>1. j \in Nat \ {0}
    BY DEF Places
  <2>2. CASE j <= m
    <3>1. j \in 1..m
      BY <2>1, <2>2
    <3> QED BY <1>2, <2>2, <3>1
  <2>3. CASE ~ (j <= m) /\ j <= m + n
    <3>1. j - m \in 1..n
      BY <2>1, <2>3
    <3>2. e[j - m] \in {0, 1}
      BY <1>3, <3>1
    <3> QED BY <2>3, <3>2
  <2>4. CASE ~ (j <= m) /\ ~ (j <= m + n)
    BY <2>4
  <2> QED BY <2>2, <2>3, <2>4
<1>6. Wire(p, e) \in [Places -> {0, 1}]
  BY <1>4, <1>5
<1>7. ASSUME NEW k \in 1..m PROVE Wire(p, e)[k] = p[k]
  BY <1>4 DEF Places
<1>8. ASSUME NEW k \in 1..n PROVE Wire(p, e)[m + k] = e[k]
  <2>1. m + k \in Places /\ ~ (m + k <= m) /\ m + k <= m + n /\ (m + k) - m = k
    BY DEF Places
  <2> QED BY <1>4, <2>1
<1>9. Window(Wire(p, e), 0, m) = p
  <2>1. \A j \in 1..m : 0 + j = j
    OBVIOUS
  <2>2. Window(Wire(p, e), 0, m) = [j \in 1..m |-> p[j]]
    BY <1>7, <2>1 DEF Window
  <2>3. p = [j \in 1..m |-> p[j]]
    BY <1>1
  <2> QED BY <2>2, <2>3
<1> QED BY <1>1, <1>6, <1>7, <1>8, <1>9

\* How many of the bits after the first a, and up to b, the first k are.
Among(k, a, b) == IF k <= a THEN 0 ELSE IF k <= b THEN k - a ELSE b - a

LEMMA ScanDoes ==
  ASSUME NEW z, NEW t \in {"SHIFT_DR", "SHIFT_IR"}, NEW x, NEW y, NEW p \in Seq({0, 1}), p # << >>,
         NEW e \in Seq({0, 1}), e # << >>, NEW a \in Nat, NEW b \in Nat, a <= b, b <= Len(e),
         NEW q, StreamOf(q, e, a, b), NEW u, u = NextTapState(t, 1)
  PROVE  Leads(z, State(t, p, x, y, << >>), q, State(u, Window(Wire(p, e), Len(e), Len(p)), x, y, Window(Wire(p, e), a, b - a)))
<1> DEFINE f == Wire(p, e)
<1>1. PICK m \in Nat \ {0}, n \in Nat \ {0} : m = Len(p) /\ n = Len(e)
  OBVIOUS
<1>2. /\ f \in [Places -> {0, 1}] /\ Window(f, 0, m) = p
      /\ \A k \in 1..n : f[m + k] = e[k]
  BY <1>1, WireIs
<1> HIDE DEF f
<1>3. /\ q \in Seq(Clocks) /\ Len(q) = n
      /\ \A k \in 1..n : /\ q[k].tms = (IF k = n THEN 1 ELSE 0)
                         /\ q[k].tdi = e[k]
                         /\ (q[k].rd <=> (a < k /\ k <= b))
  BY <1>1 DEF StreamOf
<1> DEFINE After(k) == State(IF k < n THEN t ELSE u, Window(f, k, m), x, y, Window(f, a, Among(k, a, b)))
           h == [k \in 0..n |-> After(k)]
<1>4. ASSUME NEW k \in 0..n PROVE h[k] = After(k)
  OBVIOUS
<1> HIDE DEF h
<1>5. h[0] = State(t, p, x, y, << >>)
  <2>1. 0 \in 0..n /\ 0 < n /\ Among(0, a, b) = 0
    BY DEF Among
  <2>2. Window(f, a, 0) = << >>
    BY NoWindow
  <2> QED BY <1>2, <1>4, <2>1, <2>2
<1>6. h[n] = State(u, Window(f, n, m), x, y, Window(f, a, b - a))
  <2>1. n \in 0..n /\ ~ (n < n) /\ Among(n, a, b) = b - a
    BY <1>1 DEF Among
  <2> QED BY <1>4, <2>1
<1>7. t = NextTapState(t, 0) /\ u \notin {"RESET", "UPDATE_IR", "UPDATE_DR"} /\ t \notin {"RESET", "UPDATE_IR", "UPDATE_DR"}
  <2>1. /\ NextTapState("SHIFT_DR", 0) = "SHIFT_DR" /\ NextTapState("SHIFT_IR", 0) = "SHIFT_IR"
        /\ NextTapState("SHIFT_DR", 1) = "EXIT1_DR" /\ NextTapState("SHIFT_IR", 1) = "EXIT1_IR"
    BY DEF NextTapState
  <2> QED BY <2>1
<1>8. ASSUME NEW k \in 1..n PROVE h[k] = Step(z, h[k - 1], q[k])
  <2>1. PICK l \in Nat : l = k - 1 /\ k = l + 1 /\ l < n /\ l \in 0..n /\ k \in 0..n
    OBVIOUS
  <2> DEFINE v == NextTapState(t, q[k].tms)
             c == q[k]
             w == Window(f, l, m)
             g == Window(f, a, Among(l, a, b))
  <2>2. v = IF k < n THEN t ELSE u
    <3>1. k < n \/ k = n
      OBVIOUS
    <3> QED BY <1>3, <1>7, <3>1
  <2>3. v \notin {"RESET", "UPDATE_IR", "UPDATE_DR"}
    BY <1>7, <2>2
  <2>4. h[l] = State(t, w, x, y, g)
    BY <1>4, <2>1
  <2>5. Step(z, State(t, w, x, y, g), c) = State(v, Append(Tail(w), c.tdi), x, y, IF c.rd THEN Append(g, Head(w)) ELSE g)
    <3> HIDE DEF w, g, c
    <3>1. v = NextTapState(t, c.tms)
      BY DEF c
    <3> HIDE DEF v
    <3>2. PICK w0, g0, c0, v0 : w0 = w /\ g0 = g /\ c0 = c /\ v0 = v
      OBVIOUS
    <3>3. Shifts(t, v0, c0)
      BY <2>3, <3>1, <3>2 DEF Shifts
    <3>4. Step(z, State(t, w0, x, y, g0), c0) = Shifted(v0, w0, x, y, g0, c0)
      BY <3>3, StepShiftsOnce
    <3> QED BY <3>2, <3>4 DEF Shifted
  <2>6. Append(Tail(w), c.tdi) = Window(f, k, m)
    <3>1. c.tdi = f[m + k] /\ m + k = (l + m) + 1
      BY <1>2, <1>3, <2>1
    <3>2. Append(Tail(Window(f, l, m)), f[(l + m) + 1]) = Window(f, l + 1, m)
      BY <1>2, WindowShift
    <3> QED BY <2>1, <3>1, <3>2
  <2>7. Head(w) = f[k]
    <3>1. Head(Window(f, l, m)) = f[l + 1]
      BY <1>2, WindowTail
    <3> QED BY <2>1, <3>1
  <2>8. (IF c.rd THEN Append(g, Head(w)) ELSE g) = Window(f, a, Among(k, a, b))
    <3>1. CASE a < k /\ k <= b
      <4>1. PICK r \in Nat : r = l - a /\ Among(l, a, b) = r /\ Among(k, a, b) = r + 1 /\ (a + r) + 1 = k
        BY <2>1, <3>1 DEF Among
      <4>2. Append(Window(f, a, r), f[(a + r) + 1]) = Window(f, a, r + 1)
        BY <1>2, WindowAppend
      <4>3. c.rd
        BY <1>3, <3>1
      <4> QED BY <2>7, <4>1, <4>2, <4>3
    <3>2. CASE ~ (a < k /\ k <= b)
      <4>1. Among(k, a, b) = Among(l, a, b)
        BY <2>1, <3>2 DEF Among
      <4>2. ~ c.rd
        BY <1>3, <3>2
      <4> QED BY <4>1, <4>2
    <3> QED BY <3>1, <3>2
  <2>9. h[k] = State(v, Window(f, k, m), x, y, Window(f, a, Among(k, a, b)))
    BY <1>4, <2>1, <2>2
  <2>10. h[k - 1] = State(t, w, x, y, g)
    BY <2>1, <2>4
  <2> HIDE DEF v, c, w, g
  <2> QED BY <2>5, <2>6, <2>8, <2>9, <2>10 DEF c
<1>9. Leads(z, State(t, p, x, y, << >>), q, State(u, Window(f, n, m), x, y, Window(f, a, b - a)))
  BY <1>3, <1>5, <1>6, <1>8 DEF Leads
<1> QED BY <1>1, <1>9 DEF f

(***************************************************************************)
(* The bits of the functions that send a stream.  The last one is right if *)
(* a shift by a whole word is masked or does not happen.                   *)
(***************************************************************************)
Sound(len) == sc.shift = "masked" \/ len <= WordBits
SentRight(bits, len) == LastBit(bits, len) = bits[len]

LEMMA LastBitIs ==
  ASSUME NEW bits \in Seq({0, 1}), NEW len \in Nat \ {0}, len <= Len(bits), Sound(len)
  PROVE  SentRight(bits, len)
<1>1. WordBits \in Nat \ {0}
  BY ScanAssumption
<1>2. PICK m \in Nat : m = len - 1 /\ m + 1 = len
  OBVIOUS
<1>3. m \div WordBits \in Nat /\ m % WordBits \in 0..(WordBits - 1) /\ m = WordBits * (m \div WordBits) + (m % WordBits)
  BY <1>1, Division
<1>4. PICK d \in Nat, r \in 0..(WordBits - 1) : d = m \div WordBits /\ r = m % WordBits
  BY <1>3
<1>5. m = WordBits * d + r
  BY <1>3, <1>4
<1>6. Count(m) = r
  <2>1. CASE m >= WordBits
    <3>1. sc.shift = "masked"
      BY <1>1, <1>2, <2>1 DEF Sound
    <3> QED BY <1>4, <2>1, <3>1 DEF Count
  <2>2. CASE m < WordBits
    <3>1. d = 0
      BY <1>1, <1>4, <2>2
    <3>2. r = m
      BY <1>1, <1>5, <3>1
    <3>3. ~ (m >= WordBits)
      BY <1>1, <2>2
    <3> QED BY <3>2, <3>3 DEF Count
  <2> QED BY <1>1, <2>1, <2>2
<1>7. LastBit(bits, len) = IF Count(m) < WordBits /\ ((m \div WordBits) * WordBits) + Count(m) + 1 <= Len(bits)
                           THEN bits[((m \div WordBits) * WordBits) + Count(m) + 1] ELSE 0
  BY <1>2 DEF LastBit
<1>8. (d * WordBits) + r + 1 = len /\ r < WordBits
  <2>1. d * WordBits = WordBits * d /\ WordBits * d \in Nat
    BY <1>1
  <2> QED BY <1>1, <1>2, <1>5, <2>1
<1> QED BY <1>4, <1>6, <1>7, <1>8 DEF SentRight

LEMMA ZerosSentRight ==
  ASSUME NEW n \in Nat \ {0}
  PROVE  SentRight(Bits(n, 0), n)
<1> DEFINE z == Bits(n, 0)
           m == ((n - 1) \div WordBits) * WordBits + Count(n - 1) + 1
<1>1. \A k \in 1..n : z[k] = 0
  BY DEF Bits
<1>2. Len(z) = n
  BY DEF Bits
<1>3. m \in Nat \ {0}
  <2>1. PICK k \in Nat : k = n - 1
    OBVIOUS
  <2>2. PICK W \in Nat \ {0} : W = WordBits
    BY ScanAssumption
  <2>3. PICK x \in Nat, y \in Nat : x = k \div W /\ y = Count(k)
    BY Division, CountType
  <2>4. x * W \in Nat
    OBVIOUS
  <2>5. (x * W) + y + 1 \in Nat \ {0}
    BY <2>4
  <2> QED BY <2>1, <2>2, <2>3, <2>5
<1>4. LastBit(z, n) = IF Count(n - 1) < WordBits /\ m <= Len(z) THEN z[m] ELSE 0
  BY DEF LastBit
<1> HIDE DEF m, z
<1>5. m <= Len(z) => z[m] = 0
  BY <1>1, <1>2, <1>3
<1>6. z[n] = 0
  BY <1>1
<1>7. LastBit(z, n) = z[n]
  BY <1>4, <1>5, <1>6
<1> QED BY <1>7 DEF SentRight, z

LEMMA WriteIs ==
  ASSUME NEW bits \in Seq({0, 1}), NEW len \in Nat \ {0}, len <= Len(bits), SentRight(bits, len), NEW last \in {0, 1}
  PROVE  LET w == CableWriteStream(bits, len, last)
         IN w \in Seq(Clocks) /\ Len(w) = len /\ \A k \in 1..len : w[k] = Clk(IF k = len THEN last ELSE 0, bits[k])
<1> DEFINE f == [k \in 1..(len - 1) |-> Clk(0, bits[k])]
           w == Append(f, Clk(last, bits[len]))
<1>1. CableWriteStream(bits, len, last) = w
  BY DEF CableWriteStream, SentRight
<1>2. \A k \in 1..len : bits[k] \in {0, 1}
  OBVIOUS
<1>3. \A k \in 1..(len - 1) : Clk(0, bits[k]) \in Clocks
  BY <1>2, ClkType
<1>4. f \in Seq(Clocks) /\ Len(f) = len - 1 /\ \A k \in 1..(len - 1) : f[k] = Clk(0, bits[k])
  BY <1>3
<1>5. Clk(last, bits[len]) \in Clocks
  BY <1>2, ClkType
<1> HIDE DEF f
<1>6. w \in Seq(Clocks) /\ Len(w) = len /\ w[len] = Clk(last, bits[len]) /\ \A k \in 1..(len - 1) : w[k] = f[k]
  BY <1>4, <1>5
<1> HIDE DEF w
<1>7. ASSUME NEW k \in 1..len PROVE w[k] = Clk(IF k = len THEN last ELSE 0, bits[k])
  <2>1. k = len \/ k \in 1..(len - 1)
    OBVIOUS
  <2>2. CASE k = len
    BY <1>6, <2>2
  <2>3. CASE k # len
    BY <1>4, <1>6, <2>1, <2>3
  <2> QED BY <2>2, <2>3
<1> QED BY <1>1, <1>6, <1>7

\* What a stream's clocks are, field by field; read says whether they read.
BitsOf(w, bits, len, last, read) ==
  /\ w \in Seq(Clocks) /\ Len(w) = len
  /\ \A k \in 1..len : w[k].tms = (IF k = len THEN last ELSE 0) /\ w[k].tdi = bits[k] /\ (w[k].rd <=> read)

LEMMA StreamBits ==
  ASSUME NEW bits \in Seq({0, 1}), NEW len \in Nat \ {0}, len <= Len(bits), SentRight(bits, len), NEW last \in {0, 1}
  PROVE  /\ BitsOf(CableWriteStream(bits, len, last), bits, len, last, FALSE)
         /\ BitsOf(CableReadWriteStream(bits, len, last), bits, len, last, TRUE)
<1> DEFINE w == CableWriteStream(bits, len, last)
           r == Reading(w)
<1>1. w \in Seq(Clocks) /\ Len(w) = len /\ \A k \in 1..len : w[k] = Clk(IF k = len THEN last ELSE 0, bits[k])
  BY WriteIs
<1> HIDE DEF w
<1>2. \A k \in 1..len : w[k].tms = (IF k = len THEN last ELSE 0) /\ w[k].tdi = bits[k] /\ ~ w[k].rd
  <2>1. ASSUME NEW tms, NEW tdi PROVE Clk(tms, tdi).tms = tms /\ Clk(tms, tdi).tdi = tdi /\ ~ Clk(tms, tdi).rd
    BY DEF Clk
  <2> QED BY <1>1, <2>1
<1>3. r \in Seq(Clocks) /\ Len(r) = len
  <2>1. Reading(w) \in Seq(Clocks) /\ Len(Reading(w)) = Len(w)
    BY <1>1, ReadingType
  <2> QED BY <1>1, <2>1
<1>4. DOMAIN w = 1..len
  BY <1>1
<1>5. \A k \in 1..len : r[k] = [w[k] EXCEPT !.rd = TRUE]
  BY <1>4 DEF Reading
<1> HIDE DEF r
<1>6. ASSUME NEW k \in 1..len PROVE r[k].tms = w[k].tms /\ r[k].tdi = w[k].tdi /\ r[k].rd
  <2>1. w[k] \in Clocks
    BY <1>1
  <2>2. PICK c \in Clocks : c = w[k]
    BY <2>1
  <2>3. [c EXCEPT !.rd = TRUE].tms = c.tms /\ [c EXCEPT !.rd = TRUE].tdi = c.tdi
    BY DEF Clocks
  <2>4. [c EXCEPT !.rd = TRUE].rd
    BY DEF Clocks
  <2> QED BY <1>5, <2>2, <2>3, <2>4
<1>7. BitsOf(w, bits, len, last, FALSE)
  BY <1>1, <1>2 DEF BitsOf
<1>8. BitsOf(r, bits, len, last, TRUE)
  BY <1>2, <1>3, <1>6 DEF BitsOf
<1> QED BY <1>7, <1>8 DEF w, r, CableReadWriteStream

\* len bits between a zeros and n zeros.
Padded(bits, a, len, n) == [k \in 1..(a + len + n) |-> IF a < k /\ k <= a + len THEN bits[k - a] ELSE 0]

IsPadded(e, bits, a, len, n) ==
  /\ e \in Seq({0, 1}) /\ Len(e) = a + len + n
  /\ \A k \in 1..(a + len + n) : e[k] = IF a < k /\ k <= a + len THEN bits[k - a] ELSE 0

LEMMA PaddedType ==
  ASSUME NEW bits \in Seq({0, 1}), NEW a \in Nat, NEW len \in Nat \ {0}, len <= Len(bits), NEW n \in Nat
  PROVE  IsPadded(Padded(bits, a, len, n), bits, a, len, n)
<1>1. PICK m \in Nat : m = a + len + n
  OBVIOUS
<1>2. ASSUME NEW k \in 1..m PROVE (IF a < k /\ k <= a + len THEN bits[k - a] ELSE 0) \in {0, 1}
  <2>1. a < k /\ k <= a + len => k - a \in 1..Len(bits)
    OBVIOUS
  <2>2. a < k /\ k <= a + len => bits[k - a] \in {0, 1}
    BY <2>1
  <2> QED BY <2>2
<1>3. Padded(bits, a, len, n) = [k \in 1..m |-> IF a < k /\ k <= a + len THEN bits[k - a] ELSE 0]
  BY <1>1 DEF Padded
<1>4. Padded(bits, a, len, n) \in Seq({0, 1}) /\ Len(Padded(bits, a, len, n)) = m
  BY <1>2, <1>3
<1>5. \A k \in 1..m : Padded(bits, a, len, n)[k] = IF a < k /\ k <= a + len THEN bits[k - a] ELSE 0
  BY <1>3
<1> QED BY <1>1, <1>4, <1>5 DEF IsPadded

\* The instruction scan's stream.
LEMMA IrStreamIs ==
  ASSUME NEW bits \in Seq({0, 1}), NEW len \in Nat \ {0}, len <= Len(bits), SentRight(bits, len)
  PROVE  StreamOf(CableWriteStream(bits, len, 1), Padded(bits, 0, len, 0), 0, 0)
<1> DEFINE w == CableWriteStream(bits, len, 1)
           e == Padded(bits, 0, len, 0)
<1>1. w \in Seq(Clocks) /\ Len(w) = len /\
      \A k \in 1..len : w[k].tms = (IF k = len THEN 1 ELSE 0) /\ w[k].tdi = bits[k] /\ ~ w[k].rd
  BY StreamBits DEF BitsOf
<1>2. 0 + len + 0 = len /\ \A k \in 1..len : k - 0 = k /\ 0 < k /\ k <= 0 + len /\ ~ (0 < k /\ k <= 0)
  OBVIOUS
<1>3. IsPadded(e, bits, 0, len, 0)
  BY PaddedType
<1> HIDE DEF w, e
<1>4. Len(e) = len /\ \A k \in 1..len : e[k] = bits[k]
  BY <1>2, <1>3 DEF IsPadded
<1>5. StreamOf(w, e, 0, 0)
  BY <1>1, <1>2, <1>4 DEF StreamOf
<1> QED BY <1>5 DEF w, e

LEMMA PrefixIs ==
  ASSUME NEW c \in Cfgs, NEW n \in Nat, n = c.drPre
  PROVE  /\ PrefixZeros(c) \in Seq(Clocks) /\ Len(PrefixZeros(c)) = n
         /\ \A k \in 1..n : /\ PrefixZeros(c)[k].tms = (IF k = n THEN 1 ELSE 0) /\ PrefixZeros(c)[k].tdi = 0
                            /\ ~ PrefixZeros(c)[k].rd
<1>1. PrefixZeros(c) = [k \in 1..n |-> Clk(IF k = n THEN 1 ELSE 0, 0)]
  BY DEF PrefixZeros
<1>2. \A k \in 1..n : Clk(IF k = n THEN 1 ELSE 0, 0) \in Clocks
  BY ClkType
<1>3. PrefixZeros(c) \in Seq(Clocks) /\ Len(PrefixZeros(c)) = n
  BY <1>1, <1>2
<1>4. ASSUME NEW tms, NEW tdi PROVE Clk(tms, tdi).tms = tms /\ Clk(tms, tdi).tdi = tdi /\ ~ Clk(tms, tdi).rd
  BY DEF Clk
<1> QED BY <1>1, <1>3, <1>4

\* The streams of jtag_write_stream() and jtag_read_write_stream() behind the postfix bits.
DataOf(q, bits, len, n, read) ==
  /\ q \in Seq(Clocks) /\ Len(q) = len + n
  /\ \A k \in 1..(len + n) : /\ q[k].tms = (IF k = len + n THEN 1 ELSE 0)
                             /\ q[k].tdi = (IF k <= len THEN bits[k] ELSE 0)
                             /\ (q[k].rd <=> (read /\ k <= len))

LEMMA DataStreamIs ==
  ASSUME NEW c \in Cfgs, NEW n \in Nat, n = c.drPre, NEW bits \in Seq({0, 1}), NEW len \in Nat \ {0}, NEW q,
         NEW read \in BOOLEAN, NEW w0, NEW w1, BitsOf(w0, bits, len, 0, read), BitsOf(w1, bits, len, 1, read),
         q = IF n = 0 THEN w1 ELSE w0 \o PrefixZeros(c)
  PROVE  DataOf(q, bits, len, n, read)
<1>1. CASE n = 0
  <2>1. q = w1 /\ len + n = len
    BY <1>1
  <2>2. \A k \in 1..len : k <= len
    OBVIOUS
  <2> QED BY <2>1, <2>2 DEF BitsOf, DataOf
<1>2. CASE n # 0
  <2> DEFINE p == PrefixZeros(c)
  <2>1. p \in Seq(Clocks) /\ Len(p) = n /\ \A k \in 1..n : p[k].tms = (IF k = n THEN 1 ELSE 0) /\ p[k].tdi = 0 /\ ~ p[k].rd
    BY PrefixIs
  <2>2. q = w0 \o p
    BY <1>2
  <2> HIDE DEF p
  <2>3. w0 \in Seq(Clocks) /\ Len(w0) = len
    BY DEF BitsOf
  <2>31. p \in Seq(Clocks) /\ w0 \in Seq(Clocks)
    BY <2>1, <2>3
  <2>32. w0 \o p \in Seq(Clocks) /\ Len(w0 \o p) = Len(w0) + Len(p) /\ (\A k \in 1..Len(w0) : (w0 \o p)[k] = w0[k])
        /\ \A k \in 1..Len(p) : (w0 \o p)[Len(w0) + k] = p[k]
    BY <2>31, ConcatAt
  <2>4. q \in Seq(Clocks) /\ Len(q) = Len(w0) + Len(p) /\ (\A k \in 1..Len(w0) : q[k] = w0[k])
        /\ \A k \in 1..Len(p) : q[Len(w0) + k] = p[k]
    BY <2>2, <2>32
  <2>5. Len(q) = len + n /\ (\A k \in 1..len : q[k] = w0[k]) /\ \A k \in 1..n : q[len + k] = p[k]
    BY <2>1, <2>3, <2>4
  <2>6. ASSUME NEW k \in 1..(len + n)
        PROVE  /\ q[k].tms = (IF k = len + n THEN 1 ELSE 0)
               /\ q[k].tdi = (IF k <= len THEN bits[k] ELSE 0)
               /\ (q[k].rd <=> (read /\ k <= len))
    <3>1. CASE k <= len
      <4>1. k \in 1..len /\ k # len + n
        BY <1>2, <3>1
      <4>2. q[k].tms = 0 /\ q[k].tdi = bits[k] /\ (q[k].rd <=> read)
        BY <2>5, <4>1 DEF BitsOf
      <4> QED BY <3>1, <4>1, <4>2
    <3>2. CASE ~ (k <= len)
      <4>1. PICK j \in 1..n : k = len + j
        BY <3>2
      <4>2. k = len + n <=> j = n
        BY <4>1
      <4>3. q[k] = p[j]
        BY <2>5, <4>1
      <4> QED BY <2>1, <3>2, <4>2, <4>3
    <3> QED BY <3>1, <3>2
  <2> QED BY <2>4, <2>5, <2>6 DEF DataOf
<1> QED BY <1>1, <1>2

LEMMA WriteStreamIs ==
  ASSUME NEW c \in Cfgs, NEW bits \in Seq({0, 1}), NEW len \in Nat \ {0}, len <= Len(bits), SentRight(bits, len)
  PROVE  StreamOf(JtagWriteStream(c, bits, len, 1), Padded(bits, 0, len, c.drPre), 0, 0)
<1>1. PICK n \in Nat : n = c.drPre
  BY DEF Cfgs
<1> DEFINE q == JtagWriteStream(c, bits, len, 1)
           w0 == CableWriteStream(bits, len, 0)
           w1 == CableWriteStream(bits, len, 1)
           e == Padded(bits, 0, len, n)
<1>2. q = IF n = 0 THEN w1 ELSE w0 \o PrefixZeros(c)
  BY <1>1 DEF JtagWriteStream
<1>3. BitsOf(w0, bits, len, 0, FALSE) /\ BitsOf(w1, bits, len, 1, FALSE)
  BY StreamBits
<1>4. IsPadded(e, bits, 0, len, n)
  BY PaddedType
<1> HIDE DEF q, w0, w1, e
<1>5. DataOf(q, bits, len, n, FALSE)
  <2>1. FALSE \in BOOLEAN
    OBVIOUS
  <2> QED BY <1>1, <1>2, <1>3, <2>1, DataStreamIs, Zenon
<1>6. 0 + len + n = len + n /\ \A k \in 1..(len + n) : k - 0 = k /\ 0 < k /\ 0 + len = len /\ ~ (0 < k /\ k <= 0)
  OBVIOUS
<1>7. Len(e) = len + n /\ \A k \in 1..(len + n) : e[k] = IF k <= len THEN bits[k] ELSE 0
  BY <1>4, <1>6 DEF IsPadded
<1>8. StreamOf(q, e, 0, 0)
  BY <1>5, <1>6, <1>7 DEF StreamOf, DataOf
<1> QED BY <1>1, <1>8 DEF q, e

LEMMA ReadStreamIs ==
  ASSUME NEW c \in Cfgs, NEW bits \in Seq({0, 1}), NEW len \in Nat \ {0}, len <= Len(bits), SentRight(bits, len)
  PROVE  StreamOf(JtagReadWriteStream(c, bits, len, TRUE, 1), Padded(bits, c.drPost, len, c.drPre), c.drPost, c.drPost + len)
<1>1. PICK n \in Nat, a \in Nat : n = c.drPre /\ a = c.drPost
  BY DEF Cfgs
<1> DEFINE w0 == CableReadWriteStream(bits, len, 0)
           w1 == CableReadWriteStream(bits, len, 1)
           o == [k \in 1..a |-> Clk(0, 0)]
           r == IF n = 0 THEN w1 ELSE w0 \o PrefixZeros(c)
           q == o \o r
           e == Padded(bits, a, len, n)
<1>2. JtagReadWriteStream(c, bits, len, TRUE, 1) = q
  BY <1>1 DEF JtagReadWriteStream
<1>3. BitsOf(w0, bits, len, 0, TRUE) /\ BitsOf(w1, bits, len, 1, TRUE)
  BY StreamBits
<1>4. IsPadded(e, bits, a, len, n)
  BY PaddedType
<1>5. o \in Seq(Clocks) /\ Len(o) = a /\ \A k \in 1..a : o[k] = Clk(0, 0)
  <2>1. Clk(0, 0) \in Clocks
    BY ClkType
  <2> QED BY <2>1
<1> HIDE DEF w0, w1, e, o
<1>6. DataOf(r, bits, len, n, TRUE)
  <2> HIDE DEF r
  <2>1. r = IF n = 0 THEN w1 ELSE w0 \o PrefixZeros(c)
    BY DEF r
  <2>2. TRUE \in BOOLEAN
    OBVIOUS
  <2> QED BY <1>1, <1>3, <2>1, <2>2, DataStreamIs, Zenon
<1> HIDE DEF r
<1>7. q \in Seq(Clocks) /\ Len(q) = Len(o) + Len(r) /\ (\A k \in 1..Len(o) : q[k] = o[k])
      /\ \A k \in 1..Len(r) : q[Len(o) + k] = r[k]
  <2>1. o \in Seq(Clocks) /\ r \in Seq(Clocks)
    BY <1>5, <1>6 DEF DataOf
  <2> QED BY <2>1, ConcatAt
<1> HIDE DEF q
<1>8. Len(q) = a + len + n /\ (\A k \in 1..a : q[k] = Clk(0, 0)) /\ \A k \in 1..(len + n) : q[a + k] = r[k]
  <2>1. Len(o) = a /\ Len(r) = len + n /\ a + (len + n) = a + len + n
    BY <1>5, <1>6 DEF DataOf
  <2> QED BY <1>5, <1>7, <2>1
<1>9. ASSUME NEW k \in 1..(a + len + n)
      PROVE  /\ q[k].tms = (IF k = a + len + n THEN 1 ELSE 0)
             /\ q[k].tdi = e[k]
             /\ (q[k].rd <=> (a < k /\ k <= a + len))
  <2>1. CASE k <= a
    <3>1. k \in 1..a /\ k # a + len + n /\ ~ (a < k)
      BY <2>1
    <3>2. q[k] = Clk(0, 0)
      BY <1>8, <3>1
    <3>3. Clk(0, 0).tms = 0 /\ Clk(0, 0).tdi = 0 /\ ~ Clk(0, 0).rd
      BY DEF Clk
    <3> QED BY <1>4, <3>1, <3>2, <3>3 DEF IsPadded
  <2>2. CASE ~ (k <= a)
    <3>1. PICK j \in 1..(len + n) : k = a + j
      BY <2>2
    <3>2. /\ (k = a + len + n <=> j = len + n) /\ a < k /\ (k <= a + len <=> j <= len) /\ k - a = j
      BY <3>1
    <3>3. q[k] = r[j]
      BY <1>8, <3>1
    <3>4. e[k] = IF j <= len THEN bits[j] ELSE 0
      BY <1>4, <3>2 DEF IsPadded
    <3> QED BY <1>6, <3>2, <3>3, <3>4 DEF DataOf
  <2> QED BY <2>1, <2>2
<1>10. StreamOf(q, e, a, a + len)
  <2>1. PICK m : m = a + len + n
    OBVIOUS
  <2>2. Len(e) = m /\ Len(q) = m /\ q \in Seq(Clocks)
    BY <1>4, <1>7, <1>8, <2>1 DEF IsPadded
  <2>3. \A k \in 1..m : /\ q[k].tms = (IF k = m THEN 1 ELSE 0) /\ q[k].tdi = e[k]
                         /\ (q[k].rd <=> (a < k /\ k <= a + len))
    BY <1>9, <2>1
  <2> QED BY <2>2, <2>3 DEF StreamOf
<1> QED BY <1>1, <1>2, <1>10, Zenon DEF e

(***************************************************************************)
(* The words of tap_set_ir(): the instruction behind the postfix bits and  *)
(* ones around it, if it ends inside its first word.                       *)
(***************************************************************************)
LEMMA Multiples ==
  ASSUME NEW a \in Nat, NEW b \in Nat, NEW w \in Nat, a < b
  PROVE  w * a \in Nat /\ w * b \in Nat /\ (w * a) + w <= w * b
<1>1. PICK n \in Nat : b = (a + 1) + n
  <2>1. b - (a + 1) \in Nat /\ b = (a + 1) + (b - (a + 1))
    OBVIOUS
  <2> QED BY <2>1
<1>2. w * ((a + 1) + n) = ((w * a) + w) + (w * n)
  OBVIOUS
<1>3. w * a \in Nat /\ w * n \in Nat /\ w * b \in Nat
  OBVIOUS
<1>4. PICK x \in Nat, y \in Nat : x = w * a /\ y = w * n
  BY <1>3
<1>5. w * b = (x + w) + y
  BY <1>1, <1>2, <1>4
<1>6. x + w <= (x + w) + y
  OBVIOUS
<1> QED BY <1>3, <1>4, <1>5, <1>6

\* The bits of the word that has the instruction in it.
LEMMA FirstWord ==
  ASSUME NEW cmd \in Seq({0, 1}), NEW n \in Nat \ {0}, Len(cmd) = n, NEW shift \in Nat, shift + n < WordBits,
         NEW j \in 1..WordBits
  PROVE  Or(Or(Shl(Word(cmd), shift), Not(Shl(Ones, shift))), Shl(Ones, shift + n))[j]
           = IF shift < j /\ j <= shift + n THEN cmd[j - shift] ELSE 1
<1>1. WordBits \in Nat
  BY ScanAssumption
<1>2. Count(shift) = shift /\ Count(shift + n) = shift + n
  BY <1>1 DEF Count
<1> DEFINE a == Shl(Word(cmd), shift)
           b == Not(Shl(Ones, shift))
           e == Shl(Ones, shift + n)
<1>3. a[j] = IF j > shift THEN Word(cmd)[j - shift] ELSE 0
  BY <1>2 DEF Shl
<1>4. \A m \in 1..WordBits : Ones[m] = 1
  BY DEF Ones, Bits
<1>5. Shl(Ones, shift)[j] = IF j > shift THEN 1 ELSE 0
  <2>1. j > shift => j - shift \in 1..WordBits
    BY <1>1
  <2> QED BY <1>2, <1>4, <2>1 DEF Shl
<1>6. e[j] = IF j > shift + n THEN 1 ELSE 0
  <2>1. j > shift + n => j - (shift + n) \in 1..WordBits
    BY <1>1
  <2> QED BY <1>2, <1>4, <2>1 DEF Shl
<1>7. b[j] = IF j > shift THEN 0 ELSE 1
  <2>1. b[j] = 1 - Shl(Ones, shift)[j]
    BY DEF Not
  <2> QED BY <1>5, <2>1
<1> HIDE DEF a, b, e
<1>8. Or(Or(a, b), e)[j] = IF (IF a[j] + b[j] = 0 THEN 0 ELSE 1) + e[j] = 0 THEN 0 ELSE 1
  BY DEF Or
<1>9. CASE ~ (shift < j)
  <2>1. a[j] = 0 /\ b[j] = 1 /\ e[j] = 0
    BY <1>1, <1>3, <1>6, <1>7, <1>9
  <2> QED BY <1>8, <1>9, <2>1 DEF a, b, e
<1>10. CASE shift < j /\ j <= shift + n
  <2>1. PICK m \in 1..n : m = j - shift
    BY <1>1, <1>10
  <2>2. m \in 1..WordBits
    BY <1>1, <2>1
  <2>3. Word(cmd)[m] = cmd[m] /\ cmd[m] \in {0, 1}
    BY <2>2 DEF Word
  <2>4. a[j] = cmd[m] /\ b[j] = 0 /\ e[j] = 0
    BY <1>1, <1>3, <1>6, <1>7, <1>10, <2>1, <2>3
  <2>5. Or(Or(a, b), e)[j] = cmd[m]
    BY <1>8, <2>3, <2>4
  <2> QED BY <1>10, <2>1, <2>5 DEF a, b, e
<1>11. CASE shift < j /\ ~ (j <= shift + n)
  <2>1. b[j] = 0 /\ e[j] = 1 /\ a[j] = 0
    <3>1. j - shift \in 1..WordBits /\ ~ (j - shift <= n)
      BY <1>1, <1>11
    <3>2. Word(cmd)[j - shift] = 0
      BY <3>1 DEF Word
    <3> QED BY <1>1, <1>3, <1>6, <1>7, <1>11, <3>2
  <2> QED BY <1>8, <1>11, <2>1 DEF a, b, e
<1> QED BY <1>9, <1>10, <1>11

LEMMA IrChainWords ==
  ASSUME NEW c \in Cfgs, c.irSize > 0, NEW cmd \in Seq({0, 1}), Len(cmd) = c.irSize,
         (c.irPost % WordBits) + c.irSize < WordBits
  PROVE  LET size == c.irSize + c.irPre + c.irPost
             shift == c.irPost % WordBits
             q == IrChain(c, cmd)
         IN /\ q \in Seq(Seq({0, 1})) /\ Len(q) = (size \div WordBits) + 1
            /\ \A d \in 1..Len(q) :
                 /\ Len(q[d]) = WordBits
                 /\ \A j \in 1..WordBits : q[d][j] = IF d = (c.irPost \div WordBits) + 1 /\ shift < j /\ j <= shift + c.irSize
                                                     THEN cmd[j - shift] ELSE 1
<1> DEFINE size == c.irSize + c.irPre + c.irPost
           shift == c.irPost % WordBits
           offset == (c.irPost \div WordBits) + 1
           N == (size \div WordBits) + 1
           q == IrChain(c, cmd)
<1>1. c.irSize \in Nat \ {0} /\ c.irPre \in Nat /\ c.irPost \in Nat /\ WordBits \in Nat \ {0}
  BY ScanAssumption DEF Cfgs
<1>2. shift \in Nat /\ offset \in Nat
  <2>1. PICK z \in Nat : z = c.irPost
    BY <1>1
  <2>2. z \div WordBits \in Nat /\ z % WordBits \in 0..(WordBits - 1)
    BY <1>1, Division
  <2> QED BY <2>1, <2>2
<1>3. N \in Nat
  <2>1. PICK x \in Nat : x = size
    <3>1. PICK u \in Nat, v \in Nat, y \in Nat : u = c.irSize /\ v = c.irPre /\ y = c.irPost
      BY <1>1
    <3>2. u + v + y \in Nat
      OBVIOUS
    <3> QED BY <3>1, <3>2
  <2>2. x \div WordBits \in Nat
    BY <1>1, Division
  <2> HIDE DEF size
  <2> QED BY <2>1, <2>2
<1> DEFINE first == Or(Or(Shl(Word(cmd), shift), Not(Shl(Ones, shift))), Shl(Ones, shift + c.irSize))
           spill == Or(Shr(Word(cmd), WordBits - shift), Shl(Ones, c.irSize - (WordBits - shift)))
<1>4. q = [w \in 1..N |-> CASE w = offset -> first
                            [] w = offset + 1 /\ shift + c.irSize > WordBits -> spill
                            [] OTHER -> Ones]
  BY DEF IrChain
<1>5. shift + c.irSize < WordBits
  OBVIOUS
<1> HIDE DEF shift, size, N, offset
<1>6. first \in Words
  <2>1. shift + c.irSize \in Nat
    BY <1>1, <1>2
  <2>2. Word(cmd) \in Words /\ Ones \in Words
    BY WordType, OnesType
  <2>3. Shl(Word(cmd), shift) \in Words /\ Shl(Ones, shift) \in Words /\ Shl(Ones, shift + c.irSize) \in Words
    BY <1>2, <2>1, <2>2, ShlType
  <2>4. Not(Shl(Ones, shift)) \in Words
    BY <2>3, NotType
  <2>5. Or(Shl(Word(cmd), shift), Not(Shl(Ones, shift))) \in Words
    BY <2>3, <2>4, OrType
  <2> QED BY <2>3, <2>5, OrType
<1>7. ASSUME NEW j \in 1..WordBits PROVE first[j] = IF shift < j /\ j <= shift + c.irSize THEN cmd[j - shift] ELSE 1
  <2>1. PICK n \in Nat \ {0} : n = c.irSize
    BY <1>1
  <2>2. Or(Or(Shl(Word(cmd), shift), Not(Shl(Ones, shift))), Shl(Ones, shift + n))[j]
          = IF shift < j /\ j <= shift + n THEN cmd[j - shift] ELSE 1
    <3>1. Len(cmd) = n /\ shift + n < WordBits
      BY <1>5, <2>1
    <3> QED BY <1>2, <3>1, FirstWord
  <2> QED BY <2>1, <2>2
<1>8. Ones \in Words /\ \A j \in 1..WordBits : Ones[j] = 1
  BY OnesType DEF Ones, Bits
<1> HIDE DEF first, spill, q
<1>9. ASSUME NEW w \in 1..N PROVE q[w] = IF w = offset THEN first ELSE Ones
  <2>1. ~ (shift + c.irSize > WordBits)
    BY <1>1, <1>2, <1>5
  <2> QED BY <1>4, <2>1
<1>10. \A w \in 1..N : q[w] \in Seq({0, 1}) /\ Len(q[w]) = WordBits
  BY <1>6, <1>8, <1>9, WordsAre
<1>11. q \in Seq(Seq({0, 1})) /\ Len(q) = N
  BY <1>3, <1>4, <1>10
<1>12. ASSUME NEW d \in 1..N, NEW j \in 1..WordBits
       PROVE  q[d][j] = IF d = offset /\ shift < j /\ j <= shift + c.irSize THEN cmd[j - shift] ELSE 1
  BY <1>7, <1>8, <1>9
<1> QED BY <1>10, <1>11, <1>12 DEF q, N, size, shift, offset

LEMMA IrChainBits ==
  ASSUME NEW c \in Cfgs, c.irSize > 0, NEW cmd \in Seq({0, 1}), Len(cmd) = c.irSize,
         (c.irPost % WordBits) + c.irSize < WordBits,
         NEW k \in 1..(c.irSize + c.irPre + c.irPost)
  PROVE  FlattenSeq(IrChain(c, cmd))[k] = IF c.irPost < k /\ k <= c.irPost + c.irSize THEN cmd[k - c.irPost] ELSE 1
<1> DEFINE q == IrChain(c, cmd)
<1>1. PICK W \in Nat \ {0}, n \in Nat \ {0}, post \in Nat, size \in Nat :
        W = WordBits /\ n = c.irSize /\ post = c.irPost /\ size = c.irSize + c.irPre + c.irPost
  <2>1. PICK u \in Nat \ {0}, v \in Nat, y \in Nat : u = c.irSize /\ v = c.irPre /\ y = c.irPost
    BY DEF Cfgs
  <2>2. u + v + y \in Nat
    OBVIOUS
  <2> QED BY <2>1, <2>2, ScanAssumption
<1>2. PICK o \in Nat, s \in 0..(W - 1) : o = post \div W /\ s = post % W /\ post = W * o + s
  BY Division, ZenonT(60)
<1>3. PICK Q \in Nat, R \in 0..(W - 1) : Q = size \div W /\ size = W * Q + R
  BY Division, ZenonT(60)
<1>4. PICK m \in Nat : k = m + 1 /\ m < size
  <2>1. k \in 1..size
    BY <1>1
  <2>2. k - 1 \in Nat /\ k = (k - 1) + 1 /\ k - 1 < size
    BY <2>1
  <2> QED BY <2>2
<1>5. PICK d \in Nat, r \in 0..(W - 1) : m = W * d + r
  BY Division, ZenonT(60)
<1>6. /\ q \in Seq(Seq({0, 1})) /\ Len(q) = Q + 1
      /\ \A w \in 1..Len(q) : Len(q[w]) = W
  BY <1>1, <1>3, IrChainWords
<1>7. \A w \in 1..(Q + 1) : \A j \in 1..W : q[w][j] = IF w = o + 1 /\ s < j /\ j <= s + n THEN cmd[j - s] ELSE 1
  <2>1. \A w \in 1..Len(q) : \A j \in 1..WordBits :
          q[w][j] = IF w = (c.irPost \div WordBits) + 1 /\ c.irPost % WordBits < j /\ j <= (c.irPost % WordBits) + c.irSize
                    THEN cmd[j - (c.irPost % WordBits)] ELSE 1
    BY IrChainWords
  <2> HIDE DEF q
  <2> QED BY <1>1, <1>2, <1>6, <2>1
<1> HIDE DEF q
<1>8. d <= Q
  <2>1. SUFFICES ASSUME ~ (d <= Q) PROVE FALSE
    OBVIOUS
  <2>2. W * Q \in Nat /\ W * d \in Nat /\ (W * Q) + W <= W * d
    BY <2>1, Multiples
  <2> QED BY <1>3, <1>4, <1>5, <2>2
<1>9. PICK w \in 1..(Q + 1), j \in 1..W : w = d + 1 /\ w - 1 = d /\ j = r + 1
  BY <1>8
<1>10. FlattenSeq(q)[((w - 1) * W) + j] = q[w][j]
  <2>1. q \in Seq(Seq({0, 1})) /\ (\A x \in 1..Len(q) : Len(q[x]) = W) /\ W \in Nat
    BY <1>6
  <2>2. w \in 1..Len(q)
    BY <1>6
  <2>3. \A y \in 1..Len(q[w]) : FlattenSeq(q)[Before(q, w) + y] = q[w][y]
    BY <2>1, <2>2, FlattenPart
  <2>4. Before(q, w) = (w - 1) * W
    BY <2>1, <2>2, FlattenWords
  <2>5. Len(q[w]) = W
    BY <2>1, <2>2
  <2> QED BY <2>3, <2>4, <2>5
<1>11. ((w - 1) * W) + j = k
  <2>1. d * W = W * d
    OBVIOUS
  <2> QED BY <1>4, <1>5, <1>9, <2>1
<1>12. FlattenSeq(q)[k] = IF w = o + 1 /\ s < j /\ j <= s + n THEN cmd[j - s] ELSE 1
  BY <1>7, <1>10, <1>11
<1>13. s + n < W
  BY <1>1, <1>2
<1>14. PICK x \in Nat, y \in Nat : x = W * d /\ y = W * o /\ m = x + r /\ post = y + s
  <2>1. W * d \in Nat /\ W * o \in Nat
    OBVIOUS
  <2> QED BY <1>2, <1>5, <2>1
<1>15. CASE d = o
  <2>1. x = y /\ w = o + 1
    BY <1>9, <1>14, <1>15
  <2>2. k - post = j - s /\ (post < k <=> s < j) /\ (k <= post + n <=> j <= s + n)
    BY <1>4, <1>9, <1>14, <2>1
  <2> QED BY <1>1, <1>12, <2>1, <2>2 DEF q
<1>16. CASE d < o
  <2>1. x + W <= y
    BY <1>14, <1>16, Multiples
  <2>2. ~ (post < k) /\ w # o + 1
    BY <1>4, <1>9, <1>14, <1>16, <2>1
  <2> QED BY <1>1, <1>12, <2>2 DEF q
<1>17. CASE o < d
  <2>1. y + W <= x
    BY <1>14, <1>17, Multiples
  <2>2. ~ (k <= post + n) /\ w # o + 1
    BY <1>4, <1>9, <1>13, <1>14, <1>17, <2>1
  <2> QED BY <1>1, <1>12, <2>2 DEF q
<1> QED BY <1>15, <1>16, <1>17

LEMMA BeforeGrows ==
  ASSUME NEW A, NEW s \in Seq(Seq(A)), NEW d \in 1..Len(s), NEW n \in 1..(Len(s) + 1), d < n
  PROVE  Before(s, d) + Len(s[d]) <= Before(s, n)
<1> DEFINE P(k) == d + 1 + k \in 1..(Len(s) + 1) => Before(s, d + 1 + k) \in Nat /\ Before(s, d + 1) <= Before(s, d + 1 + k)
           S == {k \in Nat : P(k)}
<1>1. Before(s, d) \in Nat /\ Before(s, d + 1) = Before(s, d) + Len(s[d]) /\ Len(s[d]) \in Nat
  BY FlattenPart
<1>11. Before(s, d + 1) \in Nat
  BY <1>1
<1>2. P(0)
  <2>1. d + 1 + 0 = d + 1
    OBVIOUS
  <2> QED BY <1>1, <2>1
<1>3. ASSUME NEW k \in Nat, P(k) PROVE P(k + 1)
  <2>1. SUFFICES ASSUME d + 1 + (k + 1) \in 1..(Len(s) + 1)
                 PROVE  Before(s, d + 1 + (k + 1)) \in Nat /\ Before(s, d + 1) <= Before(s, d + 1 + (k + 1))
    OBVIOUS
  <2>2. PICK m \in 1..Len(s) : m = d + 1 + k /\ m + 1 = d + 1 + (k + 1)
    BY <2>1
  <2>3. Before(s, m) \in Nat /\ Before(s, m + 1) = Before(s, m) + Len(s[m]) /\ Len(s[m]) \in Nat
    BY FlattenPart
  <2>4. Before(s, d + 1) <= Before(s, m)
    BY <1>3, <2>2
  <2>5. Before(s, d + 1) <= Before(s, m + 1) /\ Before(s, m + 1) \in Nat
    <3>1. PICK x \in Nat, y \in Nat, n0 \in Nat : x = Before(s, d + 1) /\ y = Before(s, m) /\ n0 = Len(s[m])
      BY <1>11, <2>3
    <3>2. x <= y /\ Before(s, m + 1) = y + n0
      BY <2>3, <2>4, <3>1
    <3>3. x <= y + n0 /\ y + n0 \in Nat
      BY <3>2
    <3> QED BY <3>1, <3>2, <3>3
  <2> QED BY <2>2, <2>5
<1> HIDE DEF P
<1>4. 0 \in S /\ \A k \in Nat : k \in S => k + 1 \in S
  BY <1>2, <1>3
<1>5. \A k \in Nat : k \in S
  <2> HIDE DEF S
  <2> QED BY <1>4, SetInduction
<1>6. PICK k \in Nat : n = d + 1 + k
  <2>1. n - (d + 1) \in Nat /\ n = d + 1 + (n - (d + 1))
    OBVIOUS
  <2> QED BY <2>1
<1>7. P(k)
  BY <1>5
<1>8. Before(s, d + 1) <= Before(s, n)
  BY <1>6, <1>7 DEF P
<1> QED BY <1>1, <1>8

(***************************************************************************)
(* The configuration fits the chain when the bits it counts before and     *)
(* behind device T, and T's own, are the chain's.                          *)
(***************************************************************************)
Around(z, c, T) ==
  /\ c.irSize = z.chain[T].irlen /\ c.irPost = Before(IrRegs(z), T)
  /\ c.irSize + c.irPre + c.irPost = Len(FlattenSeq(IrRegs(z)))
  /\ c.drPost = T - 1 /\ c.drPre = Len(z.chain) - T
  /\ (c.irPost % WordBits) + c.irSize < WordBits

\* Device T has the instruction cmd, the others BYPASS.
Picked(z, T, cmd) == [d \in DOMAIN z.chain |-> IF d = T THEN cmd ELSE Bits(z.chain[d].irlen, 1)]

LEMMA IrRegsType ==
  ASSUME sc \in Scenarios
  PROVE  /\ IrRegs(sc) \in Seq(Seq({0, 1})) /\ FlattenSeq(IrRegs(sc)) \in Seq({0, 1}) /\ FlattenSeq(IrRegs(sc)) # << >>
         /\ Len(IrRegs(sc)) = Len(sc.chain)
         /\ \A d \in 1..Len(sc.chain) : Len(IrRegs(sc)[d]) = sc.chain[d].irlen /\ sc.chain[d].irlen \in Nat \ {0}
         /\ DOMAIN sc.chain = 1..Len(sc.chain) /\ Len(sc.chain) \in Nat \ {0}
<1>1. IrCapture = IrRegs(sc) /\ Devices = DOMAIN sc.chain
  BY CapturesAre
<1>2. Devices = 1..Len(sc.chain) /\ Len(sc.chain) \in Nat \ {0}
  BY ChainNonempty
<1>3. \A d \in Devices : sc.chain[d].irlen \in Nat \ {0}
  BY ChipFacts
<1>4. /\ IrCapture \in Seq(Seq({0, 1})) /\ FlattenSeq(IrCapture) \in Seq({0, 1}) /\ FlattenSeq(IrCapture) # << >>
      /\ Len(IrCapture) = Len(sc.chain) /\ \A d \in Devices : Len(IrCapture[d]) = sc.chain[d].irlen
  BY CaptureIrType
<1> QED BY <1>1, <1>2, <1>3, <1>4

IsPart(g, s, m, n) == g \in Seq({0, 1}) /\ Len(g) = n /\ \A j \in 1..n : g[j] = s[m + j]

LEMMA PartFits ==
  ASSUME NEW s \in Seq({0, 1}), NEW m \in Nat, NEW n \in Nat, m + n <= Len(s)
  PROVE  IsPart(SubSeq(s, m + 1, m + n), s, m, n)
BY PartIs DEF IsPart

LEMMA WindowFits ==
  ASSUME NEW f \in [Places -> {0, 1}], NEW m \in Nat, NEW n \in Nat
  PROVE  IsPart(Window(f, m, n), f, m, n)
<1>1. Window(f, m, n) \in Seq({0, 1}) /\ Len(Window(f, m, n)) = n
  BY WindowType
<1>2. \A j \in 1..n : Window(f, m, n)[j] = f[m + j]
  BY DEF Window
<1> QED BY <1>1, <1>2 DEF IsPart

\* What every device takes over when the path holds these bits.
LEMMA TakenIs ==
  ASSUME sc \in Scenarios, NEW T \in Devices, NEW c \in Cfgs, Around(sc, c, T), NEW cmd \in Seq({0, 1}), Len(cmd) = sc.chain[T].irlen,
         NEW w \in Seq({0, 1}), Len(w) = Len(FlattenSeq(IrRegs(sc))),
         \A k \in 1..Len(w) : w[k] = IF c.irPost < k /\ k <= c.irPost + c.irSize THEN cmd[k - c.irPost] ELSE 1
  PROVE  Taken(sc, w) = Picked(sc, T, cmd)
<1> DEFINE r == IrRegs(sc)
<1>1. /\ r \in Seq(Seq({0, 1})) /\ Len(r) = Len(sc.chain) /\ DOMAIN sc.chain = 1..Len(r) /\ Len(sc.chain) \in Nat
      /\ \A d \in 1..Len(r) : Len(r[d]) = sc.chain[d].irlen /\ sc.chain[d].irlen \in Nat \ {0}
  BY IrRegsType
<1>2. T \in 1..Len(r)
  BY <1>1 DEF Devices
<1>3. Len(w) = Len(FlattenSeq(r)) /\ Segment(w, T, r) = Segment(w, T, r)
  OBVIOUS
<1> HIDE DEF r
<1>4. ASSUME NEW d \in 1..Len(r) PROVE Segment(w, d, r) = IF d = T THEN cmd ELSE Bits(sc.chain[d].irlen, 1)
  <2>1. PICK b \in Nat, n \in Nat \ {0}, q \in Nat, m \in Nat \ {0} :
          b = Before(r, d) /\ n = Len(r[d]) /\ q = Before(r, T) /\ m = Len(r[T]) /\ n = sc.chain[d].irlen /\ m = sc.chain[T].irlen
    <3>1. Before(r, d) \in Nat /\ Before(r, T) \in Nat
      BY <1>1, <1>2, FlattenPart
    <3> QED BY <1>1, <1>2, <3>1
  <2>2. b + n <= Len(w)
    <3>1. Before(r, d) + Len(r[d]) <= Len(FlattenSeq(r))
      BY <1>1, FlattenPart
    <3> QED BY <1>3, <2>1, <3>1
  <2>3. q = c.irPost /\ m = c.irSize
    BY <2>1 DEF Around, r
  <2>4. \A k \in 1..Len(w) : w[k] = IF q < k /\ k <= q + m THEN cmd[k - q] ELSE 1
    BY <2>3
  <2>5. Segment(w, d, r) = SubSeq(w, b + 1, b + n)
    BY <2>1 DEF Segment
  <2>6. IsPart(SubSeq(w, b + 1, b + n), w, b, n)
    BY <2>2, PartFits
  <2> DEFINE g == SubSeq(w, b + 1, b + n)
  <2> HIDE DEF g
  <2>7. g \in Seq({0, 1}) /\ Len(g) = n /\ \A j \in 1..n : g[j] = w[b + j] /\ b + j \in 1..Len(w)
    BY <2>2, <2>6 DEF g, IsPart
  <2>8. CASE d = T
    <3>1. b = q /\ n = m /\ Len(cmd) = n
      BY <2>1, <2>8
    <3>2. ASSUME NEW j \in 1..n PROVE g[j] = cmd[j]
      <4>1. q < b + j /\ b + j <= q + m /\ (b + j) - q = j /\ b + j \in 1..Len(w)
        BY <2>7, <3>1
      <4> QED BY <2>4, <2>7, <4>1
    <3>3. g = cmd
      BY <2>7, <3>1, <3>2, SeqEqual
    <3> QED BY <2>5, <2>8, <3>3 DEF g
  <2>9. CASE d # T
    <3>1. d < T \/ T < d
      BY <1>1, <1>2, <2>9
    <3>2. \A j \in 1..n : ~ (q < b + j /\ b + j <= q + m)
      <4>1. CASE d < T
        <5>1. T \in 1..(Len(r) + 1)
          BY <1>1, <1>2
        <5>2. b + n <= q
          BY <1>1, <2>1, <4>1, <5>1, BeforeGrows
        <5> QED BY <5>2
      <4>2. CASE T < d
        <5>1. d \in 1..(Len(r) + 1)
          BY <1>1
        <5>2. q + m <= b
          BY <1>1, <1>2, <2>1, <4>2, <5>1, BeforeGrows
        <5> QED BY <5>2
      <4> QED BY <3>1, <4>1, <4>2
    <3>3. ASSUME NEW j \in 1..n PROVE g[j] = 1
      BY <2>4, <2>7, <3>2
    <3>4. g = [j \in 1..n |-> 1]
      BY <2>7, <3>3
    <3> QED BY <2>1, <2>5, <2>9, <3>4 DEF g, Bits
  <2> QED BY <2>8, <2>9
<1> QED BY <1>1, <1>4 DEF Taken, Picked, r

LEMMA WalksType == /\ TapSetShiftDr \in Seq(Clocks) /\ TapExitToIdle \in Seq(Clocks)
                   /\ <<Clk(1, 0), Clk(1, 0), Clk(0, 0), Clk(0, 0)>> \in Seq(Clocks)
<1>1. Clk(0, 0) \in Clocks /\ Clk(1, 0) \in Clocks
  BY ClkType
<1> QED BY <1>1 DEF TapSetShiftDr, TapExitToIdle

\* tap_set_ir(): device T gets the instruction, the others are bypassed.
LEMMA TapSetIrDoes ==
  ASSUME sc \in Scenarios, NEW T \in Devices, NEW c \in Cfgs, Around(sc, c, T), Sound(Len(FlattenSeq(IrRegs(sc)))),
         NEW cmd \in Seq({0, 1}), Len(cmd) = sc.chain[T].irlen, NEW p, NEW x, NEW y
  PROVE  \E w : Leads(sc, State("IDLE", p, x, y, << >>), TapSetIr(c, cmd), State("IDLE", w, Picked(sc, T, cmd), y, << >>))
<1> DEFINE bits == FlattenSeq(IrChain(c, cmd))
           f == FlattenSeq(IrRegs(sc))
           a == <<Clk(1, 0), Clk(1, 0), Clk(0, 0), Clk(0, 0)>>
<1>1. PICK L \in Nat \ {0} : L = Len(f)
  BY IrRegsType
<1>2. c.irSize + c.irPre + c.irPost = L /\ c.irSize > 0 /\ Len(cmd) = c.irSize
  <2>1. T \in 1..Len(sc.chain)
    BY ChainNonempty
  <2>2. sc.chain[T].irlen \in Nat \ {0}
    BY <2>1, IrRegsType
  <2> QED BY <1>1, <2>2 DEF Around
<1>3. bits \in Seq({0, 1}) /\ L <= Len(bits)
  BY <1>2, IrChainType
<1>4. \A k \in 1..L : bits[k] = IF c.irPost < k /\ k <= c.irPost + c.irSize THEN cmd[k - c.irPost] ELSE 1
  <2>1. (c.irPost % WordBits) + c.irSize < WordBits
    BY DEF Around
  <2>2. \A k \in 1..(c.irSize + c.irPre + c.irPost) :
          bits[k] = IF c.irPost < k /\ k <= c.irPost + c.irSize THEN cmd[k - c.irPost] ELSE 1
    BY <1>2, <2>1, IrChainBits
  <2> QED BY <1>2, <2>2
<1>5. f \in Seq({0, 1}) /\ f # << >>
  BY IrRegsType
<1> DEFINE q == CableWriteStream(bits, L, 1)
           e == Padded(bits, 0, L, 0)
           w == Window(Wire(f, e), L, L)
<1>6. TapSetIr(c, cmd) = (a \o q) \o TapExitToIdle
  BY <1>2 DEF TapSetIr
<1>7. Sound(L)
  BY <1>1
<1> HIDE DEF bits, f
<1>8. StreamOf(q, e, 0, 0) /\ IsPadded(e, bits, 0, L, 0)
  <2>1. SentRight(bits, L)
    BY <1>3, <1>7, LastBitIs
  <2> QED BY <1>3, <2>1, IrStreamIs, PaddedType
<1> HIDE DEF q, e
<1>9. e \in Seq({0, 1}) /\ Len(e) = L /\ e # << >> /\ \A k \in 1..L : e[k] = bits[k]
  <2>1. 0 + L + 0 = L /\ \A k \in 1..L : k - 0 = k /\ 0 < k /\ k <= 0 + L
    OBVIOUS
  <2>2. e \in Seq({0, 1}) /\ Len(e) = L /\ \A k \in 1..L : e[k] = bits[k]
    BY <1>8, <2>1 DEF IsPadded
  <2> QED BY <2>2
<1>10. Leads(sc, State("SHIFT_IR", f, x, y, << >>), q, State("EXIT1_IR", w, x, y, << >>))
  <2>1. NextTapState("SHIFT_IR", 1) = "EXIT1_IR"
    BY DEF NextTapState
  <2>2. Leads(sc, State("SHIFT_IR", f, x, y, << >>), q,
              State("EXIT1_IR", Window(Wire(f, e), Len(e), Len(f)), x, y, Window(Wire(f, e), 0, 0 - 0)))
    <3>1. 0 \in Nat /\ 0 <= 0 /\ 0 <= Len(e) /\ "SHIFT_IR" \in {"SHIFT_DR", "SHIFT_IR"}
      BY <1>9
    <3> QED BY <1>5, <1>8, <1>9, <2>1, <3>1, ScanDoes
  <2>3. Window(Wire(f, e), 0, 0) = << >> /\ 0 - 0 = 0
    BY NoWindow
  <2> QED BY <1>1, <1>9, <2>2, <2>3
<1>11. w \in Seq({0, 1}) /\ Len(w) = L /\ \A k \in 1..L : w[k] = e[k]
  <2>1. Wire(f, e) \in [Places -> {0, 1}] /\ \A k \in 1..Len(e) : Wire(f, e)[Len(f) + k] = e[k]
    BY <1>5, <1>9, WireIs
  <2>2. w \in Seq({0, 1}) /\ Len(w) = L
    BY <2>1, WindowType
  <2>3. \A k \in 1..L : w[k] = Wire(f, e)[L + k]
    BY DEF Window
  <2> QED BY <1>1, <1>9, <2>1, <2>2, <2>3
<1> HIDE DEF w
<1>12. Taken(sc, w) = Picked(sc, T, cmd)
  <2>1. \A k \in 1..Len(w) : w[k] = IF c.irPost < k /\ k <= c.irPost + c.irSize THEN cmd[k - c.irPost] ELSE 1
    BY <1>4, <1>9, <1>11
  <2>2. Len(w) = Len(FlattenSeq(IrRegs(sc)))
    BY <1>1, <1>11 DEF f
  <2> QED BY <1>11, <2>1, <2>2, TakenIs
<1> DEFINE s0 == State("IDLE", p, x, y, << >>)
           s1 == State("SHIFT_IR", f, x, y, << >>)
           s2 == State("EXIT1_IR", w, x, y, << >>)
           s3 == State("IDLE", w, Picked(sc, T, cmd), y, << >>)
<1>13. Leads(sc, s0, a, s1)
  BY WalkToShiftIr DEF f
<1>14. Leads(sc, s2, TapExitToIdle, s3)
  BY <1>12, WalkToIdle
<1>15. a \in Seq(Clocks) /\ TapExitToIdle \in Seq(Clocks) /\ q \in Seq(Clocks)
  BY <1>8, WalksType DEF StreamOf
<1>16. Leads(sc, s1, q, s2)
  BY <1>10
<1> HIDE DEF a, s0, s1, s2, s3
<1>17. Leads(sc, s0, a \o q, s2) /\ a \o q \in Seq(Clocks)
  BY <1>13, <1>15, <1>16, LeadsConcat
<1>18. Leads(sc, s0, (a \o q) \o TapExitToIdle, s3)
  BY <1>14, <1>15, <1>17, LeadsConcat
<1> QED BY <1>6, <1>18 DEF s0, s3

(***************************************************************************)
(* Data scans.  With one instruction that is not BYPASS, the path holds    *)
(* one bit of every other device around the register R of device T.        *)
(***************************************************************************)
Single(z, T, R) == [d \in DOMAIN z.chain |-> IF d = T THEN R ELSE <<0>>]

LEMMA SingleFacts ==
  ASSUME sc \in Scenarios, NEW T \in Devices, NEW R \in Seq({0, 1}), R # << >>
  PROVE  LET s == Single(sc, T, R)
             f == FlattenSeq(s)
         IN /\ s \in Seq(Seq({0, 1})) /\ Len(s) = Len(sc.chain) /\ T \in 1..Len(s) /\ s[T] = R
            /\ f \in Seq({0, 1}) /\ f # << >>
            /\ Before(s, T) = T - 1
            /\ Len(f) = (T - 1) + Len(R) + (Len(sc.chain) - T)
            /\ \A j \in 1..Len(R) : f[(T - 1) + j] = R[j]
<1> DEFINE s == Single(sc, T, R)
           f == FlattenSeq(s)
<1>1. PICK n \in Nat \ {0} : n = Len(sc.chain) /\ DOMAIN sc.chain = 1..n /\ Devices = 1..n
  BY ChainNonempty DEF Devices
<1>2. T \in 1..n
  BY <1>1
<1>3. s \in [1..n -> Seq({0, 1})] /\ (\A d \in 1..n : s[d] # << >>) /\ \A d \in 1..n : s[d] = IF d = T THEN R ELSE <<0>>
  <2>1. <<0>> \in Seq({0, 1}) /\ <<0>> # << >>
    OBVIOUS
  <2> QED BY <1>1, <2>1 DEF Single
<1> HIDE DEF s
<1>4. s \in Seq(Seq({0, 1})) /\ f \in Seq({0, 1}) /\ f # << >>
  BY <1>3, PathType
<1>5. Len(s) = n /\ s[T] = R
  BY <1>2, <1>3
<1>6. PICK m \in Nat \ {0} : m = Len(R)
  OBVIOUS
<1> DEFINE P(k) == k + 1 \in 1..(n + 1) => Before(s, k + 1) = IF k + 1 <= T THEN k ELSE (k - 1) + m
           S == {k \in Nat : P(k)}
<1>7. P(0)
  <2>1. Before(s, 1) = 0
    BY <1>4, BeforeEnds
  <2>2. 0 + 1 = 1 /\ 1 <= T
    BY <1>2
  <2> QED BY <2>1, <2>2
<1>8. ASSUME NEW k \in Nat, P(k) PROVE P(k + 1)
  <2>1. SUFFICES ASSUME (k + 1) + 1 \in 1..(n + 1)
                 PROVE  Before(s, (k + 1) + 1) = IF (k + 1) + 1 <= T THEN k + 1 ELSE ((k + 1) - 1) + m
    OBVIOUS
  <2>2. PICK d \in 1..n : d = k + 1 /\ d \in 1..(n + 1)
    BY <2>1
  <2>3. Before(s, d + 1) = Before(s, d) + Len(s[d])
    <3>1. d \in 1..Len(s)
      BY <1>5
    <3> QED BY <1>4, <3>1, FlattenPart
  <2>4. Len(s[d]) = IF d = T THEN m ELSE 1
    <3>1. Len(<<0>>) = 1
      OBVIOUS
    <3> QED BY <1>3, <1>6, <3>1
  <2>5. Before(s, d) = IF d <= T THEN k ELSE (k - 1) + m
    BY <1>8, <2>2
  <2> QED BY <1>2, <2>2, <2>3, <2>4, <2>5
<1> HIDE DEF P
<1>9. 0 \in S /\ \A k \in Nat : k \in S => k + 1 \in S
  BY <1>7, <1>8
<1>10. \A k \in Nat : k \in S
  <2> HIDE DEF S
  <2> QED BY <1>9, SetInduction
<1>11. \A k \in Nat : P(k)
  BY <1>10
<1>12. Before(s, T) = T - 1
  <2>1. PICK k \in Nat : k = T - 1 /\ k + 1 = T /\ k + 1 \in 1..(n + 1)
    BY <1>2
  <2> QED BY <1>2, <1>11, <2>1 DEF P
<1>13. Len(f) = (n - 1) + m
  <2>1. Before(s, n + 1) = (n - 1) + m
    <3>1. n + 1 \in 1..(n + 1) /\ ~ (n + 1 <= T)
      BY <1>2
    <3>2. P(n)
      BY <1>11
    <3> QED BY <3>1, <3>2 DEF P
  <2>2. Before(s, Len(s) + 1) = Len(f)
    BY <1>4, BeforeEnds
  <2> QED BY <1>5, <2>1, <2>2
<1>14. (n - 1) + m = (T - 1) + m + (n - T)
  BY <1>2
<1>15. \A j \in 1..Len(s[T]) : f[Before(s, T) + j] = s[T][j]
  <2>1. T \in 1..Len(s)
    BY <1>2, <1>5
  <2> QED BY <1>4, <2>1, FlattenPart
<1>16. \A j \in 1..Len(R) : f[(T - 1) + j] = R[j]
  BY <1>5, <1>12, <1>15
<1> HIDE DEF f
<1>17. T \in 1..Len(s) /\ Len(s) = Len(sc.chain) /\ Len(f) = (T - 1) + Len(R) + (Len(sc.chain) - T)
  BY <1>1, <1>2, <1>5, <1>6, <1>13, <1>14
<1> QED BY <1>4, <1>5, <1>12, <1>16, <1>17 DEF s, f

\* A data scan with the clocks q: to SHIFT_DR, the clocks, and back to IDLE.
Scans(z, s, q, t) ==
  \E u, v : Leads(z, s, TapSetShiftDr, u) /\ Leads(z, u, q, v) /\ Leads(z, v, TapExitToIdle, t)

LEMMA DrScanDoes ==
  ASSUME sc \in Scenarios, NEW T \in Devices, NEW R \in Seq({0, 1}), R # << >>, NEW x, DrRegs(sc, x) = Single(sc, T, R),
         NEW e \in Seq({0, 1}), e # << >>, NEW a \in Nat, NEW b \in Nat, a <= b, b <= Len(e), NEW q, StreamOf(q, e, a, b),
         NEW bits \in Seq({0, 1}), Len(bits) = Len(R),
         \A j \in 1..Len(R) : Wire(FlattenSeq(Single(sc, T, R)), e)[(Len(e) + (T - 1)) + j] = bits[j],
         NEW p, NEW y
  PROVE  \E w : /\ Segment(w, T, DrRegs(sc, x)) = bits
                /\ Scans(sc, State("IDLE", p, x, y, << >>), q,
                         State("IDLE", w, x, LatchStep(sc, w, x, y, "UPDATE_DR"),
                               Window(Wire(FlattenSeq(Single(sc, T, R)), e), a, b - a)))
<1> DEFINE s == Single(sc, T, R)
           f == FlattenSeq(s)
           w == Window(Wire(f, e), Len(e), Len(f))
           g == Window(Wire(f, e), a, b - a)
<1>1. /\ f \in Seq({0, 1}) /\ f # << >> /\ s[T] = R /\ Before(s, T) = T - 1
      /\ Len(f) = (T - 1) + Len(R) + (Len(sc.chain) - T)
  BY SingleFacts
<1>2. PICK m \in Nat, n \in Nat \ {0}, o \in Nat, N \in Nat \ {0} :
        m = T - 1 /\ n = Len(R) /\ o = Len(sc.chain) - T /\ N = Len(e) /\ Len(f) = m + n + o
  <2>1. T \in 1..Len(sc.chain) /\ Len(sc.chain) \in Nat
    BY ChainNonempty
  <2>2. T - 1 \in Nat /\ Len(sc.chain) - T \in Nat
    BY <2>1
  <2>3. Len(R) \in Nat \ {0} /\ Len(e) \in Nat \ {0}
    OBVIOUS
  <2> HIDE DEF f
  <2> QED BY <1>1, <2>2, <2>3
<1> HIDE DEF s, f
<1>21. PICK M \in Nat : M = Len(f) /\ M = m + n + o
  BY <1>2
<1>3. Leads(sc, State("SHIFT_DR", f, x, y, << >>), q, State("EXIT1_DR", w, x, y, g))
  <2>1. NextTapState("SHIFT_DR", 1) = "EXIT1_DR"
    BY DEF NextTapState
  <2> QED BY <1>1, <2>1, ScanDoes
<1>4. Leads(sc, State("IDLE", p, x, y, << >>), TapSetShiftDr, State("SHIFT_DR", f, x, y, << >>))
  <2>1. f = FlattenSeq(DrRegs(sc, x))
    BY DEF f, s
  <2> QED BY <2>1, WalkToShiftDr
<1>5. Leads(sc, State("EXIT1_DR", w, x, y, g), TapExitToIdle, State("IDLE", w, x, LatchStep(sc, w, x, y, "UPDATE_DR"), g))
  BY WalkToIdle
<1>6. w \in Seq({0, 1}) /\ Len(w) = Len(f)
  <2>1. Wire(f, e) \in [Places -> {0, 1}]
    BY <1>1, WireIs
  <2>2. Window(Wire(f, e), N, M) \in Seq({0, 1}) /\ Len(Window(Wire(f, e), N, M)) = M
    <3>1. IsPart(Window(Wire(f, e), N, M), Wire(f, e), N, M)
      BY <2>1, WindowFits
    <3> QED BY <3>1 DEF IsPart
  <2> QED BY <1>2, <1>21, <2>2
<1>7. \A k \in 1..Len(f) : w[k] = Wire(f, e)[N + k]
  BY <1>2 DEF Window
<1> HIDE DEF w
<1>8. IsPart(SubSeq(w, m + 1, m + n), w, m, n)
  <2>1. m + n <= Len(w)
    BY <1>2, <1>6, SMTT(30)
  <2> QED BY <1>6, <2>1, PartFits
<1>9. Segment(w, T, s) = SubSeq(w, m + 1, m + n)
  BY <1>1, <1>2 DEF Segment
<1>10. ASSUME NEW j \in 1..n PROVE SubSeq(w, m + 1, m + n)[j] = bits[j]
  <2>1. m + j \in 1..M /\ N + (m + j) = (N + m) + j
    BY <1>21
  <2>2. Wire(f, e)[(N + m) + j] = bits[j]
    BY <1>2 DEF f, s
  <2>3. w[m + j] = bits[j]
    BY <1>7, <1>21, <2>1, <2>2
  <2> QED BY <1>8, <2>3 DEF IsPart
<1>11. SubSeq(w, m + 1, m + n) = bits
  <2> DEFINE t == SubSeq(w, m + 1, m + n)
  <2>1. t \in Seq({0, 1}) /\ Len(t) = n /\ \A j \in 1..n : t[j] = bits[j]
    BY <1>8, <1>10 DEF IsPart
  <2>2. Len(bits) = n
    BY <1>2
  <2> HIDE DEF t
  <2>3. t = bits
    BY <2>1, <2>2, SeqEqual
  <2> QED BY <2>3 DEF t
<1>12. Segment(w, T, DrRegs(sc, x)) = bits
  BY <1>9, <1>11 DEF s
<1>13. Scans(sc, State("IDLE", p, x, y, << >>), q, State("IDLE", w, x, LatchStep(sc, w, x, y, "UPDATE_DR"), g))
  BY <1>3, <1>4, <1>5 DEF Scans
<1> QED BY <1>12, <1>13 DEF f, s

\* The scan with the clocks q ends with the bits in the register of T and g read.
Takes(T, p, x, y, bits, q, g) ==
  \E w : /\ Segment(w, T, DrRegs(sc, x)) = bits
         /\ Scans(sc, State("IDLE", p, x, y, << >>), q, State("IDLE", w, x, LatchStep(sc, w, x, y, "UPDATE_DR"), g))

\* jtag_write_stream(): the register of T takes over the bits.
LEMMA DrWriteDoes ==
  ASSUME sc \in Scenarios, NEW T \in Devices, NEW c \in Cfgs, Around(sc, c, T),
         NEW R \in Seq({0, 1}), R # << >>, NEW x, DrRegs(sc, x) = Single(sc, T, R),
         NEW bits \in Seq({0, 1}), NEW len \in Nat \ {0}, Len(bits) = len, Len(R) = len, SentRight(bits, len), NEW p, NEW y
  PROVE  Takes(T, p, x, y, bits, JtagWriteStream(c, bits, len, 1), << >>)
<1>1. PICK m \in Nat, n \in Nat : m = T - 1 /\ n = c.drPre /\ n = Len(sc.chain) - T
  <2>1. c.drPre \in Nat /\ c.drPre = Len(sc.chain) - T
    BY DEF Cfgs, Around
  <2>2. T - 1 \in Nat
    BY ChainNonempty
  <2> QED BY <2>1, <2>2
<1> DEFINE f == FlattenSeq(Single(sc, T, R))
           e == Padded(bits, 0, len, n)
           q == JtagWriteStream(c, bits, len, 1)
<1>2. f \in Seq({0, 1}) /\ Len(f) = m + len + n
  BY <1>1, SingleFacts
<1>3. len <= Len(bits) /\ len + n \in Nat \ {0}
  OBVIOUS
<1>4. StreamOf(q, e, 0, 0) /\ IsPadded(e, bits, 0, len, n)
  BY <1>1, <1>3, WriteStreamIs, PaddedType
<1> HIDE DEF f, e, q
<1>5. e \in Seq({0, 1}) /\ Len(e) = len + n /\ \A j \in 1..len : e[j] = bits[j]
  <2>1. 0 + len + n = len + n /\ \A j \in 1..len : j \in 1..(len + n) /\ 0 < j /\ j <= 0 + len /\ j - 0 = j
    OBVIOUS
  <2> QED BY <1>4, <2>1 DEF IsPadded
<1>6. \A k \in 1..Len(e) : Wire(f, e)[Len(f) + k] = e[k]
  BY <1>2, <1>5, WireIs
<1>7. ASSUME NEW j \in 1..Len(R) PROVE Wire(f, e)[(Len(e) + (T - 1)) + j] = bits[j]
  <2>1. PICK l \in Nat, N \in Nat : l = Len(e) /\ N = Len(f) /\ l = len + n /\ N = m + len + n
    BY <1>2, <1>5
  <2>2. j \in 1..len /\ j \in 1..l /\ (l + m) + j = N + j
    BY <2>1
  <2> QED BY <1>1, <1>5, <1>6, <2>1, <2>2
<1>8. e # << >> /\ 0 <= Len(e) /\ 0 \in Nat /\ 0 <= 0
  <2>1. PICK l \in Nat : l = Len(e) /\ l # 0
    BY <1>3, <1>5
  <2> QED BY <2>1
<1>9. \E w : /\ Segment(w, T, DrRegs(sc, x)) = bits
             /\ Scans(sc, State("IDLE", p, x, y, << >>), q,
                      State("IDLE", w, x, LatchStep(sc, w, x, y, "UPDATE_DR"), Window(Wire(f, e), 0, 0 - 0)))
  BY <1>4, <1>5, <1>7, <1>8, DrScanDoes DEF f
<1>10. Window(Wire(f, e), 0, 0 - 0) = << >>
  <2>1. 0 - 0 = 0
    OBVIOUS
  <2> QED BY <2>1, NoWindow
<1> QED BY <1>9, <1>10 DEF q, Takes

\* jtag_read_write_stream(): what comes back is what the register had.
LEMMA DrReadDoes ==
  ASSUME sc \in Scenarios, NEW T \in Devices, NEW c \in Cfgs, Around(sc, c, T),
         NEW R \in Seq({0, 1}), R # << >>, NEW x, DrRegs(sc, x) = Single(sc, T, R),
         NEW bits \in Seq({0, 1}), NEW len \in Nat \ {0}, Len(bits) = len, Len(R) = len, SentRight(bits, len), NEW p, NEW y
  PROVE  Takes(T, p, x, y, bits, JtagReadWriteStream(c, bits, len, TRUE, 1), R)
<1>1. PICK m \in Nat, n \in Nat : m = T - 1 /\ m = c.drPost /\ n = c.drPre /\ n = Len(sc.chain) - T
  <2>1. c.drPre \in Nat /\ c.drPre = Len(sc.chain) - T /\ c.drPost = T - 1
    BY DEF Cfgs, Around
  <2>2. T - 1 \in Nat
    BY ChainNonempty
  <2> QED BY <2>1, <2>2
<1> DEFINE f == FlattenSeq(Single(sc, T, R))
           e == Padded(bits, m, len, n)
           q == JtagReadWriteStream(c, bits, len, TRUE, 1)
           g == Window(Wire(f, e), m, (m + len) - m)
<1>2. f \in Seq({0, 1}) /\ Len(f) = m + len + n /\ \A j \in 1..len : f[m + j] = R[j]
  <2>1. /\ f \in Seq({0, 1}) /\ Len(f) = (T - 1) + Len(R) + (Len(sc.chain) - T)
        /\ \A j \in 1..Len(R) : f[(T - 1) + j] = R[j]
    BY SingleFacts
  <2> HIDE DEF f
  <2> QED BY <1>1, <2>1
<1>3. len <= Len(bits) /\ m + len + n \in Nat \ {0}
  OBVIOUS
<1>4. StreamOf(q, e, m, m + len) /\ IsPadded(e, bits, m, len, n)
  BY <1>1, <1>3, ReadStreamIs, PaddedType
<1> HIDE DEF f, e, q
<1>5. e \in Seq({0, 1}) /\ Len(e) = m + len + n /\ \A j \in 1..len : e[m + j] = bits[j]
  <2>1. \A j \in 1..len : m + j \in 1..(m + len + n) /\ m < m + j /\ m + j <= m + len /\ (m + j) - m = j
    OBVIOUS
  <2> QED BY <1>4, <2>1 DEF IsPadded
<1>6. /\ Wire(f, e) \in [Places -> {0, 1}]
      /\ \A k \in 1..Len(f) : Wire(f, e)[k] = f[k]
      /\ \A k \in 1..Len(e) : Wire(f, e)[Len(f) + k] = e[k]
  BY <1>2, <1>5, WireIs
<1>61. PICK N \in Nat : N = Len(e) /\ N = Len(f) /\ N = m + len + n
  BY <1>2, <1>5
<1>7. ASSUME NEW j \in 1..Len(R) PROVE Wire(f, e)[(Len(e) + (T - 1)) + j] = bits[j]
  <2>1. j \in 1..len /\ m + j \in 1..N /\ (N + m) + j = N + (m + j)
    BY <1>61
  <2>2. Wire(f, e)[N + (m + j)] = e[m + j]
    BY <1>6, <1>61, <2>1
  <2> QED BY <1>1, <1>5, <1>61, <2>1, <2>2
<1>8. e # << >> /\ m <= m + len /\ m + len <= Len(e) /\ m + len \in Nat
  <2>1. N # 0 /\ m + len <= N /\ m <= m + len /\ m + len \in Nat
    BY <1>61
  <2>2. Len(e) # 0
    BY <1>61, <2>1
  <2>3. e # << >>
    BY <2>2
  <2> QED BY <1>61, <2>1, <2>3
<1>9. \E w : /\ Segment(w, T, DrRegs(sc, x)) = bits
             /\ Scans(sc, State("IDLE", p, x, y, << >>), q, State("IDLE", w, x, LatchStep(sc, w, x, y, "UPDATE_DR"), g))
  BY <1>4, <1>5, <1>7, <1>8, DrScanDoes DEF f
<1>10. g = R
  <2>1. (m + len) - m = len
    OBVIOUS
  <2>2. IsPart(Window(Wire(f, e), m, len), Wire(f, e), m, len)
    BY <1>6, WindowFits
  <2>3. g \in Seq({0, 1}) /\ Len(g) = len /\ \A j \in 1..len : g[j] = Wire(f, e)[m + j]
    BY <2>1, <2>2 DEF IsPart
  <2> HIDE DEF g
  <2>4. ASSUME NEW j \in 1..len PROVE g[j] = R[j]
    <3>1. m + j \in 1..N
      BY <1>61
    <3>2. Wire(f, e)[m + j] = f[m + j]
      BY <1>6, <1>61, <3>1
    <3> QED BY <1>2, <2>3, <3>2
  <2> QED BY <2>3, <2>4, SeqEqual
<1> QED BY <1>9, <1>10 DEF q, Takes

(***************************************************************************)
(* The registers behind the instructions of the target.                    *)
(***************************************************************************)
LEMMA InstructionFacts ==
  ASSUME sc \in Scenarios, NEW d \in Devices
  PROVE  /\ sc.chain[d].id # NoId => sc.chain[d].idcode # Bits(sc.chain[d].irlen, 1)
         /\ sc.chain[d].id # NoId => /\ sc.chain[d].debug # sc.chain[d].idcode /\ sc.chain[d].vdr # sc.chain[d].idcode
                                     /\ sc.chain[d].vir # sc.chain[d].idcode
         /\ sc.chain[d].vir # << >> => sc.chain[d].vir # sc.chain[d].debug /\ sc.chain[d].vir # sc.chain[d].vdr
<1>1. d \in DOMAIN sc.chain
  BY DEF Devices
<1>2. \A n \in {"debug", "vir", "vdr"} :
        /\ sc.chain[d].id # NoId => sc.chain[d][n] # sc.chain[d].idcode
        /\ \A m \in {"debug", "vir", "vdr"} \ {n} : sc.chain[d][n] # << >> => sc.chain[d][n] # sc.chain[d][m]
  BY <1>1, ChainAssumption
<1>3. sc.chain[d].id # NoId => sc.chain[d].idcode # Bits(sc.chain[d].irlen, 1)
  BY <1>1, ChainAssumption
<1>4. "vir" \in {"debug", "vir", "vdr"} /\ "debug" \in {"debug", "vir", "vdr"} \ {"vir"} /\ "vdr" \in {"debug", "vir", "vdr"} \ {"vir"}
  OBVIOUS
<1>5. sc.chain[d].vir # << >> => sc.chain[d].vir # sc.chain[d].debug /\ sc.chain[d].vir # sc.chain[d].vdr
  BY <1>2, <1>4
<1> QED BY <1>2, <1>3, <1>5

LEMMA PickedRegs ==
  ASSUME sc \in Scenarios, Target \in Devices, NEW cmd \in Seq({0, 1}), Len(cmd) = sc.chain[Target].irlen
  PROVE  LET T == Target
             x == Picked(sc, T, cmd)
         IN /\ sc.chain[T].id # NoId /\ cmd = sc.chain[T].idcode => DrRegs(sc, x) = Single(sc, T, <<1>> \o sc.chain[T].id)
            /\ cmd \in {sc.chain[T].debug, sc.chain[T].vdr} =>
                 /\ DrRegs(sc, x) = Single(sc, T, sc.status)
                 /\ \A w, y : LatchStep(sc, w, x, y, "UPDATE_DR") = [y EXCEPT !.debug = Segment(w, T, DrRegs(sc, x))]
            /\ cmd = sc.chain[T].vir =>
                 /\ DrRegs(sc, x) = Single(sc, T, Bits(VirBits + 1, 0))
                 /\ \A w, y : LatchStep(sc, w, x, y, "UPDATE_DR") = [y EXCEPT !.vir = Segment(w, T, DrRegs(sc, x))]
<1> DEFINE T == Target
           x == Picked(sc, T, cmd)
           D == DOMAIN sc.chain
<1>1. T \in D /\ T = TargetOf(sc) /\ D = Devices
  BY CapturesAre
<1>2. x[T] = cmd /\ \A d \in D : d # T => x[d] = Bits(sc.chain[d].irlen, 1)
  BY <1>1 DEF Picked
<1> HIDE DEF x
<1>3. cmd # << >>
  <2>1. Len(cmd) # 0
    BY ChipFacts
  <2> QED BY <2>1
<1>4. ASSUME NEW d \in D, d # T PROVE DrOf(sc, x, d) = <<0>>
  <2>1. ~ (sc.chain[d].id # << >> /\ x[d] = sc.chain[d].idcode)
    BY <1>1, <1>2, <1>4, InstructionFacts DEF NoId
  <2>2. d # TargetOf(sc)
    BY <1>1, <1>4
  <2> QED BY <2>1, <2>2 DEF DrOf
<1>5. ASSUME NEW R, DrOf(sc, x, T) = R PROVE DrRegs(sc, x) = Single(sc, T, R)
  BY <1>1, <1>4, <1>5 DEF DrRegs, Single
<1>6. /\ Holds(sc, x, {"vir"}) <=> cmd = sc.chain[T].vir
      /\ Holds(sc, x, {"debug", "vdr"}) <=> cmd \in {sc.chain[T].debug, sc.chain[T].vdr}
  BY <1>1, <1>2 DEF Holds
<1>7. /\ sc.chain[T].id # NoId => /\ sc.chain[T].debug # sc.chain[T].idcode /\ sc.chain[T].vdr # sc.chain[T].idcode
                                  /\ sc.chain[T].vir # sc.chain[T].idcode
      /\ sc.chain[T].vir # << >> => sc.chain[T].vir # sc.chain[T].debug /\ sc.chain[T].vir # sc.chain[T].vdr
  BY InstructionFacts
<1>8. ASSUME sc.chain[T].id # NoId, cmd = sc.chain[T].idcode PROVE DrRegs(sc, x) = Single(sc, T, <<1>> \o sc.chain[T].id)
  <2>1. /\ sc.chain[T].id # << >> /\ x[T] = sc.chain[T].idcode
        /\ ~ Holds(sc, x, {"vir"}) /\ ~ Holds(sc, x, {"debug", "vdr"})
    BY <1>2, <1>6, <1>7, <1>8 DEF NoId
  <2>2. DrOf(sc, x, T) = <<1>> \o sc.chain[T].id
    BY <2>1 DEF DrOf
  <2> QED BY <1>5, <2>2
<1>9. ASSUME cmd \in {sc.chain[T].debug, sc.chain[T].vdr}
      PROVE  /\ DrRegs(sc, x) = Single(sc, T, sc.status)
             /\ \A w, y : LatchStep(sc, w, x, y, "UPDATE_DR") = [y EXCEPT !.debug = Segment(w, T, DrRegs(sc, x))]
  <2>1. ~ (sc.chain[T].id # << >> /\ x[T] = sc.chain[T].idcode) /\ ~ Holds(sc, x, {"vir"}) /\ Holds(sc, x, {"debug", "vdr"})
    BY <1>2, <1>3, <1>6, <1>7, <1>9 DEF NoId
  <2>2. DrOf(sc, x, T) = sc.status
    BY <1>1, <2>1 DEF DrOf
  <2>3. \A w, y : LatchStep(sc, w, x, y, "UPDATE_DR") = [y EXCEPT !.debug = Segment(w, T, DrRegs(sc, x))]
    BY <1>1, <2>1 DEF LatchStep
  <2> QED BY <1>5, <2>2, <2>3
<1>10. ASSUME cmd = sc.chain[T].vir
       PROVE  /\ DrRegs(sc, x) = Single(sc, T, Bits(VirBits + 1, 0))
              /\ \A w, y : LatchStep(sc, w, x, y, "UPDATE_DR") = [y EXCEPT !.vir = Segment(w, T, DrRegs(sc, x))]
  <2>1. ~ (sc.chain[T].id # << >> /\ x[T] = sc.chain[T].idcode) /\ Holds(sc, x, {"vir"}) /\ ~ Holds(sc, x, {"debug", "vdr"})
    BY <1>2, <1>3, <1>6, <1>7, <1>10 DEF NoId
  <2>2. DrOf(sc, x, T) = Bits(VirBits + 1, 0)
    BY <1>1, <2>1 DEF DrOf
  <2>3. \A w, y : LatchStep(sc, w, x, y, "UPDATE_DR") = [y EXCEPT !.vir = Segment(w, T, DrRegs(sc, x))]
    BY <1>1, <2>1 DEF LatchStep
  <2> QED BY <1>5, <2>2, <2>3
<1> QED BY <1>8, <1>9, <1>10 DEF x

(***************************************************************************)
(* The functions of chain_commands.c, put together from their scans.       *)
(***************************************************************************)
LEMMA LeadClocks ==
  ASSUME NEW z, NEW s, NEW t, NEW u, NEW p \in Seq(Clocks), NEW q \in Seq(Clocks), Leads(z, s, p, t), Leads(z, t, q, u)
  PROVE  Leads(z, s, p \o q, u) /\ p \o q \in Seq(Clocks)
<1>1. Leads(z, s, p \o q, u)
  BY LeadsConcat
<1>2. p \o q \in Seq(Clocks)
  OBVIOUS
<1> QED BY <1>1, <1>2

LEMMA ScansLead ==
  ASSUME NEW z, NEW s, NEW t, NEW q \in Seq(Clocks), Scans(z, s, q, t)
  PROVE  /\ Leads(z, s, (TapSetShiftDr \o q) \o TapExitToIdle, t)
         /\ \A r : \A a \in Seq(Clocks) : Leads(z, r, a, s) =>
              /\ Leads(z, r, ((a \o TapSetShiftDr) \o q) \o TapExitToIdle, t)
              /\ ((a \o TapSetShiftDr) \o q) \o TapExitToIdle \in Seq(Clocks)
<1> DEFINE S == TapSetShiftDr
           E == TapExitToIdle
<1>1. S \in Seq(Clocks) /\ E \in Seq(Clocks)
  BY WalksType
<1>2. PICK u, v : Leads(z, s, S, u) /\ Leads(z, u, q, v) /\ Leads(z, v, E, t)
  BY DEF Scans
<1> HIDE DEF S, E
<1>3. Leads(z, s, S \o q, v) /\ S \o q \in Seq(Clocks)
  BY <1>1, <1>2, LeadsConcat
<1>4. Leads(z, s, (S \o q) \o E, t)
  BY <1>1, <1>2, <1>3, LeadsConcat
<1>5. ASSUME NEW r, NEW a \in Seq(Clocks), Leads(z, r, a, s)
      PROVE  Leads(z, r, ((a \o S) \o q) \o E, t) /\ ((a \o S) \o q) \o E \in Seq(Clocks)
  <2>1. Leads(z, r, a \o S, u) /\ a \o S \in Seq(Clocks)
    BY <1>1, <1>2, <1>5, LeadClocks
  <2>2. Leads(z, r, (a \o S) \o q, v) /\ (a \o S) \o q \in Seq(Clocks)
    BY <1>2, <2>1, LeadClocks, Zenon
  <2> QED BY <1>1, <1>2, <2>2, LeadClocks, Zenon
<1> QED BY <1>4, <1>5 DEF S, E

\* The configuration c fits the target of the chain.
Placed(c) == /\ sc \in Scenarios /\ Target \in Devices /\ c \in Cfgs
             /\ Around(sc, c, Target) /\ Sound(Len(FlattenSeq(IrRegs(sc))))

LEMMA PlacedFacts ==
  ASSUME NEW c, Placed(c)
  PROVE  /\ sc \in Scenarios /\ Target \in Devices /\ c \in Cfgs /\ Around(sc, c, Target)
         /\ Sound(Len(FlattenSeq(IrRegs(sc)))) /\ c.irSize > 0 /\ sc.chain[Target].irlen \in Nat \ {0}
<1>1. sc.chain[Target].irlen \in Nat \ {0}
  BY ChipFacts DEF Placed
<1> QED BY <1>1 DEF Placed, Around

\* jtag_get_idcode() reads the IDCODE of the target.
LEMMA GetIdcodeDoes ==
  ASSUME NEW c, Placed(c), sc.chain[Target].id # NoId, NEW p, NEW x, NEW y
  PROVE  \E w, x2, y2 : Leads(sc, State("IDLE", p, x, y, << >>), JtagGetIdcode(c, sc.chain[Target].idcode, IdBits + 1),
                              State("IDLE", w, x2, y2, <<1>> \o sc.chain[Target].id))
<1> DEFINE T == Target
           cmd == sc.chain[T].idcode
           R == <<1>> \o sc.chain[T].id
           x1 == Picked(sc, T, cmd)
           a == TapSetIr(c, cmd)
<1>1. sc \in Scenarios /\ T \in Devices /\ c \in Cfgs /\ Around(sc, c, T) /\ Sound(Len(FlattenSeq(IrRegs(sc)))) /\ c.irSize > 0
  BY PlacedFacts
<1>2. cmd \in Seq({0, 1}) /\ Len(cmd) = sc.chain[T].irlen
  <2>0. PICK n \in Nat \ {0} : n = sc.chain[T].irlen
    BY <1>1, ChipFacts
  <2>1. PICK f \in [1..n -> {0, 1}] : f = cmd
    BY <1>1, <2>0, ChipFacts DEF NoId
  <2>2. f \in Seq({0, 1}) /\ Len(f) = n
    OBVIOUS
  <2> QED BY <2>0, <2>1, <2>2
<1>3. PICK n \in Nat \ {0} : n = IdBits + 1
  BY IdBitsAssumption
<1>4. R \in Seq({0, 1}) /\ Len(R) = n /\ R # << >>
  <2>0. PICK k \in Nat : k = IdBits
    BY IdBitsAssumption
  <2>1. PICK f \in [1..k -> {0, 1}] : f = sc.chain[T].id
    <3>1. sc.chain \in Seq(Chips) /\ T \in 1..Len(sc.chain)
      BY <1>1, ChainAssumption, ChainNonempty
    <3>2. sc.chain[T] \in Chips
      BY <3>1
    <3> QED BY <2>0, <3>2 DEF Chips
  <2>2. f \in Seq({0, 1}) /\ Len(f) = k /\ <<1>> \in Seq({0, 1}) /\ Len(<<1>>) = 1
    OBVIOUS
  <2>3. <<1>> \o f \in Seq({0, 1}) /\ Len(<<1>> \o f) = 1 + k
    BY <2>2
  <2>4. Len(<<1>> \o f) = n
    BY <1>3, <2>0, <2>3
  <2>5. <<1>> \o f # << >>
    BY <2>3
  <2> QED BY <2>1, <2>3, <2>4, <2>5
<1> DEFINE bits == Bits(n, 0)
           q == JtagReadWriteStream(c, bits, n, TRUE, 1)
<1>5. bits \in Seq({0, 1}) /\ Len(bits) = n /\ SentRight(bits, n)
  <2>1. bits \in Seq({0, 1}) /\ Len(bits) = n
    BY DEF Bits
  <2> QED BY <2>1, ZerosSentRight
<1>6. JtagGetIdcode(c, cmd, IdBits + 1) = ((a \o TapSetShiftDr) \o q) \o TapExitToIdle
  BY <1>3 DEF JtagGetIdcode
<1>7. DrRegs(sc, x1) = Single(sc, T, R)
  <2>1. sc.chain[T].id # NoId /\ cmd = sc.chain[T].idcode => DrRegs(sc, x1) = Single(sc, T, R)
    BY <1>1, <1>2, PickedRegs
  <2> QED BY <2>1
<1>8. PICK v : Leads(sc, State("IDLE", p, x, y, << >>), a, State("IDLE", v, x1, y, << >>))
  BY <1>1, <1>2, TapSetIrDoes
<1>9. a \in Seq(Clocks)
  BY <1>1, <1>2, TapSetIrType, CalmClocks
<1> HIDE DEF bits
<1>10. q \in Seq(Clocks)
  <2>1. n <= Len(bits)
    BY <1>5
  <2> QED BY <1>1, <1>5, <2>1, WriteType, CalmClocks
<1> HIDE DEF a, x1, R, T, q
<1>11. PICK w : Scans(sc, State("IDLE", v, x1, y, << >>), q, State("IDLE", w, x1, LatchStep(sc, w, x1, y, "UPDATE_DR"), R))
  <2>1. Takes(T, v, x1, y, bits, q, R)
    BY <1>1, <1>4, <1>5, <1>7, DrReadDoes DEF q
  <2> QED BY <2>1 DEF Takes
<1>12. Leads(sc, State("IDLE", p, x, y, << >>), ((a \o TapSetShiftDr) \o q) \o TapExitToIdle,
             State("IDLE", w, x1, LatchStep(sc, w, x1, y, "UPDATE_DR"), R))
  BY <1>8, <1>9, <1>10, <1>11, ScansLead
<1>13. Leads(sc, State("IDLE", p, x, y, << >>), JtagGetIdcode(c, cmd, IdBits + 1),
             State("IDLE", w, x1, LatchStep(sc, w, x1, y, "UPDATE_DR"), R))
  BY <1>6, <1>12
<1> QED BY <1>13 DEF R, T

\* The two registers of the debug unit.
IsLatch(y) == y = [n \in {"vir", "debug"} |-> y[n]]

LEMMA LatchSet ==
  ASSUME NEW y, IsLatch(y), NEW bits
  PROVE  /\ IsLatch([y EXCEPT !.vir = bits]) /\ [y EXCEPT !.vir = bits].vir = bits
         /\ IsLatch([y EXCEPT !.debug = bits]) /\ [y EXCEPT !.debug = bits].debug = bits
         /\ [y EXCEPT !.debug = bits].vir = y.vir
BY DEF IsLatch

LEMMA LatchStepped ==
  ASSUME NEW z, NEW p, NEW x, NEW y, NEW t, IsLatch(y)
  PROVE  IsLatch(LatchStep(z, p, x, y, t))
<1> DEFINE u == [y EXCEPT !.vir = Segment(p, TargetOf(z), DrRegs(z, x))]
           v == [y EXCEPT !.debug = Segment(p, TargetOf(z), DrRegs(z, x))]
<1>1. IsLatch(u) /\ IsLatch(v)
  BY LatchSet
<1> HIDE DEF u, v
<1>2. CASE t = "UPDATE_DR" /\ Holds(z, x, {"vir"}) /\ ~ Holds(z, x, {"debug", "vdr"})
  <2>1. LatchStep(z, p, x, y, t) = u
    BY <1>2 DEF LatchStep, u
  <2> QED BY <1>1, <2>1
<1>3. CASE t = "UPDATE_DR" /\ ~ Holds(z, x, {"vir"}) /\ Holds(z, x, {"debug", "vdr"})
  <2>1. LatchStep(z, p, x, y, t) = v
    BY <1>3 DEF LatchStep, v
  <2> QED BY <1>1, <2>1
<1>4. CASE ~ (t = "UPDATE_DR" /\ (Holds(z, x, {"vir"}) \/ Holds(z, x, {"debug", "vdr"})))
  <2>1. LatchStep(z, p, x, y, t) = y
    BY <1>4 DEF LatchStep
  <2> QED BY <2>1
<1>5. CASE t = "UPDATE_DR" /\ Holds(z, x, {"vir"}) /\ Holds(z, x, {"debug", "vdr"})
  <2>1. LatchStep(z, p, x, y, t) \in {u, v}
    BY <1>5 DEF LatchStep, u, v
  <2> QED BY <1>1, <2>1
<1> QED BY <1>2, <1>3, <1>4, <1>5

\* A debug command: the bits arrive in the debug unit, and those that come back are its own.
LEMMA DebugScanDoes ==
  ASSUME NEW c, Placed(c), Sound(DbgBits), NEW cmd \in Seq({0, 1}), cmd \in {sc.chain[Target].debug, sc.chain[Target].vdr},
         Len(cmd) = sc.chain[Target].irlen, NEW data \in [1..DbgBits -> {0, 1}], NEW read \in BOOLEAN, NEW p, NEW y
  PROVE  \E w : \E g \in {<< >>, sc.status} :
           Leads(sc, State("IDLE", p, Picked(sc, Target, cmd), y, << >>),
                 TapSetShiftDr \o (IF read THEN JtagReadWriteStream(c, data, DbgBits, TRUE, 1) ELSE JtagWriteStream(c, data, DbgBits, 1))
                   \o TapExitToIdle,
                 State("IDLE", w, Picked(sc, Target, cmd), [y EXCEPT !.debug = data], g))
<1> DEFINE T == Target
           x == Picked(sc, T, cmd)
           qr == JtagReadWriteStream(c, data, DbgBits, TRUE, 1)
           qw == JtagWriteStream(c, data, DbgBits, 1)
<1>1. sc \in Scenarios /\ T \in Devices /\ c \in Cfgs /\ Around(sc, c, T)
  BY PlacedFacts
<1>2. DbgBits \in Nat \ {0} /\ data \in Seq({0, 1}) /\ Len(data) = DbgBits /\ DbgBits <= Len(data)
  <2>1. DbgBits \in Nat \ {0}
    BY ScanAssumption
  <2> QED BY <2>1
<1>3. sc.status \in Seq({0, 1}) /\ Len(sc.status) = DbgBits /\ sc.status # << >>
  <2>1. PICK f \in [1..DbgBits -> {0, 1}] : f = sc.status
    BY <1>1, ScenarioAssumption
  <2>2. f \in Seq({0, 1}) /\ Len(f) = DbgBits
    BY <1>2
  <2>3. f # << >>
    BY <1>2, <2>2
  <2> QED BY <2>1, <2>2, <2>3
<1>4. SentRight(data, DbgBits)
  BY <1>2, LastBitIs
<1>5. /\ DrRegs(sc, x) = Single(sc, T, sc.status)
      /\ \A w : LatchStep(sc, w, x, y, "UPDATE_DR") = [y EXCEPT !.debug = Segment(w, T, DrRegs(sc, x))]
  BY <1>1, PickedRegs
<1>6. qr \in Seq(Clocks) /\ qw \in Seq(Clocks)
  BY <1>1, <1>2, WriteType, CalmClocks
<1> HIDE DEF x, T, qr, qw
<1>70. /\ sc \in Scenarios /\ T \in Devices /\ c \in Cfgs /\ Around(sc, c, T) /\ DrRegs(sc, x) = Single(sc, T, sc.status)
       /\ sc.status \in Seq({0, 1}) /\ sc.status # << >> /\ data \in Seq({0, 1}) /\ DbgBits \in Nat \ {0} /\ Len(data) = DbgBits
       /\ Len(sc.status) = DbgBits /\ SentRight(data, DbgBits)
  BY <1>1, <1>2, <1>3, <1>4, <1>5
<1>71. Takes(T, p, x, y, data, qr, sc.status) /\ Takes(T, p, x, y, data, qw, << >>)
  BY <1>70, DrReadDoes, DrWriteDoes DEF qr, qw
<1>7. PICK w : /\ Segment(w, T, DrRegs(sc, x)) = data
               /\ Scans(sc, State("IDLE", p, x, y, << >>), qr, State("IDLE", w, x, LatchStep(sc, w, x, y, "UPDATE_DR"), sc.status))
  BY <1>71 DEF Takes
<1>8. PICK v : /\ Segment(v, T, DrRegs(sc, x)) = data
               /\ Scans(sc, State("IDLE", p, x, y, << >>), qw, State("IDLE", v, x, LatchStep(sc, v, x, y, "UPDATE_DR"), << >>))
  BY <1>71 DEF Takes
<1>9. LatchStep(sc, w, x, y, "UPDATE_DR") = [y EXCEPT !.debug = data] /\ LatchStep(sc, v, x, y, "UPDATE_DR") = [y EXCEPT !.debug = data]
  BY <1>5, <1>7, <1>8
<1>10. Leads(sc, State("IDLE", p, x, y, << >>), (TapSetShiftDr \o qr) \o TapExitToIdle,
             State("IDLE", w, x, [y EXCEPT !.debug = data], sc.status))
  BY <1>6, <1>7, <1>9, ScansLead
<1>11. Leads(sc, State("IDLE", p, x, y, << >>), (TapSetShiftDr \o qw) \o TapExitToIdle,
             State("IDLE", v, x, [y EXCEPT !.debug = data], << >>))
  BY <1>6, <1>8, <1>9, ScansLead
<1>12. CASE read
  <2>1. \E g \in {<< >>, sc.status} : Leads(sc, State("IDLE", p, x, y, << >>), (TapSetShiftDr \o (IF read THEN qr ELSE qw)) \o TapExitToIdle,
             State("IDLE", w, x, [y EXCEPT !.debug = data], g))
    BY <1>10, <1>12
  <2> QED BY <2>1 DEF x, T, qr, qw
<1>13. CASE ~ read
  <2>1. \E g \in {<< >>, sc.status} : Leads(sc, State("IDLE", p, x, y, << >>), (TapSetShiftDr \o (IF read THEN qr ELSE qw)) \o TapExitToIdle,
             State("IDLE", v, x, [y EXCEPT !.debug = data], g))
    BY <1>11, <1>13
  <2> QED BY <2>1 DEF x, T, qr, qw
<1> QED BY <1>12, <1>13

\* The instructions tap_enable_debug_module() sends are the target's.
CommandsFit(c) ==
  LET T == sc.chain[Target]
  IN IF c.alt THEN c.vir = T.vir /\ c.vdr = T.vdr /\ Len(T.vir) = T.irlen /\ Len(T.vdr) = T.irlen
     ELSE c.debug = T.debug /\ Len(T.debug) = T.irlen

LEMMA EnableDoes ==
  ASSUME NEW c, Placed(c), CommandsFit(c), Sound(VirBits + 1), NEW p, NEW x, NEW y, IsLatch(y)
  PROVE  \E w, y2 : /\ Leads(sc, State("IDLE", p, x, y, << >>), TapEnableDebugModule(c),
                             State("IDLE", w, Picked(sc, Target, IF c.alt THEN c.vdr ELSE c.debug), y2, << >>))
                    /\ c.alt => y2.vir = sc.virDebug
<1> DEFINE T == Target
<1>1. sc \in Scenarios /\ T \in Devices /\ c \in Cfgs /\ Around(sc, c, T) /\ Sound(Len(FlattenSeq(IrRegs(sc)))) /\ c.irSize > 0
  BY PlacedFacts
<1>2. c.vir \in Seq({0, 1}) /\ c.vdr \in Seq({0, 1}) /\ c.debug \in Seq({0, 1})
  BY <1>1 DEF Cfgs
<1>3. CASE ~ c.alt
  <2>1. Len(c.debug) = sc.chain[T].irlen
    BY <1>3 DEF CommandsFit
  <2>2. \E w : Leads(sc, State("IDLE", p, x, y, << >>), TapSetIr(c, c.debug), State("IDLE", w, Picked(sc, T, c.debug), y, << >>))
    BY <1>1, <1>2, <2>1, TapSetIrDoes
  <2>3. TapEnableDebugModule(c) = TapSetIr(c, c.debug)
    BY <1>3 DEF TapEnableDebugModule
  <2> QED BY <1>3, <2>2, <2>3
<1>4. CASE c.alt
  <2>1. Len(c.vir) = sc.chain[T].irlen /\ Len(c.vdr) = sc.chain[T].irlen /\ c.vir = sc.chain[T].vir
    BY <1>4 DEF CommandsFit
  <2> DEFINE x1 == Picked(sc, T, c.vir)
             x2 == Picked(sc, T, c.vdr)
             R == Bits(VirBits + 1, 0)
             q == JtagWriteStream(c, sc.virDebug, VirBits + 1, 1)
             a == TapSetIr(c, c.vir)
             b == TapSetIr(c, c.vdr)
             y2 == [y EXCEPT !.vir = sc.virDebug]
  <2>2. PICK n \in Nat \ {0} : n = VirBits + 1
    BY ScanAssumption
  <2>3. sc.virDebug \in Seq({0, 1}) /\ Len(sc.virDebug) = n
    <3>1. PICK f \in [1..n -> {0, 1}] : f = sc.virDebug
      BY <1>1, <2>2, ScenarioAssumption
    <3>2. f \in Seq({0, 1}) /\ Len(f) = n
      OBVIOUS
    <3> QED BY <3>1, <3>2
  <2>4. R \in Seq({0, 1}) /\ Len(R) = n /\ R # << >>
    <3>1. Bits(n, 0) \in Seq({0, 1}) /\ Len(Bits(n, 0)) = n
      BY DEF Bits
    <3>2. Bits(n, 0) # << >>
      BY <3>1
    <3> QED BY <2>2, <3>1, <3>2
  <2>5. n <= Len(sc.virDebug)
    BY <2>3
  <2>6. SentRight(sc.virDebug, n)
    BY <2>2, <2>3, <2>5, LastBitIs
  <2>7. /\ DrRegs(sc, x1) = Single(sc, T, R)
        /\ \A w : LatchStep(sc, w, x1, y, "UPDATE_DR") = [y EXCEPT !.vir = Segment(w, T, DrRegs(sc, x1))]
    BY <1>1, <1>2, <2>1, PickedRegs, SMTT(40)
  <2>8. PICK v : Leads(sc, State("IDLE", p, x, y, << >>), a, State("IDLE", v, x1, y, << >>))
    BY <1>1, <1>2, <2>1, TapSetIrDoes
  <2>9. a \in Seq(Clocks) /\ b \in Seq(Clocks)
    BY <1>1, <1>2, TapSetIrType, CalmClocks
  <2>10. q \in Seq(Clocks)
    BY <1>1, <2>2, <2>3, <2>5, WriteType, CalmClocks
  <2>11. TapEnableDebugModule(c) = (((a \o TapSetShiftDr) \o q) \o TapExitToIdle) \o b
    BY <1>4 DEF TapEnableDebugModule
  <2>12. q = JtagWriteStream(c, sc.virDebug, n, 1)
    BY <2>2
  <2> HIDE DEF T, x1, R, q, a
  <2>13. PICK w : /\ Segment(w, T, DrRegs(sc, x1)) = sc.virDebug
                  /\ Scans(sc, State("IDLE", v, x1, y, << >>), q, State("IDLE", w, x1, LatchStep(sc, w, x1, y, "UPDATE_DR"), << >>))
    <3>1. Takes(T, v, x1, y, sc.virDebug, q, << >>)
      BY <1>1, <2>3, <2>4, <2>6, <2>7, <2>12, DrWriteDoes
    <3> QED BY <3>1 DEF Takes
  <2>14. LatchStep(sc, w, x1, y, "UPDATE_DR") = y2
    BY <2>7, <2>13
  <2> DEFINE l == ((a \o TapSetShiftDr) \o q) \o TapExitToIdle
  <2>15. Leads(sc, State("IDLE", p, x, y, << >>), l, State("IDLE", w, x1, y2, << >>)) /\ l \in Seq(Clocks)
    BY <2>8, <2>9, <2>10, <2>13, <2>14, ScansLead
  <2>16. PICK u : Leads(sc, State("IDLE", w, x1, y2, << >>), b, State("IDLE", u, x2, y2, << >>))
    BY <1>1, <1>2, <2>1, TapSetIrDoes
  <2> HIDE DEF l, b, x2
  <2>17. Leads(sc, State("IDLE", p, x, y, << >>), l \o b, State("IDLE", u, x2, y2, << >>))
    BY <2>9, <2>15, <2>16, LeadClocks
  <2>18. y2.vir = sc.virDebug
    BY LatchSet
  <2> HIDE DEF y2
  <2>19. Leads(sc, State("IDLE", p, x, y, << >>), TapEnableDebugModule(c), State("IDLE", u, x2, y2, << >>))
    BY <2>11, <2>17 DEF l
  <2> QED BY <1>4, <2>18, <2>19 DEF x2, T
<1> QED BY <1>3, <1>4

-----------------------------------------------------------------------------
(***************************************************************************)
(* What has to fit for configure_chain() to be right.  A BSDL file that    *)
(* matches a device's IDCODE gives the length of its IR (or none), and for *)
(* the target its IDCODE and debug instructions (or none).                 *)
(***************************************************************************)
Describes(z, n, d) ==
  LET v == z.chain[d]
  IN /\ n.ir < 0 \/ n.ir = v.irlen
     /\ d = TargetOf(z) => /\ n.idc \in {NoCmd, v.idcode}
                           /\ (IF Manuf(v.id) = XilinxManuf THEN n.user1 ELSE n.debug) \in {NoCmd, v.debug}

\* No file says how to read the IDCODE of a target that has none.
GoodInfo(z, n) ==
  /\ \A d \in DOMAIN z.chain : z.chain[d].id # NoId /\ Matches(n, z.chain[d].id) => Describes(z, n, d)
  /\ z.chain[TargetOf(z)].id = NoId /\ Matches(n, Bits(IdBits, 1)) => n.idc = NoCmd
GoodInfos(z) == {NoInfo, Spins} \cup {n \in Infos : GoodInfo(z, n)}
GoodFiles(z) == {f \in Files : ParseExtractValues(f) \in GoodInfos(z)}
FilesFit(z)  == z.dirs \in Seq(Seq(GoodFiles(z)))

\* The options name the right device, and lengths and instructions they give are right.
AltTarget(z, o) ==
  LET id == z.chain[TargetOf(z)].id
  IN o.forceAlt = 1 \/ (o.forceAlt = 0 /\ id # NoId /\ Manuf(id) = AlteraManuf)
Given(s, d) == SelectLastInSeq(s, LAMBDA x : x[1] = d - 1)
OptionsFit(z, o, vir, vdr) ==
  LET v == z.chain[TargetOf(z)]
  IN /\ o.target = z.target
     /\ \A d \in DOMAIN z.chain : Given(o.irSets, d) # 0 => o.irSets[Given(o.irSets, d)][2] = z.chain[d].irlen
     /\ o.debugCmd \in {NoCmd, v.debug}
     /\ IF AltTarget(z, o) THEN vir = v.vir /\ vdr = v.vdr /\ Len(v.vir) = v.irlen /\ Len(v.vdr) = v.irlen
        ELSE Len(v.debug) = v.irlen

\* The target's instruction does not reach the end of a word of the stream, and a
\* machine that does not mask shift counts sends no stream longer than a word.
StreamsFit(z) ==
  /\ (Before(IrRegs(z), TargetOf(z)) % WordBits) + z.chain[TargetOf(z)].irlen < WordBits
  /\ z.shift = "masked" \/ (Len(FlattenSeq(IrRegs(z))) <= WordBits /\ VirBits + 1 <= WordBits /\ DbgBits <= WordBits)

FitsOf(z, o, vir, vdr) ==
  /\ z.stuck = "no" /\ Len(z.chain) <= MaxDevices /\ TargetOf(z) \in DOMAIN z.chain
  /\ FilesFit(z) /\ OptionsFit(z, o, vir, vdr) /\ StreamsFit(z)
Fits == FitsOf(sc, opt, cfg.vir, cfg.vdr)

(***************************************************************************)
(* The BSDL reader: what it holds and what it answers.                     *)
(***************************************************************************)
LEMMA GoodInfosType ==
  ASSUME NEW z
  PROVE  /\ NoInfo \in GoodInfos(z) /\ Spins \in GoodInfos(z) /\ \A n \in GoodInfos(z) : n \in Infos
         /\ \A f \in GoodFiles(z) : ParseExtractValues(f) \in GoodInfos(z)
BY NoInfoType DEF GoodInfos, GoodFiles

LEMMA GoodStart ==
  ASSUME NEW z, FilesFit(z)
  PROVE  BsdlInit(z.dirs) \in Readers(GoodInfos(z), GoodFiles(z))
<1>1. PICK dirs \in Seq(Seq(GoodFiles(z))) : dirs = z.dirs
  BY DEF FilesFit
<1>2. Reverse(dirs) \in Seq(Seq(GoodFiles(z)))
  BY DEF Reverse
<1>3. << >> \in Seq(GoodInfos(z)) /\ NoInfo \in GoodInfos(z)
  BY GoodInfosType
<1> QED BY <1>1, <1>2, <1>3 DEF BsdlInit, Readers

LEMMA GoodAnswer ==
  ASSUME NEW z, NEW r \in Readers(GoodInfos(z), GoodFiles(z)), NEW id
  PROVE  Answers(GetBsdlInfo(r, id), GoodInfos(z), GoodFiles(z), id)
BY GoodInfosType, AnswerType

GoodReader(z, r) == r \in Readers(GoodInfos(z), GoodFiles(z))

LEMMA ReaderKept ==
  ASSUME NEW z, GoodReader(z, bsdl), NEW id
  PROVE  GoodReader(z, Ask(id).bsdl) /\ GoodReader(z, GetBsdlInfo(bsdl, id).bsdl)
<1>1. GoodReader(z, GetBsdlInfo(bsdl, id).bsdl)
  BY GoodAnswer DEF GoodReader, Answers
<1>2. CASE id = NoId
  <2>1. Ask(id) = [info |-> NoInfo, bsdl |-> bsdl]
    BY <1>2 DEF Ask
  <2>2. Ask(id).bsdl = bsdl
    BY <2>1
  <2> QED BY <1>1, <2>2
<1>3. CASE id # NoId
  BY <1>1, <1>3 DEF Ask
<1> QED BY <1>2, <1>3

\* Nothing is known, or what is known is right.
Known(z, n, d) == n \in Infos /\ (n \in {NoInfo, Spins} \/ (z.chain[d].id # NoId /\ Describes(z, n, d)))

LEMMA AnswerFits ==
  ASSUME NEW z, GoodReader(z, bsdl), NEW d \in DOMAIN z.chain, z.chain[d].id # NoId
  PROVE  Known(z, GetBsdlInfo(bsdl, z.chain[d].id).info, d)
<1> DEFINE id == z.chain[d].id
           n == GetBsdlInfo(bsdl, id).info
<1>1. n \in GoodInfos(z) /\ (n \in {NoInfo, Spins} \/ Matches(n, id))
  BY GoodAnswer DEF GoodReader, Answers
<1>2. n \in Infos
  BY <1>1, GoodInfosType
<1> HIDE DEF n
<1>3. CASE n \in {NoInfo, Spins}
  BY <1>2, <1>3 DEF Known, n
<1>4. CASE n \notin {NoInfo, Spins}
  <2>1. GoodInfo(z, n) /\ Matches(n, id)
    BY <1>1, <1>4 DEF GoodInfos
  <2>2. Describes(z, n, d)
    BY <2>1 DEF GoodInfo
  <2> QED BY <1>2, <2>2 DEF Known, n
<1> QED BY <1>3, <1>4

LEMMA AskFits ==
  ASSUME NEW z, GoodReader(z, bsdl), NEW d \in DOMAIN z.chain
  PROVE  Known(z, Ask(z.chain[d].id).info, d)
<1> DEFINE id == z.chain[d].id
<1>1. CASE id = NoId
  <2>1. Ask(id) = [info |-> NoInfo, bsdl |-> bsdl]
    BY <1>1 DEF Ask
  <2>2. Ask(id).info = NoInfo
    BY <2>1
  <2> QED BY <2>2, NoInfoType DEF Known
<1>2. CASE id # NoId
  <2>1. Ask(id) = GetBsdlInfo(bsdl, id)
    BY <1>2 DEF Ask
  <2> QED BY <1>2, <2>1, AnswerFits
<1> QED BY <1>1, <1>2

\* The question about a target without IDCODE.
LEMMA NoIdcodeAnswer ==
  ASSUME NEW z, GoodReader(z, bsdl), z.chain[TargetOf(z)].id = NoId
  PROVE  GetBsdlInfo(bsdl, Bits(IdBits, 1)).info.idc = NoCmd
<1> DEFINE n == GetBsdlInfo(bsdl, Bits(IdBits, 1)).info
<1>1. n \in GoodInfos(z) /\ (n \in {NoInfo, Spins} \/ Matches(n, Bits(IdBits, 1)))
  BY GoodAnswer DEF GoodReader, Answers
<1> HIDE DEF n
<1>2. NoInfo.idc = NoCmd /\ Spins.idc = NoCmd
  BY DEF NoInfo, Spins
<1>3. n \in {NoInfo, Spins} \/ (GoodInfo(z, n) /\ Matches(n, Bits(IdBits, 1)))
  BY <1>1 DEF GoodInfos
<1>4. n.idc = NoCmd
  BY <1>2, <1>3 DEF GoodInfo
<1> QED BY <1>4 DEF n

(***************************************************************************)
(* The invariant from the end of jtag_enumerate_chain() on.  While nothing *)
(* has failed, the clocks still to be sent lead the chain from where it is *)
(* to where the function that sends them is meant to leave it.             *)
(***************************************************************************)
IdlePlaces == {"list", "irsize", "debugcmd", "idcode", "enable"}
LatePlaces == {"leave", "enumerated", "gotidcode", "enabled", "ready"} \cup IdlePlaces

Selected(z, c) == Picked(z, TargetOf(z), IF c.alt THEN c.vdr ELSE c.debug)

EndsRight(z, place, c, data, g) ==
  /\ g.tap = "IDLE"
  /\ place = "gotidcode" => g.got = <<1>> \o z.chain[TargetOf(z)].id
  /\ place \in {"enabled", "ready"} => g.ir = Selected(z, c) /\ (c.alt => g.latched.vir = z.virDebug)
  /\ place = "ready" /\ data # << >> => g.latched.debug = data /\ g.got \in {<< >>, z.status}

\* The lengths added up before device k is looked up.
Summed(z, c, k, sum) ==
  LET r == IrRegs(z)
      T == TargetOf(z)
  IN /\ k \in 1..(Len(z.chain) + 1) /\ c.irSize = z.chain[T].irlen
     /\ k <= T => sum = Before(r, k)
     /\ k > T => c.irPost = Before(r, T) /\ sum + Before(r, T + 1) = Before(r, k)

ClocksLead ==
  /\ todo \in Seq(Calm)
  /\ pc = "leave" => tap = "SHIFT_DR"
  /\ pc \in {"leave"} \cup IdlePlaces => todo = << >>
  /\ pc # "leave" => \E g : Leads(sc, Now, todo, g) /\ EndsRight(sc, pc, cfg, wanted, g)

Configured ==
  /\ (pc = "irsize" /\ i # 0) => Summed(sc, cfg, i, total)
  /\ pc \in Found => Around(sc, cfg, Target)
  /\ pc \in Found \ {"debugcmd"} => CommandsFit(cfg)

Outcome == sane # "failed" /\ (pc # "ready" => wanted = << >>)

OnCourse == ~err /\ ~resetErr /\ Fits /\ pc \in LatePlaces
ScanInv ==
  /\ IsLatch(latched)
  /\ FilesFit(sc) => GoodReader(sc, bsdl)
  /\ pc \in EarlyPlaces => sane = "untested" /\ wanted = << >>
  /\ OnCourse => ClocksLead /\ Configured /\ Outcome

Inv == TypeInv /\ EnumInv /\ ScanInv

LEMMA LeadsOver ==
  ASSUME NEW z, NEW s, NEW t, Leads(z, s, << >>, t)
  PROVE  t = s
<1>1. PICK h : h[0] = s /\ h[Len(<< >>)] = t
  BY DEF Leads
<1>2. Len(<< >>) = 0
  OBVIOUS
<1> QED BY <1>1, <1>2

LEMMA FitsFacts ==
  ASSUME Fits
  PROVE  /\ sc.stuck = "no" /\ Len(sc.chain) <= MaxDevices /\ Target \in Devices /\ FilesFit(sc)
         /\ OptionsFit(sc, opt, cfg.vir, cfg.vdr) /\ StreamsFit(sc) /\ TargetPos = Target /\ Target = TargetOf(sc)
         /\ Devices = DOMAIN sc.chain
BY CapturesAre DEF Fits, FitsOf, OptionsFit, TargetPos, Target

LEMMA SoundFits ==
  ASSUME Fits
  PROVE  Sound(Len(FlattenSeq(IrRegs(sc)))) /\ Sound(VirBits + 1) /\ Sound(DbgBits)
BY FitsFacts DEF StreamsFit, Sound

\* The devices found are those of the chain.
LEMMA DevIs ==
  ASSUME EnumInv, Fits, ~err, ~resetErr, pc \in LatePlaces
  PROVE  Len(dev) = Len(sc.chain) /\ Len(dev) \in Nat \ {0} /\ \A d \in Devices : dev[d] = sc.chain[d].id
<1>1. Clean /\ sc \in Scenarios /\ Len(sc.chain) <= MaxDevices
  BY FitsFacts DEF Clean, EnumInv
<1>2. PICK n \in Nat \ {0} : n = Len(sc.chain) /\ Devices = 1..n
  BY <1>1, ChainNonempty
<1>3. pc \notin ScanPlaces \cup {"args", "reset", "enumerate", "exit"}
  BY DEF LatePlaces, IdlePlaces, ScanPlaces
<1>4. dev = [d \in 1..Smaller(Len(sc.chain), MaxDevices) |-> sc.chain[d].id]
  BY <1>1, <1>3 DEF EnumInv, FoundInv
<1>5. MaxDevices \in Nat
  BY SetupAssumption
<1>6. Smaller(n, MaxDevices) = n
  BY <1>1, <1>2, <1>5 DEF Smaller
<1>7. dev = [d \in 1..n |-> sc.chain[d].id]
  BY <1>2, <1>4, <1>6
<1> QED BY <1>2, <1>7

\* A state at which nothing is left to send is the one the clocks lead to.
LEMMA Arrived ==
  ASSUME ScanInv, OnCourse, pc # "leave", todo = << >>
  PROVE  EndsRight(sc, pc, cfg, wanted, Now)
<1>1. PICK g : Leads(sc, Now, todo, g) /\ EndsRight(sc, pc, cfg, wanted, g)
  BY DEF ScanInv, ClocksLead
<1>2. g = Now
  BY <1>1, LeadsOver
<1> QED BY <1>1, <1>2

LEMMA NowFields ==
  /\ Now.tap = tap /\ Now.path = path /\ Now.ir = ir /\ Now.latched = latched /\ Now.got = got
  /\ Now = State(tap, path, ir, latched, got)
BY StateFields DEF Now

\* The step of a host that leaves the chain alone.
LEMMA FitsKept ==
  ASSUME sc' = sc, opt' = opt, cfg'.vir = cfg.vir, cfg'.vdr = cfg.vdr
  PROVE  Fits' <=> Fits
BY DEF Fits

LEMMA NowKept ==
  ASSUME tap' = tap, path' = path, ir' = ir, latched' = latched, got' = got
  PROVE  Now' = Now
BY DEF Now, State

\* The host goes on without sending anything.
LEMMA HostMovesOn ==
  ASSUME ScanInv, OnCourse, pc \in LatePlaces \ {"leave"}, todo = << >>, todo' = << >>, sc' = sc, tap' = tap, path' = path,
         ir' = ir, latched' = latched, got' = got, pc' \in IdlePlaces
  PROVE  ClocksLead'
<1>1. EndsRight(sc, pc, cfg, wanted, Now) /\ Now' = Now
  BY Arrived, NowKept
<1>2. Now'.tap = "IDLE"
  BY <1>1 DEF EndsRight
<1>3. EndsRight(sc', pc', cfg', wanted', Now')
  BY <1>2 DEF EndsRight, IdlePlaces
<1>4. Leads(sc', Now', todo', Now')
  BY LeadsNone
<1>5. todo' \in Seq(Calm)
  OBVIOUS
<1> QED BY <1>3, <1>4, <1>5 DEF ClocksLead, IdlePlaces

(***************************************************************************)
(* The steps before the end of jtag_enumerate_chain().                     *)
(***************************************************************************)
LEMMA StillEarly ==
  ASSUME ScanInv, pc \in EarlyPlaces, pc' \in EarlyPlaces \cup {"exit"}, sc' = sc, latched' = latched, bsdl' = bsdl,
         sane' = sane, wanted' = wanted
  PROVE  ScanInv'
<1>1. ~ OnCourse'
  BY DEF OnCourse, LatePlaces, IdlePlaces, EarlyPlaces, ScanPlaces
<1>2. IsLatch(latched)' /\ (FilesFit(sc') => GoodReader(sc', bsdl'))
  BY DEF ScanInv
<1> QED BY <1>1, <1>2 DEF ScanInv

LEMMA Leaves ==
  ASSUME EnumInv, ScanInv, pc \in ScanPlaces, todo = << >>, pc' = "leave", sc' = sc, latched' = latched, bsdl' = bsdl,
         sane' = sane, wanted' = wanted, tap' = tap, todo' = todo, err' = err, resetErr' = resetErr
  PROVE  ScanInv'
<1>1. IsLatch(latched)' /\ (FilesFit(sc') => GoodReader(sc', bsdl')) /\ pc' \notin EarlyPlaces
  BY DEF ScanInv, EarlyPlaces, ScanPlaces
<1>2. sane = "untested" /\ wanted = << >>
  BY DEF ScanInv, EarlyPlaces
<1>3. ASSUME OnCourse' PROVE ClocksLead' /\ Configured' /\ Outcome'
  <2>1. sc'.stuck = "no" /\ ~ err' /\ ~ resetErr'
    BY <1>3 DEF OnCourse, Fits, FitsOf
  <2>2. Clean
    BY <2>1 DEF Clean
  <2>3. tap = "SHIFT_DR"
    BY <2>2, DoneScanning DEF ScanDone
  <2>4. ClocksLead'
    BY <2>3 DEF ClocksLead
  <2>5. Configured'
    BY DEF Configured, Found
  <2>6. Outcome'
    BY <1>2 DEF Outcome
  <2> QED BY <2>4, <2>5, <2>6
<1> QED BY <1>1, <1>3 DEF ScanInv

LEMMA ScanEarly ==
  ASSUME EnumInv, ScanInv, ParseArgs \/ Reset \/ Enumerate \/ ReadStartBit \/ GotStartBit \/ GotManuf \/ GotRest
  PROVE  ScanInv'
<1>1. CASE ParseArgs
  <2>1. /\ pc = "args" /\ pc' \in {"args", "reset", "exit"} /\ sc' = sc /\ latched' = latched /\ bsdl' = bsdl
        /\ sane' = sane /\ wanted' = wanted
    BY <1>1 DEF ParseArgs, At, Hardware
  <2> QED BY <2>1, StillEarly DEF EarlyPlaces
<1>2. CASE Reset
  <2>1. /\ pc = "reset" /\ pc' = "enumerate" /\ sc' = sc /\ latched' = latched /\ bsdl' = bsdl /\ sane' = sane /\ wanted' = wanted
    BY <1>2 DEF Reset, At, Hardware
  <2> QED BY <2>1, StillEarly DEF EarlyPlaces
<1>3. CASE Enumerate
  <2>1. /\ pc = "enumerate" /\ pc' = "startbit" /\ sc' = sc /\ latched' = latched /\ bsdl' = bsdl /\ sane' = sane
        /\ wanted' = wanted
    BY <1>3 DEF Enumerate, At
  <2> QED BY <2>1, StillEarly DEF EarlyPlaces, ScanPlaces
<1>4. CASE ReadStartBit
  <2>1. /\ pc = "startbit" /\ pc' \in {"exit", "gotbit", "leave"} /\ sc' = sc /\ latched' = latched /\ bsdl' = bsdl
        /\ sane' = sane /\ wanted' = wanted /\ tap' = tap /\ err' = err /\ resetErr' = resetErr /\ todo = << >>
        /\ pc' = "leave" => todo' = todo
    BY <1>4 DEF ReadStartBit, At, Hardware, Quiet
  <2>2. CASE pc' = "leave"
    BY <2>1, <2>2, Leaves DEF ScanPlaces
  <2>3. CASE pc' # "leave"
    BY <2>1, <2>3, StillEarly DEF EarlyPlaces, ScanPlaces
  <2> QED BY <2>2, <2>3
<1>5. CASE GotStartBit
  <2>1. /\ pc = "gotbit" /\ pc' \in {"startbit", "gotmanuf"} /\ sc' = sc /\ latched' = latched /\ bsdl' = bsdl
        /\ sane' = sane /\ wanted' = wanted
    BY <1>5 DEF GotStartBit, At, Hardware
  <2> QED BY <2>1, StillEarly DEF EarlyPlaces, ScanPlaces
<1>6. CASE GotManuf
  <2>1. /\ pc = "gotmanuf" /\ pc' \in {"gotrest", "leave"} /\ sc' = sc /\ latched' = latched /\ bsdl' = bsdl
        /\ sane' = sane /\ wanted' = wanted /\ tap' = tap /\ err' = err /\ resetErr' = resetErr /\ todo = << >>
        /\ pc' = "leave" => todo' = todo
    BY <1>6 DEF GotManuf, At, Hardware, Quiet
  <2>2. CASE pc' = "leave"
    BY <2>1, <2>2, Leaves DEF ScanPlaces
  <2>3. CASE pc' # "leave"
    BY <2>1, <2>3, StillEarly DEF EarlyPlaces, ScanPlaces
  <2> QED BY <2>2, <2>3
<1>7. CASE GotRest
  <2>1. /\ pc = "gotrest" /\ pc' = "startbit" /\ sc' = sc /\ latched' = latched /\ bsdl' = bsdl /\ sane' = sane
        /\ wanted' = wanted
    BY <1>7 DEF GotRest, At, Hardware
  <2> QED BY <2>1, StillEarly DEF EarlyPlaces, ScanPlaces
<1> QED BY <1>1, <1>2, <1>3, <1>4, <1>5, <1>6, <1>7

LEMMA ScanInit == Init => ScanInv
<1> SUFFICES ASSUME Init PROVE ScanInv
  OBVIOUS
<1>1. pc = "args" /\ sane = "untested" /\ wanted = << >> /\ bsdl = BsdlInit(sc.dirs)
  BY DEF Init
<1>2. IsLatch(latched)
  BY DEF Init, IsLatch
<1>3. FilesFit(sc) => GoodReader(sc, bsdl)
  BY <1>1, GoodStart DEF GoodReader
<1>4. ~ OnCourse
  BY <1>1 DEF OnCourse, LatePlaces, IdlePlaces
<1> QED BY <1>1, <1>2, <1>3, <1>4 DEF ScanInv

(***************************************************************************)
(* A clock, and a clock the cable failed.                                  *)
(***************************************************************************)
LEMMA LatchKept ==
  ASSUME IsLatch(latched), NEW c, TapClock(c)
  PROVE  IsLatch(latched')
<1> DEFINE s == IF c.trst /\ sc.trst THEN "RESET" ELSE NextTapState(tap, c.tms)
<1>1. Latch(s)
  BY DEF TapClock
<1> HIDE DEF s
<1>2. latched' = LatchStep(sc, path, ir, latched, s)
  BY <1>1, CapturesAre DEF Latch, LatchStep
<1> QED BY <1>2, LatchStepped

LEMMA ScanCableFails ==
  ASSUME ScanInv, CableFails, UNCHANGED <<sc, hostVars>>
  PROVE  ScanInv'
<1>1. sc' = sc /\ bsdl' = bsdl /\ pc' = pc /\ sane' = sane /\ wanted' = wanted /\ err' = TRUE
  BY DEF CableFails, hostVars
<1>2. IsLatch(latched')
  <2>1. TapClock(Head(todo)) \/ latched' = latched
    BY DEF CableFails
  <2> QED BY <2>1, LatchKept DEF ScanInv
<1>3. ~ OnCourse'
  BY <1>1 DEF OnCourse
<1> QED BY <1>1, <1>2, <1>3 DEF ScanInv

LEMMA ScanClock ==
  ASSUME ScanInv, Clock, UNCHANGED <<sc, hostVars>>
  PROVE  ScanInv'
<1>1. /\ sc' = sc /\ bsdl' = bsdl /\ pc' = pc /\ sane' = sane /\ wanted' = wanted /\ err' = err /\ resetErr' = resetErr
      /\ opt' = opt /\ cfg' = cfg /\ i' = i /\ total' = total
  BY DEF Clock, hostVars
<1>2. /\ todo # << >> /\ TapClock(Head(todo)) /\ todo' = Tail(todo) /\ got' = IF Head(todo).rd THEN Append(got, Tdo) ELSE got
  BY DEF Clock
<1>3. IsLatch(latched')
  BY <1>2, LatchKept DEF ScanInv
<1>4. Fits' <=> Fits
  BY <1>1, FitsKept
<1>5. ASSUME OnCourse' PROVE ClocksLead' /\ Configured' /\ Outcome'
  <2>1. OnCourse
    BY <1>1, <1>4, <1>5 DEF OnCourse
  <2>2. ClocksLead /\ Configured /\ Outcome /\ sc.stuck = "no"
    BY <2>1, FitsFacts DEF ScanInv, OnCourse
  <2>3. Configured' /\ Outcome'
    BY <1>1, <2>2 DEF Configured, Outcome, Target, CommandsFit
  <2>4. todo \in Seq(Calm) /\ pc \notin {"leave"} \cup IdlePlaces
    BY <1>2, <2>2 DEF ClocksLead
  <2>5. Head(todo) \in Calm /\ todo' \in Seq(Calm)
    BY <1>2, <2>4
  <2>6. Head(todo).trst = FALSE
    BY <2>5 DEF Calm
  <2>7. Now' = Step(sc, Now, Head(todo))
    BY <1>2, <2>2, <2>6, ClockIsStep
  <2>8. PICK g : Leads(sc, Now, todo, g) /\ EndsRight(sc, pc, cfg, wanted, g)
    BY <2>2, <2>4 DEF ClocksLead
  <2>9. Leads(sc, Step(sc, Now, Head(todo)), Tail(todo), g)
    BY <1>2, <2>4, <2>8, LeadsTail
  <2>10. Leads(sc', Now', todo', g) /\ EndsRight(sc', pc', cfg', wanted', g)
    BY <1>1, <1>2, <2>7, <2>8, <2>9
  <2>11. ClocksLead'
    BY <1>1, <2>4, <2>5, <2>10 DEF ClocksLead
  <2> QED BY <2>3, <2>11
<1> QED BY <1>1, <1>3, <1>5 DEF ScanInv

(***************************************************************************)
(* The steps of configure_chain() that send or check.                      *)
(***************************************************************************)
LEMMA ScanLate ==
  ASSUME ScanInv, pc' \notin EarlyPlaces, sc' = sc, latched' = latched, FilesFit(sc) => GoodReader(sc, bsdl'),
         OnCourse' => ClocksLead' /\ Configured' /\ Outcome'
  PROVE  ScanInv'
<1>1. IsLatch(latched)' /\ (FilesFit(sc') => GoodReader(sc', bsdl'))
  BY DEF ScanInv
<1> QED BY <1>1 DEF ScanInv

LEMMA ExitCalm ==
  /\ TapExitToIdle \in Seq(Calm) /\ TapSetShiftDr \in Seq(Calm) /\ <<Clk(1, 0)>> \in Seq(Calm)
  /\ <<Clk(1, 0)>> \o TapExitToIdle \in Seq(Calm)
<1>1. Clk(1, 0) \in Calm /\ Clk(0, 0) \in Calm
  BY ClkType
<1>2. TapExitToIdle \in Seq(Calm) /\ <<Clk(1, 0)>> \in Seq(Calm)
  BY <1>1 DEF TapExitToIdle
<1>3. TapSetShiftDr \in Seq(Calm)
  BY TapSetShiftDrIs
<1> QED BY <1>2, <1>3

LEMMA LeaveLeads ==
  ASSUME NEW z, NEW p, NEW x, NEW y
  PROVE  \E g : g.tap = "IDLE" /\ Leads(z, State("SHIFT_DR", p, x, y, << >>), <<Clk(1, 0)>> \o TapExitToIdle, g)
<1> DEFINE q == Append(Tail(p), Clk(1, 0).tdi)
           s == State("SHIFT_DR", p, x, y, << >>)
           t == State("EXIT1_DR", q, x, y, << >>)
           g == State("IDLE", q, x, LatchStep(z, q, x, y, "UPDATE_DR"), << >>)
<1>1. Step(z, s, Clk(1, 0)) = t
  <2>1. NextTapState("SHIFT_DR", Clk(1, 0).tms) = "EXIT1_DR"
    BY TmsClocks DEF NextTapState
  <2>2. ~ Clk(1, 0).rd
    BY TmsClocks
  <2>3. PICK c, n, u, e : c = Clk(1, 0) /\ n = "EXIT1_DR" /\ u = "SHIFT_DR" /\ e = << >>
    OBVIOUS
  <2>4. u \in {"SHIFT_DR", "SHIFT_IR"} /\ n \notin {"RESET", "UPDATE_IR", "UPDATE_DR"} /\ n = NextTapState(u, c.tms)
    BY <2>1, <2>3
  <2>5. Step(z, State(u, p, x, y, e), c) = State(n, Append(Tail(p), c.tdi), x, y, IF c.rd THEN Append(e, Head(p)) ELSE e)
    BY <2>4, StepShifts
  <2> QED BY <2>2, <2>3, <2>5
<1>2. Leads(z, s, <<Clk(1, 0)>>, t)
  BY <1>1, LeadsOne
<1>3. Leads(z, t, TapExitToIdle, g)
  BY WalkToIdle
<1>4. <<Clk(1, 0)>> \in Seq(Clocks) /\ TapExitToIdle \in Seq(Clocks)
  BY ExitCalm, CalmClocks
<1>5. g.tap = "IDLE"
  BY StateFields
<1> HIDE DEF s, t, g
<1>6. Leads(z, s, <<Clk(1, 0)>> \o TapExitToIdle, g)
  BY <1>2, <1>3, <1>4, LeadClocks
<1> QED BY <1>5, <1>6 DEF s

LEMMA ScanLeaveShift ==
  ASSUME ScanInv, LeaveShift
  PROVE  ScanInv'
<1>1. /\ pc = "leave" /\ pc' = "enumerated" /\ sc' = sc /\ latched' = latched /\ bsdl' = bsdl /\ sane' = sane /\ wanted' = wanted
      /\ err' = err /\ resetErr' = resetErr /\ opt' = opt /\ cfg' = cfg /\ tap' = tap /\ path' = path /\ ir' = ir
      /\ got' = << >> /\ todo' = <<Clk(1, 0)>> \o TapExitToIdle
  BY DEF LeaveShift, At, Hardware, Send
<1>2. ASSUME OnCourse' PROVE ClocksLead' /\ Configured' /\ Outcome'
  <2>1. OnCourse
    BY <1>1, <1>2, FitsKept DEF OnCourse, LatePlaces
  <2>2. tap = "SHIFT_DR" /\ Outcome
    BY <1>1, <2>1 DEF ScanInv, ClocksLead
  <2>3. Now' = State("SHIFT_DR", path, ir, latched, << >>)
    BY <1>1, <2>2 DEF Now, State
  <2>4. PICK g : g.tap = "IDLE" /\ Leads(sc, Now', todo', g)
    BY <1>1, <2>3, LeaveLeads
  <2>5. todo' \in Seq(Calm)
    BY <1>1, ExitCalm
  <2>6. EndsRight(sc', pc', cfg', wanted', g) /\ Leads(sc', Now', todo', g)
    BY <1>1, <2>4 DEF EndsRight
  <2>7. ClocksLead'
    BY <1>1, <2>5, <2>6 DEF ClocksLead, IdlePlaces
  <2>8. Configured' /\ Outcome'
    BY <1>1, <2>2 DEF Configured, Found, Outcome
  <2> QED BY <2>7, <2>8
<1>3. pc' \notin EarlyPlaces /\ (FilesFit(sc) => GoodReader(sc, bsdl'))
  BY <1>1 DEF EarlyPlaces, ScanPlaces, ScanInv
<1> QED BY <1>1, <1>2, <1>3, ScanLate

LEMMA ScanCheckEnumeration ==
  ASSUME ScanInv, CheckEnumeration
  PROVE  ScanInv'
<1>1. /\ pc = "enumerated" /\ pc' \in {"exit", "list"} /\ sc' = sc /\ latched' = latched /\ bsdl' = bsdl /\ sane' = sane
      /\ wanted' = wanted /\ err' = err /\ resetErr' = resetErr /\ opt' = opt /\ cfg' = cfg /\ tap' = tap /\ path' = path
      /\ ir' = ir /\ got' = got /\ todo' = << >> /\ todo = << >>
  BY DEF CheckEnumeration, At, Hardware, Quiet
<1>2. ASSUME OnCourse' PROVE ClocksLead' /\ Configured' /\ Outcome'
  <2>1. pc' = "list"
    BY <1>1, <1>2 DEF OnCourse, LatePlaces, IdlePlaces
  <2>2. OnCourse
    BY <1>1, <1>2, FitsKept DEF OnCourse, LatePlaces
  <2>3. Outcome
    BY <2>2 DEF ScanInv
  <2>4. pc \in LatePlaces \ {"leave"} /\ pc' \in IdlePlaces
    BY <1>1, <2>1 DEF LatePlaces, IdlePlaces
  <2>5. ClocksLead'
    BY <1>1, <2>2, <2>4, HostMovesOn
  <2>6. Configured' /\ Outcome'
    BY <1>1, <2>1, <2>3 DEF Configured, Found, Outcome
  <2> QED BY <2>5, <2>6
<1>3. pc' \notin EarlyPlaces /\ (FilesFit(sc) => GoodReader(sc, bsdl'))
  BY <1>1 DEF EarlyPlaces, ScanPlaces, ScanInv
<1> QED BY <1>1, <1>2, <1>3, ScanLate

LEMMA ScanListDevices ==
  ASSUME ScanInv, ListDevices
  PROVE  ScanInv'
<1>1. /\ pc = "list" /\ sc' = sc /\ latched' = latched /\ sane' = sane
      /\ wanted' = wanted /\ err' = err /\ resetErr' = resetErr /\ opt' = opt /\ cfg' = cfg /\ tap' = tap /\ path' = path
      /\ ir' = ir /\ got' = got /\ todo' = << >> /\ todo = << >>
  BY DEF ListDevices, At, Hardware, Quiet
<1>2. pc' \in {"spin", "list", "exit", "irsize"} /\ (pc' = "irsize" => i' = 0) /\ (bsdl' = bsdl \/ \E id : bsdl' = Ask(id).bsdl)
  <2>1. CASE i <= Len(dev)
    BY <2>1 DEF ListDevices
  <2>2. CASE ~ (i <= Len(dev))
    BY <2>2 DEF ListDevices
  <2> QED BY <2>1, <2>2
<1>3. FilesFit(sc) => GoodReader(sc, bsdl')
  BY <1>2, ReaderKept DEF ScanInv
<1>4. ASSUME OnCourse' PROVE ClocksLead' /\ Configured' /\ Outcome'
  <2>1. pc' \in {"list", "irsize"}
    BY <1>2, <1>4 DEF OnCourse, LatePlaces, IdlePlaces
  <2>2. OnCourse
    BY <1>1, <1>4, FitsKept DEF OnCourse, LatePlaces, IdlePlaces
  <2>3. Outcome
    BY <2>2 DEF ScanInv
  <2>4. pc \in LatePlaces \ {"leave"} /\ pc' \in IdlePlaces
    BY <1>1, <2>1 DEF LatePlaces, IdlePlaces
  <2>5. ClocksLead'
    BY <1>1, <2>2, <2>4, HostMovesOn
  <2>6. Configured' /\ Outcome'
    BY <1>1, <1>2, <2>1, <2>3 DEF Configured, Found, Outcome
  <2> QED BY <2>5, <2>6
<1>5. pc' \notin EarlyPlaces
  BY <1>2 DEF EarlyPlaces, ScanPlaces
<1> QED BY <1>1, <1>3, <1>4, <1>5, ScanLate

(***************************************************************************)
(* get_IR_size() and the sums of the lengths around the target.            *)
(***************************************************************************)
LEMMA SizeFits ==
  ASSUME Fits, NEW d \in Devices, NEW n, Known(sc, n, d)
  PROVE  GetIrSize(d, n) < 0 \/ GetIrSize(d, n) = sc.chain[d].irlen
<1> DEFINE s == opt.irSets
           I == {k \in 1..Len(s) : s[k][1] = d - 1}
           last == IF I # {} THEN Max(I) ELSE 0
<1>1. GetIrSize(d, n) = IF last = 0 THEN n.ir ELSE s[last][2]
  BY DEF GetIrSize, SelectLastInSeq
<1>2. Given(s, d) = last
  BY DEF Given, SelectLastInSeq
<1>3. OptionsFit(sc, opt, cfg.vir, cfg.vdr) /\ d \in DOMAIN sc.chain
  BY FitsFacts
<1> HIDE DEF last
<1>4. last # 0 => s[last][2] = sc.chain[d].irlen
  BY <1>2, <1>3 DEF OptionsFit
<1>5. n.ir < 0 \/ n.ir = sc.chain[d].irlen
  <2>1. NoInfo.ir = NoSize /\ NoSize < 0
    BY DEF NoInfo, NoSize
  <2>2. Spins.ir = -2
    <3>1. Spins = [[idcode |-> << >>, mask |-> << >>, ir |-> NoSize, debug |-> NoCmd, user1 |-> NoCmd, idc |-> NoCmd] EXCEPT !.ir = -2]
      BY DEF Spins, NoInfo
    <3> QED BY <3>1
  <2>3. -2 < 0
    OBVIOUS
  <2> QED BY <2>1, <2>2, <2>3 DEF Known, Describes
<1> QED BY <1>1, <1>4, <1>5

LEMMA SumFacts ==
  ASSUME sc \in Scenarios, NEW d \in Devices
  PROVE  LET r == IrRegs(sc)
         IN /\ Before(r, d) \in Nat /\ Before(r, d + 1) = Before(r, d) + sc.chain[d].irlen /\ sc.chain[d].irlen \in Nat \ {0}
            /\ Before(r, 1) = 0 /\ Before(r, Len(sc.chain) + 1) = Len(FlattenSeq(r))
            /\ Devices = 1..Len(sc.chain) /\ Len(sc.chain) \in Nat \ {0}
<1> DEFINE r == IrRegs(sc)
<1>1. /\ r \in Seq(Seq({0, 1})) /\ Len(r) = Len(sc.chain) /\ DOMAIN sc.chain = 1..Len(sc.chain) /\ Len(sc.chain) \in Nat \ {0}
      /\ \A k \in 1..Len(sc.chain) : Len(r[k]) = sc.chain[k].irlen /\ sc.chain[k].irlen \in Nat \ {0}
  BY IrRegsType
<1>2. Devices = 1..Len(sc.chain)
  BY <1>1 DEF Devices
<1> HIDE DEF r
<1>3. d \in 1..Len(r) /\ Len(r[d]) = sc.chain[d].irlen /\ sc.chain[d].irlen \in Nat \ {0}
  BY <1>1, <1>2
<1>4. Before(r, d) \in Nat /\ Before(r, d + 1) = Before(r, d) + Len(r[d])
  BY <1>1, <1>3, FlattenPart
<1>5. Before(r, 1) = 0 /\ Before(r, Len(r) + 1) = Len(FlattenSeq(r))
  BY <1>1, BeforeEnds
<1> QED BY <1>1, <1>2, <1>3, <1>4, <1>5 DEF r

\* Device k has been looked up, or skipped because it is the target.
LEMMA SummedNext ==
  ASSUME sc \in Scenarios, NEW T \in Devices, T = TargetOf(sc), NEW k \in Devices, NEW sum \in Nat, NEW c, Summed(sc, c, k, sum)
  PROVE  /\ k # T => Summed(sc, c, k + 1, sum + sc.chain[k].irlen)
         /\ \A e : (k = T /\ e.irSize = c.irSize /\ e.irPost = sum) => Summed(sc, e, k + 1, 0)
<1> DEFINE r == IrRegs(sc)
<1>1. PICK n \in Nat \ {0} : n = Len(sc.chain) /\ Devices = 1..n
  BY ChainNonempty
<1>2. /\ Before(r, k) \in Nat /\ Before(r, k + 1) = Before(r, k) + sc.chain[k].irlen /\ sc.chain[k].irlen \in Nat \ {0}
      /\ Before(r, T) \in Nat /\ Before(r, T + 1) = Before(r, T) + sc.chain[T].irlen /\ sc.chain[T].irlen \in Nat \ {0}
  BY SumFacts
<1>3. /\ c.irSize = sc.chain[T].irlen
      /\ k <= T => sum = Before(r, k)
      /\ k > T => c.irPost = Before(r, T) /\ sum + Before(r, T + 1) = Before(r, k)
  BY DEF Summed
<1> HIDE DEF r
<1>4. k \in 1..n /\ T \in 1..n /\ k + 1 \in 1..(n + 1)
  BY <1>1
<1>5. ASSUME k # T PROVE Summed(sc, c, k + 1, sum + sc.chain[k].irlen)
  <2>1. k + 1 <= T => sum + sc.chain[k].irlen = Before(r, k + 1)
    BY <1>2, <1>3, <1>4
  <2>2. k + 1 > T => c.irPost = Before(r, T) /\ (sum + sc.chain[k].irlen) + Before(r, T + 1) = Before(r, k + 1)
    BY <1>2, <1>3, <1>4, <1>5
  <2> QED BY <1>1, <1>3, <1>4, <2>1, <2>2 DEF Summed, r
<1>6. ASSUME NEW e, k = T, e.irSize = c.irSize, e.irPost = sum PROVE Summed(sc, e, k + 1, 0)
  <2>1. ~ (k + 1 <= T) /\ e.irPost = Before(r, T) /\ 0 + Before(r, T + 1) = Before(r, k + 1)
    BY <1>2, <1>3, <1>4, <1>6
  <2> QED BY <1>1, <1>3, <1>4, <1>6, <2>1 DEF Summed, r
<1> QED BY <1>5, <1>6

LEMMA SummedStart ==
  ASSUME sc \in Scenarios, NEW T \in Devices, T = TargetOf(sc), NEW c, c.irSize = sc.chain[T].irlen
  PROVE  Summed(sc, c, 1, 0)
<1>1. PICK n \in Nat \ {0} : n = Len(sc.chain) /\ Devices = 1..n
  BY ChainNonempty
<1>2. Before(IrRegs(sc), 1) = 0
  BY SumFacts
<1>3. T \in 1..n /\ 1 \in 1..(n + 1) /\ ~ (1 > T)
  BY <1>1
<1> QED BY <1>1, <1>2, <1>3 DEF Summed

LEMMA SummedEnd ==
  ASSUME sc \in Scenarios, Fits, opt.target \in Nat, NEW c, NEW sum \in Nat, NEW k \in Nat, k > Len(sc.chain), Summed(sc, c, k, sum),
         NEW e, e.irSize = c.irSize, e.irPost = c.irPost, e.irPre = sum, e.drPre = Len(sc.chain) - opt.target - 1, e.drPost = opt.target
  PROVE  Around(sc, e, Target)
<1> DEFINE r == IrRegs(sc)
           T == Target
<1>1. PICK n \in Nat \ {0} : n = Len(sc.chain) /\ Devices = 1..n
  BY ChainNonempty
<1>2. T \in Devices /\ T = TargetOf(sc) /\ opt.target + 1 = T /\ opt.target = sc.target /\ StreamsFit(sc)
  BY FitsFacts DEF TargetPos, OptionsFit
<1>3. /\ Before(r, T) \in Nat /\ Before(r, T + 1) = Before(r, T) + sc.chain[T].irlen /\ sc.chain[T].irlen \in Nat \ {0}
      /\ Before(r, n + 1) = Len(FlattenSeq(r))
  BY <1>1, <1>2, SumFacts
<1>4. /\ k \in 1..(n + 1) /\ c.irSize = sc.chain[T].irlen
      /\ k > T => c.irPost = Before(r, T) /\ sum + Before(r, T + 1) = Before(r, k)
  BY <1>1, <1>2 DEF Summed
<1> HIDE DEF r, T
<1>5. k = n + 1 /\ k > T
  BY <1>1, <1>2, <1>4
<1>6. /\ e.irPost = Before(r, T) /\ e.irSize = sc.chain[T].irlen /\ e.irPre = sum
      /\ sum + Before(r, T + 1) = Len(FlattenSeq(r))
  BY <1>3, <1>4, <1>5
<1>7. e.irSize + e.irPre + e.irPost = Len(FlattenSeq(r))
  <2>1. PICK a \in Nat, l \in Nat : a = Before(r, T) /\ l = sc.chain[T].irlen
    BY <1>3
  <2>2. sum + (a + l) = Len(FlattenSeq(r)) /\ e.irSize = l /\ e.irPre = sum /\ e.irPost = a
    BY <1>3, <1>6, <2>1
  <2>3. l + sum + a = sum + (a + l)
    BY <2>1
  <2> QED BY <2>2, <2>3
<1>8. e.drPost = T - 1 /\ e.drPre = n - T
  <2>1. PICK m \in 1..n : m = T
    BY <1>1, <1>2
  <2>2. opt.target = m - 1
    BY <1>2, <2>1
  <2> QED BY <1>1, <2>1, <2>2
<1>9. (e.irPost % WordBits) + e.irSize < WordBits
  BY <1>2, <1>6 DEF StreamsFit, r
<1> QED BY <1>1, <1>6, <1>7, <1>8, <1>9 DEF Around, r, T

LEMMA ScanConfigureIr ==
  ASSUME Inv, ConfigureIr
  PROVE  ScanInv'
<1>1. /\ pc = "irsize" /\ sc' = sc /\ latched' = latched /\ sane' = sane
      /\ wanted' = wanted /\ err' = err /\ resetErr' = resetErr /\ opt' = opt /\ tap' = tap /\ path' = path
      /\ ir' = ir /\ got' = got /\ todo' = << >> /\ todo = << >>
  BY DEF ConfigureIr, At, Hardware, Quiet
<1>2. /\ TypeInv /\ EnumInv /\ ScanInv /\ sc \in Scenarios /\ cfg \in Cfgs /\ opt.target \in Nat /\ i \in Nat /\ total \in Nat
      /\ Len(dev) \in Nat
  BY <1>1 DEF Inv, TypeInv, WireTypes, ConfigTypes, LocalTypes, FoundTypes, Opts
<1> DEFINE d == IF i = 0 THEN TargetPos ELSE i
           Looks(ask, size) ==
             /\ bsdl' = ask.bsdl
             /\ pc' = (IF size < 0 THEN "exit" ELSE pc)
             /\ cfg' = (IF i = 0 THEN [cfg EXCEPT !.irSize = size] ELSE cfg)
             /\ total' = (IF i = 0 THEN 0 ELSE total + size)
             /\ i' = i + 1
           Ends == /\ cfg' = [cfg EXCEPT !.irPre = total, !.drPre = Len(dev) - opt.target - 1, !.drPost = opt.target]
                   /\ pc' = "debugcmd" /\ bsdl' = bsdl /\ i' = i /\ total' = total
           Skips == cfg' = [cfg EXCEPT !.irPost = total] /\ total' = 0 /\ i' = i + 1 /\ bsdl' = bsdl /\ pc' = pc
<1>3. \/ i > Len(dev) /\ Ends
      \/ ~ (i > Len(dev)) /\ i = TargetPos /\ Skips
      \/ ~ (i > Len(dev)) /\ i # TargetPos /\ Looks(Ask(dev[d]), GetIrSize(d, Ask(dev[d]).info))
  <2>1. CASE i > Len(dev)
    BY <2>1 DEF ConfigureIr
  <2>2. CASE ~ (i > Len(dev)) /\ i = TargetPos
    BY <2>2 DEF ConfigureIr
  <2>3. CASE ~ (i > Len(dev)) /\ i # TargetPos
    BY <2>3 DEF ConfigureIr
  <2> QED BY <2>1, <2>2, <2>3
<1> HIDE DEF d
<1>4. pc' \in {"debugcmd", "irsize", "exit"} /\ (bsdl' = bsdl \/ \E id : bsdl' = Ask(id).bsdl)
  BY <1>1, <1>3
<1>5. cfg'.vir = cfg.vir /\ cfg'.vdr = cfg.vdr
  BY <1>2, <1>3 DEF Cfgs
<1>6. FilesFit(sc) => GoodReader(sc, bsdl')
  BY <1>2, <1>4, ReaderKept DEF ScanInv
<1>7. pc' \notin EarlyPlaces
  BY <1>4 DEF EarlyPlaces, ScanPlaces
<1>8. ASSUME OnCourse' PROVE ClocksLead' /\ Configured' /\ Outcome'
  <2>1. pc' \in {"debugcmd", "irsize"}
    BY <1>4, <1>8 DEF OnCourse, LatePlaces, IdlePlaces
  <2>2. OnCourse
    BY <1>1, <1>5, <1>8, FitsKept DEF OnCourse, LatePlaces, IdlePlaces
  <2>3. Outcome /\ Configured /\ Fits /\ ~ err /\ ~ resetErr /\ pc \in LatePlaces
    BY <1>2, <2>2 DEF ScanInv, OnCourse
  <2>4. pc \in LatePlaces \ {"leave"} /\ pc' \in IdlePlaces
    BY <1>1, <2>1 DEF LatePlaces, IdlePlaces
  <2>5. ClocksLead'
    BY <1>1, <1>2, <2>2, <2>4, HostMovesOn
  <2>6. Outcome'
    BY <1>1, <2>1, <2>3 DEF Outcome
  <2>7. Len(dev) = Len(sc.chain) /\ (\A k \in Devices : dev[k] = sc.chain[k].id) /\ GoodReader(sc, bsdl)
    BY <1>2, <2>3, DevIs, FitsFacts DEF ScanInv
  <2>8. Target \in Devices /\ Target = TargetOf(sc) /\ TargetPos = Target /\ Devices = DOMAIN sc.chain
    BY <2>3, FitsFacts
  <2>9. PICK n \in Nat \ {0} : n = Len(sc.chain) /\ Devices = 1..n
    BY <1>2, ChainNonempty
  <2>10. i # 0 => Summed(sc, cfg, i, total)
    BY <1>1, <2>3 DEF Configured
  <2>11. CASE i > Len(dev) /\ Ends
    <3>1. i # 0 /\ i > Len(sc.chain)
      BY <1>2, <2>7, <2>9, <2>11
    <3>2. /\ cfg'.irSize = cfg.irSize /\ cfg'.irPost = cfg.irPost /\ cfg'.irPre = total
          /\ cfg'.drPre = Len(sc.chain) - opt.target - 1 /\ cfg'.drPost = opt.target
      BY <1>2, <2>7, <2>11 DEF Cfgs
    <3>3. Around(sc, cfg', Target)
      BY <1>2, <2>3, <2>10, <3>1, <3>2, SummedEnd
    <3>4. Around(sc', cfg', Target')
      BY <1>1, <3>3 DEF Target
    <3>5. Configured'
      BY <2>11, <3>4 DEF Configured
    <3> QED BY <2>5, <2>6, <3>5
  <2>12. CASE ~ (i > Len(dev)) /\ i = TargetPos /\ Skips
    <3>1. i \in Devices /\ i = Target /\ i # 0
      BY <2>8, <2>9, <2>12
    <3>2. cfg'.irSize = cfg.irSize /\ cfg'.irPost = total
      BY <1>2, <2>12 DEF Cfgs
    <3>3. Summed(sc, cfg', i + 1, 0)
      BY <1>2, <2>8, <2>10, <3>1, <3>2, SummedNext
    <3>4. Configured'
      BY <1>1, <2>12, <3>3 DEF Configured, Found
    <3> QED BY <2>5, <2>6, <3>4
  <2>13. CASE ~ (i > Len(dev)) /\ i # TargetPos /\ Looks(Ask(dev[d]), GetIrSize(d, Ask(dev[d]).info))
    <3>1. d \in Devices /\ (i = 0 => d = Target) /\ (i # 0 => d = i /\ d # Target)
      BY <1>2, <2>7, <2>8, <2>9, <2>13 DEF d
    <3>2. PICK ask : ask = Ask(dev[d]) /\ Known(sc, ask.info, d)
      BY <2>7, <2>8, <3>1, AskFits
    <3>3. PICK size : /\ size = GetIrSize(d, ask.info) /\ (size < 0 \/ size = sc.chain[d].irlen)
                      /\ Looks(ask, size)
      BY <2>3, <2>13, <3>1, <3>2, SizeFits
    <3>4. size = sc.chain[d].irlen
      BY <2>1, <3>3
    <3>5. CASE i = 0
      <4>1. cfg'.irSize = sc.chain[Target].irlen /\ i' = 1 /\ total' = 0
        BY <1>2, <3>1, <3>3, <3>4, <3>5 DEF Cfgs
      <4>2. Summed(sc, cfg', 1, 0)
        BY <1>2, <2>8, <4>1, SummedStart
      <4>3. pc' = "irsize"
        BY <1>1, <2>1, <3>3
      <4>4. Configured'
        BY <1>1, <4>1, <4>2, <4>3 DEF Configured, Found
      <4> QED BY <2>5, <2>6, <4>4
    <3>6. CASE i # 0
      <4>1. cfg' = cfg /\ i' = i + 1 /\ total' = total + sc.chain[i].irlen
        BY <3>1, <3>3, <3>4, <3>6
      <4>2. Summed(sc, cfg, i + 1, total + sc.chain[i].irlen)
        BY <1>2, <2>8, <2>10, <3>1, <3>6, SummedNext
      <4>3. pc' = "irsize"
        BY <1>1, <2>1, <3>3
      <4>4. Configured'
        BY <1>1, <4>1, <4>2, <4>3 DEF Configured, Found
      <4> QED BY <2>5, <2>6, <4>4
    <3> QED BY <3>5, <3>6
  <2> QED BY <1>3, <2>11, <2>12, <2>13
<1> QED BY <1>1, <1>2, <1>6, <1>7, <1>8, ScanLate

(***************************************************************************)
(* get_debug_cmd(), the sanity test and enabling the debug module.         *)
(***************************************************************************)
LEMMA PlacedNow ==
  ASSUME Inv, OnCourse, pc \in Found
  PROVE  /\ Placed(cfg) /\ Configured /\ Outcome /\ Fits /\ ~ err /\ ~ resetErr
         /\ Target \in Devices /\ Target = TargetOf(sc) /\ TargetPos = Target /\ Devices = DOMAIN sc.chain
         /\ dev[Target] = sc.chain[Target].id /\ GoodReader(sc, bsdl)
<1>1. TypeInv /\ EnumInv /\ ScanInv /\ sc \in Scenarios /\ cfg \in Cfgs
  BY DEF Inv, TypeInv, WireTypes, ConfigTypes
<1>2. Configured /\ Outcome /\ Fits /\ ~ err /\ ~ resetErr /\ pc \in LatePlaces
  BY <1>1 DEF ScanInv, OnCourse
<1>3. Target \in Devices /\ Target = TargetOf(sc) /\ TargetPos = Target /\ Devices = DOMAIN sc.chain /\ FilesFit(sc)
  BY <1>2, FitsFacts
<1>4. dev[Target] = sc.chain[Target].id /\ GoodReader(sc, bsdl)
  BY <1>1, <1>2, <1>3, DevIs DEF ScanInv
<1>5. Placed(cfg)
  BY <1>1, <1>2, <1>3, SoundFits DEF Placed, Configured
<1> QED BY <1>2, <1>3, <1>4, <1>5

LEMMA DebugCmdFits ==
  ASSUME Fits, NEW n, Known(sc, n, Target), GetDebugCmd(sc.chain[Target].id, n) # NoCmd
  PROVE  GetDebugCmd(sc.chain[Target].id, n) = sc.chain[Target].debug
<1> DEFINE v == sc.chain[Target]
<1>1. opt.debugCmd \in {NoCmd, v.debug} /\ Target = TargetOf(sc)
  BY FitsFacts DEF OptionsFit
<1>2. NoInfo.user1 = NoCmd /\ NoInfo.debug = NoCmd /\ Spins.user1 = NoCmd /\ Spins.debug = NoCmd
  BY DEF NoInfo, Spins
<1>3. CASE opt.debugCmd # NoCmd
  BY <1>1, <1>3 DEF GetDebugCmd
<1>4. CASE opt.debugCmd = NoCmd /\ n \in {NoInfo, Spins}
  BY <1>2, <1>4 DEF GetDebugCmd
<1>5. CASE opt.debugCmd = NoCmd /\ n \notin {NoInfo, Spins}
  <2>1. v.id # NoId /\ Describes(sc, n, Target)
    BY <1>5 DEF Known
  <2>2. (IF Manuf(v.id) = XilinxManuf THEN n.user1 ELSE n.debug) \in {NoCmd, v.debug}
    BY <1>1, <2>1 DEF Describes
  <2> QED BY <1>5, <2>1, <2>2 DEF GetDebugCmd
<1> QED BY <1>3, <1>4, <1>5

LEMMA ScanConfigureDebugCmd ==
  ASSUME Inv, ConfigureDebugCmd
  PROVE  ScanInv'
<1>1. /\ pc = "debugcmd" /\ sc' = sc /\ latched' = latched /\ sane' = sane
      /\ wanted' = wanted /\ err' = err /\ resetErr' = resetErr /\ opt' = opt /\ tap' = tap /\ path' = path
      /\ ir' = ir /\ got' = got /\ todo' = << >> /\ todo = << >>
  BY DEF ConfigureDebugCmd, At, Hardware, Quiet
<1> DEFINE id == dev[TargetPos]
           xil == id # NoId /\ Manuf(id) = XilinxManuf
           altera == id # NoId /\ Manuf(id) = AlteraManuf
           alt == opt.forceAlt = 1 \/ (opt.forceAlt = 0 /\ altera)
           ask == Ask(id)
           cmd == GetDebugCmd(id, ask.info)
<1>2. /\ bsdl' = IF alt THEN bsdl ELSE ask.bsdl
      /\ pc' = IF ~alt /\ cmd = NoCmd THEN "exit" ELSE "idcode"
      /\ cfg' = [cfg EXCEPT !.alt = alt, !.debug = IF alt THEN cfg.debug ELSE cmd, !.xilinx = xil]
  BY DEF ConfigureDebugCmd
<1>3. TypeInv /\ EnumInv /\ ScanInv /\ cfg \in Cfgs /\ alt \in BOOLEAN
  BY DEF Inv, TypeInv, ConfigTypes
<1> HIDE DEF xil, ask, cmd, alt
<1>4. /\ cfg'.vir = cfg.vir /\ cfg'.vdr = cfg.vdr /\ cfg'.irSize = cfg.irSize /\ cfg'.irPre = cfg.irPre /\ cfg'.irPost = cfg.irPost
      /\ cfg'.drPre = cfg.drPre /\ cfg'.drPost = cfg.drPost /\ (~ alt => cfg'.debug = cmd)
  BY <1>2, <1>3 DEF Cfgs
<1>5. cfg'.alt <=> alt
  BY <1>2, <1>3 DEF Cfgs
<1>6. FilesFit(sc) => GoodReader(sc, bsdl')
  BY <1>2, <1>3, ReaderKept DEF ScanInv, ask
<1>7. pc' \in {"exit", "idcode"} /\ pc' \notin EarlyPlaces
  BY <1>2 DEF EarlyPlaces, ScanPlaces
<1>8. ASSUME OnCourse' PROVE ClocksLead' /\ Configured' /\ Outcome'
  <2>1. pc' = "idcode"
    BY <1>7, <1>8 DEF OnCourse, LatePlaces, IdlePlaces
  <2>2. OnCourse /\ pc \in Found
    BY <1>1, <1>4, <1>8, FitsKept DEF OnCourse, LatePlaces, IdlePlaces, Found
  <2>3. /\ Configured /\ Outcome /\ Fits /\ Target = TargetOf(sc) /\ TargetPos = Target /\ Target \in DOMAIN sc.chain
        /\ id = sc.chain[Target].id /\ GoodReader(sc, bsdl)
    BY <2>2, PlacedNow
  <2>4. pc \in LatePlaces \ {"leave"} /\ pc' \in IdlePlaces
    BY <1>1, <2>1 DEF LatePlaces, IdlePlaces
  <2>5. ClocksLead'
    BY <1>1, <1>3, <2>2, <2>4, HostMovesOn
  <2>6. Outcome'
    BY <1>1, <2>1, <2>3 DEF Outcome
  <2>7. Around(sc', cfg', Target')
    <3>1. Around(sc, cfg, Target)
      BY <2>2, <2>3 DEF Configured
    <3>2. Around(sc, cfg', Target)
      BY <1>4, <3>1 DEF Around
    <3> QED BY <1>1, <3>2 DEF Target
  <2>8. alt <=> AltTarget(sc, opt)
    BY <2>3 DEF alt, AltTarget
  <2>9. OptionsFit(sc, opt, cfg.vir, cfg.vdr)
    BY <2>3, FitsFacts
  <2>10. CommandsFit(cfg')
    <3> DEFINE v == sc.chain[Target]
    <3>1. CASE alt
      <4>1. cfg.vir = v.vir /\ cfg.vdr = v.vdr /\ Len(v.vir) = v.irlen /\ Len(v.vdr) = v.irlen
        BY <2>3, <2>8, <2>9, <3>1 DEF OptionsFit
      <4> QED BY <1>4, <1>5, <3>1, <4>1 DEF CommandsFit
    <3>2. CASE ~ alt
      <4>1. Len(v.debug) = v.irlen
        BY <2>3, <2>8, <2>9, <3>2 DEF OptionsFit
      <4>2. Known(sc, ask.info, Target)
        BY <2>3, AskFits DEF ask
      <4>3. cmd # NoCmd
        BY <1>2, <2>1, <3>2
      <4>4. cmd = v.debug
        BY <2>3, <4>2, <4>3, DebugCmdFits DEF cmd
      <4> QED BY <1>4, <1>5, <3>2, <4>1, <4>4 DEF CommandsFit
    <3> QED BY <3>1, <3>2
  <2>11. CommandsFit(cfg)'
    BY <1>1, <2>10 DEF CommandsFit, Target
  <2>12. Configured'
    BY <2>1, <2>7, <2>11 DEF Configured
  <2> QED BY <2>5, <2>6, <2>12
<1> QED BY <1>1, <1>3, <1>6, <1>7, <1>8, ScanLate

\* The configuration after a step that does not change it.
LEMMA ConfiguredKept ==
  ASSUME Configured, pc \in Found \ {"debugcmd"}, pc' \in Found \ {"debugcmd"}, sc' = sc, cfg' = cfg
  PROVE  Configured'
<1>1. Around(sc, cfg, Target) /\ CommandsFit(cfg) /\ pc' # "irsize"
  BY DEF Configured, Found
<1>2. Around(sc', cfg', Target') /\ CommandsFit(cfg)'
  BY <1>1 DEF Target, CommandsFit
<1> QED BY <1>1, <1>2 DEF Configured

LEMMA ScanAskIdcode ==
  ASSUME Inv, AskIdcode
  PROVE  ScanInv'
<1>1. /\ pc = "idcode" /\ sc' = sc /\ latched' = latched /\ sane' = sane
      /\ wanted' = wanted /\ err' = err /\ resetErr' = resetErr /\ opt' = opt /\ tap' = tap /\ path' = path
      /\ ir' = ir /\ cfg' = cfg /\ todo = << >>
  BY DEF AskIdcode, At, Hardware
<1> DEFINE id == IF dev[TargetPos] = NoId THEN Bits(IdBits, 1) ELSE dev[TargetPos]
           ask == GetBsdlInfo(bsdl, id)
<1>2. /\ bsdl' = ask.bsdl
      /\ IF ask.info.idc = NoCmd THEN pc' \in {"spin", "enable"} /\ todo' = todo /\ got' = got
         ELSE pc' = "gotidcode" /\ todo' = JtagGetIdcode(cfg, ask.info.idc, IdBits + 1) /\ got' = << >>
  BY DEF AskIdcode, Quiet, Send
<1>3. TypeInv /\ EnumInv /\ ScanInv /\ cfg \in Cfgs
  BY DEF Inv, TypeInv, ConfigTypes
<1>4. FilesFit(sc) => GoodReader(sc, bsdl')
  BY <1>2, <1>3, ReaderKept DEF ScanInv
<1> HIDE DEF ask
<1>5. pc' \in {"spin", "enable", "gotidcode"} /\ pc' \notin EarlyPlaces
  BY <1>2 DEF EarlyPlaces, ScanPlaces
<1>6. ASSUME OnCourse' PROVE ClocksLead' /\ Configured' /\ Outcome'
  <2>1. pc' \in {"enable", "gotidcode"}
    BY <1>5, <1>6 DEF OnCourse, LatePlaces, IdlePlaces
  <2>2. OnCourse /\ pc \in Found
    BY <1>1, <1>6, FitsKept DEF OnCourse, LatePlaces, IdlePlaces, Found
  <2>3. /\ Placed(cfg) /\ Configured /\ Outcome /\ Fits /\ Target = TargetOf(sc) /\ TargetPos = Target /\ Target \in DOMAIN sc.chain
        /\ dev[Target] = sc.chain[Target].id /\ GoodReader(sc, bsdl)
    BY <2>2, PlacedNow
  <2>4. Outcome'
    BY <1>1, <2>1, <2>3 DEF Outcome
  <2>5. Configured'
    BY <1>1, <2>1, <2>3, ConfiguredKept DEF Found
  <2>6. CASE pc' = "enable"
    <3>1. pc \in LatePlaces \ {"leave"} /\ pc' \in IdlePlaces /\ todo' = << >> /\ got' = got
      BY <1>1, <1>2, <2>6 DEF LatePlaces, IdlePlaces
    <3>2. ClocksLead'
      BY <1>1, <1>3, <2>2, <3>1, HostMovesOn
    <3> QED BY <2>4, <2>5, <3>2
  <2>7. CASE pc' = "gotidcode"
    <3> DEFINE v == sc.chain[Target]
    <3>1. ask.info.idc # NoCmd /\ todo' = JtagGetIdcode(cfg, ask.info.idc, IdBits + 1) /\ got' = << >>
      BY <1>2, <2>7
    <3>2. v.id # NoId
      <4>1. v.id = NoId => ask.info.idc = NoCmd
        BY <2>3, NoIdcodeAnswer DEF ask
      <4> QED BY <3>1, <4>1
    <3>3. Known(sc, ask.info, Target)
      BY <2>3, <3>2, AnswerFits DEF ask
    <3>4. ask.info.idc = v.idcode /\ ask.info \in Infos
      <4>1. NoInfo.idc = NoCmd /\ Spins.idc = NoCmd
        BY DEF NoInfo, Spins
      <4> QED BY <2>3, <3>1, <3>3, <4>1 DEF Known, Describes
    <3>5. tap = "IDLE"
      <4>1. EndsRight(sc, pc, cfg, wanted, Now)
        BY <1>1, <1>3, <2>2, Arrived
      <4> QED BY <4>1, NowFields DEF EndsRight
    <3>6. Now' = State("IDLE", path, ir, latched, << >>)
      BY <1>1, <3>1, <3>5 DEF Now, State
    <3>7. PICK w, x2, y2 : Leads(sc, State("IDLE", path, ir, latched, << >>), JtagGetIdcode(cfg, v.idcode, IdBits + 1),
                                 State("IDLE", w, x2, y2, <<1>> \o v.id))
      BY <2>3, <3>2, GetIdcodeDoes
    <3> DEFINE g == State("IDLE", w, x2, y2, <<1>> \o v.id)
    <3>8. g.tap = "IDLE" /\ g.got = <<1>> \o v.id
      <4>1. PICK e : e = <<1>> \o v.id
        OBVIOUS
      <4>2. State("IDLE", w, x2, y2, e).tap = "IDLE" /\ State("IDLE", w, x2, y2, e).got = e
        BY StateFields
      <4> QED BY <4>1, <4>2
    <3>9. Leads(sc, Now', todo', g)
      BY <3>1, <3>4, <3>6, <3>7
    <3> HIDE DEF g
    <3>10. EndsRight(sc', pc', cfg', wanted', g)
      BY <1>1, <2>3, <2>7, <3>8 DEF EndsRight
    <3>11. todo' \in Seq(Calm)
      <4>1. ask.info.idc \in Seq({0, 1}) /\ cfg.irSize > 0
        BY <2>3, <3>4, PlacedFacts DEF Infos
      <4> QED BY <1>3, <3>1, <4>1, GetIdcodeType
    <3>12. ClocksLead'
      BY <1>1, <2>7, <3>9, <3>10, <3>11 DEF ClocksLead, IdlePlaces
    <3> QED BY <2>4, <2>5, <3>12
  <2> QED BY <2>1, <2>6, <2>7
<1> QED BY <1>1, <1>3, <1>4, <1>5, <1>6, ScanLate

LEMMA ScanCheckIdcode ==
  ASSUME Inv, CheckIdcode
  PROVE  ScanInv'
<1>1. /\ pc = "gotidcode" /\ pc' \in {"exit", "enable"} /\ sc' = sc /\ latched' = latched /\ bsdl' = bsdl
      /\ wanted' = wanted /\ err' = err /\ resetErr' = resetErr /\ opt' = opt /\ cfg' = cfg /\ tap' = tap /\ path' = path
      /\ ir' = ir /\ got' = got /\ todo' = << >> /\ todo = << >>
      /\ ~ err => sane' = IF got = <<1>> \o dev[TargetPos] THEN "passed" ELSE "failed"
  BY DEF CheckIdcode, At, Hardware, Quiet
<1>2. ScanInv
  BY DEF Inv
<1>3. ASSUME OnCourse' PROVE ClocksLead' /\ Configured' /\ Outcome'
  <2>1. pc' = "enable"
    BY <1>1, <1>3 DEF OnCourse, LatePlaces, IdlePlaces
  <2>2. OnCourse /\ pc \in Found
    BY <1>1, <1>3, FitsKept DEF OnCourse, LatePlaces, Found
  <2>3. /\ Configured /\ Outcome /\ ~ err /\ Target = TargetOf(sc) /\ TargetPos = Target /\ dev[Target] = sc.chain[Target].id
    BY <2>2, PlacedNow
  <2>4. pc \in LatePlaces \ {"leave"} /\ pc' \in IdlePlaces
    BY <1>1, <2>1 DEF LatePlaces, IdlePlaces
  <2>5. ClocksLead'
    BY <1>1, <1>2, <2>2, <2>4, HostMovesOn
  <2>6. Configured'
    BY <1>1, <2>1, <2>3, ConfiguredKept DEF Found
  <2>7. EndsRight(sc, pc, cfg, wanted, Now)
    BY <1>1, <1>2, <2>2, Arrived
  <2>8. got = <<1>> \o sc.chain[TargetOf(sc)].id
    BY <1>1, <2>7, NowFields DEF EndsRight
  <2>9. sane' = "passed"
    BY <1>1, <2>3, <2>8
  <2>10. Outcome'
    BY <1>1, <2>1, <2>3, <2>9 DEF Outcome
  <2> QED BY <2>5, <2>6, <2>10
<1>4. pc' \notin EarlyPlaces /\ (FilesFit(sc) => GoodReader(sc, bsdl'))
  BY <1>1, <1>2 DEF EarlyPlaces, ScanPlaces, ScanInv
<1> QED BY <1>1, <1>2, <1>3, <1>4, ScanLate

LEMMA ScanEnable ==
  ASSUME Inv, EnableDebugModule
  PROVE  ScanInv'
<1>1. /\ pc = "enable" /\ pc' = "enabled" /\ sc' = sc /\ latched' = latched /\ bsdl' = bsdl /\ sane' = sane
      /\ wanted' = wanted /\ err' = err /\ resetErr' = resetErr /\ opt' = opt /\ cfg' = cfg /\ tap' = tap /\ path' = path
      /\ ir' = ir /\ got' = << >> /\ todo' = TapEnableDebugModule(cfg) /\ todo = << >>
  BY DEF EnableDebugModule, At, Hardware, Send
<1>2. ScanInv /\ cfg \in Cfgs /\ sc \in Scenarios
  BY DEF Inv, TypeInv, ConfigTypes, WireTypes
<1>3. ASSUME OnCourse' PROVE ClocksLead' /\ Configured' /\ Outcome'
  <2>1. OnCourse /\ pc \in Found
    BY <1>1, <1>3, FitsKept DEF OnCourse, LatePlaces, IdlePlaces, Found
  <2>2. /\ Placed(cfg) /\ Configured /\ Outcome /\ Fits /\ Target = TargetOf(sc)
    BY <2>1, PlacedNow
  <2>3. Configured' /\ Outcome'
    BY <1>1, <2>2, ConfiguredKept DEF Found, Outcome
  <2>4. tap = "IDLE"
    <3>1. EndsRight(sc, pc, cfg, wanted, Now)
      BY <1>1, <1>2, <2>1, Arrived
    <3> QED BY <3>1, NowFields DEF EndsRight
  <2>5. Now' = State("IDLE", path, ir, latched, << >>)
    BY <1>1, <2>4 DEF Now, State
  <2>6. CommandsFit(cfg) /\ Sound(VirBits + 1) /\ IsLatch(latched) /\ cfg.irSize > 0
    BY <1>1, <1>2, <2>2, SoundFits, PlacedFacts DEF Configured, Found, ScanInv
  <2>7. PICK w, y2 : /\ Leads(sc, State("IDLE", path, ir, latched, << >>), TapEnableDebugModule(cfg),
                              State("IDLE", w, Picked(sc, Target, IF cfg.alt THEN cfg.vdr ELSE cfg.debug), y2, << >>))
                     /\ cfg.alt => y2.vir = sc.virDebug
    BY <2>2, <2>6, EnableDoes
  <2> DEFINE x2 == Picked(sc, Target, IF cfg.alt THEN cfg.vdr ELSE cfg.debug)
             g == State("IDLE", w, x2, y2, << >>)
  <2>8. x2 = Selected(sc, cfg)
    BY <2>2 DEF Selected
  <2> HIDE DEF x2
  <2>9. g.tap = "IDLE" /\ g.ir = x2 /\ g.latched = y2
    BY StateFields
  <2>10. Leads(sc, Now', todo', g)
    BY <1>1, <2>5, <2>7 DEF x2
  <2> HIDE DEF g
  <2>11. EndsRight(sc', pc', cfg', wanted', g)
    BY <1>1, <2>7, <2>8, <2>9 DEF EndsRight
  <2>12. todo' \in Seq(Calm)
    BY <1>1, <1>2, <2>6, EnableType
  <2>13. ClocksLead'
    BY <1>1, <2>10, <2>11, <2>12 DEF ClocksLead, IdlePlaces
  <2> QED BY <2>3, <2>13
<1>4. pc' \notin EarlyPlaces /\ (FilesFit(sc) => GoodReader(sc, bsdl'))
  BY <1>1, <1>2 DEF EarlyPlaces, ScanPlaces, ScanInv
<1> QED BY <1>1, <1>2, <1>3, <1>4, ScanLate

LEMMA ScanCheckEnabled ==
  ASSUME Inv, CheckEnabled
  PROVE  ScanInv'
<1>1. /\ pc = "enabled" /\ pc' \in {"exit", "ready"} /\ sc' = sc /\ latched' = latched /\ bsdl' = bsdl /\ sane' = sane
      /\ wanted' = wanted /\ err' = err /\ resetErr' = resetErr /\ opt' = opt /\ cfg' = cfg /\ tap' = tap /\ path' = path
      /\ ir' = ir /\ got' = got /\ todo' = << >> /\ todo = << >>
  BY DEF CheckEnabled, At, Hardware, Quiet
<1>2. ScanInv
  BY DEF Inv
<1>3. ASSUME OnCourse' PROVE ClocksLead' /\ Configured' /\ Outcome'
  <2>1. pc' = "ready"
    BY <1>1, <1>3 DEF OnCourse, LatePlaces, IdlePlaces
  <2>2. OnCourse /\ pc \in Found
    BY <1>1, <1>3, FitsKept DEF OnCourse, LatePlaces, Found
  <2>3. Configured /\ Outcome
    BY <2>2, PlacedNow
  <2>4. Configured' /\ Outcome' /\ wanted' = << >>
    BY <1>1, <2>1, <2>3, ConfiguredKept DEF Found, Outcome
  <2>5. EndsRight(sc, pc, cfg, wanted, Now) /\ Now' = Now
    BY <1>1, <1>2, <2>2, Arrived, NowKept
  <2>6. EndsRight(sc', pc', cfg', wanted', Now')
    BY <1>1, <2>1, <2>4, <2>5 DEF EndsRight
  <2>7. Leads(sc', Now', todo', Now') /\ todo' \in Seq(Calm)
    BY <1>1, LeadsNone
  <2>8. ClocksLead'
    BY <2>1, <2>6, <2>7 DEF ClocksLead, IdlePlaces
  <2> QED BY <2>4, <2>8
<1>4. pc' \notin EarlyPlaces /\ (FilesFit(sc) => GoodReader(sc, bsdl'))
  BY <1>1, <1>2 DEF EarlyPlaces, ScanPlaces, ScanInv
<1> QED BY <1>1, <1>2, <1>3, <1>4, ScanLate

LEMMA ScanDebugScan ==
  ASSUME Inv, NEW data \in [1..DbgBits -> {0, 1}], NEW read \in BOOLEAN, DebugScan(data, read)
  PROVE  ScanInv'
<1> DEFINE q == TapSetShiftDr \o (IF read THEN JtagReadWriteStream(cfg, data, DbgBits, TRUE, 1) ELSE JtagWriteStream(cfg, data, DbgBits, 1))
                  \o TapExitToIdle
<1>1. /\ pc = "ready" /\ pc' = pc /\ sc' = sc /\ latched' = latched /\ bsdl' = bsdl /\ sane' = sane
      /\ wanted' = data /\ err' = err /\ resetErr' = resetErr /\ opt' = opt /\ cfg' = cfg /\ tap' = tap /\ path' = path
      /\ ir' = ir /\ got' = << >> /\ todo' = q /\ todo = << >>
  BY DEF DebugScan, At, Hardware, Send
<1>2. ScanInv /\ cfg \in Cfgs /\ sc \in Scenarios
  BY DEF Inv, TypeInv, ConfigTypes, WireTypes
<1>3. ASSUME OnCourse' PROVE ClocksLead' /\ Configured' /\ Outcome'
  <2>1. OnCourse /\ pc \in Found
    BY <1>1, <1>3, FitsKept DEF OnCourse, LatePlaces, Found
  <2>2. /\ Placed(cfg) /\ Configured /\ Outcome /\ Fits /\ Target = TargetOf(sc)
    BY <2>1, PlacedNow
  <2>3. Configured' /\ Outcome'
    BY <1>1, <2>2, ConfiguredKept DEF Found, Outcome
  <2> DEFINE cmd == IF cfg.alt THEN cfg.vdr ELSE cfg.debug
             x == Picked(sc, Target, cmd)
  <2>4. EndsRight(sc, pc, cfg, wanted, Now)
    BY <1>1, <1>2, <2>1, Arrived
  <2>5. tap = "IDLE" /\ ir = x /\ (cfg.alt => latched.vir = sc.virDebug)
    BY <1>1, <2>2, <2>4, NowFields DEF EndsRight, Selected
  <2>6. Now' = State("IDLE", path, x, latched, << >>)
    BY <1>1, <2>5 DEF Now, State
  <2>7. CommandsFit(cfg) /\ Sound(DbgBits) /\ IsLatch(latched)
    BY <1>1, <1>2, <2>2, SoundFits DEF Configured, Found, ScanInv
  <2>8. cmd \in {sc.chain[Target].debug, sc.chain[Target].vdr} /\ Len(cmd) = sc.chain[Target].irlen /\ cmd \in Seq({0, 1})
    BY <1>2, <2>7 DEF CommandsFit, Cfgs
  <2> HIDE DEF cmd
  <2>9. PICK w : \E g \in {<< >>, sc.status} :
           Leads(sc, State("IDLE", path, Picked(sc, Target, cmd), latched, << >>), q,
                 State("IDLE", w, Picked(sc, Target, cmd), [latched EXCEPT !.debug = data], g))
    BY <2>2, <2>7, <2>8, DebugScanDoes
  <2>10. PICK g \in {<< >>, sc.status} :
           Leads(sc, State("IDLE", path, x, latched, << >>), q, State("IDLE", w, x, [latched EXCEPT !.debug = data], g))
    BY <2>9
  <2> DEFINE y == [latched EXCEPT !.debug = data]
             s == State("IDLE", w, x, y, g)
  <2>11. y.debug = data /\ y.vir = latched.vir
    BY <2>7, LatchSet
  <2>12. Selected(sc, cfg) = x
    BY <2>2 DEF Selected, cmd
  <2> HIDE DEF x, y, q
  <2>13. s.tap = "IDLE" /\ s.ir = x /\ s.latched = y /\ s.got = g
    BY StateFields
  <2>14. Leads(sc, Now', todo', s)
    BY <1>1, <2>6, <2>10 DEF y
  <2> HIDE DEF s
  <2>15. EndsRight(sc', pc', cfg', wanted', s)
    BY <1>1, <2>5, <2>10, <2>11, <2>12, <2>13 DEF EndsRight
  <2>16. todo' \in Seq(Calm)
    <3> DEFINE a == JtagReadWriteStream(cfg, data, DbgBits, TRUE, 1)
               b == JtagWriteStream(cfg, data, DbgBits, 1)
               m == IF read THEN a ELSE b
    <3>1. DbgBits \in Nat \ {0}
      BY ScanAssumption
    <3>2. data \in Seq({0, 1}) /\ DbgBits <= Len(data)
      BY <3>1
    <3>3. a \in Seq(Calm) /\ b \in Seq(Calm)
      BY <1>2, <3>1, <3>2, WriteType
    <3> HIDE DEF a, b
    <3>4. m \in Seq(Calm)
      BY <3>3
    <3>5. todo' = (TapSetShiftDr \o m) \o TapExitToIdle
      BY <1>1 DEF q, a, b
    <3> HIDE DEF m
    <3> QED BY <3>4, <3>5, ExitCalm
  <2>17. ClocksLead'
    BY <1>1, <2>14, <2>15, <2>16 DEF ClocksLead, IdlePlaces
  <2> QED BY <2>3, <2>17
<1>4. pc' \notin EarlyPlaces /\ (FilesFit(sc) => GoodReader(sc, bsdl'))
  BY <1>1, <1>2 DEF EarlyPlaces, ScanPlaces, ScanInv
<1> QED BY <1>1, <1>2, <1>3, <1>4, ScanLate

LEMMA ScanStutter ==
  ASSUME ScanInv, UNCHANGED vars
  PROVE  ScanInv'
<1>1. /\ sc' = sc /\ bsdl' = bsdl /\ pc' = pc /\ sane' = sane /\ wanted' = wanted /\ err' = err /\ resetErr' = resetErr
      /\ opt' = opt /\ cfg' = cfg /\ i' = i /\ total' = total /\ tap' = tap /\ path' = path /\ ir' = ir /\ latched' = latched
      /\ todo' = todo /\ got' = got
  BY DEF vars, scanVars, hostVars
<1>2. (Fits' <=> Fits) /\ Now' = Now
  BY <1>1, FitsKept, NowKept
<1>3. ClocksLead => ClocksLead'
  BY <1>1, <1>2 DEF ClocksLead
<1>4. Configured => Configured'
  BY <1>1 DEF Configured, Target, CommandsFit
<1> QED BY <1>1, <1>2, <1>3, <1>4 DEF ScanInv, OnCourse, Outcome

LEMMA ScanNext == Inv /\ [Next]_vars => ScanInv'
<1> SUFFICES ASSUME Inv, [Next]_vars PROVE ScanInv'
  OBVIOUS
<1>1. ScanInv /\ EnumInv
  BY DEF Inv
<1>2. CASE ParseArgs \/ Reset \/ Enumerate \/ ReadStartBit \/ GotStartBit \/ GotManuf \/ GotRest
  BY <1>1, <1>2, ScanEarly
<1>3. CASE LeaveShift \/ CheckEnumeration \/ ListDevices
  BY <1>1, <1>3, ScanLeaveShift, ScanCheckEnumeration, ScanListDevices
<1>4. CASE ConfigureIr \/ ConfigureDebugCmd \/ AskIdcode \/ CheckIdcode \/ EnableDebugModule \/ CheckEnabled
  BY <1>4, ScanConfigureIr, ScanConfigureDebugCmd, ScanAskIdcode, ScanCheckIdcode, ScanEnable, ScanCheckEnabled
<1>5. CASE (Clock \/ CableFails) /\ UNCHANGED <<sc, hostVars>>
  BY <1>1, <1>5, ScanClock, ScanCableFails
<1>6. CASE \E data \in [1..DbgBits -> {0, 1}], read \in BOOLEAN : DebugScan(data, read)
  BY <1>6, ScanDebugScan
<1>7. CASE UNCHANGED vars
  BY <1>1, <1>7, ScanStutter
<1> QED BY <1>2, <1>3, <1>4, <1>5, <1>6, <1>7 DEF Next, Host, Over

\* Nobody gets past CheckEnumeration whose tap_reset() failed.
ResetPassed == pc \in LatePlaces \ {"leave", "enumerated"} => ~ resetErr

LEMMA ResetPassedNext == ResetPassed /\ [Next]_vars => ResetPassed'
<1> SUFFICES ASSUME ResetPassed, [Next]_vars PROVE ResetPassed'
  OBVIOUS
<1> USE DEF ResetPassed, LatePlaces, IdlePlaces, At
<1>1. CASE ParseArgs \/ Reset \/ ReadStartBit \/ GotStartBit \/ GotManuf \/ GotRest \/ LeaveShift
  <2>1. pc' \notin LatePlaces \ {"leave", "enumerated"}
    BY <1>1 DEF ParseArgs, Reset, ReadStartBit, GotStartBit, GotManuf, GotRest, LeaveShift
  <2> QED BY <2>1
<1>2. CASE Enumerate
  BY <1>2 DEF Enumerate
<1>3. CASE CheckEnumeration
  BY <1>3 DEF CheckEnumeration
<1>4. CASE ListDevices \/ ConfigureIr \/ ConfigureDebugCmd \/ AskIdcode
  <2>1. pc \in {"list", "irsize", "debugcmd", "idcode"} /\ resetErr' = resetErr
    BY <1>4 DEF ListDevices, ConfigureIr, ConfigureDebugCmd, AskIdcode
  <2> QED BY <2>1
<1>5. CASE CheckIdcode \/ EnableDebugModule \/ CheckEnabled
  <2>1. pc \in {"gotidcode", "enable", "enabled"} /\ resetErr' = resetErr
    BY <1>5 DEF CheckIdcode, EnableDebugModule, CheckEnabled
  <2> QED BY <2>1
<1>6. CASE UNCHANGED <<sc, hostVars>> \/ UNCHANGED vars
  BY <1>6 DEF hostVars, vars
<1>7. CASE \E data \in [1..DbgBits -> {0, 1}], read \in BOOLEAN : DebugScan(data, read)
  <2>1. pc = "ready" /\ resetErr' = resetErr
    BY <1>7 DEF DebugScan
  <2> QED BY <2>1
<1> QED BY <1>1, <1>2, <1>3, <1>4, <1>5, <1>6, <1>7 DEF Next, Host, Over

LEMMA ReadyState ==
  ASSUME Inv, ResetPassed, Fits, Up
  PROVE  /\ sane # "failed" /\ ir = Selected(sc, cfg) /\ (cfg.alt => latched.vir = sc.virDebug)
         /\ wanted # << >> => latched.debug = wanted /\ got \in {<< >>, sc.status}
         /\ CommandsFit(cfg) /\ Target = TargetOf(sc) /\ Target \in Devices
<1>1. pc = "ready" /\ todo = << >> /\ ~ err
  BY DEF Up, At
<1>2. OnCourse /\ ScanInv
  BY <1>1 DEF OnCourse, ResetPassed, LatePlaces, Inv
<1>3. EndsRight(sc, pc, cfg, wanted, Now)
  BY <1>1, <1>2, Arrived
<1>4. Configured /\ Outcome /\ Target = TargetOf(sc) /\ Target \in Devices
  BY <1>1, <1>2, PlacedNow DEF Found
<1>5. sane # "failed" /\ CommandsFit(cfg)
  BY <1>1, <1>4 DEF Outcome, Configured, Found
<1>6. /\ ir = Selected(sc, cfg) /\ (cfg.alt => latched.vir = sc.virDebug)
      /\ wanted # << >> => latched.debug = wanted /\ got \in {<< >>, sc.status}
  BY <1>1, <1>3, NowFields DEF EndsRight
<1> QED BY <1>4, <1>5, <1>6

(***************************************************************************)
(* From the end of jtag_enumerate_chain() on, as long as nothing failed,   *)
(* the clocks still to be sent lead to the state that the function sending *)
(* them is for, and the prefix and postfix bits are those of the target.   *)
(***************************************************************************)
THEOREM ScanInvariant == Spec => [](Inv /\ ResetPassed)
<1>1. Init => Inv /\ ResetPassed
  <2>1. Init => Inv
    BY TypeInit, EnumInit, ScanInit DEF Inv
  <2>2. Init => ResetPassed
    BY DEF Init, ResetPassed, LatePlaces, IdlePlaces
  <2> QED BY <2>1, <2>2
<1>2. Inv /\ ResetPassed /\ [Next]_vars => (Inv /\ ResetPassed)'
  <2>1. Inv /\ [Next]_vars => Inv'
    BY TypeNext, EnumNext, ScanNext DEF Inv
  <2> QED BY <2>1, ResetPassedNext
<1> QED BY <1>1, <1>2, PTL DEF Spec

(***************************************************************************)
(* configure_chain() and tap_set_ir(), for chains of any length, devices   *)
(* with registers of any length and a target anywhere among them: where    *)
(* files and options fit the chain, the bridge that is ready has selected  *)
(* the debug unit of the target and of no other device, and has read the   *)
(* target's IDCODE if it tried.                                            *)
(***************************************************************************)
THEOREM SelectsOnlyTarget == Spec => [](Fits => OnlyTargetSelected)
<1>1. Inv /\ ResetPassed => (Fits => OnlyTargetSelected)
  <2> SUFFICES ASSUME Inv, ResetPassed, Fits, Up
               PROVE  /\ sane # "failed" /\ TargetHas({IF cfg.alt THEN "vdr" ELSE "debug"})
                      /\ \A d \in Devices \ {Target} : ir[d] = Bypass(d)
                      /\ cfg.alt => latched.vir = sc.virDebug
    BY DEF OnlyTargetSelected
  <2>1. /\ sane # "failed" /\ ir = Selected(sc, cfg) /\ (cfg.alt => latched.vir = sc.virDebug)
        /\ CommandsFit(cfg) /\ Target = TargetOf(sc) /\ Target \in Devices
    BY ReadyState
  <2>2. ASSUME NEW d \in Devices \ {Target} PROVE ir[d] = Bypass(d)
    BY <2>1 DEF Selected, Picked, Devices, Bypass
  <2>3. ir[Target] = IF cfg.alt THEN cfg.vdr ELSE cfg.debug
    BY <2>1 DEF Selected, Picked, Devices
  <2>4. TargetHas({IF cfg.alt THEN "vdr" ELSE "debug"})
    BY <2>1, <2>3 DEF TargetHas, CommandsFit
  <2> QED BY <2>1, <2>2, <2>4
<1> QED BY <1>1, ScanInvariant, PTL

(***************************************************************************)
(* jtag_write_stream() and jtag_read_write_stream(), on the same chains:   *)
(* after a scan that met no error the debug unit has exactly the bits it   *)
(* was given, and what was read back is exactly what the debug unit had.   *)
(***************************************************************************)
THEOREM ScansReachTarget == Spec => [](Fits => ScansLandInTarget)
<1>1. Inv /\ ResetPassed => (Fits => ScansLandInTarget)
  BY ReadyState DEF ScansLandInTarget
<1> QED BY <1>1, ScanInvariant, PTL

=============================================================================
