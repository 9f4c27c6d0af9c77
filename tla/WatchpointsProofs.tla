------------------------- MODULE WatchpointsProofs -------------------------
(***************************************************************************)
(* Proofs about the hardware watchpoints and their users, for any number   *)
(* of watchpoints, addresses, requests, edits and failing accesses.        *)
(***************************************************************************)
EXTENDS Watchpoints, FiniteSetTheorems, WellFoundedInduction, SequenceTheorems, TLAPS

(***************************************************************************)
(* The types, of every field of the records too.                           *)
(***************************************************************************)
RspPcs == {"idle", "dvr", "dcr", "dmr2_read", "dmr2_write", "dmr1_read", "dmr1_write",
           "return", "unstall", "waiting"}
CpuType == [dvr : [WPs -> Addrs], dcr : [WPs -> Codes], wgb : SUBSET WPs, wbs : SUBSET WPs,
            chain : SUBSET WPs, st : BOOLEAN]
TmpType == [wgb : SUBSET WPs, wbs : SUBSET WPs, chain : SUBSET WPs, st : BOOLEAN]
RspType == [pc : RspPcs, op : {"none", "Z", "z", "c", "s"}, pt : Points \cup {<<>>},
            wp : WPs \cup {-1}, tmp : TmpType]
RegSetType == [dvr : [WPs -> Addrs], dcr : [WPs -> Codes], wgb : SUBSET WPs,
               chain : SUBSET WPs, st : BOOLEAN]
ClientType == [pc : {"idle", "read", "have", "write"}, i : 1..Len(Regs), regSet : RegSetType]
WroteType == [dvr : [WPs -> Addrs], dcr : [WPs -> Codes], wgb : SUBSET WPs, chain : SUBSET WPs]

TypeInv ==
  /\ cpu \in CpuType /\ rsp \in RspType /\ client \in ClientType /\ wrote \in WroteType
  /\ hwp \in [wp : WPs \cup {-1}, code : Codes]
  /\ hwp_in_use \in [WPs -> BOOLEAN] /\ asked \in [WPs -> Codes]
  /\ mp_hash \subseteq [type : HwTypes, addr : Addrs, instr : WPs]
  /\ gdb \subseteq Points
  /\ {running, single_step_mode, npc_reset} \subseteq BOOLEAN
  /\ rsp.op \in {"Z", "z"} => rsp.pt \in Points /\ rsp.wp \in WPs

(***************************************************************************)
(* Which request can be at which register access.                          *)
(***************************************************************************)
ControlInv ==
  /\ (rsp.pc = "idle") = (rsp.op = "none")
  /\ rsp.pc = "dvr" => rsp.op = "Z"
  /\ rsp.pc = "dcr" => rsp.op \in {"Z", "z"}
  /\ rsp.pc \in {"dmr1_read", "dmr1_write"} => rsp.op # "z"
  /\ rsp.pc = "return" => rsp.op = "z"
  /\ rsp.pc \in {"unstall", "waiting"} => rsp.op \in {"c", "s"}
  /\ running => rsp.pc = "waiting"

(***************************************************************************)
(* The person's use of the watchpoints and GDB's exclude each other.       *)
(***************************************************************************)
TurnInv ==
  client.pc # "idle" \/ hwp.wp # -1 => rsp.pc = "idle" /\ ~running /\ mp_hash = {}

(***************************************************************************)
(* Single-stepping and the watchpoint status, from the request to the stop *)
(* report.  The flag single_step_mode may be trusted because DMR1 agrees   *)
(* with it except on the way to a continue, and because the control        *)
(* program writes back the bits it read.                                   *)
(***************************************************************************)
StepInv ==
  /\ single_step_mode /\ ~ (rsp.op = "c" /\ rsp.pc = "unstall") => cpu.st
  /\ rsp.op = "Z" /\ rsp.pc = "dmr1_write" => rsp.tmp.st = cpu.st
  /\ client.pc \in {"have", "write"} \/ (client.pc = "read" /\ client.i = Len(Regs))
        => client.regSet.st = cpu.st
  /\ rsp.pc = "unstall" => cpu.st = (rsp.op = "s")
  /\ rsp.op \in {"c", "s"} /\ rsp.pc \in {"dmr1_read", "dmr1_write", "unstall"} => cpu.wbs = {}
  /\ rsp.pc = "waiting" /\ running => cpu.wbs = {}
  /\ rsp.pc = "waiting" /\ ~running => (cpu.wbs # {}) = (why = "watch")
  /\ rsp.pc # "waiting" /\ why # "none" => npc_reset = (why = "watch")

(***************************************************************************)
(* The table.  A watchpoint is GDB's from its insert to the end of its     *)
(* remove.                                                                 *)
(***************************************************************************)
Owned(w) == (\E e \in mp_hash : e.instr = w) \/ (rsp.op = "z" /\ rsp.wp = w)

InUseRight ==
  \A w \in WPs : w # hwp.wp => hwp_in_use[w] = (Owned(w) \/ asked[w] # "disabled")

TableInv ==
  /\ InUseRight
  /\ \A e, f \in mp_hash : e.instr = f.instr \/ (e.type = f.type /\ e.addr = f.addr) => e = f
  /\ \A w \in WPs : Owned(w) => asked[w] = "disabled"
  /\ rsp.op = "z" => \A e \in mp_hash : e.instr # rsp.wp
  /\ rsp.op = "Z" => [type |-> rsp.pt[1], addr |-> rsp.pt[2], instr |-> rsp.wp] \in mp_hash
  /\ \A e \in mp_hash : <<e.type, e.addr>> \in gdb \/ (rsp.op = "Z" /\ rsp.wp = e.instr)
  /\ \A pt \in gdb : \E e \in mp_hash : pt = <<e.type, e.addr>>
  /\ hwp.wp # -1 => asked[hwp.wp] = hwp.code
  /\ hwp.code # "absent"
  /\ \A w \in WPs : cpu.dcr[w] # "absent" /\ client.regSet.dcr[w] # "absent"

(***************************************************************************)
(* The registers.  Those of a watchpoint that is not GDB's are as the      *)
(* person wrote them; its DVR matters once the person let it break.  Those *)
(* of GDB's are as the insert set them, as far as the request has come.    *)
(***************************************************************************)
Inserting(w, pcs) == rsp.op = "Z" /\ rsp.wp = w /\ rsp.pc \in pcs

PersonsRegs ==
  \A w \in WPs : ~ Owned(w) =>
    /\ cpu.dcr[w] = wrote.dcr[w]
    /\ w \in cpu.wgb <=> w \in wrote.wgb
    /\ w \in cpu.chain <=> w \in wrote.chain
    /\ w \in wrote.wgb => cpu.dvr[w] = wrote.dvr[w]

GdbsRegs ==
  /\ \A w \in WPs : Owned(w) =>
       /\ wrote.dcr[w] = "disabled" /\ w \notin wrote.wgb /\ w \notin wrote.chain
       /\ w \in cpu.chain => rsp.op = "Z" /\ rsp.wp = w
  /\ \A e \in mp_hash :
       /\ cpu.dvr[e.instr] = e.addr \/ Inserting(e.instr, {"dvr"})
       /\ cpu.dcr[e.instr] = e.type \/ Inserting(e.instr, {"dvr", "dcr"})
       /\ e.instr \in cpu.wgb \/ Inserting(e.instr, {"dvr", "dcr", "dmr2_read", "dmr2_write"})

RequestRegs ==
  /\ rsp.op = "z" /\ rsp.pc \in {"dcr", "return"} => rsp.wp \notin cpu.wgb
  /\ rsp.pc = "return" => cpu.dcr[rsp.wp] = "disabled"
  /\ rsp.pc = "dmr2_write" => rsp.tmp.wgb = cpu.wgb
  /\ rsp.pc = "dmr1_write" => rsp.tmp.chain = cpu.chain

EditRegs ==
  client.pc = "write" =>
    \A w \in WPs : client.i > HWP_MAX_WP + w + 1 => cpu.dvr[w] = wrote.dvr[w]

RegisterInv == PersonsRegs /\ GdbsRegs /\ RequestRegs /\ EditRegs

-----------------------------------------------------------------------------
(***************************************************************************)
(* hwp_get_available_watchpoint() returns a watchpoint that the table has  *)
(* as free, or -1.                                                         *)
(***************************************************************************)
LEMMA AvailableIsFree ==
  \/ hwp_get_available_watchpoint = -1
  \/ /\ hwp_get_available_watchpoint \in WPs
     /\ ~ hwp_in_use[hwp_get_available_watchpoint]
<1> DEFINE free == {w \in WPs : ~ hwp_in_use[w]}
<1>1. CASE free = {}
  BY <1>1 DEF hwp_get_available_watchpoint
<1>2. CASE free # {}
  <2>1. free \subseteq Nat
    BY WatchAssumption DEF WPs
  <2>2. PICK x \in free : \A y \in free : ~ (<<y, x>> \in OpToRel(<, Nat))
    BY <1>2, <2>1, WFMin, NatLessThanWellFounded
  <2> HIDE DEF free
  <2>3. \A y \in free : x <= y
    <3>1. SUFFICES ASSUME NEW y \in free PROVE x <= y
      OBVIOUS
    <3>2. x \in Nat /\ y \in Nat /\ ~ (<<y, x>> \in OpToRel(<, Nat))
      BY <2>1, <2>2
    <3> QED BY <3>2 DEF OpToRel
  <2>4. Min(free) \in free
    BY <2>3 DEF Min
  <2>5. hwp_get_available_watchpoint = Min(free)
    BY <1>2 DEF hwp_get_available_watchpoint, free
  <2> QED BY <2>4, <2>5 DEF free
<1> QED BY <1>1, <1>2

(***************************************************************************)
(* The order in which the control program reads and writes the registers:  *)
(* every DCR, every DVR, then DMR1 and DMR2.                               *)
(***************************************************************************)
LEMMA RegsInOrder ==
  /\ Len(Regs) = 2 * HWP_MAX_WP + 2
  /\ \A i \in 1..HWP_MAX_WP : Regs[i] = <<"dcr", i - 1>>
  /\ \A i \in (HWP_MAX_WP + 1)..(2 * HWP_MAX_WP) : Regs[i] = <<"dvr", i - 1 - HWP_MAX_WP>>
  /\ Regs[2 * HWP_MAX_WP + 1] = <<"dmr1", 0>>
  /\ Regs[2 * HWP_MAX_WP + 2] = <<"dmr2", 0>>
<1> DEFINE n == HWP_MAX_WP
           R == {"dcr", "dvr", "dmr1", "dmr2"} \X WPs
           a == [i \in 1..n |-> <<"dcr", i - 1>>]
           b == [i \in 1..n |-> <<"dvr", i - 1>>]
           c == << <<"dmr1", 0>>, <<"dmr2", 0>> >>
<1>1. n \in Nat \ {0} /\ WPs = 0..(n - 1) /\ 0 \in WPs
  BY WatchAssumption DEF WPs
<1>2. a \in Seq(R) /\ Len(a) = n /\ \A i \in 1..n : a[i] = <<"dcr", i - 1>>
  <2>1. \A i \in 1..n : <<"dcr", i - 1>> \in R
    BY <1>1
  <2> HIDE DEF R
  <2>2. a \in [1..n -> R]
    BY <2>1
  <2> QED BY <1>1, <2>2
<1>3. b \in Seq(R) /\ Len(b) = n /\ \A i \in 1..n : b[i] = <<"dvr", i - 1>>
  <2>1. \A i \in 1..n : <<"dvr", i - 1>> \in R
    BY <1>1
  <2> HIDE DEF R
  <2>2. b \in [1..n -> R]
    BY <2>1
  <2> QED BY <1>1, <2>2
<1>4. c \in Seq(R) /\ Len(c) = 2 /\ c[1] = <<"dmr1", 0>> /\ c[2] = <<"dmr2", 0>>
  <2>1. <<"dmr1", 0>> \in R /\ <<"dmr2", 0>> \in R
    BY <1>1
  <2> HIDE DEF R
  <2> QED BY <2>1
<1>5. Regs = (a \o b) \o c
  BY DEF Regs
<1> HIDE DEF a, b, c, R, n
<1>6. /\ a \o b \in Seq(R) /\ Len(a \o b) = Len(a) + Len(b)
      /\ \A i \in 1..(Len(a) + Len(b)) :
           (a \o b)[i] = IF i <= Len(a) THEN a[i] ELSE b[i - Len(a)]
  BY <1>2, <1>3, ConcatProperties, Zenon
<1> DEFINE d == a \o b
<1>7. d \in Seq(R) /\ Len(d) = 2 * n
  BY <1>1, <1>2, <1>3, <1>6
<1>8. \A i \in 1..(2 * n) : d[i] = IF i <= n THEN <<"dcr", i - 1>> ELSE <<"dvr", i - n - 1>>
  <2>1. SUFFICES ASSUME NEW i \in 1..(2 * n)
                 PROVE  d[i] = IF i <= n THEN <<"dcr", i - 1>> ELSE <<"dvr", i - n - 1>>
    OBVIOUS
  <2> HIDE DEF d
  <2>2. d[i] = IF i <= n THEN a[i] ELSE b[i - n]
    BY <1>1, <1>2, <1>3, <1>6 DEF d
  <2>3. CASE i <= n
    BY <1>1, <1>2, <2>2, <2>3
  <2>4. CASE ~ (i <= n)
    <3>1. i - n \in 1..n
      BY <1>1, <2>4
    <3> QED BY <1>3, <2>2, <2>4, <3>1
  <2> QED BY <2>3, <2>4
<1> HIDE DEF d
<1>9. /\ d \o c \in Seq(R) /\ Len(d \o c) = Len(d) + Len(c)
      /\ \A i \in 1..(Len(d) + Len(c)) :
           (d \o c)[i] = IF i <= Len(d) THEN d[i] ELSE c[i - Len(d)]
  BY <1>4, <1>7, ConcatProperties, Zenon
<1> DEFINE e == d \o c
<1>10. Regs = e
  BY <1>5 DEF d
<1>11. Len(e) = 2 * n + 2 /\ \A i \in 1..(2 * n + 2) : e[i] = IF i <= 2 * n THEN d[i] ELSE c[i - 2 * n]
  BY <1>1, <1>4, <1>7, <1>9
<1> HIDE DEF e
<1>12. e[2 * n + 1] = <<"dmr1", 0>> /\ e[2 * n + 2] = <<"dmr2", 0>>
  <2>1. ASSUME NEW k \in 1..2 PROVE e[2 * n + k] = c[k]
    <3> DEFINE i == 2 * n + k
    <3>1. i \in 1..(2 * n + 2) /\ ~ (i <= 2 * n) /\ i - 2 * n = k
      BY <1>1
    <3> HIDE DEF i
    <3>2. e[i] = c[i - 2 * n]
      BY <1>11, <3>1, Zenon
    <3>3. e[i] = c[k]
      BY <3>1, <3>2, Zenon
    <3> QED BY <3>3 DEF i
  <2> QED BY <1>4, <2>1
<1>13. ASSUME NEW i \in 1..n PROVE e[i] = <<"dcr", i - 1>>
  <2>1. i \in 1..(2 * n + 2) /\ i \in 1..(2 * n) /\ i <= 2 * n /\ i <= n
    BY <1>1
  <2>2. e[i] = d[i]
    BY <1>11, <2>1, Zenon
  <2> QED BY <1>8, <2>1, <2>2, Zenon
<1>14. ASSUME NEW i \in (n + 1)..(2 * n) PROVE e[i] = <<"dvr", i - 1 - n>>
  <2>1. /\ i \in 1..(2 * n + 2) /\ i \in 1..(2 * n) /\ i <= 2 * n /\ ~ (i <= n)
        /\ i - n - 1 = i - 1 - n
    BY <1>1
  <2>2. e[i] = d[i]
    BY <1>11, <2>1, Zenon
  <2> QED BY <1>8, <2>1, <2>2, Zenon
<1> QED BY <1>10, <1>11, <1>12, <1>13, <1>14 DEF n

(***************************************************************************)
(* So each of them is one of the four kinds, with its watchpoint.          *)
(***************************************************************************)
LEMMA RegsKinds ==
  ASSUME NEW i \in 1..Len(Regs)
  PROVE  /\ Regs[i][1] \in {"dcr", "dvr", "dmr1", "dmr2"} /\ Regs[i][2] \in WPs
         /\ Regs[i][1] = "dcr" => i = Regs[i][2] + 1
         /\ Regs[i][1] = "dvr" => i = HWP_MAX_WP + Regs[i][2] + 1
         /\ Regs[i][1] = "dmr1" => i = Len(Regs) - 1
         /\ Regs[i][1] = "dmr2" => i = Len(Regs)
<1> USE RegsInOrder, WatchAssumption DEF WPs
<1>1. CASE i \in 1..HWP_MAX_WP
  BY <1>1
<1>2. CASE i \in (HWP_MAX_WP + 1)..(2 * HWP_MAX_WP)
  BY <1>2
<1>3. CASE i = 2 * HWP_MAX_WP + 1
  BY <1>3
<1>4. CASE i = 2 * HWP_MAX_WP + 2
  BY <1>4
<1> QED BY <1>1, <1>2, <1>3, <1>4

-----------------------------------------------------------------------------
(***************************************************************************)
(* Every write of a register, and every record the actions build, has the  *)
(* type of what it replaces.                                               *)
(***************************************************************************)
LEMMA CpuWrites ==
  ASSUME NEW c \in CpuType, NEW w \in WPs, NEW a \in Addrs, NEW code \in Codes,
         NEW S \in SUBSET WPs, NEW b \in BOOLEAN
  PROVE  /\ WriteDvr(c, w, a) \in CpuType
         /\ WriteDcr(c, w, code) \in CpuType
         /\ WriteDmr2(c, S) \in CpuType
         /\ [c EXCEPT !.chain = S, !.st = b] \in CpuType
<1>1. WriteDvr(c, w, a) \in CpuType
  BY DEF WriteDvr, CpuType
<1>2. WriteDcr(c, w, code) \in CpuType
  BY DEF WriteDcr, CpuType, Codes
<1>3. WriteDmr2(c, S) \in CpuType
  BY DEF WriteDmr2, CpuType
<1>4. [c EXCEPT !.chain = S, !.st = b] \in CpuType
  BY DEF CpuType
<1> QED BY <1>1, <1>2, <1>3, <1>4

(***************************************************************************)
(* The values at power-up, and the ones the actions fall back to, are      *)
(* typed.                                                                  *)
(***************************************************************************)
LEMMA InitialTypes ==
  /\ PowerUp \in CpuType /\ Idle \in RspType /\ NewClient \in ClientType
  /\ Unwritten \in WroteType /\ [wp |-> -1, code |-> "disabled"] \in [wp : WPs \cup {-1}, code : Codes]
<1>1. AnAddr \in Addrs
  BY WatchAssumption DEF AnAddr
<1>2. PowerUp \in CpuType
  BY <1>1 DEF PowerUp, CpuType, Codes
<1>3. Idle \in RspType
  BY DEF Idle, RspType, RspPcs, NoTmp, TmpType
<1>4. 1 \in 1..Len(Regs)
  BY RegsInOrder, WatchAssumption
<1>5. NewClient \in ClientType
  BY <1>1, <1>4 DEF NewClient, PowerUp, ClientType, RegSetType, Codes
<1>6. Unwritten \in WroteType
  BY <1>1 DEF Unwritten, PowerUp, WroteType, Codes
<1> QED BY <1>2, <1>3, <1>5, <1>6 DEF Codes

(***************************************************************************)
(* Going to the next access of a request changes nothing but the place.    *)
(***************************************************************************)
LEMMA GotoType ==
  ASSUME rsp \in RspType, NEW p \in RspPcs, Goto(p)
  PROVE  /\ rsp' \in RspType /\ rsp'.op = rsp.op /\ rsp'.pt = rsp.pt /\ rsp'.wp = rsp.wp
         /\ rsp'.pc = p /\ rsp'.tmp = rsp.tmp
BY DEF Goto, RspType

(***************************************************************************)
(* The control program goes on to the next register, or is done after the  *)
(* last one; the register set it holds stays.                              *)
(***************************************************************************)
LEMMA NextRegType ==
  ASSUME client \in ClientType, NEW p \in {"read", "write"}
  PROVE  /\ NextReg(p) \in ClientType
         /\ NextReg(p).regSet = client.regSet
         /\ NextReg(p).pc = IF client.i = Len(Regs) THEN "have" ELSE p
         /\ NextReg(p).i = IF client.i = Len(Regs) THEN 1 ELSE client.i + 1
<1> DEFINE L == Len(Regs)
<1>1. L \in Nat \ {0}
  BY RegsInOrder, WatchAssumption
<1>2. ClientType = [pc : {"idle", "read", "have", "write"}, i : 1..L, regSet : RegSetType]
  BY DEF ClientType
<1>3. NextReg(p) = IF client.i = L THEN [client EXCEPT !.pc = "have", !.i = 1]
                   ELSE [client EXCEPT !.i = client.i + 1, !.pc = p]
  BY <1>2 DEF NextReg
<1> HIDE DEF L
<1>4. CASE client.i = L
  <2>1. 1 \in 1..L
    BY <1>1
  <2> QED BY <1>2, <1>3, <1>4, <2>1 DEF L
<1>5. CASE client.i # L
  <2>1. client.i + 1 \in 1..L
    BY <1>1, <1>2, <1>5
  <2> QED BY <1>2, <1>3, <1>5, <2>1 DEF L
<1> QED BY <1>4, <1>5

(***************************************************************************)
(* Setting one field of the register set keeps its type.                   *)
(***************************************************************************)
LEMMA RegSetWrites ==
  ASSUME NEW c \in ClientType, NEW w \in WPs, NEW a \in Addrs, NEW code \in Codes,
         NEW S \in SUBSET WPs, NEW b \in BOOLEAN
  PROVE  /\ [c EXCEPT !.regSet.dcr[w] = code] \in ClientType
         /\ [c EXCEPT !.regSet.dvr[w] = a] \in ClientType
         /\ [c EXCEPT !.regSet.chain = S, !.regSet.st = b] \in ClientType
         /\ [c EXCEPT !.regSet.wgb = S] \in ClientType
<1>1. [c EXCEPT !.regSet.dcr[w] = code] \in ClientType
  BY DEF ClientType, RegSetType
<1>2. [c EXCEPT !.regSet.dvr[w] = a] \in ClientType
  BY DEF ClientType, RegSetType
<1>3. [c EXCEPT !.regSet.chain = S, !.regSet.st = b] \in ClientType
  BY DEF ClientType, RegSetType
<1>4. [c EXCEPT !.regSet.wgb = S] \in ClientType
  BY DEF ClientType, RegSetType
<1> QED BY <1>1, <1>2, <1>3, <1>4

(***************************************************************************)
(* What the person's edit of one watchpoint leaves in the register set.    *)
(***************************************************************************)
LEMMA EditFields ==
  ASSUME TypeInv, doWriteAllRegisters
  PROVE  /\ client' \in ClientType
         /\ client'.pc = "write" /\ client'.i = 1 /\ client'.regSet.st = client.regSet.st
         /\ \A w \in WPs : client'.regSet.dcr[w] \in {client.regSet.dcr[w], "disabled"} \cup HwTypes
<1>1. client \in ClientType /\ client.regSet \in RegSetType
  BY DEF TypeInv, ClientType
<1>2. 1 \in 1..Len(Regs)
  BY RegsInOrder, WatchAssumption
<1>3. PICK v \in WPs, code \in {"disabled"} \cup HwTypes, a \in Addrs, brk, chained \in BOOLEAN :
        /\ client.regSet.dcr[v] # "absent"
        /\ client' = [client EXCEPT !.pc = "write", !.i = 1,
             !.regSet.dcr[v] = code, !.regSet.dvr[v] = a,
             !.regSet.wgb = IF brk THEN @ \cup {v} ELSE @ \ {v},
             !.regSet.chain = IF chained THEN @ \cup {v} ELSE @ \ {v}]
  BY DEF doWriteAllRegisters
<1> DEFINE g == IF brk THEN client.regSet.wgb \cup {v} ELSE client.regSet.wgb \ {v}
           h == IF chained THEN client.regSet.chain \cup {v} ELSE client.regSet.chain \ {v}
<1>4. g \in SUBSET WPs /\ h \in SUBSET WPs /\ code \in Codes
  BY <1>1 DEF RegSetType, Codes
<1>5. client' = [client EXCEPT !.pc = "write", !.i = 1,
          !.regSet.dcr[v] = code, !.regSet.dvr[v] = a, !.regSet.wgb = g, !.regSet.chain = h]
  BY <1>1, <1>3 DEF ClientType, RegSetType
<1> HIDE DEF g, h
<1>6. client' \in ClientType
  <2> DEFINE rs == [client.regSet EXCEPT !.dcr[v] = code, !.dvr[v] = a, !.wgb = g, !.chain = h]
  <2>1. rs \in RegSetType
    <3>1. /\ [client.regSet.dcr EXCEPT ![v] = code] \in [WPs -> Codes]
          /\ [client.regSet.dvr EXCEPT ![v] = a] \in [WPs -> Addrs]
      BY <1>1, <1>4 DEF RegSetType
    <3> QED BY <1>1, <1>4, <3>1 DEF RegSetType
  <2>2. client' = [client EXCEPT !.pc = "write", !.i = 1, !.regSet = rs]
    BY <1>1, <1>5 DEF ClientType, RegSetType
  <2> HIDE DEF rs
  <2> QED BY <1>1, <1>2, <2>1, <2>2 DEF ClientType
<1>7. client'.pc = "write" /\ client'.i = 1 /\ client'.regSet.st = client.regSet.st
  BY <1>1, <1>5 DEF ClientType, RegSetType
<1>8. client'.regSet.dcr = [client.regSet.dcr EXCEPT ![v] = code]
  BY <1>1, <1>5 DEF ClientType, RegSetType
<1>9. client.regSet.dcr \in [WPs -> Codes]
  BY <1>1 DEF RegSetType
<1>10. \A w \in WPs : client'.regSet.dcr[w] \in {client.regSet.dcr[w], "disabled"} \cup HwTypes
  BY <1>8, <1>9
<1> QED BY <1>6, <1>7, <1>10

(***************************************************************************)
(* The types hold when the servers start.                                  *)
(***************************************************************************)
LEMMA TypeStart == Init => TypeInv
<1> SUFFICES ASSUME Init PROVE TypeInv
  OBVIOUS
<1>1. /\ cpu \in CpuType /\ rsp \in RspType /\ client \in ClientType /\ wrote \in WroteType
      /\ hwp \in [wp : WPs \cup {-1}, code : Codes]
  BY InitialTypes DEF Init
<1>2. hwp_in_use \in [WPs -> BOOLEAN] /\ asked \in [WPs -> Codes]
  BY DEF Init, hwp_init, Codes
<1>3. rsp.op = "none"
  BY DEF Init, Idle
<1> QED BY <1>1, <1>2, <1>3 DEF Init, TypeInv, mp_hash_init

(***************************************************************************)
(* Every step keeps the types.  That the watchpoint of an access is one    *)
(* follows from which request can be there.                                *)
(***************************************************************************)
LEMMA TypeStep == TypeInv /\ ControlInv /\ [Next]_vars => TypeInv'
<1> SUFFICES ASSUME TypeInv, ControlInv, [Next]_vars PROVE TypeInv'
  OBVIOUS
<1>1. /\ cpu \in CpuType /\ rsp \in RspType /\ client \in ClientType /\ wrote \in WroteType
      /\ rsp.tmp \in TmpType /\ client.regSet \in RegSetType
      /\ hwp \in [wp : WPs \cup {-1}, code : Codes]
  BY DEF TypeInv, RspType, ClientType
<1>2. /\ cpu.wgb \in SUBSET WPs /\ cpu.wbs \in SUBSET WPs /\ cpu.chain \in SUBSET WPs
      /\ cpu.st \in BOOLEAN /\ cpu.dcr \in [WPs -> Codes] /\ cpu.dvr \in [WPs -> Addrs]
  BY <1>1 DEF CpuType
<1>3. /\ rsp.tmp.wgb \in SUBSET WPs /\ rsp.tmp.chain \in SUBSET WPs /\ rsp.tmp.st \in BOOLEAN
  BY <1>1 DEF TmpType
<1>4. CASE CpuSteps
  <2>1. CASE WatchpointHit
    <3>1. cpu' \in CpuType
      BY <1>1, <2>1 DEF WatchpointHit, Breaking, CpuType
    <3> QED BY <2>1, <3>1 DEF WatchpointHit, Stopped, TypeInv, rspVars, hwpVars
  <2>2. CASE StepDone \/ BreakIn
    BY <2>2 DEF StepDone, BreakIn, Stopped, TypeInv, rspVars, hwpVars
  <2> QED BY <1>4, <2>1, <2>2 DEF CpuSteps
<1>5. ASSUME NEW pt \in Points, rsp_insert_matchpoint(pt)
      PROVE  TypeInv'
  <2> DEFINE w == hwp_get_available_watchpoint
  <2>1. CASE w = -1
    BY <1>5, <2>1 DEF rsp_insert_matchpoint, TypeInv
  <2>2. CASE w # -1
    <3>1. w \in WPs
      BY <2>2, AvailableIsFree
    <3>2. pt[1] \in HwTypes /\ pt[2] \in Addrs
      BY DEF Points
    <3>3. mp_hash' \subseteq [type : HwTypes, addr : Addrs, instr : WPs]
      BY <1>5, <2>2, <3>1, <3>2 DEF rsp_insert_matchpoint, mp_hash_add, TypeInv
    <3>4. rsp' = [Idle EXCEPT !.pc = "dvr", !.op = "Z", !.pt = pt, !.wp = w]
      BY <1>5, <2>2 DEF rsp_insert_matchpoint
    <3> HIDE DEF w
    <3>5. rsp' \in RspType /\ rsp'.pt = pt /\ rsp'.wp = w
      BY <3>1, <3>4, InitialTypes DEF RspType, RspPcs
    <3>6. wrote' \in WroteType
      <4>1. PowerUp.dcr \in [WPs -> Codes]
        BY InitialTypes DEF CpuType
      <4>2. wrote' \in {wrote, [wrote EXCEPT !.dcr[w] = PowerUp.dcr[w],
                                            !.wgb = @ \ {w}, !.chain = @ \ {w}]}
        BY <1>5, <2>2 DEF rsp_insert_matchpoint, w
      <4>3. /\ wrote.wgb \ {w} \in SUBSET WPs /\ wrote.chain \ {w} \in SUBSET WPs
            /\ PowerUp.dcr[w] \in Codes
        BY <1>1, <3>1, <4>1 DEF WroteType
      <4>4. [wrote EXCEPT !.dcr[w] = PowerUp.dcr[w], !.wgb = wrote.wgb \ {w},
                          !.chain = wrote.chain \ {w}] \in WroteType
        BY <1>1, <4>3 DEF WroteType
      <4> QED BY <1>1, <4>2, <4>4
    <3>7. hwp_in_use' \in [WPs -> BOOLEAN]
      BY <1>5, <2>2, <3>1 DEF rsp_insert_matchpoint, hwp_set_in_use, TypeInv, w
    <3> QED BY <1>5, <3>1, <3>3, <3>5, <3>6, <3>7 DEF rsp_insert_matchpoint, TypeInv
  <2> QED BY <2>1, <2>2
<1>6. ASSUME NEW pt \in Points, rsp_remove_matchpoint(pt)
      PROVE  TypeInv'
  <2>1. mp_hash' \subseteq mp_hash /\ gdb' \subseteq gdb
    BY <1>6 DEF rsp_remove_matchpoint, mp_hash_delete
  <2>2. CASE mp_hash_lookup(mp_hash, pt[1], pt[2]) = {}
    BY <1>6, <2>1, <2>2 DEF rsp_remove_matchpoint, TypeInv, hwpVars
  <2>3. CASE mp_hash_lookup(mp_hash, pt[1], pt[2]) # {}
    <3>1. PICK e \in mp_hash :
            rsp' = [Idle EXCEPT !.pc = "dmr2_read", !.op = "z", !.pt = pt, !.wp = e.instr]
      BY <1>6, <2>3 DEF rsp_remove_matchpoint, mp_hash_lookup
    <3>2. e.instr \in WPs
      BY DEF TypeInv
    <3>3. rsp' \in RspType /\ rsp'.pt = pt /\ rsp'.wp = e.instr
      BY <3>1, <3>2, InitialTypes DEF RspType, RspPcs
    <3> QED BY <1>6, <2>1, <3>2, <3>3 DEF rsp_remove_matchpoint, TypeInv, hwpVars
  <2> QED BY <2>2, <2>3
<1>7. ASSUME NEW op \in {"c", "s"}, rsp_resume(op)
      PROVE  TypeInv'
  <2>1. rsp' \in RspType /\ rsp'.op = op
    BY <1>7, InitialTypes DEF rsp_resume, RspType, RspPcs
  <2> QED BY <1>7, <2>1 DEF rsp_resume, TypeInv, hwpVars
<1>8. CASE RspWritesDvr
  <2>1. rsp.op = "Z" /\ rsp.wp \in WPs /\ rsp.pt[2] \in Addrs
    BY <1>8 DEF RspWritesDvr, RspTurn, ControlInv, TypeInv, Points
  <2>2. cpu' \in CpuType
    BY <1>1, <1>8, <2>1 DEF RspWritesDvr, WriteDvr, CpuType
  <2>3. rsp' \in RspType /\ rsp'.op = rsp.op /\ rsp'.pt = rsp.pt /\ rsp'.wp = rsp.wp
    BY <1>1, <1>8, GotoType DEF RspWritesDvr, RspPcs
  <2> QED BY <1>8, <2>2, <2>3 DEF RspWritesDvr, TypeInv, hwpVars
<1>9. CASE RspWritesDcr
  <2>1. rsp.op \in {"Z", "z"} /\ rsp.wp \in WPs /\ rsp.pt[1] \in HwTypes
    BY <1>9 DEF RspWritesDcr, RspTurn, ControlInv, TypeInv, Points
  <2>2. (IF rsp.op = "Z" THEN rsp.pt[1] ELSE "disabled") \in Codes
    BY <2>1 DEF Codes
  <2>3. cpu' \in CpuType
    BY <1>1, <1>9, <2>1, <2>2 DEF RspWritesDcr, WriteDcr, CpuType, Codes
  <2>4. rsp' \in RspType /\ rsp'.op = rsp.op /\ rsp'.pt = rsp.pt /\ rsp'.wp = rsp.wp
    BY <1>1, <1>9, GotoType DEF RspWritesDcr, RspPcs
  <2> QED BY <1>9, <2>3, <2>4 DEF RspWritesDcr, TypeInv, hwpVars
<1>10. CASE RspReadsDmr2
  <2>1. rsp' \in RspType /\ rsp'.op = rsp.op /\ rsp'.pt = rsp.pt /\ rsp'.wp = rsp.wp
    BY <1>1, <1>2, <1>10 DEF RspReadsDmr2, RspType, TmpType, RspPcs
  <2> QED BY <1>10, <2>1 DEF RspReadsDmr2, TypeInv, hwpVars
<1>11. CASE RspWritesDmr2
  <2>1. rsp.op = "Z" => rsp.wp \in WPs
    BY DEF TypeInv
  <2>2. (CASE rsp.op = "Z" -> rsp.tmp.wgb \cup {rsp.wp}
           [] rsp.op = "z" -> rsp.tmp.wgb \ {rsp.wp}
           [] OTHER -> rsp.tmp.wgb) \in SUBSET WPs
    BY <1>3, <2>1
  <2>3. cpu' \in CpuType
    BY <1>1, <1>11, <2>2 DEF RspWritesDmr2, WriteDmr2, CpuType
  <2>4. rsp' \in RspType /\ rsp'.op = rsp.op /\ rsp'.pt = rsp.pt /\ rsp'.wp = rsp.wp
    BY <1>1, <1>11, GotoType DEF RspWritesDmr2, RspPcs
  <2> QED BY <1>11, <2>3, <2>4 DEF RspWritesDmr2, TypeInv, hwpVars
<1>12. CASE RspReadsDmr1
  <2>1. rsp' \in RspType /\ rsp'.op = rsp.op /\ rsp'.pt = rsp.pt /\ rsp'.wp = rsp.wp
    BY <1>1, <1>2, <1>12 DEF RspReadsDmr1, RspType, TmpType, RspPcs
  <2> QED BY <1>12, <2>1 DEF RspReadsDmr1, TypeInv, hwpVars
<1>13. CASE RspWritesDmr1
  <2>1. cpu' \in CpuType
    BY <1>1, <1>3, <1>13 DEF RspWritesDmr1, CpuType
  <2>2. rsp' = Idle \/ rsp' = [rsp EXCEPT !.pc = "unstall"]
    BY <1>13 DEF RspWritesDmr1
  <2>3. rsp' \in RspType /\ (rsp'.op # "none" => rsp'.op = rsp.op /\ rsp'.pt = rsp.pt /\ rsp'.wp = rsp.wp)
    <3>1. Idle.op = "none"
      BY DEF Idle
    <3>2. CASE rsp' = Idle
      BY <3>1, <3>2, InitialTypes
    <3>3. CASE rsp' = [rsp EXCEPT !.pc = "unstall"]
      BY <1>1, <3>3 DEF RspType, RspPcs
    <3> QED BY <2>2, <3>2, <3>3
  <2>4. gdb' \subseteq Points
    BY <1>13 DEF RspWritesDmr1, TypeInv
  <2>5. single_step_mode' \in BOOLEAN
    BY <1>13 DEF RspWritesDmr1, TypeInv
  <2> QED BY <1>13, <2>1, <2>3, <2>4, <2>5 DEF RspWritesDmr1, TypeInv, hwpVars
<1>14. CASE RspReturnsWatchpoint
  <2>1. rsp' \in RspType /\ rsp'.op = "none"
    BY <1>14, InitialTypes DEF RspReturnsWatchpoint, Idle
  <2>2. hwp_in_use' \in [WPs -> BOOLEAN]
    BY <1>14 DEF RspReturnsWatchpoint, hwp_return_watchpoint, hwp_set_in_use, TypeInv
  <2> QED BY <1>14, <2>1, <2>2 DEF RspReturnsWatchpoint, TypeInv, hwpVars
<1>15. CASE RspUnstalls
  <2>1. rsp' \in RspType /\ rsp'.op = rsp.op /\ rsp'.pt = rsp.pt /\ rsp'.wp = rsp.wp
    BY <1>1, <1>15, GotoType DEF RspUnstalls, RspPcs
  <2>2. single_step_mode' \in BOOLEAN
    BY <1>15 DEF RspUnstalls
  <2> QED BY <1>15, <2>1, <2>2 DEF RspUnstalls, TypeInv, hwpVars
<1>16. CASE RspReportsStop
  <2>1. rsp' \in RspType /\ rsp'.op = "none"
    BY <1>16, InitialTypes DEF RspReportsStop, Idle
  <2>2. npc_reset' \in BOOLEAN
    BY <1>16 DEF RspReportsStop
  <2> QED BY <1>16, <2>1, <2>2 DEF RspReportsStop, TypeInv, hwpVars
<1>17. CASE rsp_server_request
  BY <1>17 DEF rsp_server_request, TypeInv, hwpVars
<1>18. CASE HwpReadsEvent
  BY <1>18 DEF HwpReadsEvent, TypeInv, rspVars
<1>19. ASSUME client' \in ClientType, UNCHANGED <<cpu, running, hwp_in_use, rspVars, hwp, asked, wrote>>
       PROVE  TypeInv'
  BY <1>19 DEF TypeInv, rspVars
<1>20. 1 \in 1..Len(Regs)
  BY RegsInOrder, WatchAssumption
<1>21. CASE doReadAllRegisters
  <2>1. client' \in ClientType
    BY <1>1, <1>20, <1>21 DEF doReadAllRegisters, ClientType
  <2> QED BY <1>19, <1>21, <2>1 DEF doReadAllRegisters
<1> DEFINE r == Regs[client.i][1]
           w == Regs[client.i][2]
<1>22. client.i \in 1..Len(Regs) /\ w \in WPs
  <2>1. client.i \in 1..Len(Regs)
    BY <1>1 DEF ClientType
  <2> QED BY <2>1, RegsKinds
<1>23. CASE hwp_read_reg
  <2> DEFINE n == NextReg("read")
  <2>1. n \in ClientType /\ cpu.dcr[w] \in Codes /\ cpu.dvr[w] \in Addrs
    BY <1>1, <1>2, <1>22, NextRegType
  <2>2. client' \in {[n EXCEPT !.regSet.dcr[w] = cpu.dcr[w]], [n EXCEPT !.regSet.dvr[w] = cpu.dvr[w]],
                     [n EXCEPT !.regSet.chain = cpu.chain, !.regSet.st = cpu.st],
                     [n EXCEPT !.regSet.wgb = cpu.wgb]}
    BY <1>23 DEF hwp_read_reg
  <2> HIDE DEF n, w
  <2>3. client' \in ClientType
    <3>1. [n EXCEPT !.regSet.dcr[w] = cpu.dcr[w]] \in ClientType
      BY <1>2, <1>22, <2>1, RegSetWrites
    <3>2. [n EXCEPT !.regSet.dvr[w] = cpu.dvr[w]] \in ClientType
      BY <1>2, <1>22, <2>1, RegSetWrites
    <3>3. [n EXCEPT !.regSet.chain = cpu.chain, !.regSet.st = cpu.st] \in ClientType
      BY <1>2, <1>22, <2>1, RegSetWrites
    <3>4. [n EXCEPT !.regSet.wgb = cpu.wgb] \in ClientType
      BY <1>2, <1>22, <2>1, RegSetWrites
    <3> QED BY <2>2, <3>1, <3>2, <3>3, <3>4
  <2> QED BY <1>19, <1>23, <2>3 DEF hwp_read_reg
<1>24. CASE hwp_read_fails \/ ClientRests
  BY <1>19, <1>24, InitialTypes DEF hwp_read_fails, ClientRests
<1>25. CASE doWriteAllRegisters
  <2>1. client' \in ClientType
    BY <1>25, EditFields
  <2> QED BY <1>19, <1>25, <2>1 DEF doWriteAllRegisters
<1>26. /\ client.regSet.dcr \in [WPs -> Codes] /\ client.regSet.dvr \in [WPs -> Addrs]
       /\ client.regSet.wgb \in SUBSET WPs /\ client.regSet.chain \in SUBSET WPs
       /\ client.regSet.st \in BOOLEAN
  BY <1>1 DEF RegSetType
<1>27. AfterReply \in [wp : WPs \cup {-1}, code : Codes] /\ Asked \in [WPs -> Codes]
  BY <1>1, <1>22, <1>26 DEF AfterReply, Asked, TypeInv
<1>28. CASE hwp_write_reg
  <2>1. cpu' \in {WriteDcr(cpu, w, client.regSet.dcr[w]), WriteDvr(cpu, w, client.regSet.dvr[w]),
                  [cpu EXCEPT !.chain = client.regSet.chain, !.st = client.regSet.st],
                  WriteDmr2(cpu, client.regSet.wgb)}
    BY <1>28 DEF hwp_write_reg
  <2>2. wrote' \in {[wrote EXCEPT !.dcr[w] = client.regSet.dcr[w]],
                    [wrote EXCEPT !.dvr[w] = client.regSet.dvr[w]],
                    [wrote EXCEPT !.chain = client.regSet.chain],
                    [wrote EXCEPT !.wgb = client.regSet.wgb]}
    BY <1>28 DEF hwp_write_reg
  <2>3. client.regSet.dcr[w] \in Codes /\ client.regSet.dvr[w] \in Addrs
    BY <1>22, <1>26
  <2> HIDE DEF w
  <2>4. cpu' \in CpuType
    <3>1. WriteDcr(cpu, w, client.regSet.dcr[w]) \in CpuType
      BY <1>1, <1>22, <1>26, <2>3, CpuWrites
    <3>2. WriteDvr(cpu, w, client.regSet.dvr[w]) \in CpuType
      BY <1>1, <1>22, <1>26, <2>3, CpuWrites
    <3>3. [cpu EXCEPT !.chain = client.regSet.chain, !.st = client.regSet.st] \in CpuType
      BY <1>1, <1>26 DEF CpuType
    <3>4. WriteDmr2(cpu, client.regSet.wgb) \in CpuType
      BY <1>1, <1>26 DEF WriteDmr2, CpuType
    <3> QED BY <2>1, <3>1, <3>2, <3>3, <3>4
  <2>5. wrote' \in WroteType
    BY <1>1, <1>22, <1>26, <2>2, <2>3 DEF WroteType
  <2>6. client' \in ClientType
    BY <1>1, <1>28, NextRegType DEF hwp_write_reg
  <2> QED BY <1>27, <1>28, <2>4, <2>5, <2>6 DEF hwp_write_reg, TypeInv, rspVars
<1>29. CASE hwp_write_fails
  <2>1. client' \in ClientType
    BY <1>1, <1>29 DEF hwp_write_fails, ClientType
  <2> QED BY <1>27, <1>29, <2>1 DEF hwp_write_fails, TypeInv, rspVars
<1>30. CASE HwpMarks
  <2>1. hwp_in_use' \in [WPs -> BOOLEAN]
    BY <1>30 DEF HwpMarks, hwp_set_in_use, Enabled, TypeInv
  <2>2. hwp' \in [wp : WPs \cup {-1}, code : Codes]
    BY <1>30, InitialTypes DEF HwpMarks
  <2> QED BY <1>30, <2>1, <2>2 DEF HwpMarks, TypeInv, rspVars
<1>31. CASE UNCHANGED vars
  BY <1>31 DEF vars, TypeInv, rspVars, hwpVars
<1> HIDE DEF r, w
<1>32. CASE RspSteps
  BY <1>5, <1>6, <1>7, <1>8, <1>9, <1>10, <1>11, <1>12, <1>13, <1>14, <1>15, <1>16, <1>17, <1>32
  DEF RspSteps
<1>33. CASE HwpSteps
  BY <1>18, <1>21, <1>23, <1>24, <1>25, <1>28, <1>29, <1>30, <1>33 DEF HwpSteps
<1> QED BY <1>4, <1>31, <1>32, <1>33 DEF Next

(***************************************************************************)
(* What the register accesses of a request leave in the RSP thread's       *)
(* variables.                                                              *)
(***************************************************************************)
LEMMA IdleFields == Idle.pc = "idle" /\ Idle.op = "none" /\ Idle.wp = -1
BY DEF Idle

(***************************************************************************)
(* A continue or a step starts with DMR2, and names no watchpoint.         *)
(***************************************************************************)
LEMMA ResumeFields ==
  ASSUME NEW op, rsp_resume(op)
  PROVE  rsp.pc = "idle" /\ rsp'.pc = "dmr2_read" /\ rsp'.op = op /\ rsp'.wp = -1
BY DEF rsp_resume, Request, RspTurn, Idle

(***************************************************************************)
(* The read of DMR2; only a resume with no status bits to clear skips the  *)
(* write.                                                                  *)
(***************************************************************************)
LEMMA ReadDmr2Fields ==
  ASSUME TypeInv, RspReadsDmr2
  PROVE  /\ rsp.pc = "dmr2_read" /\ rsp'.op = rsp.op /\ rsp'.pt = rsp.pt /\ rsp'.wp = rsp.wp
         /\ rsp'.tmp.wgb = cpu.wgb
         /\ rsp'.pc = IF rsp.op \in {"c", "s"} /\ cpu.wbs = {} THEN "dmr1_read" ELSE "dmr2_write"
BY DEF TypeInv, RspReadsDmr2, RspTurn, RspType, TmpType

(***************************************************************************)
(* The read of DMR1; only a second step in a row skips the write.          *)
(***************************************************************************)
LEMMA ReadDmr1Fields ==
  ASSUME TypeInv, RspReadsDmr1
  PROVE  /\ rsp.pc = "dmr1_read" /\ rsp'.op = rsp.op /\ rsp'.pt = rsp.pt /\ rsp'.wp = rsp.wp
         /\ rsp'.tmp.chain = cpu.chain /\ rsp'.tmp.st = cpu.st
         /\ rsp'.pc = IF rsp.op = "s" /\ single_step_mode THEN "unstall" ELSE "dmr1_write"
BY DEF TypeInv, RspReadsDmr1, RspTurn, RspType, TmpType

(***************************************************************************)
(* The write of DMR1 ends an insert; a resume goes on to the unstall.      *)
(***************************************************************************)
LEMMA WriteDmr1Fields ==
  ASSUME TypeInv, RspWritesDmr1
  PROVE  /\ rsp.pc = "dmr1_write"
         /\ rsp.op = "Z" => rsp' = Idle
         /\ rsp.op # "Z" => /\ rsp'.pc = "unstall" /\ rsp'.op = rsp.op
                            /\ rsp'.pt = rsp.pt /\ rsp'.wp = rsp.wp
         /\ cpu'.chain = (IF rsp.op = "Z" THEN rsp.tmp.chain \ {rsp.wp} ELSE rsp.tmp.chain)
         /\ cpu'.st = (IF rsp.op = "Z" THEN rsp.tmp.st ELSE rsp.op = "s")
         /\ cpu'.dvr = cpu.dvr /\ cpu'.dcr = cpu.dcr /\ cpu'.wgb = cpu.wgb /\ cpu'.wbs = cpu.wbs
BY DEF TypeInv, RspWritesDmr1, RspTurn, RspType, CpuType

(***************************************************************************)
(* Writing a DVR or a DCR leaves the single-step bits and the status bits. *)
(***************************************************************************)
LEMMA DmrUntouched ==
  ASSUME NEW c \in CpuType, NEW w, NEW a, NEW code
  PROVE  /\ WriteDvr(c, w, a).wbs = c.wbs /\ WriteDvr(c, w, a).st = c.st
         /\ WriteDcr(c, w, code).wbs = c.wbs /\ WriteDcr(c, w, code).st = c.st
BY DEF WriteDvr, WriteDcr, CpuType

(***************************************************************************)
(* Writing DMR2 sets what breaks, clears the status bits and nothing else. *)
(***************************************************************************)
LEMMA Dmr2Write ==
  ASSUME NEW c \in CpuType, NEW S
  PROVE  /\ WriteDmr2(c, S).wgb = S /\ WriteDmr2(c, S).wbs = {} /\ WriteDmr2(c, S).st = c.st
         /\ WriteDmr2(c, S).dvr = c.dvr /\ WriteDmr2(c, S).dcr = c.dcr
         /\ WriteDmr2(c, S).chain = c.chain
BY DEF WriteDmr2, CpuType

-----------------------------------------------------------------------------
(***************************************************************************)
(* The watchpoint server's steps leave the RSP thread and the CPU's run    *)
(* state alone.                                                            *)
(***************************************************************************)
LEMMA HwpFrame ==
  ASSUME HwpSteps
  PROVE  UNCHANGED <<running, why, rspVars>>
<1>1. CASE HwpReadsEvent \/ doReadAllRegisters \/ hwp_read_fails \/ HwpMarks \/ ClientRests
  BY <1>1 DEF HwpReadsEvent, doReadAllRegisters, hwp_read_fails, HwpMarks, ClientRests
<1>2. CASE hwp_read_reg
  BY <1>2 DEF hwp_read_reg
<1>3. CASE doWriteAllRegisters
  BY <1>3 DEF doWriteAllRegisters
<1>4. CASE hwp_write_reg
  BY <1>4 DEF hwp_write_reg
<1>5. CASE hwp_write_fails
  BY <1>5 DEF hwp_write_fails
<1> QED BY <1>1, <1>2, <1>3, <1>4, <1>5 DEF HwpSteps

(***************************************************************************)
(* Every step keeps the requests at accesses they make.                    *)
(***************************************************************************)
LEMMA ControlStep == TypeInv /\ ControlInv /\ [Next]_vars => ControlInv'
<1> SUFFICES ASSUME TypeInv, ControlInv, [Next]_vars PROVE ControlInv'
  OBVIOUS
<1>1. rsp \in RspType
  BY DEF TypeInv
<1>2. CASE CpuSteps
  BY <1>2 DEF CpuSteps, WatchpointHit, StepDone, BreakIn, Stopped, ControlInv, rspVars
<1>3. ASSUME NEW pt \in Points, rsp_insert_matchpoint(pt)
      PROVE  ControlInv'
  <2>1. \/ UNCHANGED rsp
        \/ rsp' = [Idle EXCEPT !.pc = "dvr", !.op = "Z", !.pt = pt, !.wp = hwp_get_available_watchpoint]
    BY <1>3 DEF rsp_insert_matchpoint
  <2>2. UNCHANGED rsp \/ (rsp'.pc = "dvr" /\ rsp'.op = "Z")
    BY <2>1 DEF Idle
  <2> QED BY <1>3, <2>2 DEF rsp_insert_matchpoint, Request, ControlInv
<1>4. ASSUME NEW pt \in Points, rsp_remove_matchpoint(pt)
      PROVE  ControlInv'
  <2>1. \/ UNCHANGED rsp
        \/ \E e : rsp' = [Idle EXCEPT !.pc = "dmr2_read", !.op = "z", !.pt = pt, !.wp = e.instr]
    BY <1>4 DEF rsp_remove_matchpoint
  <2>2. UNCHANGED rsp \/ (rsp'.pc = "dmr2_read" /\ rsp'.op = "z")
    BY <2>1 DEF Idle
  <2>3. running' = running /\ ~ running
    BY <1>4 DEF rsp_remove_matchpoint, Request
  <2> QED BY <2>2, <2>3 DEF ControlInv
<1>5. ASSUME NEW op \in {"c", "s"}, rsp_resume(op)
      PROVE  ControlInv'
  BY <1>5, ResumeFields DEF rsp_resume, Request, ControlInv
<1>6. CASE RspWritesDvr
  <2>1. rsp'.pc = "dcr" /\ rsp'.op = rsp.op
    BY <1>1, <1>6, GotoType DEF RspWritesDvr, RspPcs
  <2> QED BY <1>6, <2>1 DEF RspWritesDvr, RspTurn, ControlInv
<1>7. CASE RspWritesDcr
  <2>1. rsp'.pc = (IF rsp.op = "Z" THEN "dmr2_read" ELSE "return") /\ rsp'.op = rsp.op
    BY <1>1, <1>7, GotoType DEF RspWritesDcr, RspPcs
  <2> QED BY <1>7, <2>1 DEF RspWritesDcr, RspTurn, ControlInv
<1>8. CASE RspReadsDmr2
  BY <1>8, ReadDmr2Fields DEF RspReadsDmr2, ControlInv
<1>9. CASE RspWritesDmr2
  <2>1. rsp'.pc = (IF rsp.op = "z" THEN "dcr" ELSE "dmr1_read") /\ rsp'.op = rsp.op
    BY <1>1, <1>9, GotoType DEF RspWritesDmr2, RspPcs
  <2> QED BY <1>9, <2>1 DEF RspWritesDmr2, RspTurn, ControlInv
<1>10. CASE RspReadsDmr1
  BY <1>10, ReadDmr1Fields DEF RspReadsDmr1, ControlInv
<1>11. CASE RspWritesDmr1
  <2>1. rsp.pc = "dmr1_write" /\ running' = running
    BY <1>11 DEF RspWritesDmr1, RspTurn
  <2>2. CASE rsp.op = "Z"
    BY <1>11, <2>1, <2>2, WriteDmr1Fields, IdleFields DEF ControlInv
  <2>3. CASE rsp.op # "Z"
    <3>1. rsp.op \in {"c", "s"}
      BY <1>1, <2>1, <2>3 DEF ControlInv, RspType
    <3> QED BY <1>11, <2>1, <2>3, <3>1, WriteDmr1Fields DEF ControlInv
  <2> QED BY <2>2, <2>3
<1>12. CASE RspReturnsWatchpoint
  BY <1>12, IdleFields DEF RspReturnsWatchpoint, RspTurn, ControlInv
<1>13. CASE RspUnstalls
  <2>1. rsp'.pc = "waiting" /\ rsp'.op = rsp.op
    BY <1>1, <1>13, GotoType DEF RspUnstalls, RspPcs
  <2> QED BY <1>13, <2>1 DEF RspUnstalls, RspTurn, ControlInv
<1>14. CASE RspReportsStop
  BY <1>14, IdleFields DEF RspReportsStop, RspTurn, ControlInv
<1>15. CASE rsp_server_request
  BY <1>15 DEF rsp_server_request, ControlInv
<1>16. CASE HwpSteps
  BY <1>16, HwpFrame DEF ControlInv, rspVars
<1>17. CASE UNCHANGED vars
  BY <1>17 DEF vars, ControlInv, rspVars
<1>18. CASE RspSteps
  BY <1>3, <1>4, <1>5, <1>6, <1>7, <1>8, <1>9, <1>10, <1>11, <1>12, <1>13, <1>14, <1>15, <1>18
  DEF RspSteps
<1> QED BY <1>2, <1>16, <1>17, <1>18 DEF Next

(***************************************************************************)
(* At the start no request is being served.                                *)
(***************************************************************************)
LEMMA ControlStart == Init => ControlInv
BY IdleFields DEF Init, ControlInv

(***************************************************************************)
(* The registers, the table, the matchpoints and both threads' variables   *)
(* keep their types, whatever the three users do, in every order, and with *)
(* failing accesses.                                                       *)
(***************************************************************************)
THEOREM WatchTypes == Spec => []WatchTypeOK
<1>1. Spec => [](TypeInv /\ ControlInv)
  BY TypeStart, ControlStart, TypeStep, ControlStep, PTL DEF Spec
<1>2. TypeInv => WatchTypeOK
  BY DEF TypeInv, WatchTypeOK, CpuType, RspType, RspPcs, ClientType
<1> QED BY <1>1, <1>2, PTL

-----------------------------------------------------------------------------
(***************************************************************************)
(* While one of the RSP thread and the watchpoint server with its client   *)
(* works, the other rests.                                                 *)
(***************************************************************************)
LEMMA RspExclusive ==
  ASSUME ClientWaits, TurnInv, RspSteps
  PROVE  client.pc = "idle" /\ hwp.wp = -1 /\ UNCHANGED <<client, hwp, asked, why>>
<1>1. CASE \E pt \in Points : rsp_insert_matchpoint(pt)
  BY <1>1 DEF rsp_insert_matchpoint, Request, RspTurn
<1>2. CASE \E pt \in Points : rsp_remove_matchpoint(pt)
  BY <1>2 DEF rsp_remove_matchpoint, Request, RspTurn, hwpVars
<1>3. CASE \E op \in {"c", "s"} : rsp_resume(op)
  BY <1>3 DEF rsp_resume, Request, RspTurn, hwpVars
<1>4. CASE rsp_server_request
  BY <1>4 DEF rsp_server_request, Request, RspTurn, hwpVars
<1>5. CASE RspWritesDvr \/ RspWritesDcr \/ RspReadsDmr2 \/ RspWritesDmr2
  BY <1>5 DEF RspWritesDvr, RspWritesDcr, RspReadsDmr2, RspWritesDmr2, RspTurn, hwpVars, TurnInv
<1>6. CASE RspReadsDmr1 \/ RspWritesDmr1 \/ RspReturnsWatchpoint
  BY <1>6 DEF RspReadsDmr1, RspWritesDmr1, RspReturnsWatchpoint, RspTurn, hwpVars, TurnInv
<1>7. CASE RspUnstalls \/ RspReportsStop
  BY <1>7 DEF RspUnstalls, RspReportsStop, RspTurn, hwpVars, TurnInv
<1> QED BY <1>1, <1>2, <1>3, <1>4, <1>5, <1>6, <1>7 DEF RspSteps

(***************************************************************************)
(* A step of the watchpoint server or of its client that changes anything  *)
(* the RSP server sees finds no request, no matchpoint and a stopped CPU.  *)
(***************************************************************************)
LEMMA HwpExclusive ==
  ASSUME ClientWaits, TurnInv, HwpSteps
  PROVE  \/ UNCHANGED <<cpu, running, why, hwp_in_use, rspVars, hwp, client, asked, wrote>>
         \/ RspIdle /\ ~ running /\ mp_hash = {}
<1>1. CASE HwpReadsEvent
  BY <1>1 DEF HwpReadsEvent
<1>2. CASE doReadAllRegisters
  BY <1>2 DEF doReadAllRegisters
<1>3. CASE hwp_read_reg \/ hwp_read_fails \/ doWriteAllRegisters
  BY <1>3 DEF hwp_read_reg, hwp_read_fails, doWriteAllRegisters, ClientTurn, TurnInv, RspIdle
<1>4. CASE hwp_write_reg \/ hwp_write_fails \/ HwpMarks \/ ClientRests
  BY <1>4 DEF hwp_write_reg, hwp_write_fails, HwpMarks, ClientRests, ClientTurn, TurnInv, RspIdle
<1> QED BY <1>1, <1>2, <1>3, <1>4 DEF HwpSteps

(***************************************************************************)
(* A step of the CPU is a stop; only one at a watchpoint touches a         *)
(* register.                                                               *)
(***************************************************************************)
LEMMA CpuFrame ==
  ASSUME CpuSteps
  PROVE  /\ running /\ ~ running' /\ UNCHANGED <<hwp_in_use, rspVars, hwpVars>>
         /\ why' \in {"watch", "step", "break"}
         /\ why' # "watch" => cpu' = cpu
         /\ why' = "watch" => WatchpointHit
BY DEF CpuSteps, WatchpointHit, StepDone, BreakIn, Stopped

(***************************************************************************)
(* Every step keeps the two servers out of each other's way.               *)
(***************************************************************************)
LEMMA TurnStep ==
  ASSUME ClientWaits, TypeInv, ControlInv, TurnInv, [Next]_vars
  PROVE  TurnInv'
<1>1. CASE CpuSteps
  BY <1>1, CpuFrame DEF TurnInv, rspVars, hwpVars
<1>2. CASE RspSteps
  BY <1>2, RspExclusive DEF TurnInv
<1>3. CASE HwpSteps
  BY <1>3, HwpExclusive, HwpFrame DEF TurnInv, RspIdle, rspVars
<1>4. CASE UNCHANGED vars
  BY <1>4 DEF vars, TurnInv, rspVars, hwpVars
<1> QED BY <1>1, <1>2, <1>3, <1>4 DEF Next

(***************************************************************************)
(* At the start both servers rest.                                         *)
(***************************************************************************)
LEMMA TurnStart == Init => TurnInv
BY DEF Init, TurnInv, NewClient

-----------------------------------------------------------------------------
(***************************************************************************)
(* What one 'p' and one 'P' of the control program change.                 *)
(***************************************************************************)
LEMMA ReadRegFields ==
  ASSUME TypeInv, hwp_read_reg
  PROVE  /\ client'.pc = IF client.i = Len(Regs) THEN "have" ELSE "read"
         /\ client'.i = IF client.i = Len(Regs) THEN 1 ELSE client.i + 1
         /\ client'.regSet.st = IF Regs[client.i][1] = "dmr1" THEN cpu.st ELSE client.regSet.st
         /\ \A v \in WPs : client'.regSet.dcr[v] \in {client.regSet.dcr[v], cpu.dcr[v]}
<1> DEFINE n == NextReg("read")
           r == Regs[client.i][1]
           w == Regs[client.i][2]
<1>1. /\ n \in ClientType /\ n.regSet = client.regSet
      /\ n.pc = IF client.i = Len(Regs) THEN "have" ELSE "read"
      /\ n.i = IF client.i = Len(Regs) THEN 1 ELSE client.i + 1
  BY NextRegType DEF TypeInv
<1>2. client' = CASE r = "dcr" -> [n EXCEPT !.regSet.dcr[w] = cpu.dcr[w]]
                  [] r = "dvr" -> [n EXCEPT !.regSet.dvr[w] = cpu.dvr[w]]
                  [] r = "dmr1" -> [n EXCEPT !.regSet.chain = cpu.chain, !.regSet.st = cpu.st]
                  [] OTHER -> [n EXCEPT !.regSet.wgb = cpu.wgb]
  BY DEF hwp_read_reg
<1>3. w \in WPs /\ client.regSet.dcr \in [WPs -> Codes]
  <2>1. client.i \in 1..Len(Regs) /\ client.regSet \in RegSetType
    BY DEF TypeInv, ClientType
  <2> QED BY <2>1, RegsKinds DEF RegSetType
<1> HIDE DEF n, r, w
<1>4. CASE r = "dcr"
  <2>1. client' = [n EXCEPT !.regSet.dcr[w] = cpu.dcr[w]]
    BY <1>2, <1>4
  <2>2. /\ client'.pc = n.pc /\ client'.i = n.i /\ client'.regSet.st = n.regSet.st
        /\ client'.regSet.dcr = [n.regSet.dcr EXCEPT ![w] = cpu.dcr[w]]
    BY <1>1, <2>1 DEF ClientType, RegSetType
  <2>3. \A v \in WPs : client'.regSet.dcr[v] \in {client.regSet.dcr[v], cpu.dcr[v]}
    BY <1>1, <1>3, <2>2
  <2> QED BY <1>1, <1>4, <2>2, <2>3 DEF r
<1>5. CASE r # "dcr"
  <2>1. CASE r = "dvr"
    <3>1. client' = [n EXCEPT !.regSet.dvr[w] = cpu.dvr[w]]
      BY <1>2, <2>1
    <3>2. /\ client'.pc = n.pc /\ client'.i = n.i /\ client'.regSet.st = n.regSet.st
          /\ client'.regSet.dcr = n.regSet.dcr
      BY <1>1, <3>1 DEF ClientType, RegSetType
    <3> QED BY <1>1, <2>1, <3>2 DEF r
  <2>2. CASE r = "dmr1"
    <3>1. client' = [n EXCEPT !.regSet.chain = cpu.chain, !.regSet.st = cpu.st]
      BY <1>2, <2>2
    <3>2. /\ client'.pc = n.pc /\ client'.i = n.i /\ client'.regSet.st = cpu.st
          /\ client'.regSet.dcr = n.regSet.dcr
      BY <1>1, <3>1 DEF ClientType, RegSetType
    <3> QED BY <1>1, <2>2, <3>2 DEF r
  <2>3. CASE r \notin {"dcr", "dvr", "dmr1"}
    <3>1. client' = [n EXCEPT !.regSet.wgb = cpu.wgb]
      BY <1>2, <2>3
    <3>2. /\ client'.pc = n.pc /\ client'.i = n.i /\ client'.regSet.st = n.regSet.st
          /\ client'.regSet.dcr = n.regSet.dcr
      BY <1>1, <3>1 DEF ClientType, RegSetType
    <3> QED BY <1>1, <2>3, <3>2 DEF r
  <2> QED BY <1>5, <2>1, <2>2, <2>3
<1> QED BY <1>4, <1>5

(***************************************************************************)
(* One 'P' by the kind of register it writes.                              *)
(***************************************************************************)
LEMMA WriteRegKinds ==
  ASSUME TypeInv, hwp_write_reg
  PROVE  LET r == Regs[client.i][1]
             w == Regs[client.i][2]
         IN  /\ client.i \in 1..Len(Regs) /\ w \in WPs /\ r \in {"dcr", "dvr", "dmr1", "dmr2"}
             /\ r = "dcr" => /\ cpu' = WriteDcr(cpu, w, client.regSet.dcr[w])
                             /\ wrote' = [wrote EXCEPT !.dcr[w] = client.regSet.dcr[w]]
                             /\ hwp' = [wp |-> w, code |-> client.regSet.dcr[w]]
                             /\ asked' = [asked EXCEPT ![w] = client.regSet.dcr[w]]
             /\ r = "dvr" => /\ cpu' = WriteDvr(cpu, w, client.regSet.dvr[w])
                             /\ wrote' = [wrote EXCEPT !.dvr[w] = client.regSet.dvr[w]]
             /\ r = "dmr1" => /\ cpu' = [cpu EXCEPT !.chain = client.regSet.chain,
                                                    !.st = client.regSet.st]
                              /\ wrote' = [wrote EXCEPT !.chain = client.regSet.chain]
             /\ r = "dmr2" => /\ cpu' = WriteDmr2(cpu, client.regSet.wgb)
                              /\ wrote' = [wrote EXCEPT !.wgb = client.regSet.wgb]
             /\ r # "dcr" => hwp' = hwp /\ asked' = asked
<1>1. client.i \in 1..Len(Regs)
  BY DEF TypeInv, ClientType
<1>2. Regs[client.i][2] \in WPs /\ Regs[client.i][1] \in {"dcr", "dvr", "dmr1", "dmr2"}
  BY <1>1, RegsKinds
<1> QED BY <1>1, <1>2 DEF hwp_write_reg, AfterReply, Asked

(***************************************************************************)
(* Only the write of DMR1 touches the single-step bits.                    *)
(***************************************************************************)
LEMMA WriteRegSt ==
  ASSUME TypeInv, hwp_write_reg
  PROVE  cpu'.st = IF Regs[client.i][1] = "dmr1" THEN client.regSet.st ELSE cpu.st
<1>1. cpu \in CpuType
  BY DEF TypeInv
<1>2. CASE Regs[client.i][1] = "dmr1"
  BY <1>1, <1>2, WriteRegKinds DEF CpuType
<1>3. CASE Regs[client.i][1] # "dmr1"
  BY <1>1, <1>3, WriteRegKinds, DmrUntouched, Dmr2Write
<1> QED BY <1>2, <1>3

(***************************************************************************)
(* Every step keeps the flag, DMR1, the status bits and the last stop      *)
(* report in agreement.                                                    *)
(***************************************************************************)
LEMMA StepStep ==
  ASSUME ClientWaits, TypeInv, ControlInv, TurnInv, StepInv, [Next]_vars
  PROVE  StepInv'
<1>1. /\ cpu \in CpuType /\ rsp \in RspType /\ cpu.st \in BOOLEAN /\ rsp.tmp.st \in BOOLEAN
      /\ single_step_mode \in BOOLEAN /\ npc_reset \in BOOLEAN /\ running \in BOOLEAN
  BY DEF TypeInv, CpuType, RspType, TmpType
<1>2. CASE CpuSteps
  <2>1. /\ running /\ ~ running' /\ rsp.pc = "waiting" /\ rsp' = rsp /\ client' = client
        /\ single_step_mode' = single_step_mode /\ npc_reset' = npc_reset
    BY <1>2, CpuFrame DEF ControlInv, rspVars, hwpVars
  <2>2. cpu'.st = cpu.st /\ (cpu'.wbs # {}) = (why' = "watch")
    <3>1. CASE why' = "watch"
      <4>1. PICK w \in Breaking : cpu' = [cpu EXCEPT !.wbs = IF @ = {} THEN {w} ELSE @]
        BY <1>2, <3>1, CpuFrame DEF WatchpointHit
      <4> QED BY <1>1, <3>1, <4>1 DEF CpuType
    <3>2. CASE why' # "watch"
      BY <1>2, <2>1, <3>2, CpuFrame DEF StepInv
    <3> QED BY <3>1, <3>2
  <2> QED BY <2>1, <2>2 DEF StepInv
<1>3. ASSUME NEW pt \in Points, rsp_insert_matchpoint(pt) \/ rsp_remove_matchpoint(pt)
      PROVE  StepInv'
  <2>1. /\ rsp.pc = "idle" /\ client.pc = "idle"
        /\ rsp' = rsp \/ rsp'.pc \in {"dvr", "dmr2_read"}
        /\ UNCHANGED <<cpu, running, why, single_step_mode, npc_reset, client>>
    <3>1. CASE rsp_insert_matchpoint(pt)
      BY <3>1 DEF rsp_insert_matchpoint, Request, RspTurn, Idle
    <3>2. CASE rsp_remove_matchpoint(pt)
      BY <3>2 DEF rsp_remove_matchpoint, Request, RspTurn, Idle, hwpVars
    <3> QED BY <1>3, <3>1, <3>2
  <2> QED BY <2>1 DEF StepInv, ControlInv
<1>4. ASSUME NEW op \in {"c", "s"}, rsp_resume(op)
      PROVE  StepInv'
  <2>1. UNCHANGED <<cpu, running, why, single_step_mode, npc_reset, client>>
    BY <1>4 DEF rsp_resume, hwpVars
  <2> QED BY <1>4, <2>1, ResumeFields DEF StepInv, ControlInv
<1>5. CASE rsp_server_request
  <2>1. /\ UNCHANGED <<cpu, running, why, npc_reset, client, rsp>> /\ single_step_mode' = FALSE
    BY <1>5 DEF rsp_server_request, hwpVars
  <2> QED BY <2>1 DEF StepInv
<1>6. CASE RspWritesDvr \/ RspWritesDcr
  <2>1. /\ UNCHANGED <<running, why, single_step_mode, npc_reset, client>>
        /\ rsp'.op = rsp.op /\ rsp'.pc \in {"dcr", "dmr2_read", "return"}
        /\ rsp.pc \in {"dvr", "dcr"}
    BY <1>1, <1>6, GotoType DEF RspWritesDvr, RspWritesDcr, RspTurn, RspPcs, hwpVars
  <2>2. cpu'.st = cpu.st /\ client.pc = "idle"
    <3>1. cpu'.st = cpu.st
      BY <1>1, <1>6, DmrUntouched DEF RspWritesDvr, RspWritesDcr
    <3> QED BY <2>1, <3>1 DEF TurnInv
  <2> QED BY <2>1, <2>2 DEF StepInv, ControlInv
<1>7. CASE RspReadsDmr2
  <2>1. UNCHANGED <<cpu, running, why, single_step_mode, npc_reset, client>>
    BY <1>7 DEF RspReadsDmr2, hwpVars
  <2> QED BY <1>7, <2>1, ReadDmr2Fields DEF StepInv, ControlInv
<1>8. CASE RspWritesDmr2
  <2>1. /\ UNCHANGED <<running, why, single_step_mode, npc_reset, client>>
        /\ rsp'.op = rsp.op /\ rsp'.pc \in {"dcr", "dmr1_read"} /\ rsp.pc = "dmr2_write"
    BY <1>1, <1>8, GotoType DEF RspWritesDmr2, RspTurn, RspPcs, hwpVars
  <2>2. cpu'.st = cpu.st /\ cpu'.wbs = {}
    BY <1>1, <1>8, Dmr2Write DEF RspWritesDmr2
  <2> QED BY <2>1, <2>2 DEF StepInv, ControlInv
<1>9. CASE RspReadsDmr1
  <2>1. UNCHANGED <<cpu, running, why, single_step_mode, npc_reset, client>>
    BY <1>9 DEF RspReadsDmr1, hwpVars
  <2>2. rsp'.pc = "unstall" => cpu.st /\ rsp.op = "s"
    BY <1>9, ReadDmr1Fields DEF StepInv
  <2> QED BY <1>1, <1>9, <2>1, <2>2, ReadDmr1Fields DEF StepInv, ControlInv
<1>10. CASE RspWritesDmr1
  <2>1. /\ UNCHANGED <<running, why, npc_reset, client>>
        /\ single_step_mode' = IF rsp.op = "s" THEN TRUE ELSE single_step_mode
    BY <1>10 DEF RspWritesDmr1, hwpVars
  <2>2. rsp.pc = "dmr1_write" /\ client.pc = "idle"
    BY <1>10 DEF RspWritesDmr1, RspTurn, TurnInv
  <2>3. CASE rsp.op = "Z"
    <3>1. cpu'.st = cpu.st
      BY <1>10, <2>2, <2>3, WriteDmr1Fields DEF StepInv
    <3> QED BY <1>10, <2>1, <2>2, <2>3, <3>1, WriteDmr1Fields, IdleFields DEF StepInv
  <2>4. CASE rsp.op # "Z"
    <3>1. rsp.op \in {"c", "s"}
      BY <1>1, <2>2, <2>4 DEF ControlInv, RspType
    <3>2. /\ cpu'.st = (rsp.op = "s") /\ cpu'.wbs = {} /\ rsp'.pc = "unstall" /\ rsp'.op = rsp.op
      BY <1>10, <2>2, <2>4, <3>1, WriteDmr1Fields DEF StepInv
    <3> QED BY <2>1, <2>2, <2>4, <3>1, <3>2 DEF StepInv
  <2> QED BY <2>3, <2>4
<1>11. CASE RspReturnsWatchpoint
  <2>1. /\ UNCHANGED <<cpu, running, why, single_step_mode, npc_reset, client>>
        /\ rsp' = Idle /\ rsp.pc = "return"
    BY <1>11 DEF RspReturnsWatchpoint, RspTurn, hwpVars
  <2> QED BY <2>1, IdleFields DEF StepInv, ControlInv
<1>12. CASE RspUnstalls
  <2>1. /\ UNCHANGED <<cpu, why, npc_reset, client>> /\ running' = TRUE
        /\ single_step_mode' = (single_step_mode /\ rsp.op = "s")
        /\ rsp.pc = "unstall" /\ rsp'.pc = "waiting" /\ rsp'.op = rsp.op
    BY <1>1, <1>12, GotoType DEF RspUnstalls, RspTurn, RspPcs, hwpVars
  <2> QED BY <1>1, <2>1 DEF StepInv, ControlInv
<1>13. CASE RspReportsStop
  <2>1. /\ UNCHANGED <<cpu, running, why, single_step_mode, client>>
        /\ npc_reset' = (cpu.wbs # {}) /\ rsp' = Idle /\ rsp.pc = "waiting" /\ ~ running
    BY <1>13 DEF RspReportsStop, RspTurn, hwpVars
  <2> QED BY <2>1, IdleFields DEF StepInv
<1>14. CASE HwpSteps
  <2>1. UNCHANGED <<running, why, mp_hash, single_step_mode, rsp, npc_reset>>
    BY <1>14, HwpFrame DEF rspVars
  <2>2. SUFFICES /\ RspIdle => cpu'.st = cpu.st
                 /\ ~ RspIdle => cpu' = cpu
                 /\ client'.pc \in {"have", "write"} \/ (client'.pc = "read" /\ client'.i = Len(Regs))
                      => client'.regSet.st = cpu'.st
    BY <2>1 DEF StepInv, RspIdle, ControlInv
  <2>3. ~ RspIdle => cpu' = cpu
    BY <1>14, HwpExclusive
  <2>4. /\ client.i \in 1..Len(Regs) /\ Len(Regs) \in Nat /\ Len(Regs) > 2
        /\ Regs[Len(Regs) - 1][1] = "dmr1" /\ Regs[Len(Regs)][1] = "dmr2"
        /\ \A i \in 1..Len(Regs) : Regs[i][1] = "dmr1" => i = Len(Regs) - 1
    <3>1. client.i \in 1..Len(Regs) /\ HWP_MAX_WP \in Nat \ {0}
      BY WatchAssumption DEF TypeInv, ClientType
    <3>2. Len(Regs) = 2 * HWP_MAX_WP + 2 /\ Len(Regs) - 1 = 2 * HWP_MAX_WP + 1
      BY <3>1, RegsInOrder
    <3>3. Regs[Len(Regs) - 1][1] = "dmr1" /\ Regs[Len(Regs)][1] = "dmr2"
      BY <3>2, RegsInOrder
    <3> QED BY <3>1, <3>2, <3>3, RegsKinds
  <2>5. CASE HwpReadsEvent
    BY <2>5 DEF HwpReadsEvent, StepInv
  <2>6. CASE doReadAllRegisters
    <3>1. client'.pc = "read" /\ client'.i = 1 /\ cpu' = cpu
      BY <2>6 DEF doReadAllRegisters, TypeInv, ClientType
    <3> QED BY <2>4, <3>1
  <2>7. CASE hwp_read_reg
    <3>1. cpu' = cpu /\ client.pc = "read"
      BY <2>7 DEF hwp_read_reg, ClientTurn
    <3>2. CASE client.i = Len(Regs)
      <4>1. Regs[client.i][1] # "dmr1"
        BY <2>4, <3>2
      <4> QED BY <2>7, <3>1, <3>2, <4>1, ReadRegFields DEF StepInv
    <3>3. CASE client.i = Len(Regs) - 1
      BY <2>4, <2>7, <3>1, <3>3, ReadRegFields
    <3>4. CASE client.i # Len(Regs) /\ client.i # Len(Regs) - 1
      BY <2>4, <2>7, <3>1, <3>4, ReadRegFields
    <3> QED BY <3>2, <3>3, <3>4
  <2>8. CASE hwp_read_fails \/ ClientRests
    <3>1. client' = NewClient /\ cpu' = cpu
      BY <2>8 DEF hwp_read_fails, ClientRests
    <3> QED BY <3>1 DEF NewClient
  <2>9. CASE doWriteAllRegisters
    <3>1. cpu' = cpu /\ client.pc = "have"
      BY <2>9 DEF doWriteAllRegisters, ClientTurn
    <3> QED BY <2>9, <3>1, EditFields DEF StepInv
  <2>10. CASE hwp_write_reg
    <3>1. client.pc = "write" /\ client' = NextReg("write")
      BY <2>10 DEF hwp_write_reg, ClientTurn
    <3>2. client.regSet.st = cpu.st
      BY <3>1 DEF StepInv
    <3>3. cpu'.st = cpu.st
      BY <2>10, <3>2, WriteRegSt
    <3>4. client'.regSet = client.regSet
      BY <3>1, NextRegType DEF TypeInv
    <3> QED BY <2>3, <3>2, <3>3, <3>4
  <2>11. CASE hwp_write_fails
    <3>1. client.pc = "write" /\ client' = [client EXCEPT !.pc = "have"] /\ cpu' = cpu
      BY <2>11 DEF hwp_write_fails, ClientTurn
    <3>2. client'.regSet = client.regSet
      BY <3>1 DEF TypeInv, ClientType
    <3> QED BY <3>1, <3>2 DEF StepInv
  <2>12. CASE HwpMarks
    BY <2>12 DEF HwpMarks, StepInv
  <2> QED BY <1>14, <2>5, <2>6, <2>7, <2>8, <2>9, <2>10, <2>11, <2>12 DEF HwpSteps
<1>15. CASE UNCHANGED vars
  BY <1>15 DEF vars, StepInv, rspVars, hwpVars
<1>16. CASE RspSteps
  BY <1>3, <1>4, <1>5, <1>6, <1>7, <1>8, <1>9, <1>10, <1>11, <1>12, <1>13, <1>16 DEF RspSteps
<1> QED BY <1>2, <1>14, <1>15, <1>16 DEF Next

(***************************************************************************)
(* At the start the CPU does not step and has not stopped.                 *)
(***************************************************************************)
LEMMA StepStart == Init => StepInv
BY IdleFields DEF Init, StepInv, NewClient

(***************************************************************************)
(* With the person keeping out of GDB's way, a stop report moves NPC back  *)
(* to PPC exactly when a watchpoint stopped the CPU, for any number of     *)
(* watchpoints, absent ones and repeated packets included: the status bits *)
(* DMR2 holds at the report are those of this stop.                        *)
(***************************************************************************)
THEOREM NpcResetRight ==
  ASSUME ClientWaits
  PROVE  Spec => []NpcResetForWatchpoints
<1> DEFINE I == TypeInv /\ ControlInv /\ TurnInv /\ StepInv
<1>1. Init => I
  BY TypeStart, ControlStart, TurnStart, StepStart
<1>2. I /\ [Next]_vars => I'
  BY TypeStep, ControlStep, TurnStep, StepStep
<1>3. I => NpcResetForWatchpoints
  BY DEF StepInv, NpcResetForWatchpoints, RspIdle
<1> QED BY <1>1, <1>2, <1>3, PTL DEF Spec

(***************************************************************************)
(* And whenever the CPU starts, its single-step bits are what the request  *)
(* asked for, although 's' trusts a flag instead of reading DMR1, and no   *)
(* watchpoint status is left over.                                         *)
(***************************************************************************)
THEOREM StartRight ==
  ASSUME ClientWaits
  PROVE  Spec => StartsAsAsked
<1> DEFINE I == TypeInv /\ ControlInv /\ TurnInv /\ StepInv
<1>1. Init => I
  BY TypeStart, ControlStart, TurnStart, StepStart
<1>2. I /\ [Next]_vars => I'
  BY TypeStep, ControlStep, TurnStep, StepStep
<1>3. I /\ [Next]_vars => [~ running /\ running' => cpu'.st = (rsp.op = "s") /\ cpu'.wbs = {}]_vars
  <2> SUFFICES ASSUME I, [Next]_vars, ~ running, running'
               PROVE  cpu'.st = (rsp.op = "s") /\ cpu'.wbs = {}
    OBVIOUS
  <2>1. CASE RspUnstalls
    BY <2>1 DEF RspUnstalls, RspTurn, StepInv, ControlInv
  <2>2. CASE CpuSteps
    BY <2>2, CpuFrame
  <2>3. CASE HwpSteps \/ UNCHANGED vars
    BY <2>3, HwpFrame DEF vars
  <2>4. CASE RspSteps /\ ~ RspUnstalls
    <3>1. CASE \E pt \in Points : rsp_insert_matchpoint(pt) \/ rsp_remove_matchpoint(pt)
      BY <3>1 DEF rsp_insert_matchpoint, rsp_remove_matchpoint
    <3>2. CASE (\E op \in {"c", "s"} : rsp_resume(op)) \/ rsp_server_request
      BY <3>2 DEF rsp_resume, rsp_server_request
    <3>3. CASE RspWritesDvr \/ RspWritesDcr \/ RspReadsDmr2 \/ RspWritesDmr2
      BY <3>3 DEF RspWritesDvr, RspWritesDcr, RspReadsDmr2, RspWritesDmr2
    <3>4. CASE RspReadsDmr1 \/ RspWritesDmr1 \/ RspReturnsWatchpoint \/ RspReportsStop
      BY <3>4 DEF RspReadsDmr1, RspWritesDmr1, RspReturnsWatchpoint, RspReportsStop
    <3> QED BY <2>4, <3>1, <3>2, <3>3, <3>4 DEF RspSteps
  <2> QED BY <2>1, <2>2, <2>3, <2>4 DEF Next
<1> QED BY <1>1, <1>2, <1>3, PTL DEF Spec, StartsAsAsked

-----------------------------------------------------------------------------
(***************************************************************************)
(* No write makes a DCR read as that of an absent watchpoint.              *)
(***************************************************************************)
LEMMA DcrPresent ==
  ASSUME NEW c \in CpuType, \A v \in WPs : c.dcr[v] # "absent",
         NEW w \in WPs, NEW a, NEW code, NEW S
  PROVE  /\ WriteDvr(c, w, a).dcr = c.dcr
         /\ WriteDmr2(c, S).dcr = c.dcr
         /\ \A v \in WPs : WriteDcr(c, w, code).dcr[v] # "absent"
<1>1. WriteDvr(c, w, a).dcr = c.dcr
  BY DEF WriteDvr, CpuType
<1>2. WriteDmr2(c, S).dcr = c.dcr
  BY DEF WriteDmr2, CpuType
<1>3. \A v \in WPs : WriteDcr(c, w, code).dcr[v] # "absent"
  <2>1. CASE w \in Absent
    BY <2>1 DEF WriteDcr
  <2>2. CASE w \notin Absent
    <3>1. WriteDcr(c, w, code).dcr = [c.dcr EXCEPT ![w] = IF code = "absent" THEN "disabled" ELSE code]
      BY <2>2 DEF WriteDcr, CpuType
    <3>2. c.dcr \in [WPs -> Codes]
      BY DEF CpuType
    <3> QED BY <3>1, <3>2
  <2> QED BY <2>1, <2>2
<1> QED BY <1>1, <1>2, <1>3

(***************************************************************************)
(* A step that neither adds nor takes a matchpoint, marks nothing and      *)
(* leaves the request alone keeps the table right.                         *)
(***************************************************************************)
LEMMA TableFrame ==
  ASSUME TableInv, UNCHANGED <<hwp_in_use, mp_hash, gdb, asked, hwp>>,
         \/ rsp'.op = rsp.op /\ rsp'.pt = rsp.pt /\ rsp'.wp = rsp.wp
         \/ rsp.op \notin {"Z", "z"} /\ rsp'.op \notin {"Z", "z"},
         \A w \in WPs : cpu'.dcr[w] # "absent" /\ client'.regSet.dcr[w] # "absent"
  PROVE  TableInv'
<1>1. \A w \in WPs : Owned(w)' = Owned(w)
  BY DEF Owned
<1>2. InUseRight'
  BY <1>1 DEF TableInv, InUseRight
<1> QED BY <1>1, <1>2 DEF TableInv

(***************************************************************************)
(* An insert takes a watchpoint nobody has, and adds a matchpoint the      *)
(* table of matchpoints does not hold: GDB was never told it is inserted.  *)
(***************************************************************************)
LEMMA InsertFields ==
  ASSUME ClientWaits, ~ GdbRepeats, TypeInv, ControlInv, TableInv,
         NEW pt \in Points, rsp_insert_matchpoint(pt), hwp_get_available_watchpoint # -1
  PROVE  LET w == hwp_get_available_watchpoint
         IN  /\ w \in WPs /\ ~ hwp_in_use[w] /\ ~ Owned(w) /\ asked[w] = "disabled"
             /\ rsp.pc = "idle" /\ rsp.op = "none" /\ hwp.wp = -1 /\ client.pc = "idle"
             /\ \A e \in mp_hash : ~ (e.type = pt[1] /\ e.addr = pt[2])
             /\ mp_hash' = mp_hash \cup {[type |-> pt[1], addr |-> pt[2], instr |-> w]}
             /\ hwp_in_use' = [hwp_in_use EXCEPT ![w] = TRUE]
             /\ rsp'.pc = "dvr" /\ rsp'.op = "Z" /\ rsp'.pt = pt /\ rsp'.wp = w
<1> DEFINE w == hwp_get_available_watchpoint
<1>1. w \in WPs /\ ~ hwp_in_use[w]
  BY AvailableIsFree
<1>2. /\ rsp.pc = "idle" /\ hwp.wp = -1 /\ client.pc = "idle" /\ pt \notin gdb
      /\ mp_hash' = mp_hash_add(mp_hash, pt[1], pt[2], w)
      /\ hwp_in_use' = [hwp_in_use EXCEPT ![w] = TRUE]
      /\ rsp' = [Idle EXCEPT !.pc = "dvr", !.op = "Z", !.pt = pt, !.wp = w]
  BY DEF rsp_insert_matchpoint, Request, RspTurn, hwp_set_in_use
<1> HIDE DEF w
<1>3. rsp'.pc = "dvr" /\ rsp'.op = "Z" /\ rsp'.pt = pt /\ rsp'.wp = w /\ rsp.op = "none"
  BY <1>2 DEF Idle, ControlInv
<1>4. w # hwp.wp /\ ~ Owned(w) /\ asked[w] = "disabled"
  <2>1. w # hwp.wp
    BY <1>1, <1>2, WatchAssumption DEF WPs
  <2>2. hwp_in_use[w] = (Owned(w) \/ asked[w] # "disabled")
    BY <1>1, <2>1 DEF TableInv, InUseRight
  <2> QED BY <1>1, <2>1, <2>2, Zenon
<1>5. \A e \in mp_hash : ~ (e.type = pt[1] /\ e.addr = pt[2])
  BY <1>2, <1>3 DEF TableInv, Points
<1>6. mp_hash_lookup(mp_hash, pt[1], pt[2]) = {}
  BY <1>5 DEF mp_hash_lookup
<1> QED BY <1>1, <1>2, <1>3, <1>4, <1>5, <1>6 DEF mp_hash_add, w

(***************************************************************************)
(* A remove takes the matchpoint out; the watchpoint it had stays GDB's    *)
(* until it is returned.                                                   *)
(***************************************************************************)
LEMMA RemoveFields ==
  ASSUME ClientWaits, ControlInv,
         NEW pt \in Points, rsp_remove_matchpoint(pt)
  PROVE  /\ rsp.pc = "idle" /\ rsp.op = "none" /\ hwp.wp = -1 /\ client.pc = "idle"
         /\ UNCHANGED <<cpu, running, hwp_in_use, hwpVars>>
         /\ gdb' = gdb \ {pt}
         /\ mp_hash' = {e \in mp_hash : ~ (e.type = pt[1] /\ e.addr = pt[2])}
         /\ \/ rsp' = rsp /\ mp_hash' = mp_hash
            \/ \E e \in mp_hash : /\ e.type = pt[1] /\ e.addr = pt[2]
                                  /\ rsp'.pc = "dmr2_read" /\ rsp'.op = "z" /\ rsp'.wp = e.instr
<1>1. /\ rsp.pc = "idle" /\ hwp.wp = -1 /\ client.pc = "idle"
      /\ UNCHANGED <<cpu, running, hwp_in_use, hwpVars>> /\ gdb' = gdb \ {pt}
      /\ mp_hash' = mp_hash_delete(mp_hash, pt[1], pt[2])
  BY DEF rsp_remove_matchpoint, Request, RspTurn
<1>2. mp_hash' = {e \in mp_hash : ~ (e.type = pt[1] /\ e.addr = pt[2])}
  BY <1>1 DEF mp_hash_delete, mp_hash_lookup
<1>3. CASE mp_hash_lookup(mp_hash, pt[1], pt[2]) = {}
  BY <1>1, <1>2, <1>3 DEF rsp_remove_matchpoint, mp_hash_delete, ControlInv
<1>4. CASE mp_hash_lookup(mp_hash, pt[1], pt[2]) # {}
  <2>1. PICK e \in mp_hash_lookup(mp_hash, pt[1], pt[2]) :
          rsp' = [Idle EXCEPT !.pc = "dmr2_read", !.op = "z", !.pt = pt, !.wp = e.instr]
    BY <1>4 DEF rsp_remove_matchpoint
  <2>2. rsp'.pc = "dmr2_read" /\ rsp'.op = "z" /\ rsp'.wp = e.instr
    BY <2>1 DEF Idle
  <2> QED BY <1>1, <1>2, <2>2 DEF mp_hash_lookup, ControlInv
<1> QED BY <1>3, <1>4

(***************************************************************************)
(* Every step keeps the table, the matchpoints and GDB's view of them in   *)
(* agreement.                                                              *)
(***************************************************************************)
LEMMA TableStep ==
  ASSUME ClientWaits, ~ GdbRepeats, Absent = {},
         TypeInv, ControlInv, TurnInv, TableInv, [Next]_vars
  PROVE  TableInv'
<1>1. /\ cpu \in CpuType /\ rsp \in RspType /\ client \in ClientType
      /\ \A w \in WPs : cpu.dcr[w] # "absent" /\ client.regSet.dcr[w] # "absent"
      /\ hwp_in_use \in [WPs -> BOOLEAN] /\ asked \in [WPs -> Codes]
  BY DEF TypeInv, TableInv
<1>2. CASE CpuSteps
  <2>1. UNCHANGED <<hwp_in_use, mp_hash, gdb, asked, hwp, rsp, client>>
    BY <1>2, CpuFrame DEF rspVars, hwpVars
  <2>2. cpu'.dcr = cpu.dcr
    <3>1. CASE why' = "watch"
      BY <1>1, <1>2, <3>1, CpuFrame DEF WatchpointHit, CpuType
    <3> QED BY <1>2, <3>1, CpuFrame
  <2> QED BY <1>1, <2>1, <2>2, TableFrame
<1>3. ASSUME NEW pt \in Points, rsp_insert_matchpoint(pt)
      PROVE  TableInv'
  <2>1. UNCHANGED <<cpu, gdb, hwp, client, asked>>
    BY <1>3 DEF rsp_insert_matchpoint
  <2> DEFINE w == hwp_get_available_watchpoint
  <2>2. CASE w = -1
    <3>1. UNCHANGED <<hwp_in_use, mp_hash, rsp>>
      BY <1>3, <2>2 DEF rsp_insert_matchpoint
    <3> QED BY <1>1, <2>1, <3>1, TableFrame
  <2>3. CASE w # -1
    <3> DEFINE new == [type |-> pt[1], addr |-> pt[2], instr |-> w]
    <3>1. /\ w \in WPs /\ ~ hwp_in_use[w] /\ ~ Owned(w) /\ asked[w] = "disabled"
          /\ rsp.pc = "idle" /\ rsp.op = "none" /\ hwp.wp = -1
          /\ \A e \in mp_hash : ~ (e.type = pt[1] /\ e.addr = pt[2])
          /\ mp_hash' = mp_hash \cup {new}
          /\ hwp_in_use' = [hwp_in_use EXCEPT ![w] = TRUE]
          /\ rsp'.op = "Z" /\ rsp'.pt = pt /\ rsp'.wp = w
      BY <1>3, <2>3, InsertFields
    <3> HIDE DEF w
    <3>2. new.type = pt[1] /\ new.addr = pt[2] /\ new.instr = w
      OBVIOUS
    <3> HIDE DEF new
    <3>3. \A e \in mp_hash : e.instr # w
      BY <3>1 DEF Owned
    <3>4. \A v \in WPs : Owned(v)' <=> (Owned(v) \/ v = w)
      BY <3>1, <3>2 DEF Owned
    <3>5. \A e, f \in mp_hash' :
            e.instr = f.instr \/ (e.type = f.type /\ e.addr = f.addr) => e = f
      <4>1. SUFFICES ASSUME NEW e \in mp_hash', NEW f \in mp_hash',
                            e.instr = f.instr \/ (e.type = f.type /\ e.addr = f.addr)
                     PROVE  e = f
        OBVIOUS
      <4>2. CASE e = new /\ f \in mp_hash
        BY <3>1, <3>2, <3>3, <4>1, <4>2
      <4>3. CASE f = new /\ e \in mp_hash
        BY <3>1, <3>2, <3>3, <4>1, <4>3
      <4>4. CASE e \in mp_hash /\ f \in mp_hash
        BY <4>1, <4>4 DEF TableInv
      <4> QED BY <3>1, <4>2, <4>3, <4>4
    <3>6. InUseRight'
      <4>1. SUFFICES ASSUME NEW v \in WPs, v # hwp.wp
                     PROVE  hwp_in_use'[v] = (Owned(v)' \/ asked[v] # "disabled")
        BY <2>1 DEF InUseRight
      <4>2. CASE v = w
        <5>1. hwp_in_use'[v] = TRUE
          BY <1>1, <3>1, <4>2
        <5> QED BY <3>4, <4>2, <5>1, Zenon
      <4>3. CASE v # w
        <5>1. hwp_in_use'[v] = hwp_in_use[v]
          BY <1>1, <3>1, <4>3
        <5>2. hwp_in_use[v] = (Owned(v) \/ asked[v] # "disabled")
          BY <4>1 DEF TableInv, InUseRight
        <5> QED BY <3>4, <4>3, <5>1, <5>2, Zenon
      <4> QED BY <4>2, <4>3
    <3>7. \A v \in WPs : Owned(v)' => asked[v] = "disabled"
      BY <3>1, <3>4 DEF TableInv
    <3>8. /\ \A e \in mp_hash' : <<e.type, e.addr>> \in gdb \/ (rsp'.op = "Z" /\ rsp'.wp = e.instr)
          /\ \A q \in gdb : \E e \in mp_hash' : q = <<e.type, e.addr>>
      BY <3>1, <3>2 DEF TableInv
    <3>9. [type |-> pt[1], addr |-> pt[2], instr |-> w] \in mp_hash'
      BY <3>1 DEF new
    <3>10. /\ hwp'.wp = -1 /\ hwp'.code # "absent"
           /\ \A v \in WPs : cpu'.dcr[v] # "absent" /\ client'.regSet.dcr[v] # "absent"
      BY <1>1, <2>1, <3>1 DEF TableInv
    <3> QED BY <2>1, <3>1, <3>5, <3>6, <3>7, <3>8, <3>9, <3>10 DEF TableInv
  <2> QED BY <2>2, <2>3
<1>4. ASSUME NEW pt \in Points, rsp_remove_matchpoint(pt)
      PROVE  TableInv'
  <2>1. /\ rsp.op = "none" /\ UNCHANGED <<cpu, hwp_in_use, hwp, client, asked>>
        /\ gdb' = gdb \ {pt}
        /\ mp_hash' = {e \in mp_hash : ~ (e.type = pt[1] /\ e.addr = pt[2])}
    BY <1>4, RemoveFields DEF hwpVars
  <2>2. pt = <<pt[1], pt[2]>>
    BY DEF Points
  <2>3. \A q \in gdb' : \E e \in mp_hash' : q = <<e.type, e.addr>>
    BY <2>1, <2>2 DEF TableInv
  <2>4. \A e \in mp_hash' : <<e.type, e.addr>> \in gdb'
    <3>1. SUFFICES ASSUME NEW e \in mp_hash' PROVE <<e.type, e.addr>> \in gdb'
      OBVIOUS
    <3>2. e \in mp_hash /\ ~ (e.type = pt[1] /\ e.addr = pt[2])
      BY <2>1, <3>1
    <3>3. <<e.type, e.addr>> # pt
      BY <3>2
    <3>4. <<e.type, e.addr>> \in gdb
      BY <2>1, <3>2 DEF TableInv
    <3> QED BY <2>1, <3>3, <3>4
  <2>5. CASE rsp' = rsp /\ mp_hash' = mp_hash
    <3>1. \A v \in WPs : Owned(v)' <=> Owned(v)
      BY <2>5 DEF Owned
    <3>2. InUseRight'
      BY <2>1, <3>1 DEF TableInv, InUseRight
    <3> QED BY <2>1, <2>3, <2>4, <2>5, <3>1, <3>2 DEF TableInv
  <2>6. ASSUME NEW e \in mp_hash, e.type = pt[1], e.addr = pt[2],
               rsp'.op = "z", rsp'.wp = e.instr
        PROVE  TableInv'
    <3>1. \A f \in mp_hash : f \in mp_hash' <=> f # e
      BY <2>1, <2>6 DEF TableInv
    <3>2. \A v \in WPs : Owned(v)' <=> Owned(v)
      BY <2>1, <2>6, <3>1 DEF Owned
    <3>3. \A f \in mp_hash' : f.instr # e.instr
      BY <2>1, <3>1 DEF TableInv
    <3>4. InUseRight'
      BY <2>1, <3>2 DEF TableInv, InUseRight
    <3> QED BY <2>1, <2>3, <2>4, <2>6, <3>2, <3>3, <3>4 DEF TableInv
  <2> QED BY <1>4, <2>5, <2>6, RemoveFields
<1>5. ASSUME NEW op \in {"c", "s"}, rsp_resume(op)
      PROVE  TableInv'
  <2>1. UNCHANGED <<cpu, hwp_in_use, mp_hash, gdb, asked, hwp, client>>
    BY <1>5 DEF rsp_resume, hwpVars
  <2>2. rsp.op = "none" /\ rsp'.op = op
    BY <1>5, ResumeFields DEF ControlInv
  <2> QED BY <1>1, <2>1, <2>2, TableFrame
<1>6. CASE rsp_server_request
  <2>1. UNCHANGED <<cpu, hwp_in_use, mp_hash, gdb, asked, hwp, client, rsp>>
    BY <1>6 DEF rsp_server_request, hwpVars
  <2> QED BY <1>1, <2>1, TableFrame
<1>7. CASE RspWritesDvr \/ RspWritesDcr
  <2>1. /\ UNCHANGED <<hwp_in_use, mp_hash, gdb, asked, hwp, client>>
        /\ rsp'.op = rsp.op /\ rsp'.pt = rsp.pt /\ rsp'.wp = rsp.wp
        /\ rsp.op \in {"Z", "z"}
    BY <1>1, <1>7, GotoType DEF RspWritesDvr, RspWritesDcr, RspPcs, RspTurn, ControlInv, hwpVars
  <2>2. rsp.wp \in WPs
    BY <2>1 DEF TypeInv
  <2>3. \A v \in WPs : cpu'.dcr[v] # "absent"
    <3>1. CASE RspWritesDvr
      <4>1. cpu' = WriteDvr(cpu, rsp.wp, rsp.pt[2])
        BY <3>1 DEF RspWritesDvr
      <4> QED BY <1>1, <2>2, <4>1, DcrPresent
    <3>2. CASE RspWritesDcr
      <4> DEFINE code == IF rsp.op = "Z" THEN rsp.pt[1] ELSE "disabled"
      <4>1. cpu' = WriteDcr(cpu, rsp.wp, code)
        BY <3>2 DEF RspWritesDcr
      <4> HIDE DEF code
      <4> QED BY <1>1, <2>2, <4>1, DcrPresent
    <3> QED BY <1>7, <3>1, <3>2
  <2> QED BY <1>1, <2>1, <2>3, TableFrame
<1>8. CASE RspReadsDmr2
  <2>1. UNCHANGED <<cpu, hwp_in_use, mp_hash, gdb, asked, hwp, client>>
    BY <1>8 DEF RspReadsDmr2, hwpVars
  <2> QED BY <1>1, <1>8, <2>1, ReadDmr2Fields, TableFrame
<1>9. CASE RspWritesDmr2
  <2>1. /\ UNCHANGED <<hwp_in_use, mp_hash, gdb, asked, hwp, client>>
        /\ rsp'.op = rsp.op /\ rsp'.pt = rsp.pt /\ rsp'.wp = rsp.wp
    BY <1>1, <1>9, GotoType DEF RspWritesDmr2, RspPcs, hwpVars
  <2>2. cpu'.dcr = cpu.dcr
    BY <1>1, <1>9, Dmr2Write DEF RspWritesDmr2
  <2> QED BY <1>1, <2>1, <2>2, TableFrame
<1>10. CASE RspReadsDmr1
  <2>1. UNCHANGED <<cpu, hwp_in_use, mp_hash, gdb, asked, hwp, client>>
    BY <1>10 DEF RspReadsDmr1, hwpVars
  <2> QED BY <1>1, <1>10, <2>1, ReadDmr1Fields, TableFrame
<1>11. CASE RspWritesDmr1
  <2>1. /\ UNCHANGED <<hwp_in_use, mp_hash, asked, hwp, client>> /\ cpu'.dcr = cpu.dcr
        /\ gdb' = IF rsp.op = "Z" THEN gdb \cup {rsp.pt} ELSE gdb
    BY <1>11, WriteDmr1Fields DEF RspWritesDmr1, hwpVars
  <2>2. CASE rsp.op = "Z"
    <3> DEFINE new == [type |-> rsp.pt[1], addr |-> rsp.pt[2], instr |-> rsp.wp]
    <3>1. new \in mp_hash /\ rsp.pt = <<new.type, new.addr>> /\ new.instr = rsp.wp
      BY <2>2 DEF TableInv, TypeInv, Points
    <3>2. rsp'.op = "none"
      BY <1>11, <2>2, WriteDmr1Fields, IdleFields
    <3> HIDE DEF new
    <3>3. \A v \in WPs : Owned(v)' <=> Owned(v)
      BY <2>1, <2>2, <3>2 DEF Owned
    <3>4. \A e \in mp_hash : e.instr = rsp.wp => e = new
      BY <3>1 DEF TableInv
    <3>5. \A e \in mp_hash : <<e.type, e.addr>> \in gdb'
      BY <2>1, <2>2, <3>1, <3>4 DEF TableInv
    <3>6. \A q \in gdb' : \E e \in mp_hash : q = <<e.type, e.addr>>
      BY <2>1, <2>2, <3>1 DEF TableInv
    <3>7. InUseRight'
      BY <2>1, <3>3 DEF TableInv, InUseRight
    <3> QED BY <2>1, <2>2, <3>2, <3>3, <3>5, <3>6, <3>7 DEF TableInv
  <2>3. CASE rsp.op # "Z"
    BY <1>1, <1>11, <2>1, <2>3, WriteDmr1Fields, TableFrame
  <2> QED BY <2>2, <2>3
<1>12. CASE RspReturnsWatchpoint
  <2>1. /\ UNCHANGED <<cpu, mp_hash, gdb, asked, hwp, client>> /\ rsp'.op = "none"
        /\ rsp.pc = "return" /\ hwp_in_use' = [hwp_in_use EXCEPT ![rsp.wp] = FALSE]
    BY <1>12, IdleFields
    DEF RspReturnsWatchpoint, RspTurn, hwp_return_watchpoint, hwp_set_in_use, hwpVars
  <2>2. rsp.op = "z" /\ rsp.wp \in WPs
    BY <2>1 DEF ControlInv, TypeInv
  <2>3. \A e \in mp_hash : e.instr # rsp.wp
    BY <2>2 DEF TableInv
  <2>4. \A v \in WPs : Owned(v)' <=> (Owned(v) /\ v # rsp.wp)
    BY <2>1, <2>2, <2>3 DEF Owned
  <2>5. InUseRight'
    <3> hwp' = hwp /\ asked' = asked
      BY <2>1
    <3>1. SUFFICES ASSUME NEW v \in WPs, v # hwp.wp
                   PROVE  hwp_in_use'[v] = (Owned(v)' \/ asked[v] # "disabled")
      BY DEF InUseRight
    <3>2. CASE v = rsp.wp
      <4>1. hwp_in_use'[v] = FALSE
        BY <1>1, <2>1, <3>2
      <4>2. asked[v] = "disabled"
        BY <2>2, <3>2 DEF TableInv, Owned
      <4> QED BY <2>4, <3>2, <4>1, <4>2, Zenon
    <3>3. CASE v # rsp.wp
      <4>1. hwp_in_use'[v] = hwp_in_use[v]
        BY <1>1, <2>1, <3>3
      <4>2. hwp_in_use[v] = (Owned(v) \/ asked[v] # "disabled")
        BY <3>1 DEF TableInv, InUseRight
      <4> QED BY <2>4, <3>3, <4>1, <4>2, Zenon
    <3> QED BY <3>2, <3>3
  <2> QED BY <2>1, <2>2, <2>4, <2>5 DEF TableInv
<1>13. CASE RspUnstalls
  <2>1. /\ UNCHANGED <<cpu, hwp_in_use, mp_hash, gdb, asked, hwp, client>>
        /\ rsp'.op = rsp.op /\ rsp'.pt = rsp.pt /\ rsp'.wp = rsp.wp
    BY <1>1, <1>13, GotoType DEF RspUnstalls, RspPcs, hwpVars
  <2> QED BY <1>1, <2>1, TableFrame
<1>14. CASE RspReportsStop
  <2>1. /\ UNCHANGED <<cpu, hwp_in_use, mp_hash, gdb, asked, hwp, client>>
        /\ rsp'.op = "none" /\ rsp.op \in {"c", "s"}
    BY <1>14, IdleFields DEF RspReportsStop, RspTurn, ControlInv, hwpVars
  <2> QED BY <1>1, <2>1, TableFrame
<1>15. CASE RspSteps
  BY <1>3, <1>4, <1>5, <1>6, <1>7, <1>8, <1>9, <1>10, <1>11, <1>12, <1>13, <1>14, <1>15
  DEF RspSteps
<1>16. CASE HwpReadsEvent
  <2>1. UNCHANGED <<cpu, hwp_in_use, mp_hash, gdb, asked, hwp, client, rsp>>
    BY <1>16 DEF HwpReadsEvent, rspVars
  <2> QED BY <1>1, <2>1, TableFrame
<1>17. CASE doReadAllRegisters
  <2>1. /\ UNCHANGED <<cpu, hwp_in_use, mp_hash, gdb, asked, hwp, rsp>>
        /\ client' = [client EXCEPT !.pc = "read", !.i = 1]
    BY <1>17 DEF doReadAllRegisters, rspVars
  <2>2. client'.regSet = client.regSet
    BY <1>1, <2>1 DEF ClientType
  <2> QED BY <1>1, <2>1, <2>2, TableFrame
<1>18. CASE hwp_read_reg
  <2>1. UNCHANGED <<cpu, hwp_in_use, mp_hash, gdb, asked, hwp, rsp>>
    BY <1>18 DEF hwp_read_reg, rspVars
  <2>2. \A v \in WPs : client'.regSet.dcr[v] # "absent"
    BY <1>1, <1>18, ReadRegFields
  <2> QED BY <1>1, <2>1, <2>2, TableFrame
<1>19. CASE hwp_read_fails \/ ClientRests
  <2>1. /\ UNCHANGED <<cpu, hwp_in_use, mp_hash, gdb, asked, hwp, rsp>>
        /\ client' = NewClient
    BY <1>19 DEF hwp_read_fails, ClientRests, rspVars
  <2>2. \A v \in WPs : client'.regSet.dcr[v] # "absent"
    BY <2>1 DEF NewClient, PowerUp
  <2> QED BY <1>1, <2>1, <2>2, TableFrame
<1>20. CASE doWriteAllRegisters
  <2>1. UNCHANGED <<cpu, hwp_in_use, mp_hash, gdb, asked, hwp, rsp>>
    BY <1>20 DEF doWriteAllRegisters, rspVars
  <2>2. \A v \in WPs : client'.regSet.dcr[v] # "absent"
    <3>1. "absent" \notin HwTypes
      BY WatchAssumption
    <3>2. \A v \in WPs :
            client'.regSet.dcr[v] \in {client.regSet.dcr[v], "disabled"} \cup HwTypes
      BY <1>20, EditFields
    <3> QED BY <1>1, <3>1, <3>2
  <2> QED BY <1>1, <2>1, <2>2, TableFrame
<1>21. ASSUME hwp.wp = -1, client.pc = "write", hwp' = AfterReply, asked' = Asked,
              UNCHANGED <<hwp_in_use, rspVars>>, client'.regSet = client.regSet,
              \A v \in WPs : cpu'.dcr[v] # "absent"
       PROVE  TableInv'
  <2> DEFINE w == Regs[client.i][2]
             code == client.regSet.dcr[w]
  <2>1. w \in WPs
    <3>1. client.i \in 1..Len(Regs)
      BY <1>1 DEF ClientType
    <3> QED BY <3>1, RegsKinds
  <2>2. code # "absent"
    BY <1>1, <2>1
  <2>3. UNCHANGED <<mp_hash, gdb, rsp>> /\ mp_hash = {} /\ rsp.op = "none" /\ gdb = {}
    <3>1. UNCHANGED <<mp_hash, gdb, rsp>>
      BY <1>21 DEF rspVars
    <3> QED BY <1>21, <3>1 DEF TurnInv, TableInv, ControlInv
  <2>4. \A v \in WPs : ~ Owned(v) /\ ~ Owned(v)'
    BY <2>3 DEF Owned
  <2>5. CASE Regs[client.i][1] = "dcr"
    <3>1. hwp' = [wp |-> w, code |-> code] /\ asked' = [asked EXCEPT ![w] = code]
      BY <1>21, <2>5 DEF AfterReply, Asked
    <3> HIDE DEF w, code
    <3>2. /\ hwp'.wp = w /\ hwp'.code = code /\ asked'[w] = code
          /\ \A v \in WPs : v # w => asked'[v] = asked[v]
      BY <1>1, <2>1, <3>1
    <3>3. InUseRight'
      <4>1. SUFFICES ASSUME NEW v \in WPs, v # w
                     PROVE  hwp_in_use[v] = (Owned(v)' \/ asked'[v] # "disabled")
        BY <1>21, <3>2 DEF InUseRight
      <4>2. v # hwp.wp
        BY <1>21, WatchAssumption DEF WPs
      <4>3. hwp_in_use[v] = (Owned(v) \/ asked[v] # "disabled")
        BY <4>2 DEF TableInv, InUseRight
      <4> QED BY <2>4, <3>2, <4>1, <4>3, Zenon
    <3> QED BY <1>1, <1>21, <2>2, <2>3, <2>4, <3>2, <3>3 DEF TableInv
  <2>6. CASE Regs[client.i][1] # "dcr"
    <3>1. hwp' = hwp /\ asked' = asked
      BY <1>21, <2>6 DEF AfterReply, Asked
    <3> QED BY <1>1, <1>21, <2>3, <3>1, TableFrame
  <2> QED BY <2>5, <2>6
<1>22. CASE hwp_write_reg
  <2>1. /\ hwp.wp = -1 /\ client.pc = "write" /\ hwp' = AfterReply /\ asked' = Asked
        /\ UNCHANGED <<hwp_in_use, rspVars>> /\ client' = NextReg("write")
    BY <1>22 DEF hwp_write_reg, ClientTurn
  <2>2. client'.regSet = client.regSet
    BY <1>1, <2>1, NextRegType
  <2>3. \A v \in WPs : cpu'.dcr[v] # "absent"
    <3>1. CASE Regs[client.i][1] = "dmr1"
      <4>1. cpu' = [cpu EXCEPT !.chain = client.regSet.chain, !.st = client.regSet.st]
        BY <1>22, <3>1, WriteRegKinds
      <4>2. cpu'.dcr = cpu.dcr
        BY <1>1, <4>1 DEF CpuType
      <4> QED BY <1>1, <4>2
    <3>2. CASE Regs[client.i][1] # "dmr1"
      <4> DEFINE w == Regs[client.i][2]
      <4>1. /\ w \in WPs
            /\ \/ cpu' = WriteDcr(cpu, w, client.regSet.dcr[w])
               \/ cpu' = WriteDvr(cpu, w, client.regSet.dvr[w])
               \/ cpu' = WriteDmr2(cpu, client.regSet.wgb)
        BY <1>22, <3>2, WriteRegKinds
      <4> HIDE DEF w
      <4>2. /\ WriteDvr(cpu, w, client.regSet.dvr[w]).dcr = cpu.dcr
            /\ WriteDmr2(cpu, client.regSet.wgb).dcr = cpu.dcr
            /\ \A v \in WPs : WriteDcr(cpu, w, client.regSet.dcr[w]).dcr[v] # "absent"
        BY <1>1, <4>1, DcrPresent
      <4> QED BY <1>1, <4>1, <4>2
    <3> QED BY <3>1, <3>2
  <2> QED BY <1>21, <2>1, <2>2, <2>3
<1>23. CASE hwp_write_fails
  <2>1. /\ hwp.wp = -1 /\ client.pc = "write" /\ hwp' = AfterReply /\ asked' = Asked
        /\ UNCHANGED <<cpu, hwp_in_use, rspVars>> /\ client' = [client EXCEPT !.pc = "have"]
    BY <1>23 DEF hwp_write_fails, ClientTurn
  <2>2. client'.regSet = client.regSet
    BY <1>1, <2>1 DEF ClientType
  <2> QED BY <1>1, <1>21, <2>1, <2>2
<1>24. CASE HwpMarks
  <2>1. /\ hwp.wp # -1 /\ hwp_in_use' = [hwp_in_use EXCEPT ![hwp.wp] = Enabled(hwp.code)]
        /\ hwp' = [wp |-> -1, code |-> "disabled"]
        /\ UNCHANGED <<cpu, mp_hash, gdb, rsp, client, asked>>
    BY <1>24 DEF HwpMarks, hwp_set_in_use, rspVars
  <2>2. hwp'.wp = -1 /\ hwp'.code = "disabled"
    BY <2>1
  <2>3. hwp.wp \in WPs /\ asked[hwp.wp] = hwp.code /\ hwp.code \in Codes /\ hwp.code # "absent"
    BY <2>1 DEF TypeInv, TableInv
  <2>4. mp_hash = {} /\ rsp.op = "none"
    BY <2>1 DEF TurnInv, ControlInv
  <2>5. \A v \in WPs : ~ Owned(v) /\ ~ Owned(v)'
    BY <2>1, <2>4 DEF Owned
  <2>6. InUseRight'
    <3>1. SUFFICES ASSUME NEW v \in WPs
                   PROVE  hwp_in_use'[v] = (Owned(v)' \/ asked[v] # "disabled")
      <4> asked' = asked
        BY <2>1
      <4> QED BY DEF InUseRight
    <3>2. CASE v = hwp.wp
      <4>1. hwp_in_use'[v] = Enabled(asked[v])
        BY <1>1, <2>1, <2>3, <3>2
      <4>2. Enabled(asked[v]) <=> asked[v] # "disabled"
        BY <2>3, <3>2, WatchAssumption DEF Enabled, Codes
      <4>3. Enabled(asked[v]) \in BOOLEAN
        BY DEF Enabled
      <4> QED BY <2>5, <4>1, <4>2, <4>3, Zenon
    <3>3. CASE v # hwp.wp
      <4>1. hwp_in_use'[v] = hwp_in_use[v]
        BY <1>1, <2>1, <3>3
      <4>2. hwp_in_use[v] = (Owned(v) \/ asked[v] # "disabled")
        BY <3>3 DEF TableInv, InUseRight
      <4> QED BY <2>5, <4>1, <4>2, Zenon
    <3> QED BY <3>2, <3>3
  <2> QED BY <1>1, <2>1, <2>2, <2>4, <2>5, <2>6 DEF TableInv
<1>25. CASE HwpSteps
  BY <1>16, <1>17, <1>18, <1>19, <1>20, <1>22, <1>23, <1>24, <1>25 DEF HwpSteps
<1>26. CASE UNCHANGED vars
  <2>1. UNCHANGED <<cpu, hwp_in_use, mp_hash, gdb, asked, hwp, client, rsp>>
    BY <1>26 DEF vars, rspVars, hwpVars
  <2> QED BY <1>1, <2>1, TableFrame
<1> QED BY <1>2, <1>15, <1>25, <1>26 DEF Next

(***************************************************************************)
(* hwp_init() leaves the table right: what could not be read counts as in  *)
(* use.                                                                    *)
(***************************************************************************)
LEMMA TableStart == Absent = {} /\ Init => TableInv
<1> SUFFICES ASSUME Absent = {}, Init PROVE TableInv
  OBVIOUS
<1>1. PICK unreadable \in SUBSET WPs :
        /\ Cardinality(unreadable) <= MaxFaults
        /\ hwp_init(unreadable)
        /\ faults = Cardinality(unreadable)
        /\ asked = [w \in WPs |-> IF w \in Absent \cup unreadable THEN "absent" ELSE "disabled"]
  BY DEF Init
<1>2. /\ mp_hash = {} /\ gdb = {} /\ rsp.op = "none" /\ hwp.wp = -1 /\ hwp.code = "disabled"
      /\ cpu = PowerUp /\ client = NewClient
  BY IdleFields DEF Init, mp_hash_init
<1>3. \A w \in WPs : cpu.dcr[w] # "absent" /\ client.regSet.dcr[w] # "absent"
  BY <1>2 DEF PowerUp, NewClient
<1>4. \A w \in WPs : ~ Owned(w)
  BY <1>2 DEF Owned
<1>5. InUseRight
  <2>1. SUFFICES ASSUME NEW w \in WPs
                 PROVE  hwp_in_use[w] = (Owned(w) \/ asked[w] # "disabled")
    BY DEF InUseRight
  <2>2. hwp_in_use[w] = (w \in unreadable) /\ asked[w] = IF w \in unreadable THEN "absent" ELSE "disabled"
    BY <1>1 DEF hwp_init
  <2>3. CASE w \in unreadable
    <3>1. hwp_in_use[w] = TRUE /\ asked[w] # "disabled"
      BY <2>2, <2>3
    <3> QED BY <3>1, Zenon
  <2>4. CASE w \notin unreadable
    <3>1. asked[w] = "disabled"
      BY <2>2, <2>4
    <3>2. ~ hwp_in_use[w]
      BY <2>2, <2>4, Zenon
    <3>3. hwp_in_use[w] = FALSE
      BY <3>2, TypeStart DEF TypeInv
    <3> QED BY <1>4, <3>1, <3>3, Zenon
  <2> QED BY <2>3, <2>4
<1> QED BY <1>2, <1>3, <1>4, <1>5 DEF TableInv

(***************************************************************************)
(* With the person keeping out of GDB's way, GDB not repeating an insert   *)
(* and every watchpoint implemented, the table is right whenever neither   *)
(* server is within a request, for any number of watchpoints, requests,    *)
(* edits and failing accesses: a watchpoint is in use exactly when it has  *)
(* one holder, and never has two.                                          *)
(***************************************************************************)
THEOREM TableRight ==
  ASSUME ClientWaits, ~ GdbRepeats, Absent = {}
  PROVE  Spec => []WatchpointsAccounted
<1> DEFINE I == TypeInv /\ ControlInv /\ TurnInv /\ TableInv
<1>1. Init => I
  BY TypeStart, ControlStart, TurnStart, TableStart
<1>2. I /\ [Next]_vars => I'
  BY TypeStep, ControlStep, TurnStep, TableStep
<1>3. I => WatchpointsAccounted
  <2>1. SUFFICES ASSUME I, rsp.pc = "idle", hwp.wp = -1, NEW w \in WPs
                 PROVE  Cardinality(Holders(w)) = IF hwp_in_use[w] THEN 1 ELSE 0
    BY DEF WatchpointsAccounted, RspIdle
  <2> DEFINE own == {<<e.type, e.addr>> : e \in {f \in mp_hash : f.instr = w}}
  <2>2. Holders(w) = own \cup IF asked[w] # "disabled" THEN {<<"client", asked[w]>>} ELSE {}
    BY DEF Holders
  <2>3. w # hwp.wp /\ rsp.op = "none"
    BY <2>1, WatchAssumption DEF WPs, ControlInv
  <2>4. hwp_in_use[w] = (Owned(w) \/ asked[w] # "disabled")
    BY <2>1, <2>3 DEF TableInv, InUseRight
  <2>5. Owned(w) <=> \E e \in mp_hash : e.instr = w
    BY <2>3 DEF Owned
  <2>6. CASE Owned(w)
    <3>1. PICK e \in mp_hash : e.instr = w
      BY <2>5, <2>6
    <3>2. asked[w] = "disabled" /\ {f \in mp_hash : f.instr = w} = {e}
      BY <2>1, <2>6, <3>1 DEF TableInv
    <3>3. Holders(w) = {<<e.type, e.addr>>}
      BY <2>2, <3>2
    <3>4. Cardinality(Holders(w)) = 1
      BY <3>3, FS_Singleton
    <3>5. hwp_in_use[w]
      BY <2>4, <2>6, Zenon
    <3> QED BY <3>4, <3>5
  <2>7. CASE ~ Owned(w)
    <3>1. own = {}
      BY <2>5, <2>7
    <3>2. CASE asked[w] = "disabled"
      <4>1. Holders(w) = {}
        BY <2>2, <3>1, <3>2
      <4>2. ~ hwp_in_use[w]
        BY <2>4, <2>7, <3>2, Zenon
      <4> QED BY <4>1, <4>2, FS_EmptySet
    <3>3. CASE asked[w] # "disabled"
      <4>1. Holders(w) = {<<"client", asked[w]>>}
        BY <2>2, <3>1, <3>3
      <4>2. hwp_in_use[w]
        BY <2>4, <3>3, Zenon
      <4> QED BY <4>1, <4>2, FS_Singleton
    <3> QED BY <3>2, <3>3
  <2> QED BY <2>6, <2>7
<1> QED BY <1>1, <1>2, <1>3, PTL DEF Spec

-----------------------------------------------------------------------------
(***************************************************************************)
(* A step that changes no register, no owner and no request keeps what the *)
(* registers hold, if it reads them at most.                               *)
(***************************************************************************)
LEMMA RegisterFrame ==
  ASSUME ControlInv, RegisterInv, UNCHANGED <<mp_hash, wrote>>,
         cpu'.dvr = cpu.dvr, cpu'.dcr = cpu.dcr, cpu'.wgb = cpu.wgb, cpu'.chain = cpu.chain,
         rsp.op \notin {"Z", "z"}, rsp'.op \notin {"Z", "z"},
         rsp'.pc \notin {"dvr", "dcr", "return"},
         rsp'.pc = "dmr2_write" => rsp'.tmp.wgb = cpu.wgb,
         rsp'.pc = "dmr1_write" => rsp'.tmp.chain = cpu.chain,
         client'.pc = "write" => client'.i = 1 \/ client' = client
  PROVE  RegisterInv'
<1>1. \A w \in WPs : Owned(w)' <=> Owned(w)
  BY DEF Owned
<1>2. PersonsRegs'
  BY <1>1 DEF RegisterInv, PersonsRegs
<1>3. GdbsRegs'
  BY <1>1 DEF RegisterInv, GdbsRegs, Inserting
<1>4. RequestRegs'
  BY DEF RequestRegs
<1>5. EditRegs'
  <2>1. CASE client'.pc = "write" /\ client' = client
    BY <2>1 DEF EditRegs, RegisterInv
  <2>2. CASE client'.pc = "write" /\ client'.i = 1
    <3>1. \A w \in WPs : ~ (client'.i > HWP_MAX_WP + w + 1)
      BY <2>2, WatchAssumption DEF WPs
    <3> QED BY <3>1 DEF EditRegs
  <2> QED BY <2>1, <2>2 DEF EditRegs
<1> QED BY <1>2, <1>3, <1>4, <1>5 DEF RegisterInv

(***************************************************************************)
(* What the three kinds of write put into the registers of a CPU that      *)
(* implements every watchpoint.                                            *)
(***************************************************************************)
LEMMA RegisterWrites ==
  ASSUME Absent = {}, NEW c \in CpuType, NEW w \in WPs, NEW a \in Addrs, NEW code \in Codes
  PROVE  /\ WriteDvr(c, w, a).dvr[w] = a
         /\ \A v \in WPs : v # w => WriteDvr(c, w, a).dvr[v] = c.dvr[v]
         /\ WriteDvr(c, w, a).dcr = c.dcr /\ WriteDvr(c, w, a).wgb = c.wgb
         /\ WriteDvr(c, w, a).chain = c.chain
         /\ WriteDcr(c, w, code).dcr[w] = IF code = "absent" THEN "disabled" ELSE code
         /\ \A v \in WPs : v # w => WriteDcr(c, w, code).dcr[v] = c.dcr[v]
         /\ WriteDcr(c, w, code).dvr = c.dvr /\ WriteDcr(c, w, code).wgb = c.wgb
         /\ WriteDcr(c, w, code).chain = c.chain
<1>1. c.dvr \in [WPs -> Addrs] /\ c.dcr \in [WPs -> Codes]
  BY DEF CpuType
<1>2. WriteDvr(c, w, a) = [c EXCEPT !.dvr = [c.dvr EXCEPT ![w] = a]]
  BY DEF WriteDvr, CpuType
<1>3. /\ WriteDvr(c, w, a).dvr = [c.dvr EXCEPT ![w] = a]
      /\ WriteDvr(c, w, a).dcr = c.dcr /\ WriteDvr(c, w, a).wgb = c.wgb
      /\ WriteDvr(c, w, a).chain = c.chain
  BY <1>2 DEF CpuType
<1> DEFINE new == IF code = "absent" THEN "disabled" ELSE code
<1>4. WriteDcr(c, w, code) = [c EXCEPT !.dcr = [c.dcr EXCEPT ![w] = new]]
  BY DEF WriteDcr, CpuType
<1> HIDE DEF new
<1>5. /\ WriteDcr(c, w, code).dcr = [c.dcr EXCEPT ![w] = new]
      /\ WriteDcr(c, w, code).dvr = c.dvr /\ WriteDcr(c, w, code).wgb = c.wgb
      /\ WriteDcr(c, w, code).chain = c.chain
  BY <1>4 DEF CpuType
<1>6. /\ WriteDvr(c, w, a).dvr[w] = a
      /\ \A v \in WPs : v # w => WriteDvr(c, w, a).dvr[v] = c.dvr[v]
  BY <1>1, <1>3
<1>7. /\ WriteDcr(c, w, code).dcr[w] = new
      /\ \A v \in WPs : v # w => WriteDcr(c, w, code).dcr[v] = c.dcr[v]
  BY <1>1, <1>5
<1> QED BY <1>3, <1>5, <1>6, <1>7 DEF new

(***************************************************************************)
(* GDB's requests, one register access after the other, against whatever   *)
(* the person left in the registers.                                       *)
(***************************************************************************)
LEMMA RegisterRspStep ==
  ASSUME ClientWaits, ~ GdbRepeats, Absent = {},
         TypeInv, ControlInv, TurnInv, TableInv, RegisterInv, RspSteps
  PROVE  RegisterInv'
<1>1. /\ cpu \in CpuType /\ rsp \in RspType /\ wrote \in WroteType
      /\ rsp.op \in {"none", "Z", "z", "c", "s"}
      /\ \A e \in mp_hash : e.instr \in WPs /\ e.type \in HwTypes /\ e.addr \in Addrs
      /\ "absent" \notin HwTypes /\ "disabled" \notin HwTypes /\ HwTypes \subseteq Codes
  BY WatchAssumption DEF TypeInv, RspType, Codes
<1>2. client.pc = "idle" /\ client' = client /\ EditRegs'
  BY RspExclusive DEF EditRegs
<1>3. ASSUME NEW pt \in Points, rsp_insert_matchpoint(pt)
      PROVE  RegisterInv'
  <2> DEFINE w == hwp_get_available_watchpoint
  <2>1. cpu' = cpu
    BY <1>3 DEF rsp_insert_matchpoint
  <2>2. CASE w = -1
    <3>1. UNCHANGED <<mp_hash, rsp, wrote>> /\ rsp.pc = "idle" /\ rsp.op = "none"
      BY <1>3, <2>2 DEF rsp_insert_matchpoint, Request, RspTurn, ControlInv
    <3> QED BY <1>2, <2>1, <3>1, RegisterFrame
  <2>3. CASE w # -1
    <3> DEFINE new == [type |-> pt[1], addr |-> pt[2], instr |-> w]
    <3>1. /\ w \in WPs /\ ~ Owned(w) /\ asked[w] = "disabled" /\ rsp.op = "none"
          /\ mp_hash' = mp_hash \cup {new}
          /\ rsp'.pc = "dvr" /\ rsp'.op = "Z" /\ rsp'.wp = w
      BY <1>3, <2>3, InsertFields
    <3>2. wrote' = [wrote EXCEPT !.dcr[w] = PowerUp.dcr[w], !.wgb = @ \ {w}, !.chain = @ \ {w}]
      BY <1>1, <1>3, <2>3, <3>1 DEF rsp_insert_matchpoint, Enabled
    <3> HIDE DEF w
    <3>3. new.type = pt[1] /\ new.addr = pt[2] /\ new.instr = w
      OBVIOUS
    <3> HIDE DEF new
    <3>4. PowerUp.dcr[w] = "disabled"
      BY <3>1 DEF PowerUp
    <3>5. /\ wrote'.dcr = [wrote.dcr EXCEPT ![w] = "disabled"] /\ wrote'.dvr = wrote.dvr
          /\ wrote'.wgb = wrote.wgb \ {w} /\ wrote'.chain = wrote.chain \ {w}
      BY <1>1, <3>2, <3>4 DEF WroteType
    <3>6. /\ wrote'.dcr[w] = "disabled" /\ \A v \in WPs : v # w => wrote'.dcr[v] = wrote.dcr[v]
      BY <1>1, <3>1, <3>5 DEF WroteType
    <3>7. \A v \in WPs : Owned(v)' <=> (Owned(v) \/ v = w)
      BY <3>1, <3>3 DEF Owned
    <3>8. PersonsRegs'
      BY <2>1, <3>5, <3>6, <3>7 DEF RegisterInv, PersonsRegs
    <3>9. GdbsRegs'
      BY <2>1, <3>1, <3>3, <3>5, <3>6, <3>7 DEF RegisterInv, GdbsRegs, Inserting
    <3> QED BY <1>2, <3>1, <3>8, <3>9 DEF RegisterInv, RequestRegs
  <2> QED BY <2>2, <2>3
<1>4. ASSUME NEW pt \in Points, rsp_remove_matchpoint(pt)
      PROVE  RegisterInv'
  <2>1. /\ rsp.pc = "idle" /\ rsp.op = "none" /\ UNCHANGED <<cpu, wrote>>
        /\ mp_hash' = {e \in mp_hash : ~ (e.type = pt[1] /\ e.addr = pt[2])}
    BY <1>4, RemoveFields DEF hwpVars
  <2>2. CASE rsp' = rsp /\ mp_hash' = mp_hash
    BY <1>2, <2>1, <2>2, RegisterFrame
  <2>3. ASSUME NEW e \in mp_hash, e.type = pt[1], e.addr = pt[2],
               rsp'.pc = "dmr2_read", rsp'.op = "z", rsp'.wp = e.instr
        PROVE  RegisterInv'
    <3>1. \A f \in mp_hash : f \in mp_hash' <=> f # e
      BY <2>1, <2>3 DEF TableInv
    <3>2. \A v \in WPs : Owned(v)' <=> Owned(v)
      BY <2>1, <2>3, <3>1 DEF Owned
    <3>3. PersonsRegs'
      BY <2>1, <3>2 DEF RegisterInv, PersonsRegs
    <3>4. GdbsRegs'
      BY <2>1, <3>2 DEF RegisterInv, GdbsRegs, Inserting
    <3> QED BY <1>2, <2>3, <3>3, <3>4 DEF RegisterInv, RequestRegs
  <2> QED BY <1>4, <2>2, <2>3, RemoveFields
<1>5. ASSUME NEW op \in {"c", "s"}, rsp_resume(op)
      PROVE  RegisterInv'
  <2>1. UNCHANGED <<cpu, mp_hash, wrote>>
    BY <1>5 DEF rsp_resume, hwpVars
  <2>2. rsp.op = "none" /\ rsp'.op = op /\ rsp'.pc = "dmr2_read"
    BY <1>5, ResumeFields DEF ControlInv
  <2> QED BY <1>2, <2>1, <2>2, RegisterFrame
<1>6. CASE rsp_server_request
  <2>1. UNCHANGED <<cpu, mp_hash, wrote, rsp>> /\ rsp.pc = "idle" /\ rsp.op = "none"
    BY <1>6 DEF rsp_server_request, hwpVars, Request, RspTurn, ControlInv
  <2> QED BY <1>2, <2>1, RegisterFrame
<1>7. ASSUME rsp.op \in {"Z", "z"}
      PROVE  /\ rsp.wp \in WPs /\ Owned(rsp.wp)
             /\ rsp.op = "z" => \A e \in mp_hash : e.instr # rsp.wp
             /\ rsp.op = "Z" => \A e \in mp_hash :
                  e.instr = rsp.wp => e.type = rsp.pt[1] /\ e.addr = rsp.pt[2]
  <2>1. rsp.wp \in WPs
    BY <1>7 DEF TypeInv
  <2>2. CASE rsp.op = "z"
    BY <2>1, <2>2 DEF TableInv, Owned
  <2>3. CASE rsp.op = "Z"
    <3> DEFINE new == [type |-> rsp.pt[1], addr |-> rsp.pt[2], instr |-> rsp.wp]
    <3>1. new \in mp_hash /\ new.instr = rsp.wp /\ new.type = rsp.pt[1] /\ new.addr = rsp.pt[2]
      BY <2>3 DEF TableInv
    <3> HIDE DEF new
    <3>2. \A e \in mp_hash : e.instr = rsp.wp => e = new
      BY <3>1 DEF TableInv
    <3> QED BY <2>1, <2>3, <3>1, <3>2 DEF Owned
  <2> QED BY <1>7, <2>2, <2>3
<1>8. CASE RspWritesDvr
  <2>1. /\ rsp.pc = "dvr" /\ rsp.op = "Z" /\ cpu' = WriteDvr(cpu, rsp.wp, rsp.pt[2])
        /\ UNCHANGED <<mp_hash, wrote>>
        /\ rsp'.op = rsp.op /\ rsp'.wp = rsp.wp /\ rsp'.pc = "dcr"
    BY <1>1, <1>8, GotoType DEF RspWritesDvr, RspPcs, RspTurn, ControlInv, hwpVars
  <2>2. rsp.wp \in WPs /\ rsp.pt[2] \in Addrs
    BY <2>1 DEF TypeInv, Points
  <2>3. /\ cpu'.dvr[rsp.wp] = rsp.pt[2]
        /\ \A v \in WPs : v # rsp.wp => cpu'.dvr[v] = cpu.dvr[v]
        /\ cpu'.dcr = cpu.dcr /\ cpu'.wgb = cpu.wgb /\ cpu'.chain = cpu.chain
    BY <1>1, <2>1, <2>2, RegisterWrites DEF Codes
  <2>4. \A v \in WPs : Owned(v)' <=> Owned(v)
    BY <2>1 DEF Owned
  <2>5. PersonsRegs'
    BY <1>7, <2>1, <2>3, <2>4 DEF RegisterInv, PersonsRegs
  <2>6. GdbsRegs'
    BY <1>1, <1>7, <2>1, <2>3, <2>4 DEF RegisterInv, GdbsRegs, Inserting
  <2> QED BY <1>2, <2>1, <2>5, <2>6 DEF RegisterInv, RequestRegs
<1>9. CASE RspWritesDcr
  <2> DEFINE code == IF rsp.op = "Z" THEN rsp.pt[1] ELSE "disabled"
  <2>1. /\ rsp.pc = "dcr" /\ rsp.op \in {"Z", "z"} /\ cpu' = WriteDcr(cpu, rsp.wp, code)
        /\ UNCHANGED <<mp_hash, wrote>>
        /\ rsp'.op = rsp.op /\ rsp'.wp = rsp.wp
        /\ rsp'.pc = IF rsp.op = "Z" THEN "dmr2_read" ELSE "return"
    BY <1>1, <1>9, GotoType DEF RspWritesDcr, RspPcs, RspTurn, ControlInv, hwpVars
  <2>2. rsp.wp \in WPs /\ code \in Codes /\ code # "absent"
    BY <1>1, <2>1 DEF TypeInv, Points, Codes
  <2> HIDE DEF code
  <2>3. /\ cpu'.dcr[rsp.wp] = code
        /\ \A v \in WPs : v # rsp.wp => cpu'.dcr[v] = cpu.dcr[v]
        /\ cpu'.dvr = cpu.dvr /\ cpu'.wgb = cpu.wgb /\ cpu'.chain = cpu.chain
    <3>1. AnAddr \in Addrs
      BY WatchAssumption DEF AnAddr
    <3> QED BY <1>1, <2>1, <2>2, <3>1, RegisterWrites
  <2>4. \A v \in WPs : Owned(v)' <=> Owned(v)
    BY <2>1 DEF Owned
  <2>5. PersonsRegs'
    BY <1>7, <2>1, <2>3, <2>4 DEF RegisterInv, PersonsRegs
  <2>6. GdbsRegs'
    BY <1>1, <1>7, <2>1, <2>3, <2>4 DEF RegisterInv, GdbsRegs, Inserting, code
  <2>7. RequestRegs'
    BY <2>1, <2>3 DEF RegisterInv, RequestRegs, code
  <2> QED BY <1>2, <2>5, <2>6, <2>7 DEF RegisterInv
<1>10. CASE RspReadsDmr2
  <2>1. UNCHANGED <<cpu, mp_hash, wrote>>
    BY <1>10 DEF RspReadsDmr2, hwpVars
  <2>2. /\ rsp.pc = "dmr2_read" /\ rsp'.op = rsp.op /\ rsp'.wp = rsp.wp /\ rsp'.tmp.wgb = cpu.wgb
        /\ rsp'.pc \in {"dmr1_read", "dmr2_write"} /\ (rsp.op = "Z" => rsp'.pc = "dmr2_write")
    BY <1>10, ReadDmr2Fields
  <2>3. \A v \in WPs : Owned(v)' <=> Owned(v)
    BY <2>1, <2>2 DEF Owned
  <2>4. PersonsRegs'
    BY <2>1, <2>3 DEF RegisterInv, PersonsRegs
  <2>5. GdbsRegs'
    BY <2>1, <2>2, <2>3 DEF RegisterInv, GdbsRegs, Inserting
  <2> QED BY <1>2, <2>1, <2>2, <2>4, <2>5 DEF RegisterInv, RequestRegs
<1>11. CASE RspWritesDmr2
  <2> DEFINE new == CASE rsp.op = "Z" -> rsp.tmp.wgb \cup {rsp.wp}
                      [] rsp.op = "z" -> rsp.tmp.wgb \ {rsp.wp}
                      [] OTHER -> rsp.tmp.wgb
  <2>1. /\ rsp.pc = "dmr2_write" /\ cpu' = WriteDmr2(cpu, new) /\ UNCHANGED <<mp_hash, wrote>>
        /\ rsp'.op = rsp.op /\ rsp'.wp = rsp.wp
        /\ rsp'.pc = IF rsp.op = "z" THEN "dcr" ELSE "dmr1_read"
    BY <1>1, <1>11, GotoType DEF RspWritesDmr2, RspPcs, RspTurn, hwpVars
  <2> HIDE DEF new
  <2>2. /\ cpu'.wgb = new /\ cpu'.dvr = cpu.dvr /\ cpu'.dcr = cpu.dcr /\ cpu'.chain = cpu.chain
    BY <1>1, <2>1, Dmr2Write
  <2>3. /\ \A v \in WPs : v # rsp.wp \/ rsp.op \notin {"Z", "z"} => (v \in new <=> v \in cpu.wgb)
        /\ rsp.op = "Z" => rsp.wp \in new
        /\ rsp.op = "z" => rsp.wp \notin new
    BY <1>1, <2>1 DEF RegisterInv, RequestRegs, new
  <2>4. \A v \in WPs : Owned(v)' <=> Owned(v)
    BY <2>1 DEF Owned
  <2>5. PersonsRegs'
    BY <1>7, <2>1, <2>2, <2>3, <2>4 DEF RegisterInv, PersonsRegs
  <2>6. GdbsRegs'
    BY <1>1, <1>7, <2>1, <2>2, <2>3, <2>4 DEF RegisterInv, GdbsRegs, Inserting
  <2>7. RequestRegs'
    BY <2>1, <2>2, <2>3 DEF RequestRegs
  <2> QED BY <1>2, <2>5, <2>6, <2>7 DEF RegisterInv
<1>12. CASE RspReadsDmr1
  <2>1. UNCHANGED <<cpu, mp_hash, wrote>>
    BY <1>12 DEF RspReadsDmr1, hwpVars
  <2>2. /\ rsp.pc = "dmr1_read" /\ rsp'.op = rsp.op /\ rsp'.wp = rsp.wp
        /\ rsp'.tmp.chain = cpu.chain /\ rsp'.pc \in {"unstall", "dmr1_write"}
    BY <1>12, ReadDmr1Fields
  <2>3. \A v \in WPs : Owned(v)' <=> Owned(v)
    BY <2>1, <2>2 DEF Owned
  <2>4. PersonsRegs'
    BY <2>1, <2>3 DEF RegisterInv, PersonsRegs
  <2>5. GdbsRegs'
    BY <2>1, <2>2, <2>3 DEF RegisterInv, GdbsRegs, Inserting
  <2> QED BY <1>2, <2>1, <2>2, <2>4, <2>5 DEF RegisterInv, RequestRegs
<1>13. CASE RspWritesDmr1
  <2>1. /\ rsp.pc = "dmr1_write" /\ UNCHANGED <<mp_hash, wrote>>
        /\ cpu'.dvr = cpu.dvr /\ cpu'.dcr = cpu.dcr /\ cpu'.wgb = cpu.wgb
        /\ rsp.tmp.chain = cpu.chain
    BY <1>13, WriteDmr1Fields DEF RspWritesDmr1, hwpVars, RegisterInv, RequestRegs
  <2>2. CASE rsp.op = "Z"
    <3>1. cpu'.chain = cpu.chain \ {rsp.wp} /\ rsp'.op = "none" /\ rsp'.pc = "idle"
      BY <1>13, <2>1, <2>2, WriteDmr1Fields, IdleFields
    <3>2. \A v \in WPs : Owned(v)' <=> Owned(v)
      BY <2>1, <2>2, <3>1 DEF Owned
    <3>3. PersonsRegs'
      BY <1>7, <2>1, <2>2, <3>1, <3>2 DEF RegisterInv, PersonsRegs
    <3>4. GdbsRegs'
      BY <2>1, <3>1, <3>2 DEF RegisterInv, GdbsRegs, Inserting
    <3> QED BY <1>2, <3>1, <3>3, <3>4 DEF RegisterInv, RequestRegs
  <2>3. CASE rsp.op # "Z"
    <3>1. /\ cpu'.chain = cpu.chain /\ rsp'.op = rsp.op /\ rsp'.pc = "unstall" /\ rsp.op # "z"
      BY <1>13, <2>1, <2>3, WriteDmr1Fields DEF ControlInv
    <3> QED BY <1>2, <2>1, <2>3, <3>1, RegisterFrame
  <2> QED BY <2>2, <2>3
<1>14. CASE RspReturnsWatchpoint
  <2>1. /\ rsp.pc = "return" /\ UNCHANGED <<cpu, mp_hash, wrote>>
        /\ rsp'.op = "none" /\ rsp'.pc = "idle"
    BY <1>14, IdleFields DEF RspReturnsWatchpoint, RspTurn, hwpVars
  <2>2. rsp.op = "z"
    BY <2>1 DEF ControlInv
  <2>3. \A v \in WPs : Owned(v)' <=> (Owned(v) /\ v # rsp.wp)
    BY <1>7, <2>1, <2>2 DEF Owned
  <2>4. rsp.wp \notin cpu.wgb /\ cpu.dcr[rsp.wp] = "disabled"
    BY <2>1, <2>2 DEF RegisterInv, RequestRegs
  <2>5. PersonsRegs'
    BY <1>7, <2>1, <2>2, <2>3, <2>4 DEF RegisterInv, PersonsRegs, GdbsRegs
  <2>6. GdbsRegs'
    BY <2>1, <2>2, <2>3 DEF RegisterInv, GdbsRegs, Inserting
  <2> QED BY <1>2, <2>1, <2>5, <2>6 DEF RegisterInv, RequestRegs
<1>15. CASE RspUnstalls
  <2>1. /\ UNCHANGED <<cpu, mp_hash, wrote>> /\ rsp.op \in {"c", "s"}
        /\ rsp'.op = rsp.op /\ rsp'.pc = "waiting"
    BY <1>1, <1>15, GotoType DEF RspUnstalls, RspTurn, RspPcs, hwpVars, ControlInv
  <2> QED BY <1>2, <2>1, RegisterFrame
<1>16. CASE RspReportsStop
  <2>1. /\ UNCHANGED <<cpu, mp_hash, wrote>> /\ rsp.op \in {"c", "s"}
        /\ rsp'.op = "none" /\ rsp'.pc = "idle"
    BY <1>16, IdleFields DEF RspReportsStop, RspTurn, hwpVars, ControlInv
  <2> QED BY <1>2, <2>1, RegisterFrame
<1> QED BY <1>3, <1>4, <1>5, <1>6, <1>8, <1>9, <1>10, <1>11, <1>12, <1>13, <1>14, <1>15, <1>16
    DEF RspSteps

(***************************************************************************)
(* The person's edits, with GDB out of the way: each register the control  *)
(* program writes is the person's from then on.  DMR2 comes last, when     *)
(* every DVR has been written.                                             *)
(***************************************************************************)
LEMMA RegisterHwpStep ==
  ASSUME ClientWaits, Absent = {},
         TypeInv, ControlInv, TurnInv, TableInv, RegisterInv, HwpSteps
  PROVE  RegisterInv'
<1>1. /\ cpu \in CpuType /\ client \in ClientType /\ wrote \in WroteType
      /\ client.i \in 1..Len(Regs) /\ client.regSet \in RegSetType
  BY DEF TypeInv, ClientType
<1>2. UNCHANGED <<mp_hash, rsp>>
  BY HwpFrame DEF rspVars
<1>3. CASE UNCHANGED <<cpu, wrote, client>>
  <2>1. \A v \in WPs : Owned(v)' <=> Owned(v)
    BY <1>2 DEF Owned
  <2>2. PersonsRegs'
    BY <1>3, <2>1 DEF RegisterInv, PersonsRegs
  <2>3. GdbsRegs'
    BY <1>2, <1>3, <2>1 DEF RegisterInv, GdbsRegs, Inserting
  <2>4. RequestRegs' /\ EditRegs'
    BY <1>2, <1>3 DEF RegisterInv, RequestRegs, EditRegs
  <2> QED BY <2>2, <2>3, <2>4 DEF RegisterInv
<1>4. CASE HwpReadsEvent \/ HwpMarks
  BY <1>3, <1>4 DEF HwpReadsEvent, HwpMarks
<1>5. SUFFICES ASSUME ~ HwpReadsEvent PROVE RegisterInv'
  BY <1>4
<1>6. rsp.pc = "idle" /\ rsp.op = "none" /\ mp_hash = {}
  <2>1. \/ doReadAllRegisters
        \/ client.pc # "idle" \/ hwp.wp # -1
    BY <1>5 DEF HwpSteps, hwp_read_reg, hwp_read_fails, doWriteAllRegisters, hwp_write_reg,
                hwp_write_fails, HwpMarks, ClientRests, ClientTurn
  <2> QED BY <2>1 DEF doReadAllRegisters, RspIdle, TurnInv, ControlInv
<1>7. ASSUME UNCHANGED <<cpu, wrote>>, client'.pc = "write" => client'.i = 1
      PROVE  RegisterInv'
  BY <1>2, <1>6, <1>7, RegisterFrame
<1>8. CASE doReadAllRegisters
  <2>1. client'.pc = "read" /\ UNCHANGED <<cpu, wrote>>
    BY <1>1, <1>8 DEF doReadAllRegisters, ClientType
  <2> QED BY <1>7, <2>1
<1>9. CASE hwp_read_reg
  <2>1. client'.pc # "write"
    BY <1>9, ReadRegFields
  <2> QED BY <1>7, <1>9, <2>1 DEF hwp_read_reg
<1>10. CASE hwp_read_fails \/ ClientRests
  <2>1. client' = NewClient /\ UNCHANGED <<cpu, wrote>>
    BY <1>10 DEF hwp_read_fails, ClientRests
  <2> QED BY <1>7, <2>1 DEF NewClient
<1>11. CASE doWriteAllRegisters
  <2>1. client'.i = 1
    BY <1>11, EditFields
  <2> QED BY <1>7, <1>11, <2>1 DEF doWriteAllRegisters
<1>12. CASE hwp_write_fails
  <2>1. client'.pc = "have" /\ UNCHANGED <<cpu, wrote>>
    BY <1>1, <1>12 DEF hwp_write_fails, ClientType
  <2> QED BY <1>7, <2>1
<1>13. CASE hwp_write_reg
  <2> DEFINE r == Regs[client.i][1]
             w == Regs[client.i][2]
             dcr == client.regSet.dcr[w]
             dvr == client.regSet.dvr[w]
  <2>1. client.pc = "write" /\ client' = NextReg("write")
    BY <1>13 DEF hwp_write_reg, ClientTurn
  <2>2. /\ client'.pc = IF client.i = Len(Regs) THEN "have" ELSE "write"
        /\ client'.i = IF client.i = Len(Regs) THEN 1 ELSE client.i + 1
    BY <1>1, <2>1, NextRegType
  <2>3. \A v \in WPs : ~ Owned(v) /\ ~ Owned(v)'
    BY <1>2, <1>6 DEF Owned
  <2>4. SUFFICES PersonsRegs' /\ EditRegs'
    <3>1. GdbsRegs' /\ RequestRegs'
      BY <1>2, <1>6, <2>3 DEF GdbsRegs, RequestRegs
    <3> QED BY <3>1 DEF RegisterInv
  <2>5. \A v \in WPs : /\ cpu.dcr[v] = wrote.dcr[v]
                       /\ v \in cpu.wgb <=> v \in wrote.wgb
                       /\ v \in cpu.chain <=> v \in wrote.chain
                       /\ v \in wrote.wgb => cpu.dvr[v] = wrote.dvr[v]
    BY <2>3 DEF RegisterInv, PersonsRegs
  <2>5a. \A v \in WPs : client.i > HWP_MAX_WP + v + 1 => cpu.dvr[v] = wrote.dvr[v]
    BY <2>1 DEF RegisterInv, EditRegs
  <2>6. /\ w \in WPs /\ r \in {"dcr", "dvr", "dmr1", "dmr2"}
        /\ r = "dvr" => client.i = HWP_MAX_WP + w + 1
        /\ r = "dmr2" => client.i = Len(Regs)
        /\ \A v \in WPs : client.i = HWP_MAX_WP + v + 1 => r = "dvr" /\ w = v
    <3>1. ASSUME NEW v \in WPs, client.i = HWP_MAX_WP + v + 1 PROVE r = "dvr" /\ w = v
      <4>1. client.i \in (HWP_MAX_WP + 1)..(2 * HWP_MAX_WP) /\ client.i - 1 - HWP_MAX_WP = v
        BY <3>1, WatchAssumption DEF WPs
      <4>2. Regs[client.i] = <<"dvr", v>>
        BY <4>1, RegsInOrder
      <4> QED BY <4>2
    <3> QED BY <1>1, <3>1, RegsKinds
  <2>7. dcr \in Codes /\ dvr \in Addrs /\ dcr # "absent"
    BY <1>1, <2>6 DEF RegSetType, TableInv
  <2>8. /\ r = "dcr" => /\ cpu' = WriteDcr(cpu, w, dcr)
                        /\ wrote' = [wrote EXCEPT !.dcr[w] = dcr]
        /\ r = "dvr" => /\ cpu' = WriteDvr(cpu, w, dvr)
                        /\ wrote' = [wrote EXCEPT !.dvr[w] = dvr]
        /\ r = "dmr1" => /\ cpu' = [cpu EXCEPT !.chain = client.regSet.chain, !.st = client.regSet.st]
                         /\ wrote' = [wrote EXCEPT !.chain = client.regSet.chain]
        /\ r = "dmr2" => /\ cpu' = WriteDmr2(cpu, client.regSet.wgb)
                         /\ wrote' = [wrote EXCEPT !.wgb = client.regSet.wgb]
    BY <1>13, WriteRegKinds
  <2>9. wrote.dvr \in [WPs -> Addrs] /\ wrote.dcr \in [WPs -> Codes]
    BY <1>1 DEF WroteType
  <2> HIDE DEF r, w, dcr, dvr
  <2>10. SUFFICES /\ PersonsRegs'
                  /\ \A v \in WPs : client.i >= HWP_MAX_WP + v + 1 /\ client.i # Len(Regs)
                                        => cpu'.dvr[v] = wrote'.dvr[v]
    <3>1. CASE client.i = Len(Regs)
      BY <2>2, <3>1 DEF EditRegs
    <3>2. CASE client.i # Len(Regs)
      <4>1. client'.i = client.i + 1
        BY <2>2, <3>2
      <4>2. \A v \in WPs : client'.i > HWP_MAX_WP + v + 1 => client.i >= HWP_MAX_WP + v + 1
        BY <1>1, <4>1, WatchAssumption DEF WPs
      <4> QED BY <2>10, <3>2, <4>2 DEF EditRegs
    <3> QED BY <2>10, <3>1, <3>2
  <2>11. \A v \in WPs : client.i >= HWP_MAX_WP + v + 1
                           => client.i > HWP_MAX_WP + v + 1 \/ (r = "dvr" /\ w = v)
    <3>1. \A v \in WPs : client.i >= HWP_MAX_WP + v + 1
                           => client.i > HWP_MAX_WP + v + 1 \/ client.i = HWP_MAX_WP + v + 1
      BY <1>1, WatchAssumption DEF WPs
    <3> QED BY <2>6, <3>1
  <2>12. CASE r = "dcr"
    <3>1. wrote'.dcr = [wrote.dcr EXCEPT ![w] = dcr] /\ wrote'.dvr = wrote.dvr
          /\ wrote'.wgb = wrote.wgb /\ wrote'.chain = wrote.chain
      BY <1>1, <2>8, <2>12 DEF WroteType
    <3>2. wrote'.dcr[w] = dcr /\ \A v \in WPs : v # w => wrote'.dcr[v] = wrote.dcr[v]
      BY <2>6, <2>9, <3>1
    <3>3. /\ cpu'.dcr[w] = dcr /\ \A v \in WPs : v # w => cpu'.dcr[v] = cpu.dcr[v]
          /\ cpu'.dvr = cpu.dvr /\ cpu'.wgb = cpu.wgb /\ cpu'.chain = cpu.chain
      BY <1>1, <2>6, <2>7, <2>8, <2>12, RegisterWrites
    <3>4. PersonsRegs'
      BY <2>3, <2>5, <3>1, <3>2, <3>3 DEF PersonsRegs
    <3> QED BY <2>5a, <2>11, <2>12, <3>1, <3>3, <3>4
  <2>13. CASE r = "dvr"
    <3>1. wrote'.dvr = [wrote.dvr EXCEPT ![w] = dvr] /\ wrote'.dcr = wrote.dcr
          /\ wrote'.wgb = wrote.wgb /\ wrote'.chain = wrote.chain
      BY <1>1, <2>8, <2>13 DEF WroteType
    <3>2. wrote'.dvr[w] = dvr /\ \A v \in WPs : v # w => wrote'.dvr[v] = wrote.dvr[v]
      BY <2>6, <2>9, <3>1
    <3>3. /\ cpu'.dvr[w] = dvr /\ \A v \in WPs : v # w => cpu'.dvr[v] = cpu.dvr[v]
          /\ cpu'.dcr = cpu.dcr /\ cpu'.wgb = cpu.wgb /\ cpu'.chain = cpu.chain
      BY <1>1, <2>6, <2>7, <2>8, <2>13, RegisterWrites
    <3>4. PersonsRegs'
      BY <2>3, <2>5, <3>1, <3>2, <3>3 DEF PersonsRegs
    <3> QED BY <2>5a, <2>11, <3>2, <3>3, <3>4
  <2>14. CASE r = "dmr1"
    <3>1. /\ wrote'.chain = client.regSet.chain /\ wrote'.dcr = wrote.dcr
          /\ wrote'.dvr = wrote.dvr /\ wrote'.wgb = wrote.wgb
      BY <1>1, <2>8, <2>14 DEF WroteType
    <3>2. /\ cpu'.chain = client.regSet.chain /\ cpu'.dcr = cpu.dcr
          /\ cpu'.dvr = cpu.dvr /\ cpu'.wgb = cpu.wgb
      BY <1>1, <2>8, <2>14 DEF CpuType
    <3>3. PersonsRegs'
      BY <2>3, <2>5, <3>1, <3>2 DEF PersonsRegs
    <3> QED BY <2>5a, <2>11, <2>14, <3>1, <3>2, <3>3
  <2>15. CASE r = "dmr2"
    <3>1. /\ wrote'.wgb = client.regSet.wgb /\ wrote'.dcr = wrote.dcr
          /\ wrote'.dvr = wrote.dvr /\ wrote'.chain = wrote.chain
      BY <1>1, <2>8, <2>15 DEF WroteType
    <3>2. /\ cpu'.wgb = client.regSet.wgb /\ cpu'.dcr = cpu.dcr
          /\ cpu'.dvr = cpu.dvr /\ cpu'.chain = cpu.chain
      BY <1>1, <2>8, <2>15, Dmr2Write
    <3>3. \A v \in WPs : client.i > HWP_MAX_WP + v + 1
      BY <2>6, <2>15, RegsInOrder, WatchAssumption DEF WPs
    <3>4. PersonsRegs'
      BY <2>3, <2>5, <2>5a, <3>1, <3>2, <3>3 DEF PersonsRegs
    <3> QED BY <2>5a, <3>1, <3>2, <3>3, <3>4
  <2> QED BY <2>6, <2>12, <2>13, <2>14, <2>15
<1> QED BY <1>4, <1>8, <1>9, <1>10, <1>11, <1>12, <1>13 DEF HwpSteps

(***************************************************************************)
(* Every step keeps the registers as their users set them.                 *)
(***************************************************************************)
LEMMA RegisterStep ==
  ASSUME ClientWaits, ~ GdbRepeats, Absent = {},
         TypeInv, ControlInv, TurnInv, TableInv, RegisterInv, [Next]_vars
  PROVE  RegisterInv'
<1>1. CASE CpuSteps
  <2>1. /\ UNCHANGED <<mp_hash, wrote, client, rsp>> /\ rsp.pc = "waiting" /\ rsp.op \in {"c", "s"}
    BY <1>1, CpuFrame DEF rspVars, hwpVars, ControlInv
  <2>2. cpu'.dvr = cpu.dvr /\ cpu'.dcr = cpu.dcr /\ cpu'.wgb = cpu.wgb /\ cpu'.chain = cpu.chain
    <3>1. CASE why' = "watch"
      BY <1>1, <3>1, CpuFrame DEF WatchpointHit, TypeInv, CpuType
    <3> QED BY <1>1, <3>1, CpuFrame
  <2> QED BY <2>1, <2>2, RegisterFrame
<1>2. CASE UNCHANGED vars
  <2>1. UNCHANGED <<cpu, mp_hash, wrote, client, rsp>>
    BY <1>2 DEF vars, rspVars, hwpVars
  <2>2. \A v \in WPs : Owned(v)' <=> Owned(v)
    BY <2>1 DEF Owned
  <2>3. PersonsRegs'
    BY <2>1, <2>2 DEF RegisterInv, PersonsRegs
  <2>4. GdbsRegs'
    BY <2>1, <2>2 DEF RegisterInv, GdbsRegs, Inserting
  <2> QED BY <2>1, <2>3, <2>4 DEF RegisterInv, RequestRegs, EditRegs
<1> QED BY <1>1, <1>2, RegisterRspStep, RegisterHwpStep DEF Next

(***************************************************************************)
(* At power-up the registers are what the person has yet to change.        *)
(***************************************************************************)
LEMMA RegisterStart == Init => RegisterInv
<1> SUFFICES ASSUME Init PROVE RegisterInv
  OBVIOUS
<1>1. /\ cpu = PowerUp /\ wrote = Unwritten /\ mp_hash = {}
      /\ rsp.op = "none" /\ rsp.pc = "idle" /\ client.pc = "idle"
  BY IdleFields DEF Init, mp_hash_init, NewClient
<1>2. \A v \in WPs : ~ Owned(v)
  BY <1>1 DEF Owned
<1>3. /\ cpu.dcr = wrote.dcr /\ cpu.dvr = wrote.dvr
      /\ cpu.wgb = {} /\ wrote.wgb = {} /\ cpu.chain = {} /\ wrote.chain = {}
  BY <1>1 DEF PowerUp, Unwritten
<1> QED BY <1>1, <1>2, <1>3 DEF RegisterInv, PersonsRegs, GdbsRegs, RequestRegs, EditRegs

(***************************************************************************)
(* Under the same hypotheses, while the CPU runs it breaks at every point  *)
(* GDB was told is inserted and every point the person set, and nowhere    *)
(* else, although each of them reads, changes and writes DMR1 and DMR2 in  *)
(* several accesses and a write of the control program may fail.           *)
(***************************************************************************)
THEOREM BreaksRight ==
  ASSUME ClientWaits, ~ GdbRepeats, Absent = {}
  PROVE  Spec => []BreaksAsAsked
<1> DEFINE I == TypeInv /\ ControlInv /\ TurnInv /\ TableInv /\ RegisterInv
<1>1. Init => I
  BY TypeStart, ControlStart, TurnStart, TableStart, RegisterStart
<1>2. I /\ [Next]_vars => I'
  BY TypeStep, ControlStep, TurnStep, TableStep, RegisterStep
<1>3. I => BreaksAsAsked
  <2>1. SUFFICES ASSUME I, running PROVE BreaksAsAsked
    BY DEF BreaksAsAsked
  <2>2. rsp.op \in {"c", "s"}
    BY <2>1 DEF ControlInv
  <2>3. /\ \A e \in mp_hash : /\ e.instr \in WPs /\ Owned(e.instr) /\ Enabled(e.type)
                              /\ cpu.dvr[e.instr] = e.addr /\ cpu.dcr[e.instr] = e.type
                              /\ e.instr \in cpu.wgb /\ e.instr \notin cpu.chain
                              /\ <<e.type, e.addr>> \in gdb
        /\ \A pt \in gdb : \E e \in mp_hash : pt = <<e.type, e.addr>>
        /\ \A w \in WPs : Owned(w) => ~ Enabled(wrote.dcr[w]) /\ \E e \in mp_hash : e.instr = w
    <3>1. /\ \A e \in mp_hash : e.instr \in WPs /\ Enabled(e.type)
          /\ ~ Enabled("disabled")
      BY <2>1, WatchAssumption DEF TypeInv, Enabled
    <3>2. \A w \in WPs : Owned(w) <=> \E e \in mp_hash : e.instr = w
      BY <2>2 DEF Owned
    <3>3. \A w \in WPs : Owned(w) => wrote.dcr[w] = "disabled" /\ w \notin cpu.chain
      BY <2>1, <2>2 DEF RegisterInv, GdbsRegs
    <3>4. \A e \in mp_hash : /\ cpu.dvr[e.instr] = e.addr /\ cpu.dcr[e.instr] = e.type
                             /\ e.instr \in cpu.wgb
      BY <2>1, <2>2 DEF RegisterInv, GdbsRegs, Inserting
    <3>5. /\ \A e \in mp_hash : <<e.type, e.addr>> \in gdb
          /\ \A pt \in gdb : \E e \in mp_hash : pt = <<e.type, e.addr>>
      BY <2>1, <2>2 DEF TableInv
    <3> QED BY <3>1, <3>2, <3>3, <3>4, <3>5
  <2>4. \A w \in WPs : ~ Owned(w) =>
          /\ cpu.dcr[w] = wrote.dcr[w]
          /\ w \in cpu.wgb <=> w \in wrote.wgb
          /\ w \in cpu.chain <=> w \in wrote.chain
          /\ w \in wrote.wgb => cpu.dvr[w] = wrote.dvr[w]
    BY <2>1 DEF RegisterInv, PersonsRegs
  <2>5. gdb \subseteq BreakPoints
    <3>1. SUFFICES ASSUME NEW pt \in gdb PROVE pt \in BreakPoints
      OBVIOUS
    <3>2. PICK e \in mp_hash : pt = <<e.type, e.addr>>
      BY <2>3
    <3>3. e.instr \in Breaking /\ pt = <<cpu.dcr[e.instr], cpu.dvr[e.instr]>>
      BY <2>3, <3>2 DEF Breaking
    <3> QED BY <3>3 DEF BreakPoints
  <2>6. ASSUME NEW armed PROVE ClientBreaks(armed) \subseteq BreakPoints
    <3>1. SUFFICES ASSUME NEW pt \in ClientBreaks(armed) PROVE pt \in BreakPoints
      OBVIOUS
    <3>2. PICK w \in WPs : /\ Enabled(wrote.dcr[w]) /\ w \in wrote.wgb /\ w \notin wrote.chain
                           /\ pt = <<wrote.dcr[w], wrote.dvr[w]>>
      BY DEF ClientBreaks
    <3>3. ~ Owned(w)
      BY <2>3, <3>2
    <3>4. w \in Breaking /\ pt = <<cpu.dcr[w], cpu.dvr[w]>>
      BY <2>4, <3>2, <3>3 DEF Breaking
    <3> QED BY <3>4 DEF BreakPoints
  <2>7. BreakPoints \subseteq gdb \cup ClientBreaks([w \in WPs |-> TRUE])
    <3>1. SUFFICES ASSUME NEW w \in Breaking
                   PROVE  <<cpu.dcr[w], cpu.dvr[w]>> \in gdb \cup ClientBreaks([v \in WPs |-> TRUE])
      BY DEF BreakPoints
    <3>2. w \in WPs /\ Enabled(cpu.dcr[w]) /\ w \in cpu.wgb /\ w \notin cpu.chain
      BY DEF Breaking
    <3>3. CASE Owned(w)
      <4>1. PICK e \in mp_hash : e.instr = w
        BY <2>3, <3>2, <3>3
      <4>2. <<cpu.dcr[w], cpu.dvr[w]>> = <<e.type, e.addr>> /\ <<e.type, e.addr>> \in gdb
        BY <2>3, <4>1
      <4> QED BY <4>2
    <3>4. CASE ~ Owned(w)
      <4>1. /\ Enabled(wrote.dcr[w]) /\ w \in wrote.wgb /\ w \notin wrote.chain
            /\ <<cpu.dcr[w], cpu.dvr[w]>> = <<wrote.dcr[w], wrote.dvr[w]>>
        BY <2>4, <3>2, <3>4
      <4>2. [v \in WPs |-> TRUE][w]
        BY <3>2
      <4> QED BY <3>2, <4>1, <4>2 DEF ClientBreaks
    <3> QED BY <3>3, <3>4
  <2> QED BY <2>5, <2>6, <2>7 DEF BreaksAsAsked
<1> QED BY <1>1, <1>2, <1>3, PTL DEF Spec
=============================================================================
