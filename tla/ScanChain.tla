----------------------------- MODULE ScanChain -----------------------------
(***************************************************************************)
(* The JTAG chain and the functions that drive it (chain_commands.c and    *)
(* the bit-banged streams of cable_common.c).  The chain is a sequence of  *)
(* devices, the one next to TDO first; their TAP controllers move together.*)
(* A function of chain_commands.c is the sequence of clocks it sends; the  *)
(* module that calls them puts those clocks into "todo", and the action    *)
(* Clock sends them one at a time.                                         *)
(*                                                                         *)
(* A bit string is a sequence of 0 and 1, its least significant bit first. *)
(***************************************************************************)
EXTENDS Integers, Sequences, FiniteSets, SequencesExt, Tap

CONSTANTS
  WordBits,                 \* bits of a word of a stream (32)
  VirBits,                  \* ALT_VJTAG_IR_SIZE
  DbgBits,                  \* length of a scan through the debug unit
  MaxFaults                 \* bound: failures of the cable

ASSUME ScanAssumption ==
  /\ WordBits \in Nat \ {0}
  /\ VirBits \in Nat \ {0}
  /\ DbgBits \in Nat \ {0}
  /\ MaxFaults \in Nat

VARIABLES
  sc,                       \* the scenario: chain, cable, command line (never changes)
  tap,                      \* the state of the TAP controllers
  path,                     \* the scan path of the whole chain, the bit at TDO first
  ir,                       \* the instruction of each device
  latched,                  \* what the target's virtual IR and debug unit last took over
  todo,                     \* clocks still to be sent
  got,                      \* bits read back
  err, faults               \* the caller's err, and how many clocks the cable failed

scanVars == <<tap, path, ir, latched, todo, got, err, faults>>

(***************************************************************************)
(* Bit strings and words.  A shift by WordBits or more is undefined in C:  *)
(* sc.shift is what the machine makes of it, "masked" (the count modulo    *)
(* the word size, as on x86) or "zero".                                    *)
(***************************************************************************)
Bits(n, b) == [k \in 1..n |-> b]
Word(bits) == [k \in 1..WordBits |-> IF k <= Len(bits) THEN bits[k] ELSE 0]
Ones == Bits(WordBits, 1)
And(a, b) == [k \in 1..WordBits |-> a[k] * b[k]]
Or(a, b) == [k \in 1..WordBits |-> IF a[k] + b[k] = 0 THEN 0 ELSE 1]
Not(a) == [k \in 1..WordBits |-> 1 - a[k]]
Count(n) == IF n >= WordBits /\ sc.shift = "masked" THEN n % WordBits ELSE n
Shl(a, n) == [k \in 1..WordBits |-> IF k > Count(n) THEN a[k - Count(n)] ELSE 0]
Shr(a, n) == [k \in 1..WordBits |-> IF k + Count(n) <= WordBits THEN a[k + Count(n)] ELSE 0]

(***************************************************************************)
(* The hardware: tap_top.v, and devices like it.                           *)
(***************************************************************************)
Devices == DOMAIN sc.chain
Target == sc.target + 1                   \* target_dev_pos counts from 0
Bypass(d) == Bits(sc.chain[d].irlen, 1)
IrAfterReset == [d \in Devices |-> IF sc.chain[d].id = << >> THEN Bypass(d)
                                   ELSE sc.chain[d].idcode]

\* The target's instruction is one of these.
TargetHas(instructions) == Target \in Devices /\ \E n \in instructions : ir[Target] = sc.chain[Target][n]

\* What a device puts into the scan path in CAPTURE_DR under its instruction.
CaptureDr(d) ==
  CASE sc.chain[d].id # << >> /\ ir[d] = sc.chain[d].idcode -> <<1>> \o sc.chain[d].id
    [] d = Target /\ TargetHas({"debug", "vdr"}) -> sc.status
    [] d = Target /\ TargetHas({"vir"}) -> Bits(VirBits + 1, 0)
    [] OTHER -> <<0>>
CaptureIr(d) == [k \in 1..sc.chain[d].irlen |-> k % 2]

DrCapture == [d \in Devices |-> CaptureDr(d)]
IrCapture == [d \in Devices |-> CaptureIr(d)]

\* The part of the scan path that is device d's, of these registers.
PartOf(d, registers) ==
  LET before == Len(FlattenSeq([k \in 1..(d - 1) |-> registers[k]]))
  IN SubSeq(path, before + 1, before + Len(registers[d]))

Latch(s) ==
  /\ ir' = CASE s = "RESET" -> IrAfterReset
             [] s = "UPDATE_IR" -> [d \in Devices |-> PartOf(d, IrCapture)]
             [] OTHER -> ir
  /\ latched' = CASE s = "UPDATE_DR" /\ TargetHas({"vir"}) ->
                       [latched EXCEPT !.vir = PartOf(Target, DrCapture)]
                  [] s = "UPDATE_DR" /\ TargetHas({"debug", "vdr"}) ->
                       [latched EXCEPT !.debug = PartOf(Target, DrCapture)]
                  [] OTHER -> latched

\* One rising edge of TCK.  TRST, where it is wired, holds the controllers in reset.
TapClock(c) ==
  LET s == IF c.trst /\ sc.trst THEN "RESET" ELSE NextTapState(tap, c.tms)
  IN /\ tap' = s
     /\ path' = CASE tap = "CAPTURE_DR" -> FlattenSeq(DrCapture)
                  [] tap = "CAPTURE_IR" -> FlattenSeq(IrCapture)
                  [] tap \in {"SHIFT_DR", "SHIFT_IR"} -> Append(Tail(path), c.tdi)
                  [] OTHER -> path
     /\ Latch(s)

\* The bit the cable reads: TDO, unless the line is stuck.
Tdo == IF sc.stuck # "no" THEN sc.level
       ELSE IF tap \in {"SHIFT_DR", "SHIFT_IR"} THEN Head(path) ELSE 1

(***************************************************************************)
(* cable_common.c: a stream is sent bit by bit, the last one with TMS if   *)
(* asked for.  The last bit is fetched with a shift by the whole length.   *)
(***************************************************************************)
Clk(tms, tdi) == [tms |-> tms, tdi |-> tdi, trst |-> FALSE, rd |-> FALSE]
Trst == [Clk(0, 0) EXCEPT !.trst = TRUE]
Reading(clocks) == [k \in DOMAIN clocks |-> [clocks[k] EXCEPT !.rd = TRUE]]

\* The last of len bits: bit len - 1 of its word.
LastBit(bits, len) ==
  LET word == ((len - 1) \div WordBits) * WordBits
      n == word + Count(len - 1) + 1
  IN IF Count(len - 1) < WordBits /\ n <= Len(bits) THEN bits[n] ELSE 0

CableWriteStream(bits, len, last) ==
  Append([k \in 1..(len - 1) |-> Clk(0, bits[k])], Clk(last, LastBit(bits, len)))
CableReadWriteStream(bits, len, last) == Reading(CableWriteStream(bits, len, last))

(***************************************************************************)
(* chain_commands.c                                                        *)
(***************************************************************************)
TapReset == <<Clk(0, 0)>> \o [k \in 1..8 |-> Clk(1, 0)] \o <<Trst, Clk(0, 0)>>

TapSetShiftDr == <<Clk(1, 0), Clk(0, 0), Clk(0, 0)>>
TapExitToIdle == <<Clk(1, 0), Clk(0, 0)>>

IrChainNoMsbOnes(cfg, cmd) ==
  LET size == cfg.irSize + cfg.irPre + cfg.irPost
      offset == (cfg.irPost \div WordBits) + 1
      shift == cfg.irPost % WordBits
  IN [w \in 1..((size \div WordBits) + 1) |->
        IF w = offset THEN Or(Shl(Word(cmd), shift), Not(Shl(Ones, shift))) ELSE Ones]

\* The array of words that tap_set_ir() builds: the instruction behind the
\* postfix bits, ones everywhere else.
IrChain(cfg, cmd) ==
  LET size == cfg.irSize + cfg.irPre + cfg.irPost
      offset == (cfg.irPost \div WordBits) + 1
      shift == cfg.irPost % WordBits
      first == Or(Or(Shl(Word(cmd), shift), Not(Shl(Ones, shift))), Shl(Ones, shift + cfg.irSize))
      spill == Or(Shr(Word(cmd), WordBits - shift), Shl(Ones, cfg.irSize - (WordBits - shift)))
  IN [w \in 1..((size \div WordBits) + 1) |->
        CASE w = offset -> first
          [] w = offset + 1 /\ shift + cfg.irSize > WordBits -> spill
          [] OTHER -> Ones]

TapSetIr(cfg, cmd) ==
  <<Clk(1, 0), Clk(1, 0), Clk(0, 0), Clk(0, 0)>>
    \o CableWriteStream(FlattenSeq(IrChain(cfg, cmd)), cfg.irSize + cfg.irPre + cfg.irPost, 1)
    \o TapExitToIdle

PrefixZerosOneMore(cfg) == [k \in 1..(cfg.drPre + 1) |-> Clk(IF k = cfg.drPre + 1 THEN 1 ELSE 0, 0)]

\* The zeros that push the data past the devices before the target.
PrefixZeros(cfg) == [k \in 1..cfg.drPre |-> Clk(IF k = cfg.drPre THEN 1 ELSE 0, 0)]

JtagWriteStream(cfg, bits, len, tms) ==
  IF tms = 0 \/ cfg.drPre = 0 THEN CableWriteStream(bits, len, tms)
  ELSE CableWriteStream(bits, len, 0) \o PrefixZeros(cfg)

JtagReadWriteStream(cfg, bits, len, adjust, tms) ==
  (IF adjust THEN [k \in 1..cfg.drPost |-> Clk(0, 0)] ELSE << >>)
    \o IF tms = 0 \/ cfg.drPre = 0 THEN CableReadWriteStream(bits, len, tms)
       ELSE CableReadWriteStream(bits, len, 0) \o PrefixZeros(cfg)

TapEnableDebugModule(cfg) ==
  IF ~cfg.alt THEN TapSetIr(cfg, cfg.debug)
  ELSE TapSetIr(cfg, cfg.vir) \o TapSetShiftDr
         \o JtagWriteStream(cfg, sc.virDebug, VirBits + 1, 1) \o TapExitToIdle
         \o TapSetIr(cfg, cfg.vdr)

\* jtag_get_idcode(): the whole register, read past the postfix bits.
JtagGetIdcode(cfg, cmd, bits) ==
  TapSetIr(cfg, cmd) \o TapSetShiftDr
    \o JtagReadWriteStream(cfg, Bits(bits, 0), bits, TRUE, 1) \o TapExitToIdle

(***************************************************************************)
(* The steps.                                                              *)
(***************************************************************************)

\* The next clock goes out and, if the function reads, a bit comes back.
Clock ==
  /\ todo # << >>
  /\ TapClock(Head(todo))
  /\ todo' = Tail(todo)
  /\ got' = IF Head(todo).rd THEN Append(got, Tdo) ELSE got
  /\ UNCHANGED <<err, faults>>

\* The cable fails: the clock may or may not have reached the chain, the bit
\* read is arbitrary, and the function goes on with err set.
CableFails ==
  /\ todo # << >>
  /\ faults < MaxFaults
  /\ faults' = faults + 1
  /\ err' = TRUE
  /\ todo' = Tail(todo)
  /\ \/ TapClock(Head(todo))
     \/ UNCHANGED <<tap, path, ir, latched>>
  /\ \E b \in {0, 1} : got' = IF Head(todo).rd THEN Append(got, b) ELSE got
=============================================================================
