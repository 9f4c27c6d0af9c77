----------------------------- MODULE ChainSetup -----------------------------
(***************************************************************************)
(* How the bridge comes up (adv_jtag_bridge.c, main() and                  *)
(* configure_chain()): it resets the chain, finds out which devices are on *)
(* it (jtag_enumerate_chain() of chain_commands.c), looks them up in the   *)
(* BSDL files, works out how many bits lie before and behind the target,   *)
(* selects the debug unit and then sends scans through it.                 *)
(*                                                                         *)
(* The host runs when no clock is outstanding.  It is one thread: pc is    *)
(* its place in configure_chain(), and "exit" is exit(1).                  *)
(***************************************************************************)
EXTENDS ScanChain, Bsdl

CONSTANTS
  Scenarios,                \* the chains, cables, BSDL files and options to start from
  ManufBits,                \* bits of a manufacturer code (11)
  StartOnes,                \* ones of the code that is shifted in to find the end (7)
  MaxDevices, AllocSize,
  XilinxManuf, AlteraManuf, \* manufacturer codes
  VirCmd, VdrCmd            \* ALTERA_CYCLONE_CMD_VIR, ALTERA_CYCLONE_CMD_VDR

ASSUME SetupAssumption ==
  /\ ManufBits \in 1..(IdBits - 1)
  /\ StartOnes \in 2..ManufBits
  /\ MaxDevices \in Nat \ {0}
  /\ AllocSize \in Nat \ {0}

VARIABLES
  opt,                      \* the options of the command line
  pc, dev, invalid,         \* place; idcodes found so far; how much of the code was sent
  alloc,                    \* entries idcodes[] has room for
  bsdl,                     \* the BSDL reader
  cfg,                      \* the configuration of chain_commands.c
  i, total, resetErr,       \* locals of configure_chain()
  sane,                     \* outcome of the IDCODE sanity test
  wanted                    \* what the last scan was meant to write to the debug unit

hostVars == <<opt, pc, dev, invalid, alloc, bsdl, cfg, i, total, resetErr, sane, wanted>>
vars == <<sc, scanVars, hostVars>>

NoId == << >>               \* IDCODE_INVALID
Manuf(id) == SubSeq(id, 1, ManufBits)
InvalidCode == Bits(StartOnes, 1) \o Bits(IdBits + 1 - StartOnes, 0)   \* 0x7f
DoneCodeWithStartBit == SubSeq(InvalidCode, 1, ManufBits)

DoneCode == SubSeq(InvalidCode, 2, ManufBits + 1)                      \* 0x3f

\* The options of the command line: a letter and what it is given.
Arguments == ({"x"} \X Nat) \cup ({"l"} \X (Nat \X (Nat \ {0}))) \cup ({"c", "v", "r"} \X Seq({0, 1}))
               \cup ((STRING \ {"x", "l", "c", "v", "r"}) \X {0, 1})

\* The devices of IEEE 1149.1: BYPASS is all ones, instructions differ, and no
\* manufacturer has the code that marks the end.  An IDCODE fits a word.
Chips == [irlen : Nat \ {0}, id : {NoId} \cup [1..IdBits -> {0, 1}], idcode : Seq({0, 1}),
          debug : Seq({0, 1}), vir : Seq({0, 1}), vdr : Seq({0, 1})]
ASSUME ChainAssumption ==
  /\ IdBits <= WordBits
  /\ \A s \in Scenarios :
       /\ s.chain \in Seq(Chips) /\ s.chain # << >>
       /\ \A d \in DOMAIN s.chain :
            /\ s.chain[d].id # NoId => /\ s.chain[d].id # Bits(IdBits, 1)
                                       /\ Manuf(s.chain[d].id) # DoneCode
                                       /\ s.chain[d].idcode \in [1..s.chain[d].irlen -> {0, 1}]
                                       /\ s.chain[d].idcode # Bits(s.chain[d].irlen, 1)
            /\ \A n \in {"debug", "vir", "vdr"} :
                 /\ s.chain[d][n] # Bits(s.chain[d].irlen, 1)
                 /\ s.chain[d].id # NoId => s.chain[d][n] # s.chain[d].idcode
                 /\ \A m \in {"debug", "vir", "vdr"} \ {n} :
                      s.chain[d][n] # << >> => s.chain[d][n] # s.chain[d][m]

\* The bit strings of a scenario, its files and its options are of their types.
ASSUME ScenarioAssumption ==
  /\ VirCmd \in Seq({0, 1}) /\ VdrCmd \in Seq({0, 1})
  /\ \A s \in Scenarios :
       /\ s.level \in {0, 1}
       /\ s.status \in [1..DbgBits -> {0, 1}]
       /\ s.virDebug \in [1..(VirBits + 1) -> {0, 1}]
       /\ s.dirs \in Seq(Seq(Files))
       /\ s.args \in Seq(Arguments)

\* n bits of the code at its current place; it is followed by zeros.
FromInvalid(n) == [k \in 1..n |-> IF invalid + k <= Len(InvalidCode)
                                  THEN InvalidCode[invalid + k] ELSE 0]

Init ==
  /\ sc \in Scenarios
  /\ tap \in TapStates /\ tap \in sc.initialTap
  /\ path = FlattenSeq(IrCapture)
  /\ ir = [d \in Devices |-> Bypass(d)]
  /\ latched = [vir |-> << >>, debug |-> << >>]
  /\ todo = << >> /\ got = << >> /\ err = FALSE /\ faults = 0
  /\ opt = [target |-> 0, irSets |-> << >>, debugCmd |-> NoCmd, forceAlt |-> 0]
  /\ pc = "args" /\ dev = << >> /\ invalid = 0 /\ alloc = AllocSize
  /\ bsdl = BsdlInit(sc.dirs)
  /\ cfg = [irSize |-> 0, irPre |-> 0, irPost |-> 0, drPre |-> 0, drPost |-> 0,
            debug |-> << >>, alt |-> FALSE, xilinx |-> FALSE, vir |-> VirCmd, vdr |-> VdrCmd]
  /\ i = 1 /\ total = 0 /\ resetErr = FALSE /\ sane = "untested" /\ wanted = << >>

TargetPos == opt.target + 1

\* The host is at p, and everything it sent before has been clocked out.
At(p) == pc = p /\ todo = << >>
Send(clocks) == todo' = clocks /\ got' = << >>
Quiet == UNCHANGED <<todo, got>>
Hardware == <<sc, tap, path, ir, latched, err, faults>>

(***************************************************************************)
(* parse_args(): one option at a time; then the cable must be known, take  *)
(* its options and initialise.                                             *)
(***************************************************************************)
ParseOption(o, v) ==
  /\ opt' = CASE o = "x" -> [opt EXCEPT !.target = v]
              [] o = "l" -> [opt EXCEPT !.irSets = Append(@, v)]
              [] o = "c" -> [opt EXCEPT !.debugCmd = v]
              [] o = "a" -> [opt EXCEPT !.forceAlt = IF v = 1 THEN 1 ELSE -1]
              [] OTHER -> opt
  /\ cfg' = CASE o = "v" -> [cfg EXCEPT !.vir = v]
              [] o = "r" -> [cfg EXCEPT !.vdr = v]
              [] OTHER -> cfg

ParseArgs ==
  /\ At("args")
  /\ IF i <= Len(sc.args)
     THEN /\ ParseOption(sc.args[i][1], sc.args[i][2])
          /\ pc' = IF sc.args[i][1] \in {"h", "?"} THEN "exit" ELSE "args"
          /\ i' = i + 1
     ELSE /\ pc' = IF sc.cable THEN "reset" ELSE "exit"
          /\ i' = 1
          /\ UNCHANGED <<opt, cfg>>
  /\ Quiet
  /\ UNCHANGED <<Hardware, dev, invalid, alloc, bsdl, total, resetErr, sane, wanted>>

(***************************************************************************)
(* tap_reset() and jtag_enumerate_chain().                                 *)
(***************************************************************************)
Reset ==
  /\ At("reset")
  /\ Send(TapReset)
  /\ pc' = "enumerate"
  /\ UNCHANGED <<Hardware, opt, dev, invalid, alloc, bsdl, cfg, i, total, resetErr, sane, wanted>>

\* jtag_enumerate_chain() has an err of its own.
Enumerate ==
  /\ At("enumerate")
  /\ resetErr' = err
  /\ err' = FALSE
  /\ Send(TapSetShiftDr)
  /\ pc' = "startbit"
  /\ UNCHANGED <<sc, opt, tap, path, ir, latched, faults, dev, invalid, alloc, bsdl, cfg, i,
                 total, sane, wanted>>

Sent(n) == invalid' = IF invalid + n > Len(InvalidCode) THEN Len(InvalidCode) ELSE invalid + n

\* while(devindex < MAX_DEVICES), after "if(err) return err" of the last round.
ReadStartBit ==
  /\ At("startbit")
  /\ IF err /\ dev # << >> THEN pc' = "exit" /\ Quiet /\ UNCHANGED invalid
     ELSE IF Len(dev) < MaxDevices
     THEN /\ Send(Reading(<<Clk(0, FromInvalid(1)[1])>>))
          /\ Sent(1)
          /\ pc' = "gotbit"
     ELSE pc' = "leave" /\ Quiet /\ UNCHANGED invalid
  /\ UNCHANGED <<Hardware, opt, dev, alloc, bsdl, cfg, i, total, resetErr, sane, wanted>>

RecordNoRealloc(id) ==
  /\ alloc' = alloc
  /\ dev' = Append(dev, id)

\* The array is doubled when it is full.
Record(id) ==
  /\ alloc' = IF Len(dev) >= alloc THEN 2 * alloc ELSE alloc
  /\ dev' = Append(dev, id)

GotStartBit ==
  /\ At("gotbit")
  /\ IF got = <<0>>
     THEN Record(NoId) /\ pc' = "startbit" /\ Quiet /\ UNCHANGED invalid
     ELSE /\ Send(CableReadWriteStream(FromInvalid(ManufBits), ManufBits, 0))
          /\ Sent(ManufBits)
          /\ pc' = "gotmanuf"
          /\ UNCHANGED <<dev, alloc>>
  /\ UNCHANGED <<Hardware, opt, bsdl, cfg, i, total, resetErr, sane, wanted>>

GotManuf ==
  /\ At("gotmanuf")
  /\ IF got = DoneCode
     THEN pc' = "leave" /\ Quiet /\ UNCHANGED invalid
     ELSE LET rest == CableReadWriteStream(FromInvalid(IdBits - ManufBits), IdBits - ManufBits, 0)
          IN /\ todo' = rest
             /\ got' = got
             /\ Sent(IdBits - ManufBits)
             /\ pc' = "gotrest"
  /\ UNCHANGED <<Hardware, opt, dev, alloc, bsdl, cfg, i, total, resetErr, sane, wanted>>

GotRestSkipsInvalid ==
  /\ At("gotrest")
  /\ IF got = Bits(IdBits, 1) THEN UNCHANGED <<dev, alloc>> ELSE Record(got)
  /\ pc' = "startbit"
  /\ Quiet
  /\ UNCHANGED <<Hardware, opt, invalid, bsdl, cfg, i, total, resetErr, sane, wanted>>

\* An IDCODE of ones is IDCODE_INVALID.
GotRest ==
  /\ At("gotrest")
  /\ Record(IF got = Bits(IdBits, 1) THEN NoId ELSE got)
  /\ pc' = "startbit"
  /\ Quiet
  /\ UNCHANGED <<Hardware, opt, invalid, bsdl, cfg, i, total, resetErr, sane, wanted>>

LeaveShift ==
  /\ At("leave")
  /\ Send(<<Clk(1, 0)>> \o TapExitToIdle)
  /\ pc' = "enumerated"
  /\ UNCHANGED <<Hardware, opt, dev, invalid, alloc, bsdl, cfg, i, total, resetErr, sane, wanted>>

(***************************************************************************)
(* configure_chain() after the enumeration.                                *)
(***************************************************************************)
CheckEnumeration ==
  /\ At("enumerated")
  /\ pc' = IF err \/ resetErr THEN "exit" ELSE "list"
  /\ Quiet
  /\ UNCHANGED <<Hardware, opt, dev, invalid, alloc, bsdl, cfg, i, total, resetErr, sane, wanted>>

\* What the BSDL reader has on a device, and the reader afterwards; it is not
\* asked about a device without IDCODE.
Ask(id) == IF id = NoId THEN [info |-> NoInfo, bsdl |-> bsdl] ELSE GetBsdlInfo(bsdl, id)

\* The table of devices; then the legacy build refuses a second device, and
\* the target must exist.
ListDevices ==
  /\ At("list")
  /\ IF i <= Len(dev)
     THEN \E ask \in {Ask(dev[i])} :
            /\ bsdl' = ask.bsdl
            /\ pc' = IF ask.info = Spins THEN "spin" ELSE "list"
            /\ i' = i + 1
     ELSE /\ pc' = IF (sc.legacy /\ Len(dev) > 1) \/ opt.target >= Len(dev) THEN "exit" ELSE "irsize"
          /\ i' = 0
          /\ UNCHANGED bsdl
  /\ Quiet
  /\ UNCHANGED <<Hardware, opt, dev, invalid, alloc, cfg, total, resetErr, sane, wanted>>

\* get_IR_size(): the command line overrides the BSDL file.
GetIrSize(d, info) ==
  LET set == SelectLastInSeq(opt.irSets, LAMBDA s : s[1] = d - 1)
  IN IF set = 0 THEN info.ir ELSE opt.irSets[set][2]

\* The target's IR length, then the others' in order: those met before the
\* target are the postfix bits, those after it the prefix bits.
ConfigureIr ==
  /\ At("irsize")
  /\ IF i > Len(dev)
     THEN /\ cfg' = [cfg EXCEPT !.irPre = total, !.drPre = Len(dev) - opt.target - 1,
                                !.drPost = opt.target]
          /\ pc' = "debugcmd"
          /\ UNCHANGED <<bsdl, i, total>>
     ELSE IF i = TargetPos
     THEN /\ cfg' = [cfg EXCEPT !.irPost = total]
          /\ total' = 0 /\ i' = i + 1
          /\ UNCHANGED <<bsdl, pc>>
     ELSE LET d == IF i = 0 THEN TargetPos ELSE i
          IN \E ask \in {Ask(dev[d])} : \E size \in {GetIrSize(d, ask.info)} :
               /\ bsdl' = ask.bsdl
               /\ pc' = IF size < 0 THEN "exit" ELSE pc
               /\ cfg' = IF i = 0 THEN [cfg EXCEPT !.irSize = size] ELSE cfg
               /\ total' = IF i = 0 THEN 0 ELSE total + size
               /\ i' = i + 1
  /\ Quiet
  /\ UNCHANGED <<Hardware, opt, dev, invalid, alloc, resetErr, sane, wanted>>

\* get_debug_cmd(): USER1 on a Xilinx device; the command line overrides it.
GetDebugCmd(id, info) ==
  IF opt.debugCmd # NoCmd THEN opt.debugCmd
  ELSE IF id # NoId /\ Manuf(id) = XilinxManuf THEN info.user1 ELSE info.debug

ConfigureDebugCmd ==
  /\ At("debugcmd")
  /\ LET id == dev[TargetPos]
         altera == id # NoId /\ Manuf(id) = AlteraManuf
         alt == opt.forceAlt = 1 \/ (opt.forceAlt = 0 /\ altera)
     IN \E ask \in {Ask(id)} :
          /\ bsdl' = IF alt THEN bsdl ELSE ask.bsdl
          /\ pc' = IF ~alt /\ GetDebugCmd(id, ask.info) = NoCmd THEN "exit" ELSE "idcode"
          /\ cfg' = [cfg EXCEPT !.alt = alt, !.debug = IF alt THEN @ ELSE GetDebugCmd(id, ask.info),
                                !.xilinx = id # NoId /\ Manuf(id) = XilinxManuf]
  /\ Quiet
  /\ UNCHANGED <<Hardware, opt, dev, invalid, alloc, i, total, resetErr, sane, wanted>>

\* The sanity test needs an IDCODE instruction from the BSDL file; here the
\* reader is asked about IDCODE_INVALID too, and reads all the files there are.
AskIdcode ==
  /\ At("idcode")
  /\ \E ask \in {GetBsdlInfo(bsdl, IF dev[TargetPos] = NoId THEN Bits(IdBits, 1) ELSE dev[TargetPos])} :
        /\ bsdl' = ask.bsdl
        /\ IF ask.info.idc = NoCmd THEN pc' = (IF ask.info = Spins THEN "spin" ELSE "enable") /\ Quiet
           ELSE pc' = "gotidcode" /\ Send(JtagGetIdcode(cfg, ask.info.idc, IdBits + 1))
  /\ UNCHANGED <<Hardware, opt, dev, invalid, alloc, cfg, i, total, resetErr, sane, wanted>>

\* A mismatch is only reported.
CheckIdcode ==
  /\ At("gotidcode")
  /\ pc' = IF err THEN "exit" ELSE "enable"
  /\ sane' = IF err THEN sane ELSE IF got = <<1>> \o dev[TargetPos] THEN "passed" ELSE "failed"
  /\ Quiet
  /\ UNCHANGED <<Hardware, opt, dev, invalid, alloc, bsdl, cfg, i, total, resetErr, wanted>>

EnableDebugModule ==
  /\ At("enable")
  /\ Send(TapEnableDebugModule(cfg))
  /\ pc' = "enabled"
  /\ UNCHANGED <<Hardware, opt, dev, invalid, alloc, bsdl, cfg, i, total, resetErr, sane, wanted>>

CheckEnabled ==
  /\ At("enabled")
  /\ pc' = IF err THEN "exit" ELSE "ready"
  /\ Quiet
  /\ UNCHANGED <<Hardware, opt, dev, invalid, alloc, bsdl, cfg, i, total, resetErr, sane, wanted>>

(***************************************************************************)
(* The servers are up: a debug command writes to the debug unit, or writes *)
(* and reads, and ends in tap_exit_to_idle().                              *)
(***************************************************************************)
DebugScan(data, read) ==
  /\ At("ready")
  /\ ~err
  /\ wanted' = data
  /\ Send(TapSetShiftDr
            \o (IF read THEN JtagReadWriteStream(cfg, data, DbgBits, TRUE, 1)
                ELSE JtagWriteStream(cfg, data, DbgBits, 1))
            \o TapExitToIdle)
  /\ UNCHANGED <<Hardware, opt, pc, dev, invalid, alloc, bsdl, cfg, i, total, resetErr, sane>>

Done == pc \in {"exit", "spin"} \/ (At("ready") /\ err)

\* exit(1), or a parser that has lost its ';': nothing more happens.
Over ==
  /\ Done
  /\ UNCHANGED vars

Host == \/ ParseArgs \/ Reset \/ Enumerate \/ ReadStartBit \/ GotStartBit \/ GotManuf \/ GotRest \/ LeaveShift
        \/ CheckEnumeration \/ ListDevices \/ ConfigureIr \/ ConfigureDebugCmd
        \/ AskIdcode \/ CheckIdcode \/ EnableDebugModule \/ CheckEnabled

Next == \/ Host
        \/ Clock /\ UNCHANGED <<sc, hostVars>>
        \/ CableFails /\ UNCHANGED <<sc, hostVars>>
        \/ \E data \in [1..DbgBits -> {0, 1}], read \in BOOLEAN : DebugScan(data, read)
        \/ Over

\* The bridge has one thread here, and it keeps going until it is done: weak
\* fairness of Next, whose steps are enabled in every other state.
Spec == Init /\ [][Next]_vars /\ (<>[]Done \/ []<><<Next>>_vars)

(***************************************************************************)
(* Properties.                                                             *)
(***************************************************************************)

\* The states of the chain and of the bridge; idcodes[] never overflows.
SetupTypeOK ==
  /\ sc \in Scenarios
  /\ tap \in TapStates
  /\ path \in Seq({0, 1}) /\ path # << >>
  /\ \A d \in Devices : ir[d] \in [1..sc.chain[d].irlen -> {0, 1}]
  /\ got \in Seq({0, 1})
  /\ err \in BOOLEAN /\ resetErr \in BOOLEAN /\ faults \in 0..MaxFaults
  /\ Len(dev) <= alloc /\ Len(dev) <= MaxDevices
  /\ sane \in {"untested", "passed", "failed"}
  /\ pc \in {"args", "reset", "enumerate", "startbit", "gotbit", "gotmanuf", "gotrest", "leave", "enumerated", "list",
             "irsize", "debugcmd", "idcode", "gotidcode", "enable", "enabled", "ready", "exit", "spin"}
Up == At("ready") /\ ~err /\ sc.stuck = "no" 
      /\ opt.target = sc.target /\ Len(sc.chain) <= MaxDevices

\* jtag_enumerate_chain(): if no call failed, the devices listed are the
\* devices on the chain, all of them and in their order, however many of them
\* have an IDCODE (up to MAX_DEVICES of them).
EnumerationExact ==
  (pc \notin {"args", "reset", "enumerate", "startbit", "gotbit", "gotmanuf", "gotrest", "leave", "exit"}
     /\ ~err /\ ~resetErr /\ sc.stuck = "no")
    => dev = [d \in 1..(IF Len(sc.chain) < MaxDevices THEN Len(sc.chain) ELSE MaxDevices)
                |-> sc.chain[d].id]

\* configure_chain() and tap_set_ir(): when the bridge is ready the target,
\* and no other device, has its DEBUG (or virtual DR) instruction, and the
\* IDCODE read through the configured prefix and postfix bits was the right one.
OnlyTargetSelected ==
  Up => /\ sane # "failed"
        /\ TargetHas({IF cfg.alt THEN "vdr" ELSE "debug"})
        /\ \A d \in Devices \ {Target} : ir[d] = Bypass(d)
        /\ cfg.alt => latched.vir = sc.virDebug

\* jtag_write_stream() and jtag_read_write_stream(): a scan that met no error
\* leaves in the debug unit exactly the bits it was given, and reads back
\* exactly the bits the debug unit had, wherever the target is in the chain.
ScansLandInTarget ==
  (Up /\ wanted # << >>) => /\ latched.debug = wanted
                            /\ got \in {<< >>, sc.status}

\* "Putting a limit on the # of devices supported has the useful side effect
\* of insuring we still exit in error cases" (chain_commands.c:368): start-up
\* ends, ready or with exit(1), also when TDO is stuck, unless a BSDL file
\* lacks the ';' of a statement.
StartupEnds == (sc.wellFormed) ~> (pc \in {"ready", "exit"})

=============================================================================
