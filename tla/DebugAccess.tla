---------------------------- MODULE DebugAccess ----------------------------
(***************************************************************************)
(* The debug API (dbg_api.c) and the two families of commands below it:    *)
(* the advanced debug module (adv_dbg_commands.c, built with               *)
(* ADBG_OPT_HISPEED as both Makefiles do) and the legacy one               *)
(* (legacy_dbg_commands.c).  The threads of the bridge call the API; each  *)
(* call takes dbg_access_mutex, selects a module of the debug unit, does   *)
(* its scans and releases the mutex.                                       *)
(*                                                                         *)
(* One action is one scan: tap_set_shift_dr(), the streams, and            *)
(* tap_exit_to_idle() where the code gets that far.  A scan reaches the    *)
(* debug unit only if it starts with the TAP in IDLE.  A word is a pair of *)
(* bytes, the most significant first; a CRC detects every damaged or       *)
(* misplaced transfer.                                                     *)
(***************************************************************************)
EXTENDS Integers, Sequences, FiniteSets, SequencesExt, Tap

CONSTANTS
  Threads,                  \* the threads of the bridge
  Builds,                   \* the builds: [hw, xilinx]
  Calls(_, _),              \* the calls thread t may make in build b
  Words,                    \* addresses of each module are 0 .. Words - 1
  LengthField,              \* 2^16: the length field of a burst command
  JspMax,                   \* bytes of one JSP transaction (8)
  MaxBusErrors,             \* MAX_BUS_ERRORS (10)
  Faults,                   \* the kinds of fault that may happen
  MaxFaults,                \* bound: faults
  MaxCalls                  \* bound: calls

ASSUME AccessAssumption ==
  /\ Words \in Nat \ {0}
  /\ {LengthField, JspMax} \subseteq Nat \ {0}
  /\ {MaxBusErrors, MaxFaults, MaxCalls} \subseteq Nat
  /\ Faults \subseteq {"corrupt", "bus", "timeout", "cable"}
  /\ Builds \subseteq [hw : {"advanced", "legacy"}, xilinx : BOOLEAN]
  /\ "none" \notin Threads    \* the mutex's "none" is nobody

VARIABLES
  build,                    \* which build, with or without -x (never changes)
  mutex,                    \* holder of dbg_access_mutex
  th,                       \* each thread: pc, its call, i, bus errors, err, its buffer,
                            \* and whether its call found the debug unit as it expects it
  current_chain, desired_chain,
  tap, ir,                  \* the TAP controller and what its IR holds
  unit,                     \* the debug unit: module selected, burst or command, registers
  mem,                      \* what is behind each module
  faults, calls,            \* bounds
  exited                    \* the bridge called exit(1)

sw == <<current_chain, desired_chain>>
hw == <<tap, ir, unit, mem>>
vars == <<build, mutex, th, sw, hw, faults, calls, exited>>

NoThread == "none"
NoModule == "none"
Memories == {"wb", "cpu0", "cpu1"}
Modules == Memories \cup {"jsp"}
Addrs == 0..(Words - 1)
NoAddr == -1
Garbage == <<"?", "?">>
Erased == <<"0", "0">>
NoBurst == [op |-> "none", adr |-> 0, len |-> 0]

Advanced == build.hw = "advanced"
Legacy == build.hw = "legacy"

(***************************************************************************)
(* The calls.  "mod" is the module meant, "sel" the one the call selects.  *)
(***************************************************************************)
Access(op, mod, sel, adr, len) == [op |-> op, mod |-> mod, sel |-> sel, adr |-> adr, len |-> len]
Blocks(len) == {b \in Addrs \X (0..len) : b[1] + b[2] <= Words}

dbg_wb_read32 == {Access("read", "wb", "wb", a, 1) : a \in Addrs}
dbg_wb_write == {Access("write", "wb", "wb", a, 1) : a \in Addrs}
dbg_wb_read_block == {Access("read", "wb", "wb", b[1], b[2]) : b \in Blocks(Words)}
dbg_wb_write_block == {Access("write", "wb", "wb", b[1], b[2]) : b \in Blocks(Words)}
dbg_cpu0_read == {Access("read", "cpu0", "cpu0", a, 1) : a \in Addrs}
dbg_cpu0_write == {Access("write", "cpu0", "cpu0", a, 1) : a \in Addrs}
dbg_cpu0_read_block == {Access("read", "cpu0", "cpu0", 0, Words)}
dbg_cpu0_write_block == {Access("write", "cpu0", "cpu0", 0, Words)}
dbg_cpu0_write_ctrl == {Access("wctrl", "cpu0", "cpu0", v, 1) : v \in {0, 1}}
dbg_cpu0_read_ctrl == {Access("rctrl", "cpu0", "cpu0", 0, 1)}
dbg_cpu1_read == {Access("read", "cpu1", "cpu1", a, 1) : a \in Addrs}
dbg_cpu1_write == {Access("write", "cpu1", IF Advanced THEN "cpu0" ELSE "cpu1", a, 1) : a \in Addrs}
dbg_cpu1_write_ctrl == {Access("wctrl", "cpu1", "cpu1", v, 1) : v \in {0, 1}}
dbg_cpu1_read_ctrl == {Access("rctrl", "cpu1", "cpu1", 0, 1)}
dbg_serial_sndrcv == {Access("jsp", "jsp", "jsp", 0, n) : n \in 0..(JspMax + 1)}

\* What the program calls: dbg_cpu1_write() is never called, and only the
\* advanced debug module has a serial port to build the JSP server for.
ApiCalls(b) ==
  UNION {dbg_wb_read32, dbg_wb_write, dbg_wb_read_block, dbg_wb_write_block,
         dbg_cpu0_read, dbg_cpu0_write, dbg_cpu0_read_block, dbg_cpu0_write_block,
         dbg_cpu0_read_ctrl, dbg_cpu0_write_ctrl,
         dbg_cpu1_read, dbg_cpu1_read_ctrl, dbg_cpu1_write_ctrl,
         IF b.hw = "advanced" THEN dbg_serial_sndrcv ELSE {}}

ASSUME CallsAssumption == \A t \in Threads : \A b \in Builds : Calls(t, b) \subseteq ApiCalls(b)

\* dbg_cpu0_read_block() and dbg_cpu0_write_block() of the legacy build are
\* loops of calls for one register each.
IsLoop(c) == Legacy /\ c.mod = "cpu0" /\ c.op \in {"read", "write"} /\ c.len > 1

\* The accesses the debug unit sees at once, and the caller's words for them.
Part(t) == LET c == th[t].call
           IN IF IsLoop(c) THEN [c EXCEPT !.adr = c.adr + th[t].part, !.len = 1] ELSE c
Sent(t) == LET first == IF IsLoop(th[t].call) THEN th[t].part ELSE 0
           IN [k \in 1..Part(t).len |-> <<t, ToString(first + k)>>]

(***************************************************************************)
(* Byte order.  The legacy unit takes bytes in big-endian order; the host  *)
(* is little-endian and converts with ntohl() before and after.            *)
(***************************************************************************)
Ntohl(w) == Reverse(w)
HostBytes(w) == Reverse(w)
HostWord(bytes) == Reverse(bytes)
LegacyWrites(w) == HostBytes(Ntohl(w))
LegacyReads(bytes) == Ntohl(HostWord(bytes))

Init ==
  /\ build \in Builds
  /\ mutex = NoThread
  /\ th = [t \in Threads |-> [pc |-> "idle", call |-> Access("none", "wb", "wb", 0, 0), part |-> 0,
                              i |-> 0, bus |-> 0, err |-> FALSE, data |-> << >>, sound |-> TRUE]]
  /\ current_chain = NoModule /\ desired_chain = NoModule
  /\ tap = "IDLE" /\ ir = "debug"
  /\ unit = [sel |-> NoModule, burst |-> NoBurst, wberr |-> NoAddr,
             ctrl |-> [m \in {"cpu0", "cpu1"} |-> 0], room |-> JspMax, avail |-> 0]
  /\ mem = [m \in Memories |-> [a \in Addrs |-> Erased]]
  /\ faults = 0 /\ calls = 0
  /\ exited = FALSE

At(t, pc) == th[t].pc = pc /\ ~exited
Goto(t, pc) == th' = [th EXCEPT ![t].pc = pc]
\* An error ends the call: NUM_SOFT_RETRIES is 0, and retry_do() never retries.
Fails(t) == th' = [th EXCEPT ![t].pc = "unlock", ![t].err = TRUE]
Succeeds(t, data) == th' = [th EXCEPT ![t].pc = "unlock", ![t].data = data]
Fault(kind) == kind \in Faults /\ faults < MaxFaults /\ faults' = faults + 1

(***************************************************************************)
(* One scan: whether its bits reach the debug unit, and where it leaves    *)
(* the TAP, complete or cut off before tap_exit_to_idle().                 *)
(***************************************************************************)
Reaches == AfterShiftDr(tap) = "SHIFT_DR" /\ ir = "debug"
ScanCutOff ==
  /\ tap' = AfterLastBit(AfterShiftDr(tap))
  /\ ir' = IF AfterShiftDr(tap) = "SHIFT_IR" THEN "other" ELSE ir
ScanDone ==
  /\ tap' = AfterExitToIdle(AfterLastBit(AfterShiftDr(tap)))
  /\ ir' = IF AfterShiftDr(tap) = "SHIFT_IR" THEN "other" ELSE ir

(***************************************************************************)
(* dbg_api.c: a call, the mutex around it, its return.                     *)
(***************************************************************************)
\* A call for no words returns at once.
Call(t, c) ==
  /\ At(t, "idle")
  /\ calls < MaxCalls
  /\ calls' = calls + 1
  /\ th' = [th EXCEPT ![t] = [pc |-> IF c.len = 0 /\ c.mod = "wb" THEN "idle" ELSE "lock", call |-> c,
                              part |-> 0, i |-> 0, bus |-> 0, err |-> FALSE, data |-> << >>, sound |-> TRUE]]
  /\ UNCHANGED <<build, mutex, sw, hw, faults, exited>>

\* What every call takes for granted: the TAP is in IDLE, and the module cached
\* as selected is the one selected.
Sound == tap = "IDLE" /\ current_chain \in {NoModule, unit.sel}

Lock(t) ==
  /\ At(t, "lock")
  /\ mutex = NoThread
  /\ mutex' = t
  /\ th' = [th EXCEPT ![t].pc = IF Advanced THEN "select" ELSE "set_chain", ![t].sound = Sound]
  /\ UNCHANGED <<build, sw, hw, faults, calls, exited>>

UnlockKeepsOnError(t) ==
  /\ At(t, "unlock")
  /\ mutex' = IF th[t].err THEN mutex ELSE NoThread
  /\ Goto(t, "idle")
  /\ UNCHANGED <<build, sw, hw, faults, calls, exited>>

\* cable_flush(), unlock, and the next register of a loop, failed or not.
Unlock(t) ==
  /\ At(t, "unlock")
  /\ mutex' = NoThread
  /\ LET more == IsLoop(th[t].call) /\ th[t].part + 1 < th[t].call.len
     IN th' = [th EXCEPT ![t].pc = IF more THEN "lock" ELSE "idle",
                         ![t].part = IF more THEN @ + 1 ELSE @]
  /\ UNCHANGED <<build, sw, hw, faults, calls, exited>>

(***************************************************************************)
(* adv_dbg_commands.c                                                      *)
(***************************************************************************)
AfterSelect(c) == CASE c.op \in {"read", "write"} -> "command"
                    [] c.op = "rctrl" -> "ctrl_read"
                    [] c.op = "wctrl" -> "ctrl_write"
                    [] c.op = "jsp" -> "transact"

\* A scan ends with UPDATE_DR, which ends a burst the unit was in the middle of.
Transferred == [unit EXCEPT !.burst = NoBurst]
Selected(m) == unit' = IF Reaches THEN [Transferred EXCEPT !.sel = m] ELSE Transferred

\* adbg_select_module(): nothing is read back, so the module counts as
\* selected whatever the cable reports.
adbg_select_module(t) ==
  LET m == Part(t).sel
  IN /\ At(t, "select")
     /\ IF current_chain = m
        THEN /\ Goto(t, AfterSelect(Part(t)))
             /\ UNCHANGED <<sw, hw, faults>>
        ELSE /\ current_chain' = m /\ desired_chain' = m
             /\ ScanDone
             /\ UNCHANGED mem
             /\ \/ Selected(m) /\ Goto(t, AfterSelect(Part(t))) /\ UNCHANGED faults
                \/ Fault("cable") /\ Fails(t) /\ (Selected(m) \/ unit' = Transferred)
     /\ UNCHANGED <<build, mutex, calls, exited>>

\* The burst a command asks for, from the failed word on.  After an error
\* address that is not the call's own the length can be negative or too long
\* for its field, and runs into the address field above it.
Burst(t) ==
  LET c == Part(t)
      left == c.len - th[t].i
  IN [op : {c.op}, adr : IF left \in 0..(LengthField - 1) THEN {c.adr + th[t].i} ELSE Addrs, len : {left % LengthField}]

\* adbg_burst_command().  On a Xilinx BSCAN the IR is then loaded twice
\* before a read, and tap_set_ir() forgets the selected module.
adbg_burst_command(t) ==
  /\ At(t, "command")
  /\ ScanDone
  /\ \E b \in Burst(t) : unit' = IF Reaches /\ b.len > 0 THEN [unit EXCEPT !.burst = b] ELSE Transferred
  /\ \/ Goto(t, Part(t).op) /\ UNCHANGED faults
     \/ Fault("cable") /\ Fails(t)
  /\ current_chain' = IF build.xilinx /\ Part(t).op = "read" THEN NoModule ELSE current_chain
  /\ UNCHANGED <<build, mutex, desired_chain, mem, calls, exited>>

\* What the unit sends for a burst of words.
UnitWord(m, a) == IF m \in Memories /\ a \in Addrs THEN mem[m][a] ELSE Garbage
Bursting(op) == Reaches /\ unit.burst.op = op
BurstWords == [k \in 1..unit.burst.len |-> UnitWord(unit.sel, unit.burst.adr + k - 1)]
\* Of a burst that has run away, the part in the modelled addresses can fail.
CanFail(k) == unit.sel = "wb" /\ k \in 1..unit.burst.len /\ unit.burst.adr + k - 1 \in Addrs
Latched(k) == [Transferred EXCEPT !.wberr = IF @ = NoAddr THEN unit.burst.adr + k - 1 ELSE @]

\* What follows a burst whose CRC is right.
AfterBurst == IF current_chain = "wb" THEN "error_check" ELSE "unlock"

\* No status bit in MAX_READ_STATUS_WAIT reads: adbg_wb_burst_read() gives up
\* in SHIFT_DR.
BurstReadTimesOut(t) ==
  /\ At(t, "read")
  /\ \/ ~Bursting("read") /\ UNCHANGED faults
     \/ Bursting("read") /\ Fault("timeout")
  /\ tap' = AfterShiftDr(tap)
  /\ Fails(t)
  /\ UNCHANGED <<build, mutex, sw, ir, unit, mem, calls, exited>>

\* A unit that is in no burst shifts its register out: a 1 in it passes for the
\* status bit, and what is read then has no CRC.
BurstReadOfRegister(t) ==
  /\ At(t, "read") /\ ~Bursting("read")
  /\ ScanDone
  /\ Fails(t)
  /\ UNCHANGED <<build, mutex, sw, unit, mem, faults, calls, exited>>

BurstReadIgnoresCrc(t) ==
  /\ At(t, "read") /\ Bursting("read")
  /\ ScanDone
  /\ \/ unit' = Transferred /\ UNCHANGED faults
        /\ th' = [th EXCEPT ![t].pc = AfterBurst, ![t].data = BurstWords]
     \/ unit' = Transferred /\ Fault("corrupt")
        /\ th' = [th EXCEPT ![t].pc = AfterBurst, ![t].data = [k \in DOMAIN BurstWords |-> Garbage]]
  /\ UNCHANGED <<build, mutex, sw, mem, calls, exited>>

\* All the call's words and the CRC in one stream.  After a partial retry the
\* unit sends fewer words than are read, and the CRC does not match.
adbg_wb_burst_read(t) ==
  /\ At(t, "read") /\ Bursting("read")
  /\ ScanDone
  /\ \/ /\ unit' = Transferred /\ UNCHANGED faults
        /\ IF unit.burst.len = Part(t).len
           THEN th' = [th EXCEPT ![t].pc = AfterBurst, ![t].data = BurstWords]
           ELSE Fails(t)
     \/ /\ unit' = Transferred /\ Fault("corrupt")
        /\ Fails(t)
     \/ \E k \in 1..Words :
          /\ CanFail(k) /\ Fault("bus")
          /\ unit' = Latched(k)
          /\ IF unit.burst.len = Part(t).len
             THEN th' = [th EXCEPT ![t].pc = AfterBurst, ![t].data = [BurstWords EXCEPT ![k] = Garbage]]
             ELSE Fails(t)
  /\ UNCHANGED <<build, mutex, sw, mem, calls, exited>>

\* The words a write burst stores: the stream's, from its beginning, and the
\* CRC after them where the unit expects more words than were sent.
Stored(stream, lost) ==
  LET first == unit.burst.adr
      Word(a) == IF a - first + 1 \in DOMAIN stream THEN stream[a - first + 1] ELSE Garbage
      taken == {a \in first..(first + unit.burst.len - 1) : a - first <= Len(stream)} \ lost
  IN IF unit.sel \in Memories
     THEN [mem EXCEPT ![unit.sel] = [a \in Addrs |-> IF a \in taken THEN Word(a) ELSE @[a]]]
     ELSE mem

\* The unit's verdict on an undamaged stream: the CRC is where it expects it.
MatchBit(words) == unit.burst.len = Len(words)

\* adbg_wb_burst_write(): the stream is all the words of the call, on a
\* partial retry too.  The bridge exits if the unit reports a bad CRC.
adbg_wb_burst_write(t) ==
  LET words == Sent(t)
      Continue == exited' = ~MatchBit(words) /\ Goto(t, AfterBurst)
  IN /\ At(t, "write")
     /\ ScanDone
     /\ \/ /\ Bursting("write")
           /\ mem' = Stored(words, {}) /\ unit' = Transferred /\ UNCHANGED faults
           /\ Continue
        \/ /\ Bursting("write") /\ Fault("corrupt")
           /\ \E k \in DOMAIN words : mem' = Stored([words EXCEPT ![k] = Garbage], {})
           /\ unit' = Transferred /\ exited' = TRUE /\ UNCHANGED th
        \/ /\ Bursting("write")
           /\ \E k \in 1..Words : /\ CanFail(k) /\ Fault("bus")
                                  /\ mem' = Stored(words, {unit.burst.adr + k - 1})
                                  /\ unit' = Latched(k)
           /\ Continue
        \/ /\ ~Bursting("write")                  \* no burst, no match bit
           /\ exited' = TRUE
           /\ UNCHANGED <<th, unit, mem, faults>>
     /\ UNCHANGED <<build, mutex, sw, calls>>

\* The index of the word at the address in the error register.
RetryFrom(t) == unit.wberr - Part(t).adr

\* The error register after a Wishbone burst: adbg_ctrl_read() of its flag, of
\* the address, and adbg_ctrl_write() to reset it, unless there were too many.
\* The retry starts at the failed word.
ErrorCheck(t) ==
  LET tries == th[t].bus + 1
  IN /\ At(t, "error_check")
     /\ IF unit.wberr = NoAddr \/ ~Reaches
        THEN Goto(t, "unlock") /\ UNCHANGED unit
        ELSE IF tries > MaxBusErrors
        THEN /\ th' = [th EXCEPT ![t].pc = "unlock", ![t].err = TRUE, ![t].bus = tries]
             /\ UNCHANGED unit
        ELSE /\ th' = [th EXCEPT ![t].pc = "command", ![t].bus = tries,
                                 ![t].i = RetryFrom(t)]
             /\ unit' = [unit EXCEPT !.wberr = NoAddr]
     /\ ScanDone
     /\ UNCHANGED <<build, mutex, sw, mem, faults, calls, exited>>

\* adbg_ctrl_write() of the CPU module's register: bit 0 stalls.
adbg_ctrl_write(t) ==
  /\ At(t, "ctrl_write")
  /\ ScanDone
  /\ unit' = IF Reaches /\ unit.sel \in DOMAIN unit.ctrl
             THEN [unit EXCEPT !.ctrl[unit.sel] = Part(t).adr] ELSE unit
  /\ \/ Succeeds(t, << >>) /\ UNCHANGED faults
     \/ Fault("cable") /\ Fails(t)
  /\ UNCHANGED <<build, mutex, sw, mem, calls, exited>>

\* The one register of whatever module the unit has selected, which
\* adbg_select_ctrl_reg() selects; the Wishbone module's is its error register.
ModuleRegister ==
  CASE ~Reaches -> "?"
    [] Reaches /\ unit.sel \in DOMAIN unit.ctrl -> unit.ctrl[unit.sel]
    [] OTHER -> IF unit.wberr = NoAddr THEN 0 ELSE 1

adbg_ctrl_read(t) ==
  /\ At(t, "ctrl_read")
  /\ ScanDone
  /\ \/ Succeeds(t, <<ModuleRegister>>) /\ UNCHANGED faults
     \/ Fault("cable") /\ Fails(t)
  /\ UNCHANGED <<build, mutex, sw, unit, mem, calls, exited>>

Least(a, b) == IF a < b THEN a ELSE b

JspTransactOverfills(t) ==
  /\ At(t, "transact")
  /\ ScanDone
  /\ Succeeds(t, <<Part(t).len, unit.avail, Part(t).len>>)
  /\ unit' = [unit EXCEPT !.room = @ - Part(t).len, !.avail = 0]
  /\ UNCHANGED <<build, mutex, sw, mem, faults, calls, exited>>

\* adbg_jsp_transact(): the unit takes what it has room for of the bytes
\* announced, and the call reports min(asked, room) sent and all that waited
\* received.  The counts of any other module are meaningless.
adbg_jsp_transact(t) ==
  LET taken == IF unit.sel = "jsp" THEN Least(Least(Part(t).len, JspMax), unit.room) ELSE 0
  IN /\ At(t, "transact")
     /\ ScanDone
     /\ \E room, avail \in 0..JspMax :
          /\ unit.sel = "jsp" => room = unit.room /\ avail = unit.avail
          /\ Succeeds(t, <<Least(Part(t).len, room), avail, taken>>)
     /\ unit' = IF unit.sel = "jsp" THEN [unit EXCEPT !.room = @ - taken, !.avail = 0] ELSE unit
     /\ UNCHANGED <<build, mutex, sw, mem, faults, calls, exited>>

\* The program on the target takes bytes and writes others; only a transaction
\* about to happen can tell when.
TargetSerial ==
  /\ \E t \in Threads : At(t, "transact")
  /\ \E r \in unit.room..JspMax, a \in unit.avail..JspMax :
       /\ <<r, a>> # <<unit.room, unit.avail>>
       /\ unit' = [unit EXCEPT !.room = r, !.avail = a]
  /\ UNCHANGED <<build, mutex, th, sw, tap, ir, mem, faults, calls, exited>>

(***************************************************************************)
(* legacy_dbg_commands.c.  Every command is answered with a status and a   *)
(* CRC; when either is wrong the function returns before                   *)
(* tap_exit_to_idle().                                                     *)
(***************************************************************************)
\* The scan of a command that, done, makes the unit u and the memory m.
LegacyScan(t, u, m) ==
  \/ /\ Reaches
     /\ unit' = u /\ mem' = m /\ UNCHANGED faults
     /\ ScanDone
  \/ /\ IF Reaches THEN Fault("corrupt") ELSE UNCHANGED faults
     /\ \/ UNCHANGED <<unit, mem>>
        \/ Reaches /\ unit' = u /\ mem' = m
     /\ ScanCutOff

\* What the caller makes of it: a scan that ends in IDLE has succeeded.
LegacyResult(t, next, data) ==
  IF Reaches /\ faults' = faults
  THEN th' = [th EXCEPT ![t].pc = next, ![t].data = @ \o data]
  ELSE Fails(t)

AfterSetChain(c) == CASE c.op \in {"read", "write"} -> "legacy_command"
                      [] c.op = "rctrl" -> "legacy_ctrl_read"
                      [] c.op = "wctrl" -> "legacy_ctrl"

\* legacy_dbg_set_chain(): cached once it has succeeded.
legacy_dbg_set_chain(t) ==
  LET m == Part(t).sel
  IN /\ At(t, "set_chain")
     /\ desired_chain' = m
     /\ IF current_chain = m
        THEN Goto(t, AfterSetChain(Part(t))) /\ UNCHANGED <<current_chain, hw, faults>>
        ELSE /\ LegacyScan(t, [unit EXCEPT !.sel = m], mem)
             /\ LegacyResult(t, AfterSetChain(Part(t)), << >>)
             /\ current_chain' = IF Reaches /\ faults' = faults THEN m ELSE NoModule
     /\ UNCHANGED <<build, mutex, calls, exited>>

legacy_dbg_command(t) ==
  LET c == Part(t)
  IN /\ At(t, "legacy_command")
     /\ LegacyScan(t, [unit EXCEPT !.burst = [op |-> c.op, adr |-> c.adr, len |-> c.len]], mem)
     /\ LegacyResult(t, "legacy_go", << >>)
     /\ UNCHANGED <<build, mutex, sw, calls, exited>>

\* legacy_dbg_go(): the bytes of the words, in the order they lie in memory.
legacy_dbg_go(t) ==
  LET stream == [k \in DOMAIN Sent(t) |-> LegacyWrites(Sent(t)[k])]
      writes == Part(t).op = "write"
  IN /\ At(t, "legacy_go")
     /\ LegacyScan(t, Transferred, IF writes THEN Stored(stream, {}) ELSE mem)
     /\ LegacyResult(t, "unlock", IF writes THEN << >> ELSE [k \in DOMAIN BurstWords |-> LegacyReads(BurstWords[k])])
     /\ UNCHANGED <<build, mutex, sw, calls, exited>>

legacy_dbg_ctrl(t) ==
  /\ At(t, "legacy_ctrl")
  /\ LegacyScan(t, [unit EXCEPT !.ctrl[unit.sel] = Part(t).adr], mem)
  /\ LegacyResult(t, "unlock", << >>)
  /\ UNCHANGED <<build, mutex, sw, calls, exited>>

legacy_dbg_ctrl_read(t) ==
  /\ At(t, "legacy_ctrl_read")
  /\ LegacyScan(t, unit, mem)
  /\ LegacyResult(t, "unlock", <<unit.ctrl[unit.sel]>>)
  /\ UNCHANGED <<build, mutex, sw, calls, exited>>

Step(t) ==
  \/ Lock(t) \/ Unlock(t)
  \/ adbg_select_module(t) \/ adbg_burst_command(t)
  \/ BurstReadTimesOut(t) \/ BurstReadOfRegister(t) \/ adbg_wb_burst_read(t) \/ adbg_wb_burst_write(t) \/ ErrorCheck(t)
  \/ adbg_ctrl_write(t) \/ adbg_ctrl_read(t) \/ adbg_jsp_transact(t)
  \/ legacy_dbg_set_chain(t) \/ legacy_dbg_command(t) \/ legacy_dbg_go(t)
  \/ legacy_dbg_ctrl(t) \/ legacy_dbg_ctrl_read(t)

Next ==
  \/ \E t \in Threads : Step(t) \/ \E c \in Calls(t, build) : Call(t, c)
  \/ TargetSerial

Spec == Init /\ [][Next]_vars

(***************************************************************************)
(* Properties.                                                             *)
(***************************************************************************)
WordValues == {<<t, ToString(k)>> : t \in Threads, k \in 1..Words} \cup {Erased, Garbage}

AccessTypeOK ==
  /\ build \in Builds
  /\ mutex \in Threads \cup {NoThread}
  /\ \A t \in Threads : th[t].part \in 0..Words /\ th[t].i \in (-Words)..Words
                       /\ th[t].bus \in 0..(MaxBusErrors + 1) /\ th[t].err \in BOOLEAN
  /\ {current_chain, desired_chain, unit.sel} \subseteq Modules \cup {NoModule}
  /\ tap \in TapStates /\ ir \in {"debug", "other"}
  /\ unit.wberr \in Addrs \cup {NoAddr} /\ {unit.room, unit.avail} \subseteq 0..JspMax
  /\ mem \in [Memories -> [Addrs -> WordValues]]
  /\ faults \in 0..MaxFaults /\ calls \in 0..MaxCalls /\ exited \in BOOLEAN

\* The call, or the part of a loop, that t is about to return from has done
\* what it was called for, in the module it was called for.
Done(t) ==
  LET c == Part(t)
  IN CASE c.op = "read" -> \A k \in 1..c.len : th[t].data[th[t].part + k] = mem[c.mod][c.adr + k - 1]
       [] c.op = "write" -> \A k \in 1..c.len : mem[c.mod][c.adr + k - 1] = Sent(t)[k]
       [] c.op = "rctrl" -> th[t].data = <<unit.ctrl[c.mod]>>
       [] c.op = "wctrl" -> unit.ctrl[c.mod] = c.adr
       [] c.op = "jsp" -> th[t].data[1] = th[t].data[3]

\* A call of the debug API that starts with the debug unit as the code expects
\* it and returns APP_ERR_NONE has read or written exactly the words asked
\* for, in the module asked for, all of them at one instant (the mutex is
\* still held): through bus errors, partial retries, an error register left
\* set by an earlier call, damaged transfers, and whatever the other threads
\* did before.  And it leaves the debug unit as the next call expects it: TAP
\* in IDLE and the cached module selected, so that only a call that reports
\* an error can spoil the calls after it.
SuccessMeansDone ==
  \A t \in Threads : At(t, "unlock") /\ ~th[t].err /\ th[t].sound => Done(t) /\ Sound

\* "Currently selected scan chain in the debug unit": the module the bridge
\* believes selected is the one the debug unit has selected.
SelectionTrue == current_chain \in {NoModule, unit.sel}

\* The mutex is held by a thread inside a call and by no other: on every way
\* out of every function, the failed ones too, it is given back exactly once,
\* so that no thread waits for a mutex nobody will release.
MutexGivenBack ==
  \A t \in Threads : (mutex = t) <=> (th[t].pc \notin {"idle", "lock"})

\* "It should be the last thing called in any debug unit transaction": when
\* no call is in progress tap_exit_to_idle() has brought the TAP to IDLE,
\* from where the next call's tap_set_shift_dr() starts.
IdleBetweenCalls == mutex = NoThread /\ ~exited => tap = "IDLE"

\* A burst write stores, at each address of the call, the word the caller
\* passed for that address (or, if the transfer was damaged, a damaged word),
\* and nothing anywhere else; "word_count-i in case of partial retry".
WritesAreAsked ==
  [][\A m \in Memories : \A a \in Addrs :
       mem'[m][a] # mem[m][a] =>
         /\ mutex # NoThread
         /\ LET c == Part(mutex)
            IN /\ c.op = "write" /\ m = c.mod /\ a \in c.adr..(c.adr + c.len - 1)
               /\ mem'[m][a] \in {Sent(mutex)[a - c.adr + 1], Garbage}]_vars
=============================================================================
