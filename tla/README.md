# A TLA+ verification project for SPECS

SPECS is an OR1200 system on chip whose processor checks itself with assertions:
a fired assertion becomes an exception with a handler of its own. The repository
holds the processor and its assertion fabric (Verilog, `src/hardware/cores`),
and `adv_jtag_bridge` (C), the multi-threaded program that connects GDB, a serial
console and a watchpoint GUI to the chip over JTAG. This project models both ends:
the path from a fired assertion to its exception, and the threads of the bridge.

Paths below are relative to `src/`; `B/` is
`hardware/cores/adv_debug_sys/Software/adv_jtag_bridge/` and `O/` is
`hardware/cores/or1200/`.

## 1. Inventory

| Component | State | Operations | Hard behaviour | What makes it correct |
|---|---|---|---|---|
| Stall monitor `B/hardware_monitor.c` | connection table and count under `pipes_mutex`, two pipes per server, belief `target_is_running` | register, unregister, command loop, poll, notify | unlocked test of the limit; blocking writes with the mutex held; failed JTAG writes; failed `pipe()` | table names exactly the open pipes; belief agrees with the hardware; every listener learns of every change; the loop always comes round |
| RSP server `B/rsp-server.c` | session, `target_running`, `client_waiting`, matchpoint hash, cached NPC, packet buffer | accept, attach, BREAK, continue and step, queries, register and memory access, matchpoints, detach, close, stop event | asynchronous stall and unstall through the monitor; late events; closing with commands in flight | GDB is told the truth about stops, always hears of a stop, and a closed session leaves nothing behind |
| JTAG serial port server `B/jsp_server.c` | two ring buffers, client socket, `jsp_target_is_running` | accept, select, read event, receive, send, transact | wrap-around, short reads and writes, partial acceptance by the port, end of file | each ring is a FIFO channel; a running target is served; a lost client is noticed |
| Hardware watchpoint server `B/hwp_server.c` | client, `hwp_in_use`, DMR/DVR/DCR registers | accept, event, request, client gone | shares watchpoints and DMR with the RSP thread without a lock | reads its events; no watchpoint has two owners |
| Watchpoint control program (`AdvancedWatchpointControl`, Java) | a copy of the debug registers | read all, write all | half of a set written; stale copy of DMR1/DMR2 | what the person set is what the CPU compares |
| Debug API and module commands `B/dbg_api.c`, `adv_dbg_commands.c`, `legacy_dbg_commands.c` | access mutex, cached module, CRC, the debug unit's registers | select, control access, burst read and write, JSP transaction | CRC retry, bus error in mid-burst, stale caches, a TAP left in mid-scan | a call that reports success did what was asked, in the module asked for |
| JTAG chain `B/chain_commands.c`, `cable_common.c` | TAP state, lengths and positions on the chain | TAP walks, IR and DR scans, IDCODE, enumeration | devices before and behind the target, stuck lines, failing cables | only the target is selected, and a scan reaches exactly it |
| BSDL reader `B/bsdl.c`, `bsdl_parse.c`, start-up `B/adv_jtag_bridge.c` | device descriptions read so far, options | look-up, lazy parsing, chain configuration | unreadable and incomplete files, don't-care bits | start-up ends, with the right configuration or with an error |
| Cable drivers, self-test, support (`B/cable_*.c`, `or32_selftest.c`, `errcodes.c`, `utilities.c`) | per-device I/O state | bit streams, fixed test sequences | I/O only | - |
| SPECS assertions `hardware/cores/fabric` | history registers of the OVL monitors | always, always-on-edge, next, delta, combo, proposition; `BakedInAssertions` combines them | enables and resets, windows of several cycles | a violated condition fires, a satisfied one does not |
| OR1200 exception path `O/or1200_cpu.v`, `or1200_except.v`, `or1200_ctrl.v`, `or1200_freeze.v`, `or1200_rf.v` | request registers, exception FSM, pipeline slots, EPCR/EEAR/ESR and ghosts | one clock cycle | stalls, competing exceptions, the debugger, a violation during another's handling | nothing gets past a violation, one exception each, always answered; the program's exception state survives |
| Rest of the SoC, bench, vendor DDR2 controller, planted-bug patches, test programs, build files | - | - | - | not changed by SPECS, generated, or data |

How they interact: a server sends `S`/`U` (stall, unstall) to the monitor through
its own pipe and gets `H`/`R` (halted, running) back through another. The
monitor is the only one to move the CPU's stall bit, with the exception of the
CPU itself, which stops at a trap. Servers talk to their clients over TCP and to
the chip through the debug API, one access at a time under its mutex. On the chip
a violation enters the exception logic as an illegal instruction; `DSR[IIE]`,
which the RSP server sets for every session (`B/rsp-server.c:707`), sends it to
the debugger instead of to the handler.

`PROJECT.json` lists every component with its status, and under `hazards`, line by
line, what in this code is hard to test.

## 2. Modules and the code

| Module | Models | State and actions |
|---|---|---|
| `HardwareMonitor` | `hardware_monitor.c` with any clients of its API | The variables are the file's globals, the pipes, and the thread's place and loop indices (`mpc`, `mi`, `mj`, `readset`). `RegisterCheck`/`Register`/`RegisterFails`, `Unregister`, `SendCmd`, `RecvEvent` run on a server's thread; `Mon...` are the monitor's. A block under the mutex that touches only guarded data is one step; where the monitor keeps the mutex over a JTAG or pipe access the hold is explicit. |
| `RspServer` | `rsp-server.c` sessions on `main()`'s thread, the listeners, GDB and the CPU | EXTENDS `HardwareMonitor`; `rpc` is the place in `handle_rsp()` and in `rsp_client_close()`, whose queued stall, DSR write, queued unstall and unregistration are separate steps. Packets are reduced to what they make the server do. |
| `ByteChannel` | abstract | a FIFO of numbered bytes: what each ring of the JSP server promises |
| `JspServer` | `jsp_server.c` | both rings with their arrays, indices and counts, one step per system call and per transaction. The k-th byte of a direction is named k. `ToHw` and `FromHw` instantiate `ByteChannel` with the ring's contents. |
| `SpecsException` | one clock cycle of the exception path | the request registers (`violated_reg`, `hold`, `except_illegal`), the FSM, the ID and EX slots, the freezes, the GPR strobe, the edge detector of checker 16. `Clock(in)` takes everything the rest of the chip does in a cycle as a record of inputs; `Possible(in)` says which inputs can meet which state. `debt`, `leaked` and `lost_write` are history variables. |
| `RequestChannel` | abstract | requests asked one at a time, performed (again, if repeated) only while they wait, and answered by their own reply: what the packet layer promises GDB |
| `RspPackets` | `get_packet()`, `put_packet()` and the poll of `handle_rsp()` | the two directions of the socket character by character (`toSrv`, `toGdb`), the server's and GDB's places, the monitor's events; `performed` and `answers` record which requests were performed and which packets were taken for replies, in order. The line damages characters, GDB repeats on a timeout, too early, or types ^C. |
| `GdbRequests` | every request of `rsp_client_request()` and the stop event | memory, NPC (and what reading it gives), PPC, DRR, the matchpoint hash, the cached NPC, `sigval`; one action per `rsp_...` function, since the CPU is stopped and nobody else touches this state. `prog`, `due` and `cause` are history variables: the program as GDB loaded it, the instruction it must execute next, the reason of the last stop. |
| `MpHash` | `mp_hash_...` | the hash table as a set of entries; add, look up, delete |
| `Watchpoints` | hardware breakpoints of GDB (`rsp-server.c`), `hwp_server.c`, the Java client, the CPU's watchpoint unit | one action per register access (each takes and gives back the access mutex), so that read-modify-write of DMR1/DMR2 can be interrupted; `hwp_in_use`, `single_step_mode`, the client's register copy |
| `Tap` | the TAP controller | states and moves |
| `ScanChain` | `chain_commands.c`, `cable_common.c`, the devices on the chain | a function is the sequence of clocks it sends; `Clock` sends one through the scan path of the whole chain, `CableFails` is a failing one |
| `Bsdl` | `bsdl.c`, `bsdl_parse.c` | operators: statements to device description, look-up through cache, parsed devices and unread files |
| `ChainSetup` | `main()`, `configure_chain()`, `jtag_enumerate_chain()` | EXTENDS `ScanChain` and `Bsdl`; `pc` is the place in start-up, afterwards `DebugScan` sends scans through the debug unit |
| `DebugAccess` | `dbg_api.c` and the two command files, with the debug unit behind them | each thread's place in its call, the mutex, `current_chain`, TAP and debug unit; one action per scan. Both kinds of debug hardware; `Calls` is what each thread calls of each build's API (`ApiCalls`). |
| `RspServerProofs`, `JspServerProofs`, `WatchpointsProofs`, `DebugAccessProofs`, `GdbRequestsProofs`, `RspPacketsProofs`, `SpecsExceptionProofs`, `ChainSetupProofs` | - | theorems and proofs (section 4); `RspServerProofs` has those of the stall monitor first, of `HardwareMonitor`'s own `Spec`, and reuses their invariant for the bridge |
| `MC...` | - | what TLC is started on (for `GdbRequests` and `RspPackets`, the modules themselves); `MCHardwareMonitor` adds the symmetry of servers and descriptors |

Simplifications, all on the data side. `HardwareMonitor`: a pair of pipes
is one name, reused after it is closed as the kernel does. All callers of
`register_with_monitor_thread()` run on `main()`'s thread, so one registration is
in progress at a time. `SpecsException`: an instruction is an empty slot, one of the
program, one of the violation handler or one that does not decode; the other
exceptions are grouped by when they can be raised (fetch faults above ILLEGAL in
priority; data faults, breakpoints and traps of the instruction in EX; events
that wait for an unfrozen EX). `force_dslot_fetch` is tied to 0 in the code, so
ID is frozen only when EX is. A checker that may fire is free to fire or not: what it compares is left
to `OvlMonitors` (section 6). SPR writes of the debugger happen in a stalled core.
`RspPackets`: a packet has one character of data, its number, and its checksum is
that number: what the line does to it is detected. `GdbRequests`: memory is program
words, the registers other than NPC and PPC are not looked at. `Watchpoints`: bit
fields are sets of watchpoints; the counters (DWCR) are left out. `ScanChain`: words
and IDCODEs are a few bits long, every bit is there. `DebugAccess`: a word is two
bytes, a CRC detects every damaged transfer, and a scan that does not start in IDLE
does not reach the debug unit; a burst length that does not fit its field (`LengthField`)
is ORed into the address, which is then any. What the debug unit and the CPU do is taken from how the
code uses them, and for the TAP and the watchpoint unit from the RTL and the patch in
the repository.

Operators whose name ends in what they get wrong (`RoomLeftOffByOne`,
`NextHoldSticky`, ...) are mutants: each is a plausible bug in the definition after
it, and shows that the property paired with it in `PROJECT.json` can fail.

## 3. Runs

`tlc -config <run>.cfg <module>`, from this directory.

| Run | Checks | Shows |
|---|---|---|
| `HardwareMonitor` | `TypeOK`, `TableConsistent`, `StoppedIsStopped`, `DrainedServerAgrees` | three servers on a monitor with room for two: the unlocked limit test cannot overflow the table; the moved entry never leaves a stale or double one; no running CPU is taken for a stopped one (unless a control write failed); a listener that has read everything knows the monitor's belief |
| `RspSafety` | `BridgeTypeOK`, `StopReplyTruthful`, `ClosedSessionIsOver` | GDB is told of a stop only while the CPU is stopped; after a close nothing of the session is executed |
| `RspLiveness` | `NoSilentStop`, `MonitorLoopsBack`, `UsesMonitorApi` | GDB is never left waiting for a CPU that has stopped for good; the monitor always gets back to `select()`; each thread is a client as `HardwareMonitor` specifies (refinement), so that what is proved there holds of the bridge |
| `JspChannels` | `JspTypeOK`, `ToHwIsChannel`, `FromHwIsChannel`, `RunningIsServed` | both rings refine `ByteChannel`; a running target is served |
| `SpecsException` | `SpecsTypeOK`, `NothingLeaks`, `IllegalHasCause`, `ViolationAnswered` | no instruction leaves EX and no GPR is written between a violation and its exception; the handler is entered only for a cause; every violation outside the handling of another is answered by the exception or, with `DSR[IIE]`, by a request to stop |
| `ChainSetup` | `SetupTypeOK`, `EnumerationExact`, `OnlyTargetSelected`, `ScansLandInTarget`, `StartupEnds` | on every chain of up to three devices and every target in it, with and without IDCODEs, BSDL files, Altera virtual JTAG, a stuck TDO, a failing cable: the devices found are those on the chain, only the target's instruction is other than BYPASS, a scan writes and reads exactly the debug unit's bits, and start-up ends |
| `DebugAccess` | `AccessTypeOK`, `SuccessMeansDone`, `MutexGivenBack` | three threads, both kinds of hardware, damaged transfers, bus errors, time-outs and cable errors: a call that found the debug unit as the code expects it and reports success did exactly what was asked and leaves the unit so; no way out keeps the mutex |
| `Watchpoints` | `WatchTypeOK`, `WatchpointsAccounted`, `BreaksAsAsked`, `NpcResetForWatchpoints`, `StartsAsAsked` | GDB and the control program share two watchpoints: each has one owner or none, the CPU breaks where it was asked to and nowhere else, steps exactly when asked, and NPC is moved back exactly after a watchpoint |
| `GdbRequests` | `RequestTypeOK`, `ProgramKept`, `RunsWhatIsDue`, `PcTruthful`, `SignalTruthful`, `WaitsForRunningCpu` | breakpoints never damage the program, no instruction is skipped or executed twice, and the PC and the signal GDB is told are true |
| `RspPackets` | `PacketTypeOK`, `InStep`, `RequestAnswered` | with one incident (a damaged character, a query that GDB repeats too early, a ^C that crosses a packet) the packet layer implements `RequestChannel`: the server performs only the request GDB waits on and GDB takes only its reply for the reply; and every request is answered in the end. Any number of damaged characters and ^Cs is left to the proof (section 4). |

Two runs end in a violation: they state what a comment says and TLC shows the
code do otherwise.

| Run | Comment | What happens |
|---|---|---|
| `RspDetach` | "The rules say that execution should continue." (`B/rsp-server.c:809`) | the unstall comes after the close and is written to descriptor -1 |
| `BurstRetry` | "word_count-i in case of partial retry" (`B/adv_dbg_commands.c:628`) | a burst write resumed after a bus error sends the buffer from its beginning: its first words are stored at the failed address. The CRC no longer fits, and the program ends with exit(1). |

### Further configurations

Each widens one of the runs above to a case the passing run leaves out, and
ends in a violation. They mark the limits of what the passing runs say.

| Configuration (module) | Property | What the code says, and what happens |
|---|---|---|
| `RspRestart` (`MCRspServer`) | `RestartedAfterClose` | "If target was running, restart it." (`B/rsp-server.c:973`): closing the session closes the pipe with the unread `U` in it; the target stays stalled |
| `RspLostBreak` (`MCRspServer`) | `BreakIgnoredStopped` | "asynchronous BREAK received while target stopped" (`B/rsp-server.c:761`): a BREAK right behind a continue is dropped while the CPU runs |
| `RspFullPipe` (`MCRspServer`) | `MonitorLoopsBack` | "loop back to timeout determination" (`B/hardware_monitor.c:168`): a listener without a client never reads; with its pipe full the monitor blocks with the mutex held |
| `RspAck` (`RspPackets`) | `RequestAnswered` | "Repeat until the GDB client acknowledges satisfactory receipt." (`B/rsp-server.c:1005`): after two incidents `put_packet()` can take the `+` of one packet for that of another, and the reply that arrived damaged is not repeated |
| `RspRepeat` (`RspPackets`) | `InStep` | "Repeat until the GDB client acknowledges satisfactory receipt." (`B/rsp-server.c:1005`), with two early repetitions: the `+` of a repeated packet ends the wait for that of the next one, the repeated query is performed again after GDB has its reply, and its second `+` and reply are taken for those of the next request |
| `JspOverrun` (`MCJspServer`) | `FromHwIsChannel` | "Queue data received, if any" (`B/jsp_server.c:540`), with a slow client: the second ring has no check for room and overwrites unsent bytes |
| `JspHangUp` (`MCJspServer`) | `HangUpNoticed` | "for as long as it's valid" (`B/jsp_server.c:283`): `recv()` returning 0 is neither data nor error; the client is never given up |
| `JspResend` (`MCJspServer`) | `ToHwIsChannel` | a transaction that fails after the port took its bytes (`B/jsp_server.c:528`) sends them again |
| `SpecsDebugWrite` (`MCSpecsException`) | `DebuggerWriteLands` | "RF write enable is either from SPRS or normal from CPU control" (`O/or1200_rf.v:201`): a debugger's GPR write is judged by checker 16 as if the instruction in EX had made it; it is suppressed and a violation is left pending |
| `IrSpill` (`MCChainSetup`) | `OnlyTargetSelected` | "Deal with spill into the next word" (`B/chain_commands.c:207`): an instruction that crosses a word of the stream is not put together right |
| `LegacyIdle` (`MCDebugAccess`) | `IdleBetweenCalls` | "It should be the last thing called in any debug unit transaction." (`B/chain_commands.c:243`): after the last retry the legacy commands return without `tap_exit_to_idle()` |
| `LostSelect` (`MCDebugAccess`) | `SelectionTrue` | "Currently selected scan chain in the debug unit" (`B/chain_commands.c:43`): after a timed-out burst read the TAP is left in Shift-DR, the next selection does not reach the unit and is cached all the same |
| `XilinxBusError` (`MCDebugAccess`) | `SuccessMeansDone` | "Now, read the error register, and retry/recompute as necessary." (`B/adv_dbg_commands.c:531`): in Xilinx BSCAN mode a burst read resets `current_chain`, the test after it is skipped, and a failed read is reported as a success |
| `AbsentWatchpoint` (`MCWatchpoints`) | `BreaksAsAsked` | "Read all DCR, mark which are present." (`B/hwp_server.c:117`): a client that writes back what it read of an absent watchpoint marks it free, and GDB's breakpoint goes there |
| `RepeatedInsert` (`MCWatchpoints`) | `BreaksAsAsked` | "The implementation must cope with the possibility of duplicate packets." (`B/rsp-server.c:2775`): a repeated hardware breakpoint takes a second watchpoint, which is never given back |
| `WatchpointRace` (`MCWatchpoints`) | `WatchpointsAccounted` | "GDB only sets HWP as it is starting the CPU" (`B/hwp_server.c:803`): the control program can write between GDB's choice of a watchpoint and its use, and both have it |

Found while modelling and stated by no property: `C` and unknown `monitor` commands
are not answered, and GDB waits for good or gives up (`GdbGivesUp`); an address in `s` is ignored; a
short `X` packet is answered OK; `G` and `monitor writespr` write NPC past its cache,
so that with `FreeNpc = TRUE`, or with a failing write of NPC (`"npc" \in Faults`),
`PcTruthful` does not hold; a continue that is repeated before the monitor's `R` is
read is performed twice (`EarlyKinds` with `"c"`); a stray `+` keeps `get_packet()`,
and with it all events, waiting until GDB sends something; the index at which a burst read resumes
comes from the error address without a check (`B/adv_dbg_commands.c:532`), and when that address is a left-over
of an earlier call the length sent can exceed its 16 bits and change the address
(`B/adv_dbg_commands.c:315`): with memories larger than the length field reaches (`Words = 3`,
`LengthField = 2`, three faults) a burst of the right length at a wrong address is reported as a success.

### Bounds

- Three servers and three descriptors with a table of two: the table is full
  with one server waiting, a middle entry can be removed and the last moved into
  its place, and a descriptor is reused by another server. `PipeCap = 1` makes every
  second write block.
- In the bridge runs the table has its real size 5 and there are as many servers
  as it takes (RSP, one listener). A pipe of 3 or 4 bytes fills within one session; GDB has at most
  one request and a BREAK in flight (the guards of `GdbSends`).
- Rings of 3 bytes with transactions of 2 and 7 bytes each way: the indices go
  round more than twice, every split at the end of the array occurs, and a transaction
  can be larger than what is left. The code has 256 and 8, which changes only how often that happens.
- `MaxDuWrites = 2`: a debugger can set `DSR[IIE]`, and write a GPR or the PC in
  the same violation. Everything else in `SpecsException` is finite by itself.
- `ChainSetup`: chains of up to three devices from three kinds (without IDCODE, with,
  Altera), every target in each, and chains of up to five for the limits (`MaxDevices = 4`,
  `AllocSize = 1`: `idcodes[]` grows twice). Words of five bits make prefix, instruction and postfix
  cross words. One cable failure, anywhere.
- `DebugAccess`: bursts of two words, so that a retry resumes in the middle; two faults,
  since retries tolerate one (`MaxBusErrors = 1` makes the second the last); three calls by three threads: the one
  that goes wrong, the one that meets what it left, and one more.
- `Watchpoints`: two watchpoints, two addresses and two types; four requests insert,
  run, remove and run again; two edits with one failing access.
- `GdbRequests`: three words that wrap around, with a breakpoint, its predecessor and its successor;
  eight requests load, set, run, stop, step, remove and continue; four instructions per behaviour
  reach every breakpoint twice.
- `RspPackets`: three requests, so that an old packet can meet a later turn; one incident, since with two `InStep` and
  `RequestAnswered` no longer hold (`RspRepeat`, `RspAck`); a buffer that a frame without its end overruns.

### Fairness

- Monitor thread: weak. Threads are scheduled preemptively and each call returns
  when it can.
- `main()`: strong. A pthread mutex is not fair, but the monitor leaves it free for
  a quarter of a second in every `select()`.
- A listener's read of its pipe: strong; it selects on the pipe whenever it has a
  client. In `RspLiveness` the listener's client stays; `RspFullPipe` shows
  what happens without one.
- JSP thread: weak. Nothing is assumed of GDB, of the network clients or of how many bytes
  the serial port takes.
- `RspPackets`: weak for server, monitor, CPU and GDB, which all keep going, and for GDB's
  time-out, after which it repeats itself (for a continue, a person who types ^C). Strong for the
  server's read of an event: its socket is empty again and again, though not all the time.
- `ChainSetup`: weak for the one thread there is, written as an explicit disjunction with
  its end states.
- `SpecsException`: a quiet cycle (the instruction memory answers, nothing stalls,
  nothing else is raised) comes again and again. Caches and bus answer in finite
  time, and a debugger releases the core; between quiet cycles anything may happen.

## 4. Proofs

`tlapm <module>.tla` for each of the eight modules whose name ends in `Proofs`. Every theorem of an
invariant has the same shape: `Init` implies the inductive invariant, each step keeps it (one lemma
per action), and it implies the property. TLC has checked each inductive invariant on the run's
instance before it was proved.

**Stall monitor**, for any sets of servers and descriptors, any table size and pipe
capacity, with or without failing JTAG accesses and `pipe()` calls
(`MonitorAssumption`: sizes are positive, `NoFd` is not a descriptor). None of the
four invariants is inductive. `IInv` adds
- `LockInv`: the mutex is the monitor's exactly in its locked loops, the indices stay
  within the count meanwhile, and a registration past the test still has room;
- `TableInv`: slots, open pipes and the servers' own descriptors are in one-to-one
  correspondence (needed for the moved entry), and closed pipes are empty;
- `EventInv`: what is being announced is the monitor's belief;
- `NewsInv`: the newest event sent to a connection, read or not, is the belief,
  unless the announcement in progress has not reached its slot yet.

`InductiveInvariant` proves `Spec => []IInv`, one lemma per action; `TypeCorrect`,
`TableStaysConsistent`, `BeliefIsSafe` and `ListenersAgree` follow.

**Exception path**, for any number of debugger writes. `NothingLeaks` needs
`OwedIsHeld`: an owed violation is in the hold register and no ILLEGAL exception masks
it; then `abort_ex` freezes EX and the register file is closed. `IllegalHasCause`
needs the reverse, for the three registers that carry a request: a visible request
is owed (`RequestIsOwed`), and the decode register is set by a request or by an
undecodable instruction (`DecodeHasCause`). `SpecsTypeCorrect`, `NothingLeaksHolds`
and `IllegalHasCauseHolds` state the results.

**GDB's requests**, for programs of any length, any number of requests and
instructions, with or without failing memory accesses (`RequestAssumption`: there is at
least one word, and instructions are no-ops, illegal ones and traps). `ProgramKept` is
inductive by itself, once it is known that the hash table has one entry for an address:
`mp_hash_add()` ignores a repeated packet. GDB does not write memory under its own
breakpoints, which the model assumes of it. `RunsWhatIsDue` is not: between the CPU's stop and the
`H` event NPC is past the breakpoint, and only the event moves it back. `StopInv` says what
holds in that window: the cause, DRR and PPC belong together (PPC at a breakpoint means a
trap and a due instruction equal to PPC; otherwise NPC is right already), a running
CPU has left DRR empty, and once the stop is noticed NPC, `sigval` and what GDB was told agree
with the history. `RInv` is the conjunction; `Invariance` proves `Spec => []RInv` with one lemma per
kind of request, and `RequestTypeCorrect`, `BreakpointsKeepProgram`, `ProgramUndisturbed`,
`SignalOfThisStop` and `NoIdleWait` follow. `CachedNpcTruthful` adds `CacheInv`, where the PC of the next reply
comes from (the cache after a write, SPR_NPC after an instruction), and needs two
assumptions, that writes of NPC do not fail and that only `P` changes it; without
either TLC refutes the property.

**RSP sessions**, for any listeners, any table size and pipe capacity, with failing control accesses;
no hypothesis beyond the modules' assumptions. `ApiRefined` comes first: with `ApiInv` (in a
session `main()` has its pipes, before and after it none) every step of the bridge is a step of
`HardwareMonitor` or leaves its variables alone, so that `IInv` holds of the bridge. `ClosedIsOver` needs
`CommandInv` (only the RSP server commands, and the monitor executes a command only while that server is
registered) and `DsrInv` (the CPU stops by itself only in a session). `RepliesTruthful` needs `SessionInv`: at
most one start of the target is on its way to the server, as an unread `U`, as the announcement in progress
or as an unread `R`; none is once the server has read its `R`, so that an `H` after it is news, and none is while
GDB may still continue, which follows from GDB having one continue in flight (`GdbInv`).
`BridgeInvariant` proves the conjunction `BridgeInv`.

**Rings of the serial port server**, for every buffer and transaction size and any number of bytes. `RingInv`
says that the k-th byte of the unsent ones is at the read index plus k, modulo the size, and that the write
index is the read index plus the count; a split `recv()`, `send()` or `memcpy()` keeps it by the laws of `%`
proved first (`AtWraps`). `ToHwRefines` assumes that no transaction fails after the port took its bytes
(`LateFaults = FALSE`; `JspResend` refutes it otherwise). `FromHwRefines` assumes also that the client reads
(`ClientReads`; `JspOverrun` refutes it otherwise) and that a transaction fits the ring, as the code's 8 and 256 do.

**Watchpoints**, for any number of watchpoints, addresses, requests, edits and failing accesses. `TypeInv` and
`ControlInv` (which request is at which register access) need no hypothesis. With `ClientWaits` (the person
edits while the CPU is stopped and GDB holds no watchpoint, which is what `B/hwp_server.c:803` counts on), `TurnInv`
says that the two users exclude each other. `StepInv` follows the single-step bits and the watchpoint status from a
request to its stop: `single_step_mode` may be trusted because DMR1 agrees with it except between a
continue's write and its start. `NpcResetRight` and `StartRight` come from it. `TableInv` gives GDB a
watchpoint from its insert to the end of its remove, `RegisterInv` says what DVR, DCR, DMR1 and DMR2 of the
person's and of GDB's watchpoints hold at each step of a request; `TableRight` and `BreaksRight` come from these, and
assume that packets are not repeated and no watchpoint is absent. `WatchpointRace`, `RepeatedInsert` and
`AbsentWatchpoint` give up one assumption each and are refuted.

**Debug API**, for any threads and calls, memories of any size, any retry limit and number of faults, both kinds of
debug hardware. `AccessInv` has the types, the TAP states the scans can leave behind (`TapInv`), which place
belongs to which call and build (`ThreadOK`), what a legacy call has read so far (`DataOK`), and for the legacy
commands, whose cached module is always the selected one, `ChainInv`. `AccessTypes` and `MutexReturned` follow
from it without hypotheses. `SuccessDone` adds `DoneInv`: as long as a call that began with the debug unit
as the code expects has met no error, its module is selected (`ProgressOK`), the burst the unit is about to do is
the rest of the call (`BurstOK`), and no bus error recorded means that it is done. It assumes no Xilinx BSCAN build
(`XilinxBusError` refutes it there) and memories within the reach of a burst's length field, for the reason
given at the end of the list of section 3.

**Packet layer**, for every buffer size and any number of requests. `PacketTypes` needs `TypeInv`, in which packets on
their way to the server have the number of a request, and holds for any incidents. `RequestsInStep`, that the packet layer
implements `RequestChannel`, holds for any number of damaged characters and BREAKs and assumes that GDB
repeats no request early (`EarlyKinds = {}`; two early repetitions refute it, `RspRepeat`). It rests on a
token: the `#` of a request on its way, the server's reading of the checksum behind it and the `+` or `-` that
answers it are one thing that moves (`TurnInv`), damage can only destroy it, and GDB makes a new one only on `-` or after a
time-out, when nothing is on its way. That the token is really gone then needs `FrameInv`: the digits behind a `#`
are on the line, so a server inside a checksum has something to read. With at most one token a packet the server
receives is the current request, and `ReplyInv` says that all that follows its `+` is the reply to it, so that
what is left over from earlier turns is in front of the `+`, where GDB skips it. The first form of `InStep` compared
only the numbers of requests performed and answered; the attempt to prove it showed that an old reply taken for the
current one would have gone unnoticed, and `RequestChannel` now has the packets themselves.

**Start-up of the chain**, for chains of any length, IDCODEs, instruction registers and words of any number of bits, any
BSDL files and options, and any number of cable failures. `ChainAssumption` and `ScenarioAssumption` are what IEEE 1149.1 says of the
devices (BYPASS is all ones, a device's instructions differ from it and from each other, no manufacturer has the code that marks the
end of the chain) and the types of files, options and registers; an IDCODE fits a word, as the code's 32 bits do. `EnumerationIsExact` needs `EnumInv`, which follows a chain on which
no call failed: `ResetInv` (the clocks of a reset still to go bring the TAP from where it is to IDLE, with every device that has
one in its IDCODE instruction), `SelectInv` (from there to SHIFT_DR, where the scan path is the registers), `ShiftInv` and `FoundInv`: the scan path is
always what is left of the registers behind the devices found so far, followed by as much of the end code as was sent, and a stream being
clocked has read the bits it should have. So a start bit is a device's own or the first bit of the code, and only the latter is followed
by `DoneCode`. `SetupTypes` needs no hypothesis about failures: `TypeInv` has the types of what the cable still has to send
(`WireTypes`, `CableTypes`), of the devices found and the room for them (`FoundTypes`), of configuration and reader (`ConfigTypes`,
`LocalTypes`). What `FlattenSeq` and the BSDL reader return for sequences of any length is proved with a least
counterexample over the natural numbers in place of the induction theorems, which the provers cannot instantiate.

`SelectsOnlyTarget` and `ScansReachTarget` prove `OnlyTargetSelected` and `ScansLandInTarget` for a target anywhere in the chain,
where `Fits` holds. `Fits` is what the code takes for granted and does not test: TDO is not stuck, the chain is not longer than
`MAX_DEVICES`, a BSDL file that matches a device describes it (`FilesFit`; it may also say nothing), the options name the target and give
lengths and instructions that are right (`OptionsFit`), and the target's instruction ends before the end of a word of the
stream (`StreamsFit`). Each part is needed: a wrong length shifts every instruction, and `IrSpill` shows an instruction that crosses
the word. One that ends exactly with it does not work either: the code then shifts by the width of the word, which C leaves undefined; a machine
that masks the count fills the whole word, the instruction included, with ones, so `Fits` asks for `<` rather than `<=`, and for machines that do not mask it asks that no
stream is longer than a word. Evaluated by TLC as an invariant of the `ChainSetup` run's instance, `Up => Fits` holds:
every ready state of the run is one the theorems speak of.

The two properties are about the state once all clocks are sent, so the invariant has to say where the clocks still to be
sent will lead. `Step(z, s, c)` is what clock c does to TAP, scan path, instructions and latches of chain z, and `Leads(z, s, q, t)` that the clocks
q take s to t; `LeadClocks` and its companions compose it. With a scan as a window that moves along the bits of the
path followed by those sent (`Wire`, `Window`), `ScanDoes` says what any scan leaves in the path and reads from it, and
from it follow, function by function, `TapSetIrDoes` (every device takes BYPASS and the target its instruction; the words of
`tap_set_ir()`, shifted and merged, are the bits of the stream one by one), the scans of IDCODE and virtual JTAG, and a debug scan
between prefix and postfix bits. `ScanInv` then says, from the end of `jtag_enumerate_chain()` on and as long as no call failed:
the remaining clocks lead to a state that is right for the function sending them (`ClocksLead`, `EndsRight`), the lengths
added up so far are those of the registers before or after the target (`Summed`), the prefix and postfix bits are those of the target
and the instructions its own (`Configured`), and the reader holds only descriptions that fit (`GoodReader`). `Inv` is `TypeInv /\ EnumInv /\ ScanInv`
(the devices found are the ones on the chain); `ResetPassed` is needed because a failed reset is remembered in `resetErr` and start-up stops
on it only after the enumeration. `ScanInvariant` proves the conjunction.

Only model-checked: everything under fairness (`NoSilentStop`, `MonitorLoopsBack`,
`RunningIsServed`, `ViolationAnswered`, `StartupEnds`, `RequestAnswered`), which is out of
the proof system's reach, and `InStep` with one early repetition (run `RspPackets`): there can be two tokens then, and the
invariant would have to say where each of them is and that no third one is made.

## 5. Not modelled

- Cable drivers other than `cable_common.c`: device I/O over USB and parallel ports.
- `or32_selftest.c`: a fixed sequence of accesses without state. `errcodes.c`,
  `utilities.c`: texts and conversions.
- The build of the advanced commands without `ADBG_OPT_HISPEED`: no Makefile of the
  repository builds it.
- The packet layer of `hwp_server.c`, which repeats that of the RSP server; the banners of the
  serial and watchpoint servers (the send loop of `jsp_send_all()`, `B/jsp_server.c:559`,
  sends its buffer from the start after a short write); the Java GUI.
- The effect of an SPR access on a CPU that is still running: the stall before the DSR write of
  `rsp_client_close()` is only queued (`B/rsp-server.c:966`), and the model has the order of
  the steps but no such effect.
- The adv_dbg_if RTL: `DebugAccess` has a debug unit as the software uses it.
- What each assertion compares and the ghost registers (next section); a violation while an
  ILLEGAL exception begins (`O/or1200_cpu.v:385`), of which the code promises nothing; reset in
  the middle of operation; the violation handler, which is not in the repository.
- The rest of the OR1200 and of the SoC, the DDR2 controller, the planted-bug patches, test
  programs and build files.

## 6. Plan

1. Proofs: `InStep` with one early repetition of a request (run `RspPackets`).
2. `OvlMonitors` (`hardware/cores/fabric`): the checkers as operators over bounded
   traces against the conditions their test benches state, and the conjunctions of
   `BakedInAssertions`: the delta monitor (`assert_delta_logic.v:9`) and checker 13
   (`BakedInAssertions.v:334`) look unable to fire.
3. `GhostRegisters` on top of `SpecsException`: EPCR, EEAR, ESR and their ghosts through
   nested exceptions (`O/or1200_except.v:495`: an exception inside the violation handler
   overwrites them) and the return from the handler.
