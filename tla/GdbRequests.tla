---------------------------- MODULE GdbRequests ----------------------------
(***************************************************************************)
(* What the RSP server does with the requests of GDB (rsp_client_request() *)
(* and the functions it calls, rsp-server.c) and with the stop of the CPU  *)
(* (handle_rsp()): registers and memory read and written, memory           *)
(* breakpoints, the cached NPC, continue, step, restart, and the requests  *)
(* the server answers without doing anything or does not answer.           *)
(*                                                                         *)
(* The CPU is stopped while a request is served and no other thread        *)
(* touches these registers, so a request is one action.  Memory is a few   *)
(* words of program; the registers other than NPC and PPC hold data the    *)
(* server does not look at.  The threads, the pipes and the connection are *)
(* the business of RspServer, hardware watchpoints that of Watchpoints.    *)
(***************************************************************************)
EXTENDS Integers, FiniteSets, MpHash

CONSTANTS
  Words,                    \* the program is at 0 .. Words - 1 and wraps around
  Instrs,                   \* instructions: "nop", "ill" (illegal), "trap" (l.trap)
  Faults,                   \* what may fail: "read", "write" ('M' and 'X'), "npc" ('P')
  FreeNpc,                  \* 'G' and "monitor writespr" may change NPC
  MaxRequests, MaxRun       \* bounds: requests, instructions executed

Addrs == 0..(Words - 1)

ASSUME RequestAssumption ==
  /\ Words \in Nat \ {0}
  /\ {"nop"} \subseteq Instrs /\ Instrs \subseteq {"nop", "ill", "trap"}
  /\ Faults \subseteq {"read", "write", "npc"} /\ FreeNpc \in BOOLEAN
  /\ {MaxRequests, MaxRun} \subseteq Nat

VARIABLES
  mem,                      \* the program memory
  npc, npc_reads,           \* where the CPU goes on, and what reading SPR_NPC gives
  ppc, drr, running,        \* SPR_PPC, SPR_DRR (a set of causes), not stalled
  step, fresh,              \* single-step trigger; nothing executed since the start
  mp_hash, cached_npc, use_cached_npc,
  target_running, client_waiting, sigval,
  gdb,                      \* GDB: the request it waits on, PC and signal it was told,
                            \* breakpoints it has inserted
  prog, due,                \* the program GDB loaded, the instruction it must execute next
  cause,                    \* why the CPU stopped last
  requests, ran             \* counters of the bounds

cpuVars == <<npc, npc_reads, ppc, drr, running, step, fresh>>
cacheVars == <<cached_npc, use_cached_npc>>
stateVars == <<target_running, client_waiting, sigval>>
ghostVars == <<prog, due, cause>>
vars == <<mem, cpuVars, mp_hash, cacheVars, stateVars, gdb, ghostVars, requests, ran>>

TRAP == "trap"              \* OR1K_TRAP_INSTR
EXCEPT_RESET == 0           \* rsp.start_addr: nothing ever changes it
Unknown == -1
NoRequest == "none"
Signals == {"0", "TRAP", "ILL"}
Next1(a) == (a + 1) % Words

----------------------------------------------------------------------------
\* The CPU.  Single-stepping stops it without a cause in DRR; the causes in
\* DRR accumulate until the register is written.
Halt(why) == running' = FALSE /\ cause' = why
CpuLeaves == UNCHANGED <<mem, mp_hash, cacheVars, stateVars, gdb, prog, requests>>

Execute ==
  /\ running /\ ran < MaxRun /\ mem[npc] # TRAP
  /\ ppc' = npc /\ npc' = Next1(npc) /\ npc_reads' = Next1(npc) /\ due' = Next1(npc)
  /\ drr' = IF mem[npc] = "ill" THEN drr \cup {"IIE"} ELSE drr
  /\ IF mem[npc] = "ill" THEN Halt("ILL")
     ELSE IF step THEN Halt("TRAP") ELSE UNCHANGED <<running, cause>>
  /\ ran' = ran + 1 /\ fresh' = FALSE
  /\ UNCHANGED step /\ CpuLeaves

\* l.trap: of the program, which has then been executed, or of a breakpoint,
\* whose instruction is still to be executed.
Trap ==
  /\ running /\ ran < MaxRun /\ mem[npc] = TRAP
  /\ ppc' = npc /\ npc' = Next1(npc) /\ npc_reads' = Next1(npc)
  /\ due' = IF npc \in gdb.points THEN due ELSE Next1(npc)
  /\ drr' = drr \cup {"TE"} /\ Halt("TRAP")
  /\ ran' = ran + 1 /\ fresh' = FALSE
  /\ UNCHANGED step /\ CpuLeaves

\* BREAK: rsp_client_request() stalls the running CPU.  JTAG is slow: by then
\* it has executed something.
BreakIn ==
  /\ running /\ target_running /\ ~fresh /\ Halt("TRAP")
  /\ UNCHANGED <<npc, npc_reads, ppc, drr, step, fresh, due, ran>> /\ CpuLeaves

----------------------------------------------------------------------------
\* Requests.  GDB sends one when it has the answer to the one before; while
\* target_running is set anything but BREAK is only told so.
Request ==
  /\ gdb.wait = NoRequest /\ ~target_running /\ ~running
  /\ requests < MaxRequests /\ requests' = requests + 1

Answered == gdb' = gdb
Quiet == UNCHANGED <<mem, cpuVars, mp_hash, cacheVars, stateVars, ghostVars, ran>>

\* Writes SPR_NPC and remembers the value, whether or not the write worked.
\* After a write while stalled, reading SPR_NPC may give the old value still.
set_npc(addr, works) ==
  /\ cached_npc' = addr /\ use_cached_npc' = TRUE
  /\ IF works THEN npc' = addr /\ npc_reads' \in {npc_reads, addr}
     ELSE UNCHANGED <<npc, npc_reads>>

\* Mutant: always reads the register.
ReportsRegister == npc_reads

\* The PC in the replies to 'g' and 'p': cached if it is, else from SPR_NPC.
ReportedNpc == IF use_cached_npc THEN cached_npc ELSE npc_reads

rsp_read_all_regs ==
  /\ Request /\ Quiet
  /\ \/ gdb' = [gdb EXCEPT !.pc = ReportedNpc]
     \/ "read" \in Faults /\ Answered

\* 'p': nothing is read, and nothing can fail, when NPC is cached.
rsp_read_reg ==
  /\ Request /\ Quiet
  /\ \/ gdb' = [gdb EXCEPT !.pc = ReportedNpc]
     \/ "read" \in Faults /\ ~use_cached_npc /\ Answered

\* 'P' of NPC; the other registers are written as they are.
rsp_write_reg(addr) ==
  /\ Request
  /\ \/ set_npc(addr, TRUE) /\ due' = addr /\ gdb' = [gdb EXCEPT !.pc = addr]
     \/ "npc" \in Faults /\ set_npc(addr, FALSE) /\ UNCHANGED due /\ gdb' = [gdb EXCEPT !.pc = Unknown]
  /\ UNCHANGED <<mem, ppc, drr, running, step, fresh, mp_hash, stateVars, prog, cause, ran>>

\* 'G', and qRcmd "writespr": SPR_NPC is written past the cache.  GDB writes
\* all registers to change one, the PC as it was told.
rsp_write_all_regs(addr) ==
  /\ Request /\ (FreeNpc \/ addr = gdb.pc)
  /\ npc' = addr /\ npc_reads' \in {npc_reads, addr}
  /\ due' = addr /\ gdb' = [gdb EXCEPT !.pc = addr]
  /\ UNCHANGED <<mem, ppc, drr, running, step, fresh, mp_hash, cacheVars, stateVars, prog, cause, ran>>

\* "monitor readspr/writespr"; any other command is not answered.
rsp_command(cmd) ==
  CASE cmd = "readspr" -> Request /\ Quiet /\ Answered
    [] cmd = "writespr" -> \E addr \in Addrs : rsp_write_all_regs(addr)
    [] OTHER -> Request /\ Quiet /\ gdb' = [gdb EXCEPT !.wait = "ignored"]

rsp_read_mem == Request /\ Quiet /\ Answered

\* GDB does not write over its breakpoints.  A burst that fails may have
\* written the word or not.
WriteWord(addr, instr) ==
  /\ Request /\ addr \notin gdb.points
  /\ \/ mem' = [mem EXCEPT ![addr] = instr] /\ prog' = [prog EXCEPT ![addr] = instr]
     \/ "write" \in Faults /\ UNCHANGED <<mem, prog>>
  /\ Answered
  /\ UNCHANGED <<cpuVars, mp_hash, cacheVars, stateVars, due, cause, ran>>

\* 'M', refused when there is not as much data as it says.
rsp_write_mem(addr, instr, matches) ==
  IF matches THEN WriteWord(addr, instr) ELSE Request /\ Quiet /\ Answered

\* 'X': of data that do not match the length, what there is is written; GDB's do.
rsp_write_mem_bin(addr, instr) == WriteWord(addr, instr)

\* Z0: the instruction is saved unless there is an entry already.
rsp_insert_matchpoint(addr) ==
  /\ Request
  /\ mp_hash' = mp_hash_add(mp_hash, "BP_MEMORY", addr, mem[addr])
  /\ mem' = [mem EXCEPT ![addr] = TRAP]
  /\ gdb' = [gdb EXCEPT !.points = @ \cup {addr}]
  /\ UNCHANGED <<cpuVars, cacheVars, stateVars, ghostVars, ran>>

\* z0: the instruction is put back if there is an entry.
rsp_remove_matchpoint(addr) ==
  LET found == mp_hash_lookup(mp_hash, "BP_MEMORY", addr)
  IN /\ Request
     /\ mp_hash' = mp_hash_delete(mp_hash, "BP_MEMORY", addr)
     /\ mem' = [mem EXCEPT ![addr] = IF found = {} THEN @ ELSE (CHOOSE e \in found : TRUE).instr]
     /\ gdb' = [gdb EXCEPT !.points = @ \ {addr}]
     /\ UNCHANGED <<cpuVars, cacheVars, stateVars, ghostVars, ran>>

\* set_stall_state(0): the cache is dropped and the CPU goes on from NPC; the
\* monitor's 'R' sets target_running.
set_stall_state0 ==
  /\ use_cached_npc' = FALSE
  /\ running' = TRUE /\ fresh' = TRUE /\ target_running' = TRUE

\* Mutant: DRR is not cleared.
ResumeKeepsDrr(stepping, req) ==
  /\ drr' = drr /\ step' = stepping
  /\ set_stall_state0
  /\ client_waiting' = TRUE
  /\ gdb' = [gdb EXCEPT !.wait = req, !.pc = Unknown]
  /\ UNCHANGED <<mem, ppc, mp_hash, sigval, prog, cause, ran>>

Resume(stepping, req) ==
  /\ drr' = {} /\ step' = stepping
  /\ set_stall_state0
  /\ client_waiting' = TRUE
  /\ gdb' = [gdb EXCEPT !.wait = req, !.pc = Unknown]
  /\ UNCHANGED <<mem, ppc, mp_hash, sigval, prog, cause, ran>>

\* 'c', with an address (from which the CPU goes on) or without.
rsp_continue(addr) ==
  /\ Request /\ Resume(FALSE, "c")
  /\ IF addr = Unknown THEN UNCHANGED <<npc, npc_reads, cached_npc, due>>
     ELSE cached_npc' = addr /\ npc' = addr /\ npc_reads' = addr /\ due' = addr

\* 's', 'i', and with a signal 'S', 'I'.
rsp_step ==
  Request /\ Resume(TRUE, "s") /\ UNCHANGED <<npc, npc_reads, cached_npc, due>>

\* 'C' does nothing and is not answered.
rsp_continue_with_signal ==
  Request /\ Quiet /\ gdb' = [gdb EXCEPT !.wait = "C"]

\* 'R' and vRun: NPC back to the start; vRun is answered with a stop.
rsp_restart ==
  /\ Request /\ set_npc(EXCEPT_RESET, TRUE) /\ due' = EXCEPT_RESET
  /\ gdb' = [gdb EXCEPT !.pc = Unknown]
  /\ UNCHANGED <<mem, ppc, drr, running, step, fresh, mp_hash, stateVars, prog, cause, ran>>

\* The rest changes nothing: what the replies to 'q', 'Q' and 'v' packets and
\* to the packets of one letter are ("none" where there is no reply).
rsp_query == [qC |-> "", qCRC |-> "E01", qfThreadInfo |-> "m-1", qsThreadInfo |-> "l",
  qGetTLSAddr |-> "", qL |-> "qM001", qOffsets |-> "Text=0;Data=0;Bss=0", qP |-> "",
  qSupported |-> "PacketSize", qSymbol |-> "OK", qThreadExtraInfo |-> "Runnable",
  qXfer |-> "", qAttached |-> "", qTStatus |-> "", qOther |-> "none"]

rsp_set == [QPassSignals |-> "", QTracepoint |-> "", QOther |-> "none"]

rsp_vpkt == [vAttach |-> "S05", vContQuery |-> "", vCont |-> "none", vFile |-> "",
  vFlashErase |-> "E01", vFlashWrite |-> "E01", vFlashDone |-> "E01", vOther |-> "E01"]

rsp_client_request == [extended |-> "OK", A |-> "E01", b |-> "none", B |-> "none", d |-> "none",
  F |-> "none", H |-> "OK", k |-> "none", r |-> "none", t |-> "none", T |-> "OK", other |-> "none"]

\* Packets not answered that GDB would wait for, until it gives up.
Replies == {rsp_query, rsp_set, rsp_vpkt, rsp_client_request}
NoEffect == \E table \in Replies : \E p \in DOMAIN table :
  /\ Request /\ Quiet
  /\ IF table[p] = "none" THEN gdb' = [gdb EXCEPT !.wait = "ignored"] ELSE Answered

GdbGivesUp ==
  /\ gdb.wait = "ignored" /\ gdb' = [gdb EXCEPT !.wait = NoRequest]
  /\ Quiet /\ UNCHANGED requests

\* '?' repeats the last signal.
AskSignal == Request /\ Quiet /\ gdb' = [gdb EXCEPT !.sig = sigval]

----------------------------------------------------------------------------
\* The signal for the causes in DRR; a combination leaves the old one.
rsp_exception(causes) ==
  CASE causes = {} -> "TRAP"
    [] causes = {"TE"} -> "TRAP"
    [] causes = {"IIE"} -> "ILL"
    [] OTHER -> sigval

\* Mutant: goes back one instruction too far.
StopRewindsTooFar ==
  /\ target_running /\ ~running /\ target_running' = FALSE
  /\ sigval' = rsp_exception(drr)
  /\ IF client_waiting
     THEN /\ IF sigval' = "TRAP" /\ mp_hash_lookup(mp_hash, "BP_MEMORY", ppc) # {}
             THEN set_npc(ppc - 1, TRUE)
             ELSE UNCHANGED <<npc, npc_reads, cacheVars>>
          /\ gdb' = [gdb EXCEPT !.wait = NoRequest, !.sig = sigval']
     ELSE UNCHANGED <<npc, npc_reads, cacheVars, gdb>>
  /\ client_waiting' = FALSE
  /\ UNCHANGED <<mem, ppc, drr, running, step, fresh, mp_hash, ghostVars, requests, ran>>

\* Mutant: goes on behind the breakpoint.
StopKeepsNpc ==
  /\ target_running /\ ~running /\ target_running' = FALSE
  /\ sigval' = rsp_exception(drr)
  /\ gdb' = IF client_waiting THEN [gdb EXCEPT !.wait = NoRequest, !.sig = sigval'] ELSE gdb
  /\ client_waiting' = FALSE
  /\ UNCHANGED <<mem, cpuVars, mp_hash, cacheVars, ghostVars, requests, ran>>

\* Mutant: only a TRAP is reported.
StopReportsTrapOnly ==
  /\ target_running /\ ~running /\ target_running' = FALSE
  /\ sigval' = rsp_exception(drr)
  /\ IF client_waiting
     THEN /\ IF sigval' = "TRAP" /\ mp_hash_lookup(mp_hash, "BP_MEMORY", ppc) # {}
             THEN set_npc(ppc, TRUE)
             ELSE UNCHANGED <<npc, npc_reads, cacheVars>>
          /\ gdb' = IF sigval' = "TRAP" THEN [gdb EXCEPT !.wait = NoRequest, !.sig = sigval'] ELSE gdb
     ELSE UNCHANGED <<npc, npc_reads, cacheVars, gdb>>
  /\ client_waiting' = FALSE
  /\ UNCHANGED <<mem, ppc, drr, running, step, fresh, mp_hash, ghostVars, requests, ran>>

\* The monitor's 'H': the breakpoint at PPC, if there is one, has stopped the
\* CPU, and its instruction is to be executed next.
StopEvent ==
  /\ target_running /\ ~running /\ target_running' = FALSE
  /\ sigval' = rsp_exception(drr)
  /\ IF client_waiting
     THEN /\ IF sigval' = "TRAP" /\ mp_hash_lookup(mp_hash, "BP_MEMORY", ppc) # {}
             THEN set_npc(ppc, TRUE)
             ELSE UNCHANGED <<npc, npc_reads, cacheVars>>
          /\ gdb' = [gdb EXCEPT !.wait = NoRequest, !.sig = sigval']
     ELSE UNCHANGED <<npc, npc_reads, cacheVars, gdb>>
  /\ client_waiting' = FALSE
  /\ UNCHANGED <<mem, ppc, drr, running, step, fresh, mp_hash, ghostVars, requests, ran>>

Init ==
  /\ mem = [a \in Addrs |-> "nop"] /\ prog = mem
  /\ npc = 0 /\ npc_reads = 0 /\ ppc = 0 /\ due = 0
  /\ drr = {} /\ running = FALSE /\ step = FALSE /\ fresh = TRUE
  /\ mp_hash = mp_hash_init /\ cached_npc = 0 /\ use_cached_npc = FALSE
  /\ target_running = FALSE /\ client_waiting = FALSE /\ sigval = "0"
  /\ gdb = [wait |-> NoRequest, pc |-> Unknown, sig |-> "0", points |-> {}]
  /\ cause = "0" /\ requests = 0 /\ ran = 0

CpuSteps == Execute \/ Trap \/ BreakIn

RequestSteps ==
  \/ rsp_read_all_regs \/ rsp_read_reg \/ rsp_read_mem \/ AskSignal
  \/ \E addr \in Addrs : \/ rsp_write_reg(addr) \/ rsp_write_all_regs(addr)
                         \/ rsp_insert_matchpoint(addr) \/ rsp_remove_matchpoint(addr)
  \/ \E cmd \in {"readspr", "writespr", "other"} : rsp_command(cmd)
  \/ \E addr \in Addrs, instr \in Instrs : \/ \E matches \in BOOLEAN : rsp_write_mem(addr, instr, matches)
                                           \/ rsp_write_mem_bin(addr, instr)
  \/ \E addr \in Addrs \cup {Unknown} : rsp_continue(addr)
  \/ rsp_step \/ rsp_continue_with_signal \/ rsp_restart \/ NoEffect

Next == CpuSteps \/ RequestSteps \/ StopEvent \/ GdbGivesUp

Spec == Init /\ [][Next]_vars

----------------------------------------------------------------------------
\* Type invariant.
RequestTypeOK ==
  /\ mem \in [Addrs -> Instrs \cup {TRAP}] /\ prog \in [Addrs -> Instrs]
  /\ npc \in Addrs /\ npc_reads \in Addrs /\ ppc \in Addrs
  /\ due \in Addrs /\ cached_npc \in Addrs
  /\ drr \subseteq {"TE", "IIE"}
  /\ running \in BOOLEAN /\ step \in BOOLEAN /\ fresh \in BOOLEAN
  /\ use_cached_npc \in BOOLEAN /\ target_running \in BOOLEAN /\ client_waiting \in BOOLEAN
  /\ mp_hash \subseteq [type : {"BP_MEMORY"}, addr : Addrs, instr : Instrs]
  /\ sigval \in Signals /\ cause \in Signals
  /\ gdb \in [wait : {NoRequest, "c", "s", "C", "ignored"}, pc : Addrs \cup {Unknown},
              sig : Signals, points : SUBSET Addrs]

\* Breakpoints are exactly where GDB has them, and behind each one is kept
\* the instruction of the program, however often GDB repeats a packet
\* (rsp_insert_matchpoint, rsp_remove_matchpoint, mp_hash_add).
ProgramKept ==
  /\ {e.addr : e \in mp_hash} = gdb.points
  /\ \A e \in mp_hash : e.instr = prog[e.addr]
  /\ \A a \in Addrs : mem[a] = IF a \in gdb.points THEN TRAP ELSE prog[a]

\* The debugged program executes as it would without a debugger: when the
\* CPU runs, the next instruction is the one that is due, neither skipped
\* after a breakpoint nor executed twice after a step (handle_rsp, set_npc).
RunsWhatIsDue == running => npc = due

\* The PC GDB has been told, or has written, is where the CPU will go on,
\* although SPR_NPC cannot be trusted after a write (use_cached_npc).
PcTruthful == gdb.pc # Unknown /\ ~running => gdb.pc = npc

\* GDB is told the signal of this stop, not of an earlier one: DRR is cleared
\* before every start and rsp.sigval replaced after it.
SignalTruthful == ~target_running => gdb.sig = cause

\* GDB waits for a continue or a step only while the CPU runs or its stop is
\* being noticed; after 'C', which does nothing, it waits for good.
WaitsForRunningCpu == gdb.wait \in {"c", "s"} => target_running /\ client_waiting
=============================================================================
