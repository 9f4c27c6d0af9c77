---------------------------- MODULE Watchpoints ----------------------------
(***************************************************************************)
(* The hardware watchpoints of the CPU and their three users: GDB, through *)
(* the RSP server's insert and remove requests (rsp-server.c); the person  *)
(* at the watchpoint control program (AdvancedWatchpointControl, Java),    *)
(* through the watchpoint server (hwp_server.c); and the table hwp_in_use  *)
(* by which the two servers, each in a thread of its own, share them.      *)
(*                                                                         *)
(* Every dbg_cpu0_read() and dbg_cpu0_write() is an action of its own: it  *)
(* takes and releases the access mutex, so that a register which is read,  *)
(* changed and written may change in between.  Addresses are abstract, a   *)
(* DCR holds the comparison it makes, and the bit fields of DMR1 and DMR2  *)
(* are sets of watchpoints.  The counters (DWCR) are left out.             *)
(***************************************************************************)
EXTENDS Integers, Sequences, FiniteSets, FiniteSetsExt, MpHash

CONSTANTS
  HWP_MAX_WP,               \* watchpoints the bridge knows (8)
  Absent,                   \* the ones this CPU does not implement
  Addrs,                    \* addresses to watch
  HwTypes,                  \* the matchpoint types GDB uses, all in hardware
  GdbRepeats,               \* GDB may repeat an insert, as after a lost packet
  ClientWaits,              \* the person edits only between GDB's uses of the CPU
  MaxRequests, MaxEdits,    \* bounds: requests of GDB, register sets written
  MaxFaults                 \* bound: failing accesses of the watchpoint server

WPs == 0..(HWP_MAX_WP - 1)

ASSUME WatchAssumption ==
  /\ HWP_MAX_WP \in Nat \ {0} /\ Absent \subseteq WPs /\ Addrs # {}
  /\ HwTypes \subseteq {"BP_HARDWARE", "WP_WRITE", "WP_READ", "WP_ACCESS"}
  /\ {GdbRepeats, ClientWaits} \subseteq BOOLEAN
  /\ {MaxRequests, MaxEdits, MaxFaults} \subseteq Nat

VARIABLES
  cpu,                      \* DVR, DCR, DMR2 (wgb, wbs), DMR1 (chain, st)
  running, why,             \* the CPU, and what stopped it last
  hwp_in_use,               \* the table the servers share
  mp_hash, single_step_mode,
  rsp,                      \* the RSP thread: pc, request, watchpoint, register read
  npc_reset,                \* the last stop report moved NPC back to PPC
  hwp_target_is_running,    \* the watchpoint server's view of the CPU
  hwp,                      \* DCR it has yet to account for: [wp, code], or none
  client,                   \* the control program: pc, next register, regSet
  gdb, asked, wrote,        \* what GDB, and the person, have been promised
  requests, edits, faults   \* counters of the bounds

rspVars == <<mp_hash, single_step_mode, rsp, npc_reset, gdb, requests>>
hwpVars == <<hwp_target_is_running, hwp, client, asked, wrote, edits, faults>>
vars == <<cpu, running, why, hwp_in_use, rspVars, hwpVars>>

\* The value of a DCR: 0 where there is no watchpoint, 0x01 when disabled,
\* else what it compares (0x23, 0x63, 0x43, 0xC3).
Codes == {"absent", "disabled"} \cup HwTypes
Enabled(code) == code \in HwTypes
NoTmp == [wgb |-> {}, wbs |-> {}, chain |-> {}, st |-> FALSE]
Idle == [pc |-> "idle", op |-> "none", pt |-> <<>>, wp |-> -1, tmp |-> NoTmp]
Points == HwTypes \X Addrs
Regs == [i \in 1..HWP_MAX_WP |-> <<"dcr", i - 1>>] \o [i \in 1..HWP_MAX_WP |-> <<"dvr", i - 1>>]
          \o << <<"dmr1", 0>>, <<"dmr2", 0>> >>
AnAddr == CHOOSE a \in Addrs : TRUE
PowerUp == [dvr |-> [w \in WPs |-> AnAddr],
            dcr |-> [w \in WPs |-> IF w \in Absent THEN "absent" ELSE "disabled"],
            wgb |-> {}, wbs |-> {}, chain |-> {}, st |-> FALSE]
Unwritten == [dvr |-> PowerUp.dvr, dcr |-> PowerUp.dcr, wgb |-> {}, chain |-> {}]
NewClient == [pc |-> "idle", i |-> 1,
              regSet |-> [dvr |-> PowerUp.dvr, dcr |-> PowerUp.dcr, wgb |-> {}, chain |-> {},
                          st |-> FALSE]]

----------------------------------------------------------------------------
\* The CPU.  There is no register behind an absent pair; any write of DMR2
\* clears the status bits wbs.
WriteDvr(c, w, a) == IF w \in Absent THEN c ELSE [c EXCEPT !.dvr[w] = a]

WriteDcr(c, w, code) ==
  IF w \in Absent THEN c
  ELSE [c EXCEPT !.dcr[w] = IF code = "absent" THEN "disabled" ELSE code]

WriteDmr2(c, wgb) == [c EXCEPT !.wgb = wgb, !.wbs = {}]

\* The watchpoints that break, and the points they break at.
Breaking == {w \in WPs : Enabled(cpu.dcr[w]) /\ w \in cpu.wgb /\ w \notin cpu.chain}
BreakPoints == {<<cpu.dcr[w], cpu.dvr[w]>> : w \in Breaking}

Stopped(cause) ==
  /\ running /\ running' = FALSE /\ why' = cause
  /\ UNCHANGED <<hwp_in_use, rspVars, hwpVars>>

WatchpointHit == \E w \in Breaking :
  Stopped("watch") /\ cpu' = [cpu EXCEPT !.wbs = IF @ = {} THEN {w} ELSE @]

StepDone == cpu.st /\ Stopped("step") /\ UNCHANGED cpu

BreakIn == Stopped("break") /\ UNCHANGED cpu

----------------------------------------------------------------------------
\* The table of watchpoints.
hwp_set_in_use(w, inuse) == hwp_in_use' = [hwp_in_use EXCEPT ![w] = inuse]

\* The lowest free one; -1 when there is none.
hwp_get_available_watchpoint ==
  LET free == {w \in WPs : ~hwp_in_use[w]}
  IN IF free = {} THEN -1 ELSE Min(free)

\* Mutant: nothing is given back.
ReturnForgets(w) == UNCHANGED hwp_in_use

hwp_return_watchpoint(w) == hwp_set_in_use(w, FALSE)

\* The main thread, before any server runs: reads every DCR.  A watchpoint
\* that is absent, or whose DCR could not be read, counts as in use.
hwp_init(unreadable) ==
  hwp_in_use = [w \in WPs |-> w \in Absent \cup unreadable]

----------------------------------------------------------------------------
\* The RSP thread.  The person at the control program keeps out of GDB's way.
RspTurn(pc) == rsp.pc = pc /\ (ClientWaits /\ pc = "idle" => client.pc = "idle" /\ hwp.wp = -1)
Goto(pc) == rsp' = [rsp EXCEPT !.pc = pc]
RspIdle == rsp.pc = "idle"

Request ==
  /\ RspTurn("idle") /\ ~running /\ requests < MaxRequests
  /\ requests' = requests + 1

\* A point whose insert was answered is not asked for again, unless packets repeat.
rsp_insert_matchpoint(pt) ==
  LET w == hwp_get_available_watchpoint
  IN /\ Request /\ (GdbRepeats \/ pt \notin gdb)
     /\ IF w = -1
        THEN UNCHANGED <<hwp_in_use, mp_hash, rsp, wrote>>  \* empty reply: not supported
        ELSE /\ hwp_set_in_use(w, TRUE)
             /\ mp_hash' = mp_hash_add(mp_hash, pt[1], pt[2], w)
             /\ rsp' = [Idle EXCEPT !.pc = "dvr", !.op = "Z", !.pt = pt, !.wp = w]
             /\ wrote' = IF Enabled(asked[w]) THEN wrote
                         ELSE [wrote EXCEPT !.dcr[w] = PowerUp.dcr[w],
                                            !.wgb = @ \ {w}, !.chain = @ \ {w}]
     /\ UNCHANGED <<cpu, running, why, single_step_mode, npc_reset, gdb,
                    hwp_target_is_running, hwp, client, asked, edits, faults>>

rsp_remove_matchpoint(pt) ==
  LET found == mp_hash_lookup(mp_hash, pt[1], pt[2])
  IN /\ Request
     /\ mp_hash' = mp_hash_delete(mp_hash, pt[1], pt[2])
     /\ IF found = {}
        THEN UNCHANGED rsp                              \* already gone: OK
        ELSE \E e \in found :
               rsp' = [Idle EXCEPT !.pc = "dmr2_read", !.op = "z", !.pt = pt, !.wp = e.instr]
     /\ gdb' = gdb \ {pt}
     /\ UNCHANGED <<cpu, running, why, hwp_in_use, single_step_mode, npc_reset, hwpVars>>

\* 'c' and 's'; the write of DRR comes first and has no effect here.
rsp_resume(op) ==
  /\ Request /\ rsp' = [Idle EXCEPT !.pc = "dmr2_read", !.op = op]
  /\ UNCHANGED <<cpu, running, why, hwp_in_use, mp_hash, single_step_mode,
                 npc_reset, gdb, hwpVars>>

RspWritesDvr ==
  /\ RspTurn("dvr") /\ cpu' = WriteDvr(cpu, rsp.wp, rsp.pt[2]) /\ Goto("dcr")
  /\ UNCHANGED <<running, why, hwp_in_use, mp_hash, single_step_mode, npc_reset,
                 gdb, requests, hwpVars>>

\* An insert enables the comparison, a remove disables it.
RspWritesDcr ==
  /\ RspTurn("dcr")
  /\ cpu' = WriteDcr(cpu, rsp.wp, IF rsp.op = "Z" THEN rsp.pt[1] ELSE "disabled")
  /\ Goto(IF rsp.op = "Z" THEN "dmr2_read" ELSE "return")
  /\ UNCHANGED <<running, why, hwp_in_use, mp_hash, single_step_mode, npc_reset,
                 gdb, requests, hwpVars>>

\* DMR2: resuming writes it only to clear the status bits.
RspReadsDmr2 ==
  /\ RspTurn("dmr2_read")
  /\ rsp' = [rsp EXCEPT !.tmp.wgb = cpu.wgb, !.tmp.wbs = cpu.wbs,
               !.pc = IF rsp.op \in {"c", "s"} /\ cpu.wbs = {} THEN "dmr1_read" ELSE "dmr2_write"]
  /\ UNCHANGED <<cpu, running, why, hwp_in_use, mp_hash, single_step_mode, npc_reset,
                 gdb, requests, hwpVars>>

RspWritesDmr2 ==
  /\ RspTurn("dmr2_write")
  /\ cpu' = WriteDmr2(cpu, CASE rsp.op = "Z" -> rsp.tmp.wgb \cup {rsp.wp}
                             [] rsp.op = "z" -> rsp.tmp.wgb \ {rsp.wp}
                             [] OTHER -> rsp.tmp.wgb)
  /\ Goto(IF rsp.op = "z" THEN "dcr" ELSE "dmr1_read")
  /\ UNCHANGED <<running, why, hwp_in_use, mp_hash, single_step_mode, npc_reset,
                 gdb, requests, hwpVars>>

\* DMR1: an insert clears the watchpoint's chaining, resuming sets or clears
\* the single-step bits; the second 's' in a row does not touch it.
RspReadsDmr1 ==
  /\ RspTurn("dmr1_read")
  /\ rsp' = [rsp EXCEPT !.tmp.chain = cpu.chain, !.tmp.st = cpu.st,
               !.pc = IF rsp.op = "s" /\ single_step_mode THEN "unstall" ELSE "dmr1_write"]
  /\ UNCHANGED <<cpu, running, why, hwp_in_use, mp_hash, single_step_mode, npc_reset,
                 gdb, requests, hwpVars>>

\* Mutant: leaves the chaining of the watchpoint's last user in place.
InsertKeepsChain ==
  /\ RspTurn("dmr1_write")
  /\ cpu' = [cpu EXCEPT !.chain = rsp.tmp.chain,
                        !.st = IF rsp.op = "Z" THEN rsp.tmp.st ELSE rsp.op = "s"]
  /\ single_step_mode' = IF rsp.op = "s" THEN TRUE ELSE single_step_mode
  /\ rsp' = IF rsp.op = "Z" THEN Idle ELSE [rsp EXCEPT !.pc = "unstall"]
  /\ gdb' = IF rsp.op = "Z" THEN gdb \cup {rsp.pt} ELSE gdb
  /\ UNCHANGED <<running, why, hwp_in_use, mp_hash, npc_reset, requests, hwpVars>>

RspWritesDmr1 ==
  /\ RspTurn("dmr1_write")
  /\ cpu' = [cpu EXCEPT !.chain = IF rsp.op = "Z" THEN rsp.tmp.chain \ {rsp.wp} ELSE rsp.tmp.chain,
                        !.st = IF rsp.op = "Z" THEN rsp.tmp.st ELSE rsp.op = "s"]
  /\ single_step_mode' = IF rsp.op = "s" THEN TRUE ELSE single_step_mode
  /\ rsp' = IF rsp.op = "Z" THEN Idle ELSE [rsp EXCEPT !.pc = "unstall"]
  /\ gdb' = IF rsp.op = "Z" THEN gdb \cup {rsp.pt} ELSE gdb
  /\ UNCHANGED <<running, why, hwp_in_use, mp_hash, npc_reset, requests, hwpVars>>

RspReturnsWatchpoint ==
  /\ RspTurn("return") /\ hwp_return_watchpoint(rsp.wp) /\ rsp' = Idle
  /\ UNCHANGED <<cpu, running, why, mp_hash, single_step_mode, npc_reset, gdb,
                 requests, hwpVars>>

\* Mutant: a continue leaves the flag of the step before it.
ContinueKeepsFlag ==
  /\ RspTurn("unstall") /\ running' = TRUE /\ UNCHANGED single_step_mode
  /\ Goto("waiting")
  /\ UNCHANGED <<cpu, why, hwp_in_use, mp_hash, npc_reset, gdb, requests, hwpVars>>

\* set_stall_state(0).
RspUnstalls ==
  /\ RspTurn("unstall") /\ running' = TRUE
  /\ single_step_mode' = (single_step_mode /\ rsp.op = "s")
  /\ Goto("waiting")
  /\ UNCHANGED <<cpu, why, hwp_in_use, mp_hash, npc_reset, gdb, requests, hwpVars>>

\* Mutant: does not look at DMR2.
ReportAlwaysResets ==
  /\ RspTurn("waiting") /\ ~running
  /\ npc_reset' = TRUE /\ rsp' = Idle
  /\ UNCHANGED <<cpu, running, why, hwp_in_use, mp_hash, single_step_mode, gdb, requests, hwpVars>>

\* The 'H' event: a stop that DMR2 blames on a watchpoint moves NPC back.
RspReportsStop ==
  /\ RspTurn("waiting") /\ ~running
  /\ npc_reset' = (cpu.wbs # {}) /\ rsp' = Idle
  /\ UNCHANGED <<cpu, running, why, hwp_in_use, mp_hash, single_step_mode, gdb,
                 requests, hwpVars>>

\* GDB takes its points out, disconnects and connects again.
rsp_server_request ==
  /\ Request /\ gdb = {} /\ single_step_mode' = FALSE
  /\ UNCHANGED <<cpu, running, why, hwp_in_use, mp_hash, rsp, npc_reset, gdb, hwpVars>>

----------------------------------------------------------------------------
\* The watchpoint server's thread, one request of the control program at a
\* time, and the program itself, which waits for each reply.
\* The monitor's 'R' and 'H' reach the server some time later.
HwpReadsEvent ==
  /\ hwp_target_is_running # running /\ hwp_target_is_running' = running
  /\ UNCHANGED <<cpu, running, why, hwp_in_use, rspVars, hwp, client, asked, wrote, edits, faults>>

ClientTurn(pc) == client.pc = pc /\ hwp.wp = -1
MayFail == faults < MaxFaults /\ faults' = faults + 1

\* '?', then 'p' for every register unless the target runs.
doReadAllRegisters ==
  /\ ClientTurn("idle") /\ edits < MaxEdits
  /\ ClientWaits => RspIdle /\ ~running /\ mp_hash = {}
  /\ ~hwp_target_is_running
  /\ client' = [client EXCEPT !.pc = "read", !.i = 1]
  /\ UNCHANGED <<cpu, running, why, hwp_in_use, rspVars, hwp_target_is_running, hwp,
                 asked, wrote, edits, faults>>

NextReg(pc) ==
  IF client.i = Len(Regs) THEN [client EXCEPT !.pc = "have", !.i = 1]
  ELSE [client EXCEPT !.i = @ + 1, !.pc = pc]

hwp_read_reg ==
  LET r == Regs[client.i][1]
      w == Regs[client.i][2]
  IN /\ ClientTurn("read")
     /\ client' = CASE r = "dcr" -> [NextReg("read") EXCEPT !.regSet.dcr[w] = cpu.dcr[w]]
                    [] r = "dvr" -> [NextReg("read") EXCEPT !.regSet.dvr[w] = cpu.dvr[w]]
                    [] r = "dmr1" -> [NextReg("read") EXCEPT !.regSet.chain = cpu.chain,
                                                             !.regSet.st = cpu.st]
                    [] OTHER -> [NextReg("read") EXCEPT !.regSet.wgb = cpu.wgb]
     /\ UNCHANGED <<cpu, running, why, hwp_in_use, rspVars, hwp_target_is_running, hwp,
                    asked, wrote, edits, faults>>

\* An E01 reply ends the reading; the person reads again before anything else.
hwp_read_fails ==
  /\ ClientTurn("read") /\ MayFail /\ client' = NewClient
  /\ UNCHANGED <<cpu, running, why, hwp_in_use, rspVars, hwp_target_is_running, hwp,
                 asked, wrote, edits>>

\* The person sets one implemented watchpoint, then '?' and 'P' for every register.
doWriteAllRegisters ==
  /\ ClientTurn("have") /\ edits < MaxEdits /\ edits' = edits + 1
  /\ ~hwp_target_is_running
  /\ \E w \in WPs, code \in {"disabled"} \cup HwTypes, a \in Addrs, brk, chained \in BOOLEAN :
       /\ client.regSet.dcr[w] # "absent"
       /\ client' = [client EXCEPT !.pc = "write", !.i = 1,
            !.regSet.dcr[w] = code, !.regSet.dvr[w] = a,
            !.regSet.wgb = IF brk THEN @ \cup {w} ELSE @ \ {w},
            !.regSet.chain = IF chained THEN @ \cup {w} ELSE @ \ {w}]
  /\ UNCHANGED <<cpu, running, why, hwp_in_use, rspVars, hwp_target_is_running, hwp,
                 asked, wrote, faults>>

\* Mutant: the index of a DCR is counted from SPR_DVR(0).
AfterReplyFromDvr ==
  IF Regs[client.i][1] = "dcr"
  THEN [wp |-> Regs[client.i][2] + HWP_MAX_WP, code |-> client.regSet.dcr[Regs[client.i][2]]]
  ELSE hwp

\* What 'P' leaves to be done after its reply: bits 1-3 or 5-7 of a DCR's
\* new value are zero when no comparison is enabled.
AfterReply == IF Regs[client.i][1] = "dcr"
              THEN [wp |-> Regs[client.i][2], code |-> client.regSet.dcr[Regs[client.i][2]]]
              ELSE hwp

Asked == IF Regs[client.i][1] = "dcr"
         THEN [asked EXCEPT ![Regs[client.i][2]] = client.regSet.dcr[Regs[client.i][2]]]
         ELSE asked

hwp_write_reg ==
  LET r == Regs[client.i][1]
      w == Regs[client.i][2]
      new == client.regSet
  IN /\ ClientTurn("write")
     /\ cpu' = CASE r = "dcr" -> WriteDcr(cpu, w, new.dcr[w])
                 [] r = "dvr" -> WriteDvr(cpu, w, new.dvr[w])
                 [] r = "dmr1" -> [cpu EXCEPT !.chain = new.chain, !.st = new.st]
                 [] OTHER -> WriteDmr2(cpu, new.wgb)
     /\ wrote' = CASE r = "dcr" -> [wrote EXCEPT !.dcr[w] = new.dcr[w]]
                   [] r = "dvr" -> [wrote EXCEPT !.dvr[w] = new.dvr[w]]
                   [] r = "dmr1" -> [wrote EXCEPT !.chain = new.chain]
                   [] OTHER -> [wrote EXCEPT !.wgb = new.wgb]
     /\ hwp' = AfterReply /\ asked' = Asked /\ client' = NextReg("write")
     /\ UNCHANGED <<running, why, hwp_in_use, rspVars, hwp_target_is_running, edits, faults>>

\* An E01 reply ends the writing; the table is updated all the same.
hwp_write_fails ==
  /\ ClientTurn("write") /\ MayFail
  /\ hwp' = AfterReply /\ asked' = Asked /\ client' = [client EXCEPT !.pc = "have"]
  /\ UNCHANGED <<cpu, running, why, hwp_in_use, rspVars, hwp_target_is_running, wrote, edits>>

HwpMarks ==
  /\ hwp.wp # -1 /\ hwp_set_in_use(hwp.wp, Enabled(hwp.code))
  /\ hwp' = [wp |-> -1, code |-> "disabled"]
  /\ UNCHANGED <<cpu, running, why, rspVars, hwp_target_is_running, client, asked, wrote,
                 edits, faults>>

\* The person is done with these values.
ClientRests ==
  /\ ClientTurn("have") /\ client' = NewClient
  /\ UNCHANGED <<cpu, running, why, hwp_in_use, rspVars, hwp_target_is_running, hwp,
                 asked, wrote, edits, faults>>

----------------------------------------------------------------------------
Init ==
  /\ cpu = PowerUp /\ running = FALSE /\ why = "none"
  /\ \E unreadable \in SUBSET WPs :
       /\ Cardinality(unreadable) <= MaxFaults
       /\ hwp_init(unreadable)
       /\ faults = Cardinality(unreadable)
       /\ asked = [w \in WPs |-> IF w \in Absent \cup unreadable THEN "absent" ELSE "disabled"]
  /\ mp_hash = mp_hash_init /\ single_step_mode = FALSE /\ rsp = Idle /\ npc_reset = FALSE
  /\ hwp_target_is_running = FALSE
  /\ hwp = [wp |-> -1, code |-> "disabled"]
  /\ client = NewClient
  /\ gdb = {} /\ wrote = Unwritten
  /\ requests = 0 /\ edits = 0

CpuSteps == WatchpointHit \/ StepDone \/ BreakIn

RspSteps ==
  \/ \E pt \in Points : rsp_insert_matchpoint(pt) \/ rsp_remove_matchpoint(pt)
  \/ \E op \in {"c", "s"} : rsp_resume(op)
  \/ RspWritesDvr \/ RspWritesDcr \/ RspReadsDmr2 \/ RspWritesDmr2
  \/ RspReadsDmr1 \/ RspWritesDmr1 \/ RspReturnsWatchpoint
  \/ RspUnstalls \/ RspReportsStop \/ rsp_server_request

HwpSteps ==
  \/ HwpReadsEvent \/ doReadAllRegisters \/ hwp_read_reg \/ hwp_read_fails
  \/ doWriteAllRegisters \/ hwp_write_reg \/ hwp_write_fails \/ HwpMarks \/ ClientRests

Next == CpuSteps \/ RspSteps \/ HwpSteps

Spec == Init /\ [][Next]_vars

----------------------------------------------------------------------------
\* Type invariant.
WatchTypeOK ==
  /\ cpu \in [dvr : [WPs -> Addrs], dcr : [WPs -> Codes], wgb : SUBSET WPs, wbs : SUBSET WPs,
              chain : SUBSET WPs, st : BOOLEAN]
  /\ hwp_in_use \in [WPs -> BOOLEAN] /\ asked \in [WPs -> Codes]
  /\ mp_hash \subseteq [type : HwTypes, addr : Addrs, instr : WPs]
  /\ rsp.pc \in {"idle", "dvr", "dcr", "dmr2_read", "dmr2_write", "dmr1_read", "dmr1_write",
                 "return", "unstall", "waiting"}
  /\ rsp.wp \in WPs \cup {-1} /\ hwp.wp \in WPs \cup {-1}
  /\ client.pc \in {"idle", "read", "have", "write"} /\ client.i \in 1..Len(Regs)
  /\ gdb \subseteq Points

\* The table is right whenever neither server is in the middle of a request:
\* a watchpoint is in use exactly when one matchpoint of GDB has it, or the
\* person's last setting of it compares something, or it has been unusable
\* since start-up; never two of these at once.  What is returned late, twice
\* or not at all shows here (hwp_get_available_watchpoint, hwp_write_reg).
Holders(w) == {<<e.type, e.addr>> : e \in {f \in mp_hash : f.instr = w}}
                \cup (IF asked[w] # "disabled" THEN {<<"client", asked[w]>>} ELSE {})
WatchpointsAccounted ==
  RspIdle /\ hwp.wp = -1 => \A w \in WPs :
    Cardinality(Holders(w)) = (IF hwp_in_use[w] THEN 1 ELSE 0)

\* While the CPU runs it breaks at every point GDB was told is inserted and
\* every point the person set, and nowhere else: across inserts, removes,
\* stops, edits and failed writes of the control program.
ClientBreaks(armed) == {<<wrote.dcr[w], wrote.dvr[w]>> : w \in
  {v \in WPs : Enabled(wrote.dcr[v]) /\ v \in wrote.wgb /\ v \notin wrote.chain /\ armed[v]}}
BreaksAsAsked ==
  running => /\ gdb \cup ClientBreaks([w \in WPs |-> Enabled(asked[w])]) \subseteq BreakPoints
             /\ BreakPoints \subseteq gdb \cup ClientBreaks([w \in WPs |-> TRUE])

\* The CPU starts with the single-step bits as the request asked, although
\* rsp_step_generic() trusts single_step_mode and does not look at DMR1, and
\* with no watchpoint status left over from the stop before.
StartsAsAsked ==
  [][~running /\ running' => cpu'.st = (rsp.op = "s") /\ cpu'.wbs = {}]_vars

\* A stop report moves NPC back to PPC exactly when a watchpoint stopped the
\* CPU: doing it after a step would run an instruction twice.
NpcResetForWatchpoints ==
  RspIdle /\ why # "none" => npc_reset = (why = "watch")
=============================================================================
