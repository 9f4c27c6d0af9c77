------------------------- MODULE GdbRequestsProofs -------------------------
(***************************************************************************)
(* Proofs about the requests of GDB: for a program of any length, any      *)
(* number of requests and instructions, and, where a theorem does not say  *)
(* otherwise, whatever fails.                                              *)
(***************************************************************************)
EXTENDS GdbRequests, TLAPS

(***************************************************************************)
(* The causes in DRR are those of this run, and a pending stop still has   *)
(* what StopEvent needs to find the instruction that is due: PPC is at a   *)
(* breakpoint exactly when a breakpoint stopped the CPU.                   *)
(***************************************************************************)
StopInv ==
  /\ target_running => client_waiting
  /\ running => target_running /\ drr = {}
  /\ running /\ ~fresh => ppc \notin gdb.points
  /\ target_running /\ ~running =>
       /\ \/ cause = "ILL" /\ drr = {"IIE"}
          \/ cause = "TRAP" /\ drr = {}
          \/ cause = "TRAP" /\ drr = {"TE"}
       /\ ppc \in gdb.points => cause = "TRAP" /\ due = ppc
       /\ ppc \notin gdb.points => npc = due
  /\ ~target_running => npc = due /\ sigval = cause /\ gdb.sig = cause

RInv == RequestTypeOK /\ ProgramKept /\ RunsWhatIsDue /\ WaitsForRunningCpu /\ StopInv

(***************************************************************************)
(* Where the PC of the next reply comes from is where the CPU goes on.     *)
(* While it runs SPR_NPC can be trusted once something has been executed.  *)
(***************************************************************************)
CacheInv ==
  /\ target_running => ~use_cached_npc /\ gdb.pc = Unknown
  /\ running /\ ~fresh => npc_reads = npc
  /\ target_running /\ ~running => npc_reads = npc
  /\ ~target_running => npc = ReportedNpc

-----------------------------------------------------------------------------
(***************************************************************************)
(* The program is somewhere, and the CPU stays in it.                      *)
(***************************************************************************)
LEMMA AddrsFacts == 0 \in Addrs /\ Unknown \notin Addrs /\ \A a \in Addrs : Next1(a) \in Addrs
  BY RequestAssumption DEF Addrs, Unknown, Next1

(***************************************************************************)
(* ProgramKept without the set of addresses: what the provers use.         *)
(***************************************************************************)
LEMMA KeptMeans ==
  ProgramKept <=> /\ \A e \in mp_hash : e.addr \in gdb.points /\ e.instr = prog[e.addr]
                  /\ \A a \in gdb.points : \E e \in mp_hash : e.addr = a
                  /\ \A a \in Addrs : mem[a] = IF a \in gdb.points THEN TRAP ELSE prog[a]
  BY DEF ProgramKept

(***************************************************************************)
(* The initial states satisfy the invariant.                               *)
(***************************************************************************)
LEMMA InitInv == Init => RInv
<1> SUFFICES ASSUME Init PROVE RInv
  OBVIOUS
<1> USE RequestAssumption, AddrsFacts DEF Init, mp_hash_init
<1>1. RequestTypeOK
  BY DEF RequestTypeOK, Signals, NoRequest
<1>2. ProgramKept
  BY DEF ProgramKept
<1>3. RunsWhatIsDue /\ WaitsForRunningCpu /\ StopInv
  BY DEF RunsWhatIsDue, WaitsForRunningCpu, StopInv, NoRequest
<1> QED BY <1>1, <1>2, <1>3 DEF RInv

(***************************************************************************)
(* The CPU's own steps.                                                    *)
(***************************************************************************)
LEMMA CpuStepsInv == RInv /\ CpuSteps => RInv'
<1> SUFFICES ASSUME RInv, CpuSteps PROVE RInv'
  OBVIOUS
<1> USE AddrsFacts DEF CpuLeaves, Halt, cacheVars, stateVars
<1>t. RequestTypeOK /\ ProgramKept /\ RunsWhatIsDue /\ WaitsForRunningCpu /\ StopInv
  BY DEF RInv
<1>k. UNCHANGED <<mem, mp_hash, gdb, prog, sigval, target_running, client_waiting, cached_npc, use_cached_npc>>
  BY DEF CpuSteps, Execute, Trap, BreakIn
<1>1. ProgramKept' /\ WaitsForRunningCpu'
  BY <1>t, <1>k DEF ProgramKept, WaitsForRunningCpu
<1>2. CASE Execute
  <2>1. RequestTypeOK'
    BY <1>t, <1>k, <1>2 DEF Execute, RequestTypeOK, Signals
  <2>2. npc \notin gdb.points
    BY <1>t, <1>2 DEF Execute, ProgramKept, RequestTypeOK
  <2>3. RunsWhatIsDue'
    BY <1>t, <1>2 DEF Execute, RunsWhatIsDue
  <2>4. target_running /\ client_waiting /\ drr = {}
    BY <1>t, <1>2 DEF Execute, StopInv
  <2>5. ppc' \notin gdb.points' /\ npc' = due'
    BY <1>k, <1>2, <2>2 DEF Execute
  <2>6. \/ running' /\ drr' = {}
        \/ ~running' /\ cause' = "ILL" /\ drr' = {"IIE"}
        \/ ~running' /\ cause' = "TRAP" /\ drr' = {}
    BY <1>2, <2>4 DEF Execute
  <2>7. StopInv'
    BY <1>k, <2>4, <2>5, <2>6 DEF StopInv
  <2> QED BY <1>1, <2>1, <2>3, <2>7 DEF RInv
<1>3. CASE Trap
  <2>1. RequestTypeOK'
    BY <1>t, <1>k, <1>3 DEF Trap, RequestTypeOK, Signals
  <2>2. RunsWhatIsDue'
    BY <1>3 DEF Trap, RunsWhatIsDue
  <2>3. StopInv'
    BY <1>t, <1>k, <1>3 DEF Trap, StopInv, RunsWhatIsDue
  <2> QED BY <1>1, <2>1, <2>2, <2>3 DEF RInv
<1>4. CASE BreakIn
  <2>1. RequestTypeOK'
    BY <1>t, <1>k, <1>4 DEF BreakIn, RequestTypeOK, Signals
  <2>2. RunsWhatIsDue'
    BY <1>4 DEF BreakIn, RunsWhatIsDue
  <2>3. StopInv'
    BY <1>t, <1>k, <1>4 DEF BreakIn, StopInv, RunsWhatIsDue
  <2> QED BY <1>1, <2>1, <2>2, <2>3 DEF RInv
<1> QED BY <1>2, <1>3, <1>4 DEF CpuSteps

(***************************************************************************)
(* Requests that at most tell GDB something or leave it waiting.           *)
(***************************************************************************)
LEMMA QuietInv ==
  ASSUME RInv, Quiet,
         NEW w \in {NoRequest, "C", "ignored"} \cup {gdb.wait},
         NEW pc \in Addrs \cup {Unknown}, NEW sig \in {gdb.sig, sigval},
         gdb' = [gdb EXCEPT !.wait = w, !.pc = pc, !.sig = sig]
  PROVE  RInv'
<1> USE DEF Quiet, cpuVars, cacheVars, stateVars, ghostVars
<1>t. RequestTypeOK /\ ProgramKept /\ RunsWhatIsDue /\ WaitsForRunningCpu /\ StopInv
  BY DEF RInv
<1>1. /\ gdb' \in [wait : {NoRequest, "c", "s", "C", "ignored"}, pc : Addrs \cup {Unknown},
                   sig : Signals, points : SUBSET Addrs]
      /\ gdb'.wait = w /\ gdb'.pc = pc /\ gdb'.sig = sig /\ gdb'.points = gdb.points
  BY <1>t DEF RequestTypeOK
<1>2. RequestTypeOK'
  BY <1>t, <1>1 DEF RequestTypeOK
<1>3. ProgramKept' /\ RunsWhatIsDue'
  BY <1>t, <1>1 DEF ProgramKept, RunsWhatIsDue
<1>4. WaitsForRunningCpu'
  BY <1>t, <1>1 DEF WaitsForRunningCpu, NoRequest
<1>5. StopInv'
  BY <1>t, <1>1 DEF StopInv
<1> QED BY <1>2, <1>3, <1>4, <1>5 DEF RInv

(***************************************************************************)
(* Requests that write SPR_NPC: the CPU is stopped and goes on there.      *)
(***************************************************************************)
LEMMA NpcInv ==
  ASSUME RInv, Request,
         npc' \in Addrs, npc_reads' \in Addrs, due' = npc',
         cached_npc' \in Addrs, use_cached_npc' \in BOOLEAN,
         NEW pc \in Addrs \cup {Unknown}, gdb' = [gdb EXCEPT !.pc = pc],
         UNCHANGED <<mem, ppc, drr, running, step, fresh, mp_hash, stateVars, prog, cause>>
  PROVE  RInv'
<1> USE DEF Request, stateVars
<1>t. RequestTypeOK /\ ProgramKept /\ RunsWhatIsDue /\ WaitsForRunningCpu /\ StopInv
  BY DEF RInv
<1>1. /\ gdb' \in [wait : {NoRequest, "c", "s", "C", "ignored"}, pc : Addrs \cup {Unknown},
                   sig : Signals, points : SUBSET Addrs]
      /\ gdb'.wait = gdb.wait /\ gdb'.sig = gdb.sig /\ gdb'.points = gdb.points
  BY <1>t DEF RequestTypeOK
<1>2. RequestTypeOK'
  BY <1>t, <1>1 DEF RequestTypeOK
<1>3. ProgramKept' /\ RunsWhatIsDue' /\ WaitsForRunningCpu'
  BY <1>t, <1>1 DEF ProgramKept, RunsWhatIsDue, WaitsForRunningCpu
<1>4. StopInv'
  BY <1>t, <1>1 DEF StopInv
<1> QED BY <1>2, <1>3, <1>4 DEF RInv

(***************************************************************************)
(* Requests that change memory or the table of matchpoints keep the rest   *)
(* of the invariant.                                                       *)
(***************************************************************************)
LEMMA MemoryInv ==
  ASSUME RInv, Request, ProgramKept',
         NEW points \in SUBSET Addrs, gdb' = [gdb EXCEPT !.points = points],
         mem' \in [Addrs -> Instrs \cup {TRAP}], prog' \in [Addrs -> Instrs],
         mp_hash' \subseteq [type : {"BP_MEMORY"}, addr : Addrs, instr : Instrs],
         UNCHANGED <<cpuVars, cacheVars, stateVars, due, cause>>
  PROVE  RInv'
<1> USE DEF Request, stateVars, cpuVars, cacheVars
<1>t. RequestTypeOK /\ RunsWhatIsDue /\ WaitsForRunningCpu /\ StopInv
  BY DEF RInv
<1>1. /\ gdb' \in [wait : {NoRequest, "c", "s", "C", "ignored"}, pc : Addrs \cup {Unknown},
                   sig : Signals, points : SUBSET Addrs]
      /\ gdb'.wait = gdb.wait /\ gdb'.sig = gdb.sig /\ gdb'.points = points
  BY <1>t DEF RequestTypeOK
<1>2. RequestTypeOK'
  BY <1>t, <1>1 DEF RequestTypeOK
<1>3. RunsWhatIsDue' /\ WaitsForRunningCpu'
  BY <1>t, <1>1 DEF RunsWhatIsDue, WaitsForRunningCpu
<1>4. StopInv'
  BY <1>t, <1>1 DEF StopInv
<1> QED BY <1>2, <1>3, <1>4 DEF RInv

(***************************************************************************)
(* Writing a word where there is no breakpoint ('M', 'X').                 *)
(***************************************************************************)
LEMMA WriteWordInv ==
  ASSUME RInv, NEW addr \in Addrs, NEW instr \in Instrs, WriteWord(addr, instr)
  PROVE  RInv'
<1>t. RequestTypeOK /\ ProgramKept
  BY DEF RInv
<1>1. /\ Request /\ addr \notin gdb.points /\ gdb' = gdb
      /\ UNCHANGED <<cpuVars, mp_hash, cacheVars, stateVars, due, cause>>
  BY DEF WriteWord, Answered
<1>2. \/ mem' = [mem EXCEPT ![addr] = instr] /\ prog' = [prog EXCEPT ![addr] = instr]
      \/ UNCHANGED <<mem, prog>>
  BY DEF WriteWord
<1>3. mem' \in [Addrs -> Instrs \cup {TRAP}] /\ prog' \in [Addrs -> Instrs]
  BY <1>t, <1>2 DEF RequestTypeOK
<1>4. ProgramKept'
  BY <1>t, <1>1, <1>2 DEF ProgramKept, RequestTypeOK
<1>5. gdb' = [gdb EXCEPT !.points = gdb.points] /\ gdb.points \in SUBSET Addrs
  BY <1>t, <1>1 DEF RequestTypeOK
<1>6. mp_hash' \subseteq [type : {"BP_MEMORY"}, addr : Addrs, instr : Instrs]
  BY <1>t, <1>1 DEF RequestTypeOK
<1> QED BY <1>1, <1>3, <1>4, <1>5, <1>6, MemoryInv

(***************************************************************************)
(* Z0, the first time or again.                                            *)
(***************************************************************************)
LEMMA InsertInv ==
  ASSUME RInv, NEW addr \in Addrs, rsp_insert_matchpoint(addr)
  PROVE  RInv'
<1> DEFINE new == [type |-> "BP_MEMORY", addr |-> addr, instr |-> mem[addr]]
<1>t. RequestTypeOK /\ ProgramKept
  BY DEF RInv
<1>1. /\ Request /\ gdb' = [gdb EXCEPT !.points = gdb.points \cup {addr}]
      /\ mem' = [mem EXCEPT ![addr] = TRAP] /\ prog' = prog
      /\ UNCHANGED <<cpuVars, cacheVars, stateVars, due, cause>>
  BY DEF rsp_insert_matchpoint, ghostVars
<1>2. CASE addr \in gdb.points
  <2>1. PICK e \in mp_hash : e.addr = addr
    BY <1>t, <1>2, KeptMeans
  <2>2. mp_hash' = mp_hash
    BY <1>t, <2>1 DEF rsp_insert_matchpoint, mp_hash_add, mp_hash_lookup, RequestTypeOK
  <2>3. mem' \in [Addrs -> Instrs \cup {TRAP}] /\ prog' \in [Addrs -> Instrs]
    BY <1>t, <1>1 DEF RequestTypeOK
  <2>4. gdb'.points = gdb.points
    BY <1>t, <1>1, <1>2 DEF RequestTypeOK
  <2>5. ProgramKept'
    BY <1>t, <1>1, <1>2, <2>2, <2>4 DEF ProgramKept, RequestTypeOK
  <2>6. gdb.points \cup {addr} \in SUBSET Addrs
    BY <1>t DEF RequestTypeOK
  <2>7. mp_hash' \subseteq [type : {"BP_MEMORY"}, addr : Addrs, instr : Instrs]
    BY <1>t, <2>2 DEF RequestTypeOK
  <2> QED BY <1>1, <2>3, <2>5, <2>6, <2>7, MemoryInv
<1>3. CASE addr \notin gdb.points
  <2>1. mem[addr] = prog[addr] /\ prog[addr] \in Instrs
    BY <1>t, <1>3 DEF ProgramKept, RequestTypeOK
  <2>2. mp_hash' = mp_hash \cup {new}
    <3>1. \A e \in mp_hash : e.addr # addr
      BY <1>t, <1>3, KeptMeans
    <3>2. mp_hash_lookup(mp_hash, "BP_MEMORY", addr) = {}
      BY <3>1 DEF mp_hash_lookup
    <3> QED BY <3>2 DEF rsp_insert_matchpoint, mp_hash_add
  <2>3. mem' \in [Addrs -> Instrs \cup {TRAP}] /\ prog' \in [Addrs -> Instrs]
    BY <1>t, <1>1 DEF RequestTypeOK
  <2>4. gdb'.points = gdb.points \cup {addr}
    BY <1>t, <1>1 DEF RequestTypeOK
  <2>5. ProgramKept'
    <3>1. \A e \in mp_hash' : e.addr \in gdb'.points /\ e.instr = prog'[e.addr]
      BY <1>t, <1>1, <2>1, <2>2, <2>4, KeptMeans
    <3>2. \A a \in gdb'.points : \E e \in mp_hash' : e.addr = a
      <4>1. new \in mp_hash' /\ new.addr = addr
        BY <2>2
      <4> QED BY <1>t, <2>2, <2>4, <4>1, KeptMeans
    <3>3. \A a \in Addrs : mem'[a] = IF a \in gdb'.points THEN TRAP ELSE prog'[a]
      BY <1>t, <1>1, <2>4, KeptMeans DEF RequestTypeOK
    <3>4. {e.addr : e \in mp_hash'} = gdb'.points
      BY <3>1, <3>2
    <3> QED BY <3>1, <3>3, <3>4 DEF ProgramKept
  <2>6. gdb.points \cup {addr} \in SUBSET Addrs
    BY <1>t DEF RequestTypeOK
  <2>7. mp_hash' \subseteq [type : {"BP_MEMORY"}, addr : Addrs, instr : Instrs]
    BY <1>t, <2>1, <2>2 DEF RequestTypeOK
  <2> QED BY <1>1, <2>3, <2>5, <2>6, <2>7, MemoryInv
<1> QED BY <1>2, <1>3

(***************************************************************************)
(* z0, of a breakpoint that is there or is not.                            *)
(***************************************************************************)
LEMMA RemoveInv ==
  ASSUME RInv, NEW addr \in Addrs, rsp_remove_matchpoint(addr)
  PROVE  RInv'
<1> DEFINE found == mp_hash_lookup(mp_hash, "BP_MEMORY", addr)
<1>t. RequestTypeOK /\ ProgramKept
  BY DEF RInv
<1>1. /\ Request /\ gdb' = [gdb EXCEPT !.points = gdb.points \ {addr}]
      /\ mp_hash' = mp_hash \ found /\ prog' = prog
      /\ UNCHANGED <<cpuVars, cacheVars, stateVars, due, cause>>
  BY DEF rsp_remove_matchpoint, ghostVars, mp_hash_delete
<1>2. found = {e \in mp_hash : e.addr = addr}
  BY <1>t DEF mp_hash_lookup, RequestTypeOK
<1>3. mem' = [mem EXCEPT ![addr] = prog[addr]]
  <2>1. CASE found = {}
    <3>1. addr \notin gdb.points
      BY <1>t, <1>2, <2>1, KeptMeans
    <3>2. mem[addr] = prog[addr]
      BY <1>t, <3>1, KeptMeans
    <3>3. mem' = [mem EXCEPT ![addr] = mem[addr]]
      BY <2>1 DEF rsp_remove_matchpoint
    <3> QED BY <3>2, <3>3
  <2>2. CASE found # {}
    <3>1. (CHOOSE e \in found : TRUE) \in found
      BY <2>2
    <3>2. (CHOOSE e \in found : TRUE).instr = prog[addr]
      BY <1>t, <1>2, <3>1, KeptMeans
    <3>3. mem' = [mem EXCEPT ![addr] = (CHOOSE e \in found : TRUE).instr]
      BY <2>2 DEF rsp_remove_matchpoint
    <3> QED BY <3>2, <3>3
  <2> QED BY <2>1, <2>2
<1>4. mem' \in [Addrs -> Instrs \cup {TRAP}] /\ prog' \in [Addrs -> Instrs]
  BY <1>t, <1>1, <1>3 DEF RequestTypeOK
<1>5. gdb'.points = gdb.points \ {addr}
  BY <1>t, <1>1 DEF RequestTypeOK
<1>6. ProgramKept'
  <2>1. \A e \in mp_hash' : e.addr \in gdb'.points /\ e.instr = prog'[e.addr]
    BY <1>t, <1>1, <1>2, <1>5, KeptMeans
  <2>2. \A a \in gdb'.points : \E e \in mp_hash' : e.addr = a
    BY <1>t, <1>1, <1>2, <1>5, KeptMeans
  <2>3. \A a \in Addrs : mem'[a] = IF a \in gdb'.points THEN TRAP ELSE prog'[a]
    BY <1>t, <1>1, <1>3, <1>5, KeptMeans DEF RequestTypeOK
  <2>4. {e.addr : e \in mp_hash'} = gdb'.points
    BY <2>1, <2>2
  <2> QED BY <2>1, <2>3, <2>4 DEF ProgramKept
<1>7. gdb.points \ {addr} \in SUBSET Addrs
  BY <1>t DEF RequestTypeOK
<1>8. mp_hash' \subseteq [type : {"BP_MEMORY"}, addr : Addrs, instr : Instrs]
  BY <1>t, <1>1 DEF RequestTypeOK
<1> QED BY <1>1, <1>4, <1>6, <1>7, <1>8, MemoryInv

(***************************************************************************)
(* 'c', 's' and the like: the CPU starts where it is due.                  *)
(***************************************************************************)
LEMMA ResumeInv ==
  ASSUME RInv, Request, NEW stepping \in BOOLEAN, NEW req \in {"c", "s"}, Resume(stepping, req),
         \/ UNCHANGED <<npc, npc_reads, cached_npc, due>>
         \/ \E addr \in Addrs : npc' = addr /\ npc_reads' = addr /\ cached_npc' = addr /\ due' = addr
  PROVE  RInv'
<1> USE DEF Resume, set_stall_state0
<1>t. RequestTypeOK /\ ProgramKept /\ StopInv
  BY DEF RInv
<1>1. /\ gdb' \in [wait : {NoRequest, "c", "s", "C", "ignored"}, pc : Addrs \cup {Unknown},
                   sig : Signals, points : SUBSET Addrs]
      /\ gdb'.wait = req /\ gdb'.sig = gdb.sig /\ gdb'.points = gdb.points
  BY <1>t DEF RequestTypeOK
<1>2. npc' \in Addrs /\ npc_reads' \in Addrs /\ cached_npc' \in Addrs /\ due' \in Addrs
  BY <1>t DEF RequestTypeOK
<1>3. npc' = due'
  BY <1>t DEF Request, StopInv
<1>4. RequestTypeOK'
  BY <1>t, <1>1, <1>2 DEF RequestTypeOK
<1>5. ProgramKept'
  BY <1>t, <1>1 DEF ProgramKept
<1>6. RunsWhatIsDue' /\ WaitsForRunningCpu' /\ StopInv'
  BY <1>3 DEF RunsWhatIsDue, WaitsForRunningCpu, StopInv
<1> QED BY <1>4, <1>5, <1>6 DEF RInv

(***************************************************************************)
(* handle_rsp() notices the stop: GDB learns its signal, and NPC goes back *)
(* to the breakpoint that caused it.                                       *)
(***************************************************************************)
LEMMA StopEventInv == RInv /\ StopEvent => RInv'
<1> SUFFICES ASSUME RInv, StopEvent PROVE RInv'
  OBVIOUS
<1> USE DEF cacheVars, ghostVars
<1>t. RequestTypeOK /\ ProgramKept /\ RunsWhatIsDue /\ WaitsForRunningCpu /\ StopInv
  BY DEF RInv
<1>1. /\ target_running /\ ~running /\ client_waiting
      /\ ~target_running' /\ ~running' /\ client_waiting' = FALSE /\ target_running' = FALSE
      /\ UNCHANGED <<mem, ppc, drr, running, step, fresh, mp_hash, prog, due, cause>>
  BY <1>t DEF StopEvent, StopInv
<1>2. sigval' = cause
  <2>1. sigval' = rsp_exception(drr)
    BY DEF StopEvent
  <2>2. CASE cause = "ILL" /\ drr = {"IIE"}
    <3>1. drr # {} /\ drr # {"TE"}
      BY <2>2
    <3> QED BY <2>1, <2>2, <3>1 DEF rsp_exception
  <2>3. CASE cause = "TRAP" /\ drr = {}
    BY <2>1, <2>3 DEF rsp_exception
  <2>4. CASE cause = "TRAP" /\ drr = {"TE"}
    <3>1. drr # {} /\ drr # {"IIE"}
      BY <2>4
    <3> QED BY <2>1, <2>4, <3>1 DEF rsp_exception
  <2> QED BY <1>t, <1>1, <2>2, <2>3, <2>4 DEF StopInv
<1>3. /\ gdb' = [gdb EXCEPT !.wait = NoRequest, !.sig = cause]
      /\ IF cause = "TRAP" /\ mp_hash_lookup(mp_hash, "BP_MEMORY", ppc) # {}
         THEN set_npc(ppc, TRUE)
         ELSE UNCHANGED <<npc, npc_reads, cached_npc, use_cached_npc>>
  BY <1>1, <1>2 DEF StopEvent
<1>4. /\ gdb' \in [wait : {NoRequest, "c", "s", "C", "ignored"}, pc : Addrs \cup {Unknown},
                   sig : Signals, points : SUBSET Addrs]
      /\ gdb'.wait = NoRequest /\ gdb'.sig = cause /\ gdb'.points = gdb.points
  BY <1>t, <1>3 DEF RequestTypeOK
<1>5. npc' \in Addrs /\ npc_reads' \in Addrs /\ cached_npc' \in Addrs /\ use_cached_npc' \in BOOLEAN
  BY <1>t, <1>3 DEF RequestTypeOK, set_npc
<1>6. RequestTypeOK'
  BY <1>t, <1>1, <1>2, <1>4, <1>5 DEF RequestTypeOK
<1>7. ProgramKept' /\ RunsWhatIsDue' /\ WaitsForRunningCpu'
  BY <1>t, <1>1, <1>4 DEF ProgramKept, RunsWhatIsDue, WaitsForRunningCpu, NoRequest
<1>8. npc' = due
  <2>1. (mp_hash_lookup(mp_hash, "BP_MEMORY", ppc) # {}) <=> ppc \in gdb.points
    BY <1>t, KeptMeans DEF mp_hash_lookup, RequestTypeOK
  <2>2. CASE ppc \in gdb.points
    BY <1>t, <1>1, <1>3, <2>1, <2>2 DEF StopInv, set_npc
  <2>3. CASE ppc \notin gdb.points
    BY <1>t, <1>1, <1>3, <2>1, <2>3 DEF StopInv
  <2> QED BY <2>2, <2>3
<1>9. StopInv'
  BY <1>1, <1>2, <1>4, <1>8 DEF StopInv
<1> QED BY <1>6, <1>7, <1>9 DEF RInv

(***************************************************************************)
(* Every request keeps the invariant.                                      *)
(***************************************************************************)
LEMMA WriteAllInv ==
  ASSUME RInv, NEW addr \in Addrs, rsp_write_all_regs(addr)
  PROVE  RInv'
<1>1. RequestTypeOK
  BY DEF RInv
<1>2. /\ Request /\ npc' = addr /\ npc_reads' \in Addrs /\ due' = npc'
      /\ cached_npc' \in Addrs /\ use_cached_npc' \in BOOLEAN
      /\ gdb' = [gdb EXCEPT !.pc = addr]
      /\ UNCHANGED <<mem, ppc, drr, running, step, fresh, mp_hash, stateVars, prog, cause>>
  BY <1>1 DEF rsp_write_all_regs, RequestTypeOK, cacheVars
<1> QED BY <1>2, NpcInv

LEMMA RequestStepsInv == RInv /\ RequestSteps => RInv'
<1> SUFFICES ASSUME RInv, RequestSteps PROVE RInv'
  OBVIOUS
<1>t. RequestTypeOK /\ StopInv
  BY DEF RInv
<1>q. ASSUME Quiet,
             NEW w \in {gdb.wait, "C", "ignored"}, NEW pc \in {gdb.pc, ReportedNpc},
             NEW sig \in {gdb.sig, sigval}, gdb' = [gdb EXCEPT !.wait = w, !.pc = pc, !.sig = sig]
      PROVE RInv'
  <2>1. pc \in Addrs \cup {Unknown}
    BY <1>t, <1>q DEF RequestTypeOK, ReportedNpc
  <2> QED BY <1>q, <2>1, QuietInv
<1>a. ASSUME Quiet, Answered PROVE RInv'
  <2>1. gdb' = [gdb EXCEPT !.wait = gdb.wait, !.pc = gdb.pc, !.sig = gdb.sig]
    BY <1>t, <1>a DEF Answered, RequestTypeOK
  <2> QED BY <1>a, <1>q, <2>1
<1>p. ASSUME Quiet, gdb' = [gdb EXCEPT !.pc = ReportedNpc] PROVE RInv'
  <2>1. gdb' = [gdb EXCEPT !.wait = gdb.wait, !.pc = ReportedNpc, !.sig = gdb.sig]
    BY <1>t, <1>p DEF RequestTypeOK
  <2> QED BY <1>p, <1>q, <2>1
<1>w. ASSUME Quiet, NEW w \in {"C", "ignored"}, gdb' = [gdb EXCEPT !.wait = w] PROVE RInv'
  <2>1. gdb' = [gdb EXCEPT !.wait = w, !.pc = gdb.pc, !.sig = gdb.sig]
    BY <1>t, <1>w DEF RequestTypeOK
  <2> QED BY <1>w, <1>q, <2>1
<1>1. CASE rsp_read_all_regs \/ rsp_read_reg
  BY <1>1, <1>a, <1>p DEF rsp_read_all_regs, rsp_read_reg
<1>2. CASE rsp_read_mem
  BY <1>2, <1>a DEF rsp_read_mem
<1>3. CASE AskSignal
  <2>1. Quiet /\ gdb' = [gdb EXCEPT !.wait = gdb.wait, !.pc = gdb.pc, !.sig = sigval]
    BY <1>t, <1>3 DEF AskSignal, RequestTypeOK
  <2> QED BY <1>q, <2>1
<1>4. ASSUME NEW addr \in Addrs, rsp_write_reg(addr) PROVE RInv'
  <2>1. /\ Request /\ npc' \in Addrs /\ npc_reads' \in Addrs /\ due' = npc'
        /\ cached_npc' \in Addrs /\ use_cached_npc' \in BOOLEAN
        /\ UNCHANGED <<mem, ppc, drr, running, step, fresh, mp_hash, stateVars, prog, cause>>
    BY <1>t, <1>4 DEF rsp_write_reg, set_npc, RequestTypeOK, StopInv, Request
  <2>2. gdb' = [gdb EXCEPT !.pc = addr] \/ gdb' = [gdb EXCEPT !.pc = Unknown]
    BY <1>4 DEF rsp_write_reg
  <2> QED BY <2>1, <2>2, NpcInv
<1>5. ASSUME NEW addr \in Addrs, rsp_write_all_regs(addr) PROVE RInv'
  BY <1>5, WriteAllInv
<1>6. ASSUME NEW addr \in Addrs, rsp_insert_matchpoint(addr) \/ rsp_remove_matchpoint(addr) PROVE RInv'
  BY <1>6, InsertInv, RemoveInv
<1>7. ASSUME NEW cmd \in {"readspr", "writespr", "other"}, rsp_command(cmd) PROVE RInv'
  <2>1. CASE cmd = "readspr"
    BY <1>7, <2>1, <1>a DEF rsp_command
  <2>2. CASE cmd = "writespr"
    BY <1>7, <2>2, <1>5 DEF rsp_command
  <2>3. CASE cmd = "other"
    BY <1>7, <2>3, <1>w DEF rsp_command
  <2> QED BY <2>1, <2>2, <2>3
<1>8. ASSUME NEW addr \in Addrs, NEW instr \in Instrs, NEW matches \in BOOLEAN,
             rsp_write_mem(addr, instr, matches) \/ rsp_write_mem_bin(addr, instr)
      PROVE RInv'
  <2>1. WriteWord(addr, instr) \/ (Quiet /\ Answered)
    BY <1>8 DEF rsp_write_mem, rsp_write_mem_bin
  <2> QED BY <1>a, <2>1, WriteWordInv
<1>9. ASSUME NEW addr \in Addrs \cup {Unknown}, rsp_continue(addr) PROVE RInv'
  <2>1. /\ Request /\ Resume(FALSE, "c")
        /\ \/ UNCHANGED <<npc, npc_reads, cached_npc, due>>
           \/ \E a \in Addrs : npc' = a /\ npc_reads' = a /\ cached_npc' = a /\ due' = a
    BY <1>9 DEF rsp_continue
  <2> QED BY <2>1, ResumeInv
<1>10. CASE rsp_step
  BY <1>10, ResumeInv DEF rsp_step
<1>11. CASE rsp_continue_with_signal
  BY <1>11, <1>w DEF rsp_continue_with_signal
<1>12. CASE rsp_restart
  <2>1. /\ Request /\ npc' \in Addrs /\ npc_reads' \in Addrs /\ due' = npc'
        /\ cached_npc' \in Addrs /\ use_cached_npc' \in BOOLEAN
        /\ gdb' = [gdb EXCEPT !.pc = Unknown]
        /\ UNCHANGED <<mem, ppc, drr, running, step, fresh, mp_hash, stateVars, prog, cause>>
    BY <1>t, <1>12, AddrsFacts DEF rsp_restart, set_npc, RequestTypeOK, EXCEPT_RESET
  <2> QED BY <2>1, NpcInv
<1>13. CASE NoEffect
  <2>1. Quiet /\ (Answered \/ gdb' = [gdb EXCEPT !.wait = "ignored"])
    BY <1>13 DEF NoEffect
  <2> QED BY <1>a, <1>w, <2>1
<1> QED
  BY <1>1, <1>2, <1>3, <1>4, <1>5, <1>6, <1>7, <1>8, <1>9, <1>10, <1>11, <1>12, <1>13
  DEF RequestSteps

(***************************************************************************)
(* Every step keeps the invariant.                                         *)
(***************************************************************************)
LEMMA NextInv == RInv /\ [Next]_vars => RInv'
<1> SUFFICES ASSUME RInv, [Next]_vars PROVE RInv'
  OBVIOUS
<1>1. CASE CpuSteps
  BY <1>1, CpuStepsInv
<1>2. CASE RequestSteps
  BY <1>2, RequestStepsInv
<1>3. CASE StopEvent
  BY <1>3, StopEventInv
<1>4. CASE GdbGivesUp
  <2>1. RequestTypeOK
    BY DEF RInv
  <2>2. Quiet /\ gdb' = [gdb EXCEPT !.wait = NoRequest, !.pc = gdb.pc, !.sig = gdb.sig]
    BY <1>4, <2>1 DEF GdbGivesUp, RequestTypeOK
  <2>3. gdb.pc \in Addrs \cup {Unknown}
    BY <2>1 DEF RequestTypeOK
  <2> QED BY <2>2, <2>3, QuietInv
<1>5. CASE UNCHANGED vars
  <2>1. RequestTypeOK' /\ ProgramKept'
    BY <1>5 DEF vars, cpuVars, cacheVars, stateVars, ghostVars, RInv, RequestTypeOK, ProgramKept
  <2>2. RunsWhatIsDue' /\ WaitsForRunningCpu' /\ StopInv'
    BY <1>5 DEF vars, cpuVars, cacheVars, stateVars, ghostVars, RInv,
                RunsWhatIsDue, WaitsForRunningCpu, StopInv
  <2> QED BY <2>1, <2>2 DEF RInv
<1> QED BY <1>1, <1>2, <1>3, <1>4, <1>5 DEF Next

LEMMA Invariance == Spec => []RInv
  BY InitInv, NextInv, PTL DEF Spec

-----------------------------------------------------------------------------
(***************************************************************************)
(* The server's state keeps its type: a failed write, a repeated packet or *)
(* an unknown one never leaves NPC, the table or GDB's view outside it.    *)
(***************************************************************************)
THEOREM RequestTypeCorrect == Spec => []RequestTypeOK
<1>1. RInv => RequestTypeOK
  BY DEF RInv
<1> QED BY <1>1, Invariance, PTL

(***************************************************************************)
(* Inserting and removing memory breakpoints, in any order and any number  *)
(* of times, never loses an instruction of the program.                    *)
(***************************************************************************)
THEOREM BreakpointsKeepProgram == Spec => []ProgramKept
<1>1. RInv => ProgramKept
  BY DEF RInv
<1> QED BY <1>1, Invariance, PTL

(***************************************************************************)
(* However the CPU was stopped and whatever GDB did meanwhile, it goes on  *)
(* with the instruction the program is due to execute.                     *)
(***************************************************************************)
THEOREM ProgramUndisturbed == Spec => []RunsWhatIsDue
<1>1. RInv => RunsWhatIsDue
  BY DEF RInv
<1> QED BY <1>1, Invariance, PTL

(***************************************************************************)
(* The signal GDB has is that of the last stop: DRR was cleared before it, *)
(* so the causes there have a signal of their own.                         *)
(***************************************************************************)
THEOREM SignalOfThisStop == Spec => []SignalTruthful
<1>1. RInv => SignalTruthful
  BY DEF RInv, StopInv, SignalTruthful
<1> QED BY <1>1, Invariance, PTL

(***************************************************************************)
(* GDB never waits for a continue or a step that is over or never began.   *)
(***************************************************************************)
THEOREM NoIdleWait == Spec => []WaitsForRunningCpu
<1>1. RInv => WaitsForRunningCpu
  BY DEF RInv
<1> QED BY <1>1, Invariance, PTL

-----------------------------------------------------------------------------
(***************************************************************************)
(* One step of the cache: if writing NPC does not fail and GDB does not    *)
(* write it past the cache, the PC of the next reply stays the NPC.        *)
(***************************************************************************)
LEMMA CacheStep ==
  ASSUME "npc" \notin Faults, FreeNpc = FALSE,
         RInv, CacheInv, PcTruthful, [Next]_vars
  PROVE  CacheInv' /\ PcTruthful'
<1> USE AddrsFacts DEF CacheInv, PcTruthful, ReportedNpc
<1>t. RequestTypeOK /\ StopInv
  BY DEF RInv
<1>g. gdb \in [wait : {NoRequest, "c", "s", "C", "ignored"}, pc : Addrs \cup {Unknown},
              sig : Signals, points : SUBSET Addrs]
  BY <1>t DEF RequestTypeOK
<1>q. ASSUME Quiet, gdb'.pc \in {gdb.pc, ReportedNpc},
             gdb'.pc = gdb.pc \/ ~target_running
      PROVE  CacheInv' /\ PcTruthful'
  BY <1>q, <1>t DEF Quiet, cpuVars, cacheVars, stateVars, ghostVars, StopInv
<1>a. ASSUME Quiet, Request, Answered \/ gdb' = [gdb EXCEPT !.pc = ReportedNpc]
      PROVE  CacheInv' /\ PcTruthful'
  BY <1>a, <1>q, <1>g DEF Answered, Request
<1>w. ASSUME Quiet, NEW w, gdb' = [gdb EXCEPT !.wait = w]
      PROVE  CacheInv' /\ PcTruthful'
  BY <1>w, <1>q, <1>g
<1>1. CASE CpuSteps
  <2>1. UNCHANGED <<gdb, cached_npc, use_cached_npc, target_running>> /\ running
    BY <1>1 DEF CpuSteps, Execute, Trap, BreakIn, CpuLeaves, cacheVars, stateVars
  <2>2. npc_reads' = npc' /\ fresh' = FALSE
    BY <1>1, <1>t DEF CpuSteps, Execute, Trap, BreakIn, RequestTypeOK
  <2>3. target_running
    BY <1>t, <2>1 DEF StopInv
  <2> QED BY <2>1, <2>2, <2>3
<1>2. CASE RequestSteps
  <2>1. CASE rsp_read_all_regs \/ rsp_read_reg \/ rsp_read_mem
    BY <2>1, <1>a DEF rsp_read_all_regs, rsp_read_reg, rsp_read_mem
  <2>2. CASE AskSignal
    BY <2>2, <1>q, <1>g DEF AskSignal
  <2>3. ASSUME NEW addr \in Addrs, rsp_write_reg(addr)
        PROVE  CacheInv' /\ PcTruthful'
    <3>1. gdb'.pc = addr /\ set_npc(addr, TRUE)
      BY <2>3, <1>g DEF rsp_write_reg
    <3> QED BY <2>3, <3>1 DEF rsp_write_reg, set_npc, Request, stateVars
  <2>4. ASSUME NEW addr \in Addrs, rsp_write_all_regs(addr)
        PROVE  CacheInv' /\ PcTruthful'
    <3>1. addr = npc /\ gdb'.pc = addr
      BY <2>4, <1>g DEF rsp_write_all_regs, Request
    <3> QED BY <2>4, <3>1 DEF rsp_write_all_regs, Request, stateVars, cacheVars
  <2>5. ASSUME NEW addr \in Addrs,
               \/ rsp_insert_matchpoint(addr) \/ rsp_remove_matchpoint(addr)
               \/ \E instr \in Instrs : WriteWord(addr, instr)
        PROVE  CacheInv' /\ PcTruthful'
    <3>1. gdb'.pc = gdb.pc /\ UNCHANGED <<cpuVars, cacheVars, stateVars>>
      BY <2>5, <1>g DEF rsp_insert_matchpoint, rsp_remove_matchpoint, WriteWord, Answered
    <3> QED BY <3>1 DEF cpuVars, cacheVars, stateVars
  <2>6. ASSUME NEW cmd \in {"readspr", "writespr", "other"}, rsp_command(cmd)
        PROVE  CacheInv' /\ PcTruthful'
    <3>1. CASE cmd = "readspr"
      BY <2>6, <3>1, <1>a DEF rsp_command
    <3>2. CASE cmd = "writespr"
      BY <2>6, <3>2, <2>4 DEF rsp_command
    <3>3. CASE cmd = "other"
      BY <2>6, <3>3, <1>w DEF rsp_command
    <3> QED BY <3>1, <3>2, <3>3
  <2>7. ASSUME NEW addr \in Addrs, NEW instr \in Instrs, NEW matches \in BOOLEAN,
               rsp_write_mem(addr, instr, matches) \/ rsp_write_mem_bin(addr, instr)
        PROVE  CacheInv' /\ PcTruthful'
    <3>1. WriteWord(addr, instr) \/ (Request /\ Quiet /\ Answered)
      BY <2>7 DEF rsp_write_mem, rsp_write_mem_bin
    <3> QED BY <1>a, <2>5, <3>1
  <2>8. ASSUME NEW stepping, NEW req, Resume(stepping, req) PROVE CacheInv' /\ PcTruthful'
    <3>1. gdb'.pc = Unknown /\ running' /\ fresh' /\ target_running' /\ ~use_cached_npc'
      BY <2>8, <1>g DEF Resume, set_stall_state0
    <3> QED BY <3>1
  <2>9. CASE rsp_step \/ \E addr \in Addrs \cup {Unknown} : rsp_continue(addr)
    BY <2>9, <2>8 DEF rsp_step, rsp_continue
  <2>10. CASE rsp_continue_with_signal \/ NoEffect
    BY <2>10, <1>a, <1>w DEF rsp_continue_with_signal, NoEffect
  <2>11. CASE rsp_restart
    <3>1. gdb'.pc = Unknown
      BY <2>11, <1>g DEF rsp_restart
    <3> QED BY <2>11, <3>1 DEF rsp_restart, set_npc, Request, stateVars
  <2> QED BY <1>2, <2>1, <2>2, <2>3, <2>4, <2>5, <2>6, <2>7, <2>9, <2>10, <2>11 DEF RequestSteps
<1>3. CASE StopEvent
  <2>1. /\ target_running' = FALSE /\ ~running' /\ target_running /\ ~running
        /\ npc_reads = npc /\ ~use_cached_npc
    BY <1>3 DEF StopEvent
  <2>2. \/ UNCHANGED <<npc, npc_reads, cached_npc, use_cached_npc>>
        \/ cached_npc' = npc' /\ use_cached_npc' = TRUE
    BY <1>3 DEF StopEvent, set_npc, cacheVars
  <2>3. gdb'.pc = Unknown
    <3>1. gdb' = gdb \/ gdb' = [gdb EXCEPT !.wait = NoRequest, !.sig = sigval']
      BY <1>3 DEF StopEvent
    <3> QED BY <1>g, <2>1, <3>1
  <2> QED BY <2>1, <2>2, <2>3
<1>4. CASE GdbGivesUp
  BY <1>4, <1>w DEF GdbGivesUp
<1>5. CASE UNCHANGED vars
  BY <1>5 DEF vars, cpuVars, cacheVars, stateVars
<1> QED BY <1>1, <1>2, <1>3, <1>4, <1>5 DEF Next

(***************************************************************************)
(* What GDB is told of the PC is true although reading SPR_NPC after a     *)
(* write is not, unless the write of 'P' fails or 'G' or "writespr"        *)
(* changes NPC behind the cache (rsp-server.c, set_npc).                   *)
(***************************************************************************)
THEOREM CachedNpcTruthful ==
  ASSUME "npc" \notin Faults, FreeNpc = FALSE
  PROVE  Spec => []PcTruthful
<1>1. Init => CacheInv /\ PcTruthful
  BY AddrsFacts DEF Init, CacheInv, PcTruthful, ReportedNpc
<1>2. RInv /\ CacheInv /\ PcTruthful /\ [Next]_vars => CacheInv' /\ PcTruthful'
  BY CacheStep
<1> QED BY <1>1, <1>2, Invariance, PTL DEF Spec
=============================================================================
