--------------------------- MODULE SpecsException ---------------------------
(***************************************************************************)
(* How the OR1200 with SPECS turns a fired assertion into an exception.    *)
(* One step is one clock cycle of or1200_cpu.v together with the parts of  *)
(* or1200_ctrl.v, or1200_freeze.v, or1200_except.v and or1200_rf.v that    *)
(* the request passes through.                                             *)
(*                                                                         *)
(* Instructions are kept only as far as this path tells them apart: an     *)
(* empty slot, one of the program, one of the violation handler at         *)
(* SP_IIE_ADDR, one that does not decode.  The exceptions that compete     *)
(* with the request are grouped by when they can be raised.  EPCR, EEAR,   *)
(* ESR and their ghosts are data nothing here depends on.                  *)
(***************************************************************************)
EXTENDS Naturals

CONSTANT MaxDuWrites   \* bound: SPR writes of the debugger in a behaviour

ASSUME DuWritesAssumption == MaxDuWrites \in Nat

VARIABLES
    violated_reg,    \* sp_assertion_violated_reg
    hold,            \* sp_exception_hold
    except_illegal,  \* registered decode of the instruction in EX
    state,           \* the exception FSM
    except_type,
    extend_flush,
    id_insn, id_fault,   \* ID: instruction, id_exceptflags # 0
    ex_insn, ex_fault,   \* EX: instruction, ex_exceptflags # 0
    rf_we_allow,
    gpr_prev, armed,     \* checker 16: sampling_event_prev, r_reset_n
    dsr_iie,             \* DSR[IIE]: the debugger takes illegal instructions
    du_writes,           \* SPR writes of the debugger so far
    debt,                \* history: a violation not answered yet
    leaked,              \* history: something got past an owed violation
    lost_write           \* history: a debugger's GPR write had no effect

request  == <<violated_reg, hold, except_illegal>>
fsm      == <<state, except_type, extend_flush>>
pipe     == <<id_insn, id_fault, ex_insn, ex_fault>>
checker  == <<rf_we_allow, gpr_prev, armed>>
history  == <<debt, leaked, lost_write>>
vars     == <<request, fsm, pipe, checker, dsr_iie, du_writes, history>>

Insns  == {"void", "prog", "iie", "undecoded"}
States == {"IDLE", "FLU1", "FLU2", "FLU3", "FLU4", "FLU5"}
Types  == {"NONE", "ILLEGAL", "TRAP", "OTHER"}

(***************************************************************************)
(* What the rest of the system does in one cycle.                          *)
(*   stall    if_stall, lsu_stall, multicycle, waiting_on or du_stall      *)
(*   ack      icpu_ack_i, icpu_err_i or genpc_freeze                       *)
(*   fetched  what IF hands over: "none" is if_stall, "fault" an           *)
(*            instruction-side TLB miss, page fault or bus error           *)
(*   raised   a further exception: "fault" of the data side or alignment,  *)
(*            "trap" (l.trap), "bkpt" (hardware breakpoint, trace), or an  *)
(*            "event" (system call, range, float, interrupt, tick), which  *)
(*            waits for an unfrozen EX                                     *)
(*   writes   the instruction in EX writes a GPR                           *)
(*   du       an SPR write of the debugger                                 *)
(*   fires    some assertion is violated                                   *)
(***************************************************************************)
Inputs == [stall : BOOLEAN, ack : BOOLEAN,
           fetched : Insns \cup {"none", "fault"},
           raised : {"none", "fault", "trap", "bkpt", "event"},
           writes : BOOLEAN,
           du : {"none", "pc", "gpr", "dsr"},
           fires : BOOLEAN]

-----------------------------------------------------------------------------
(* Combinational signals                                                   *)

ExVoid == ex_insn = "void"

ExceptionHandled == except_type = "ILLEGAL"

Gated == (violated_reg \/ hold) /\ ~ExceptionHandled

SigIllegal == except_illegal \/ Gated

AbortEx(in) == (SigIllegal \/ in.raised \in {"fault", "bkpt"}) /\ ~ExVoid

IdFreeze(in) == in.stall

ExFreeze(in) == in.stall \/ AbortEx(in)

\* Mutant: an illegal instruction waits for an unfrozen EX, as l.sys does
ExceptTrigUnfrozen(in) ==
    CASE ex_fault                               -> "OTHER"
      [] ~ex_fault /\ SigIllegal /\ ~ExVoid
                   /\ ~dsr_iie /\ ~ExFreeze(in) -> "ILLEGAL"
      [] OTHER -> CASE in.raised = "none" -> "NONE"
                    [] in.raised \in {"trap", "bkpt"} -> "TRAP"
                    [] OTHER -> "OTHER"

\* {except_trig, casez}: the exception the FSM would take, by priority
ExceptTrig(in) ==
    CASE ex_fault                               -> "OTHER"
      [] ~ex_fault /\ SigIllegal /\ ~ExVoid
                   /\ ~dsr_iie                  -> "ILLEGAL"
      [] OTHER -> CASE in.raised = "none" -> "NONE"
                    [] in.raised \in {"trap", "bkpt"} -> "TRAP"
                    [] OTHER -> "OTHER"

\* except_stop[IIE]: the debug unit is asked to stop the core instead
StopRequested == SigIllegal /\ ~ExVoid /\ dsr_iie

ExceptFlushpipe(in) == state = "IDLE" /\ ExceptTrig(in) # "NONE"

Flushpipe(in) == ExceptFlushpipe(in) \/ in.du = "pc" \/ extend_flush

\* gpr_written_to: the strobe the checkers see
GprWrittenTo(in) ==
    (in.du = "gpr" \/ (in.writes /\ ~ExFreeze(in))) /\ rf_we_allow

\* Mutant: only the registered request closes the register file
RfWritesLate(in) == GprWrittenTo(in) /\ ~Gated

\* ce_b, we_b of the register file: the strobe that writes
RfWrites(in) == GprWrittenTo(in) /\ ~(in.fires \/ Gated)

\* insn_clk: the enable of every checker but 16
InsnClk(in) == ex_insn = "prog" /\ ~ExFreeze(in)

\* BakedInAssertions is held in reset while a request is pending; checker
\* 16 has no enable and looks at rising edges of gpr_written_to
MayFire(in) ==
    /\ ~Gated
    /\ InsnClk(in) \/ (GprWrittenTo(in) /\ ~gpr_prev /\ armed)

\* An instruction leaves EX with its effects
Leaves(in) == ~ExVoid /\ ~ExFreeze(in)

-----------------------------------------------------------------------------
(* Which inputs can meet which state: an EX without an instruction raises  *)
(* nothing but events, a started ILLEGAL exception fetches at SP_IIE_ADDR, *)
(* and the debugger writes SPRs of a stalled core.                         *)
Possible(in) ==
    /\ in.raised \in {"fault", "trap", "bkpt"} => ~ExVoid
    /\ in.raised = "event" => ~ExFreeze(in)
    /\ in.writes => ~ExVoid
    /\ except_type = "ILLEGAL" => in.fetched # "prog"
    /\ in.du # "none" => in.stall /\ du_writes < MaxDuWrites
    /\ in.fires => MayFire(in)

-----------------------------------------------------------------------------
(* Registers at the clock edge                                             *)

\* Mutant: the hold register is not reset when the exception begins
NextHoldSticky(in) == in.fires \/ hold

NextHold(in) == IF ExceptionHandled THEN FALSE ELSE in.fires \/ hold

LatchRequest(in) ==
    /\ violated_reg' = in.fires
    /\ hold' = NextHold(in)

\* Decode of except_illegal, with sp_exception or-ed in
NextExceptIllegal(in) ==
    IF Flushpipe(in) THEN FALSE
    ELSE IF ExFreeze(in) THEN except_illegal
    ELSE id_insn = "undecoded" \/ Gated

LatchPipeline(in) ==
    /\ except_illegal' = NextExceptIllegal(in)
    /\ IF Flushpipe(in)
       THEN id_insn' = "void" /\ id_fault' = FALSE
       ELSE IF IdFreeze(in)
       THEN UNCHANGED <<id_insn, id_fault>>
       ELSE /\ id_insn' = IF in.fetched \in Insns THEN in.fetched ELSE "void"
            /\ id_fault' = (in.fetched = "fault")
    /\ IF Flushpipe(in)
       THEN ex_insn' = "void" /\ ex_fault' = FALSE
       ELSE IF ExFreeze(in)
       THEN UNCHANGED <<ex_insn, ex_fault>>
       ELSE ex_insn' = id_insn /\ ex_fault' = id_fault

\* The first instruction of the handler is in EX and fetching goes on
HandlerArrived(in) == in.fetched # "none" /\ ~IdFreeze(in) /\ ~ExVoid

\* Mutant: the short way back forgets to end the flush
TrapDoneFlushing ==
    state' = "IDLE" /\ except_type' = "NONE" /\ UNCHANGED extend_flush

\* A trap does not wait for the first instruction of its handler
TrapDone ==
    state' = "IDLE" /\ except_type' = "NONE" /\ extend_flush' = FALSE

ExceptFsm(in) ==
    \/ /\ ExceptFlushpipe(in)
       /\ state' = "FLU1" /\ extend_flush' = TRUE
       /\ except_type' = ExceptTrig(in)
    \/ /\ state = "IDLE" /\ ~ExceptFlushpipe(in) /\ in.du = "pc"
       /\ state' = "FLU1" /\ extend_flush' = TRUE
       /\ UNCHANGED except_type
    \/ /\ state = "IDLE" /\ ~ExceptFlushpipe(in) /\ in.du # "pc"
       /\ UNCHANGED fsm
    \/ /\ state = "FLU1"
       /\ state' = IF in.ack THEN "FLU2" ELSE "FLU1"
       /\ UNCHANGED <<except_type, extend_flush>>
    \/ /\ state = "FLU2" /\ except_type = "TRAP"
       /\ TrapDone
    \/ /\ state = "FLU2" /\ except_type # "TRAP"
       /\ state' = "FLU3"
       /\ UNCHANGED <<except_type, extend_flush>>
    \/ /\ state = "FLU3"
       /\ state' = "FLU4"
       /\ UNCHANGED <<except_type, extend_flush>>
    \/ /\ state = "FLU4"
       /\ state' = "FLU5" /\ extend_flush' = FALSE
       /\ UNCHANGED except_type
    \/ /\ state = "FLU5" /\ HandlerArrived(in)
       /\ state' = "IDLE" /\ except_type' = "NONE"
       /\ UNCHANGED extend_flush
    \/ /\ state = "FLU5" /\ ~HandlerArrived(in)
       /\ UNCHANGED fsm

LatchChecker(in) ==
    /\ rf_we_allow' = IF ExFreeze(in) THEN rf_we_allow ELSE ~Flushpipe(in)
    /\ gpr_prev' = (~Gated /\ GprWrittenTo(in))
    /\ armed' = ~Gated

DebuggerWrites(in) ==
    /\ dsr_iie' = IF in.du = "dsr" THEN ~dsr_iie ELSE dsr_iie
    /\ du_writes' = IF in.du = "none" THEN du_writes ELSE du_writes + 1

TakesIllegal(in) == ExceptFlushpipe(in) /\ ExceptTrig(in) = "ILLEGAL"

\* debt: "owed" since an assertion fired, "late" when it fired while an
\* ILLEGAL exception was beginning; paid when the next one begins
Account(in) ==
    /\ debt' = IF in.fires
               THEN IF ExceptionHandled \/ TakesIllegal(in) THEN "late" ELSE "owed"
               ELSE IF TakesIllegal(in) THEN "none" ELSE debt
    /\ leaked' = \/ leaked
                 \/ debt = "owed" /\ (Leaves(in) \/ RfWrites(in))
                 \/ in.fires /\ RfWrites(in)
    /\ lost_write' = (lost_write \/ (in.du = "gpr" /\ ~RfWrites(in)))

-----------------------------------------------------------------------------
Clock(in) ==
    /\ Possible(in)
    /\ LatchRequest(in)
    /\ LatchPipeline(in)
    /\ ExceptFsm(in)
    /\ LatchChecker(in)
    /\ DebuggerWrites(in)
    /\ Account(in)

\* rst
Init ==
    /\ violated_reg = FALSE /\ hold = FALSE /\ except_illegal = FALSE
    /\ state = "IDLE" /\ except_type = "NONE" /\ extend_flush = FALSE
    /\ id_insn = "void" /\ id_fault = FALSE
    /\ ex_insn = "void" /\ ex_fault = FALSE
    /\ rf_we_allow = TRUE /\ gpr_prev = FALSE /\ armed = FALSE
    /\ dsr_iie = FALSE /\ du_writes = 0
    /\ debt = "none" /\ leaked = FALSE /\ lost_write = FALSE

Next == \E in \in Inputs : Clock(in)

Spec == Init /\ [][Next]_vars

\* A cycle in which the instruction memory answers and nothing else happens
QuietInput == [stall |-> FALSE, ack |-> TRUE,
               fetched |-> IF ExceptionHandled THEN "iie" ELSE "prog",
               raised |-> "none", writes |-> FALSE, du |-> "none",
               fires |-> FALSE]

FairSpec == Spec /\ WF_vars(Clock(QuietInput))

-----------------------------------------------------------------------------
(* Properties                                                              *)

\* Every register has a value of its type; the flush covers exactly the
\* first four states of the FSM, and an idle FSM handles nothing.
SpecsTypeOK ==
    /\ violated_reg \in BOOLEAN /\ hold \in BOOLEAN
    /\ except_illegal \in BOOLEAN /\ id_fault \in BOOLEAN
    /\ ex_fault \in BOOLEAN /\ rf_we_allow \in BOOLEAN
    /\ gpr_prev \in BOOLEAN /\ armed \in BOOLEAN /\ dsr_iie \in BOOLEAN
    /\ leaked \in BOOLEAN /\ lost_write \in BOOLEAN
    /\ state \in States /\ except_type \in Types
    /\ extend_flush \in BOOLEAN
    /\ extend_flush <=> state \in {"FLU1", "FLU2", "FLU3", "FLU4"}
    /\ state = "IDLE" => except_type = "NONE"
    /\ id_insn \in Insns /\ ex_insn \in Insns
    /\ du_writes \in 0..MaxDuWrites
    /\ debt \in {"none", "late", "owed"}

\* From the cycle an assertion fires until its exception begins, no
\* instruction leaves EX and no GPR is written: also when an instruction
\* fault, an interrupt, a stall or the debugger comes in between
\* (or1200_cpu.v:375-386, or1200_except.v:231, or1200_rf.v:245).
NothingLeaks == ~leaked

\* The handler of SP_IIE_ADDR is entered once per violation: an ILLEGAL
\* exception begins only for an assertion that fired since the last one
\* began, or for an instruction that does not decode
\* (or1200_cpu.v:378, except_illegal in or1200_ctrl.v:673).
IllegalHasCause ==
    [][ExceptionHandled' /\ ~ExceptionHandled
          => debt # "none" \/ ex_insn = "undecoded"]_vars

\* A violation is answered: the ILLEGAL exception begins, or the debugger
\* that took it over in DSR[IIE] is asked to stop the core
\* (or1200_except.v:252, 278, 466).
ViolationAnswered == debt = "owed" ~> (ExceptionHandled \/ StopRequested)

\* A GPR write of the debugger reaches the register file: "RF write enable
\* is either from SPRS or normal from CPU control" (or1200_rf.v:201).
DebuggerWriteLands == ~lost_write
=============================================================================
