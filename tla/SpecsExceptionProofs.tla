------------------------ MODULE SpecsExceptionProofs ------------------------
(***************************************************************************)
(* Proofs about SpecsException, for every number of debugger writes:       *)
(* nothing gets past a violation, and the handler is entered only for a    *)
(* cause.  The inductive invariant ties the history variable debt to the   *)
(* three registers that can carry a request.                               *)
(***************************************************************************)
EXTENDS SpecsException, TLAPS

\* An owed violation is latched, and no ILLEGAL exception masks it.
OwedIsHeld == debt = "owed" => hold /\ ~ExceptionHandled

\* A request comes from a violation that was not answered.
RequestIsOwed == Gated => debt # "none"

\* The decode register is set by an undecodable instruction or by a request.
DecodeHasCause == except_illegal => debt # "none" \/ ex_insn = "undecoded"

IInv == NothingLeaks /\ OwedIsHeld /\ RequestIsOwed /\ DecodeHasCause

-----------------------------------------------------------------------------
\* An ILLEGAL exception in the next cycle was already being handled or
\* begins in this one (the FSM of or1200_except.v).
LEMMA IllegalBegins ==
    ASSUME NEW in \in Inputs, ExceptFsm(in), ExceptionHandled'
    PROVE  ExceptionHandled \/ TakesIllegal(in)
BY DEF ExceptFsm, ExceptionHandled, TakesIllegal, TrapDone, fsm

\* While a request is visible EX is frozen or empty and the register file is
\* closed (abort_ex in or1200_except.v, ce_b in or1200_rf.v).
LEMMA GatedBlocks ==
    ASSUME NEW in \in Inputs, Gated
    PROVE  ~Leaves(in) /\ ~RfWrites(in)
BY DEF Leaves, RfWrites, ExFreeze, AbortEx, SigIllegal

\* An ILLEGAL exception begins only with a request or an undecodable
\* instruction in EX, and it flushes the pipeline.
LEMMA TakesIllegalFacts ==
    ASSUME NEW in \in Inputs, TakesIllegal(in)
    PROVE  SigIllegal /\ Flushpipe(in)
<1>1. ExceptTrig(in) = "ILLEGAL" /\ ExceptFlushpipe(in)
  BY DEF TakesIllegal
<1>2. SigIllegal
  BY <1>1 DEF ExceptTrig
<1>3. Flushpipe(in)
  BY <1>1 DEF Flushpipe
<1> QED
  BY <1>2, <1>3

LEMMA ClockPreservesIInv ==
    ASSUME IInv, NEW in \in Inputs, Clock(in)
    PROVE  IInv'
<1>1. NothingLeaks'
  <2>1. leaked' = \/ leaked
                  \/ debt = "owed" /\ (Leaves(in) \/ RfWrites(in))
                  \/ in.fires /\ RfWrites(in)
    BY DEF Clock, Account
  <2>2. debt = "owed" => Gated
    BY DEF IInv, OwedIsHeld, Gated
  <2>3. ~(in.fires /\ RfWrites(in))
    BY DEF RfWrites
  <2> QED
    BY <2>1, <2>2, <2>3, GatedBlocks DEF IInv, NothingLeaks
<1>2. OwedIsHeld'
  <2> SUFFICES ASSUME debt' = "owed"
               PROVE  hold' /\ ~ExceptionHandled'
    BY DEF OwedIsHeld
  <2>1. ~ExceptionHandled /\ ~TakesIllegal(in) /\ (in.fires \/ hold)
    BY DEF Clock, Account, IInv, OwedIsHeld
  <2>2. hold'
    BY <2>1 DEF Clock, LatchRequest, NextHold
  <2>3. ~ExceptionHandled'
    BY <2>1, IllegalBegins DEF Clock
  <2> QED
    BY <2>2, <2>3
<1>3. RequestIsOwed'
  <2> SUFFICES ASSUME Gated'
               PROVE  debt' # "none"
    BY DEF RequestIsOwed
  <2>1. ~ExceptionHandled' /\ (violated_reg' \/ hold')
    BY DEF Gated, ExceptionHandled
  <2>2. ~TakesIllegal(in)
    BY <2>1 DEF Clock, ExceptFsm, TakesIllegal, ExceptFlushpipe, ExceptionHandled
  <2>3. in.fires \/ (hold /\ ~ExceptionHandled)
    BY <2>1 DEF Clock, LatchRequest, NextHold
  <2>4. CASE in.fires
    BY <2>4 DEF Clock, Account
  <2>5. CASE ~in.fires
    BY <2>2, <2>3, <2>5 DEF Clock, Account, IInv, RequestIsOwed, Gated
  <2> QED
    BY <2>4, <2>5
<1>4. DecodeHasCause'
  <2> SUFFICES ASSUME except_illegal', debt' = "none"
               PROVE  ex_insn' = "undecoded"
    BY DEF DecodeHasCause
  <2>1. ~Flushpipe(in)
    BY DEF Clock, LatchPipeline, NextExceptIllegal
  <2>2. debt = "none"
    BY <2>1, TakesIllegalFacts DEF Clock, Account
  <2>3. ~Gated
    BY <2>2 DEF IInv, RequestIsOwed
  <2>4. CASE ExFreeze(in)
    BY <2>1, <2>2, <2>4
    DEF Clock, LatchPipeline, NextExceptIllegal, IInv, DecodeHasCause
  <2>5. CASE ~ExFreeze(in)
    BY <2>1, <2>3, <2>5 DEF Clock, LatchPipeline, NextExceptIllegal
  <2> QED
    BY <2>4, <2>5
<1> QED
  BY <1>1, <1>2, <1>3, <1>4 DEF IInv

LEMMA StutterPreservesIInv ==
    ASSUME IInv, UNCHANGED vars
    PROVE  IInv'
BY DEF IInv, NothingLeaks, OwedIsHeld, RequestIsOwed, DecodeHasCause, Gated,
       ExceptionHandled, vars, request, fsm, pipe, history

LEMMA IInvHolds == Spec => []IInv
<1>1. Init => IInv
  BY DEF Init, IInv, NothingLeaks, OwedIsHeld, RequestIsOwed, DecodeHasCause,
         Gated, ExceptionHandled
<1>2. IInv /\ [Next]_vars => IInv'
  BY ClockPreservesIInv, StutterPreservesIInv DEF Next
<1> QED
  BY <1>1, <1>2, PTL DEF Spec

-----------------------------------------------------------------------------
\* Every register keeps its type, and the FSM's registers agree.
THEOREM SpecsTypeCorrect == Spec => []SpecsTypeOK
<1>1. Init => SpecsTypeOK
  <2> SUFFICES ASSUME Init PROVE SpecsTypeOK
    OBVIOUS
  <2>1. du_writes \in 0..MaxDuWrites
    BY DuWritesAssumption DEF Init
  <2>2. extend_flush <=> state \in {"FLU1", "FLU2", "FLU3", "FLU4"}
    BY DEF Init
  <2>3. extend_flush \in BOOLEAN
    BY DEF Init
  <2> QED
    BY <2>1, <2>2, <2>3 DEF Init, SpecsTypeOK, States, Types, Insns
<1>2. SpecsTypeOK /\ [Next]_vars => SpecsTypeOK'
  <2>1. ASSUME SpecsTypeOK, NEW in \in Inputs, Clock(in)
        PROVE  SpecsTypeOK'
    <3> USE <2>1
    <3>0. in.fires \in BOOLEAN /\ in.stall \in BOOLEAN /\ in.writes \in BOOLEAN
      BY DEF Inputs
    <3>1. violated_reg' \in BOOLEAN /\ hold' \in BOOLEAN
      BY <3>0 DEF Clock, LatchRequest, NextHold, SpecsTypeOK
    <3>2. except_illegal' \in BOOLEAN
      BY DEF Clock, LatchPipeline, NextExceptIllegal, Gated, SpecsTypeOK
    <3>3. id_insn' \in Insns /\ id_fault' \in BOOLEAN
      BY DEF Clock, LatchPipeline, SpecsTypeOK, Insns
    <3>4. ex_insn' \in Insns /\ ex_fault' \in BOOLEAN
      BY DEF Clock, LatchPipeline, SpecsTypeOK, Insns
    <3>5. rf_we_allow' \in BOOLEAN /\ gpr_prev' \in BOOLEAN /\ armed' \in BOOLEAN
      BY DEF Clock, LatchChecker, Flushpipe, GprWrittenTo, Gated, SpecsTypeOK
    <3>6. dsr_iie' \in BOOLEAN
      BY DEF Clock, DebuggerWrites, SpecsTypeOK
    <3>7. du_writes' \in 0..MaxDuWrites
      BY DuWritesAssumption DEF Clock, Possible, DebuggerWrites, SpecsTypeOK
    <3>8. debt' \in {"none", "late", "owed"}
      BY DEF Clock, Account, SpecsTypeOK
    <3>9. leaked' \in BOOLEAN /\ lost_write' \in BOOLEAN
      BY DEF Clock, Account, SpecsTypeOK
    <3>10. ExceptTrig(in) \in Types
      BY DEF ExceptTrig, Types
    <3>11. /\ state' \in States /\ except_type' \in Types
           /\ state' = "IDLE" => except_type' = "NONE"
      BY <3>10 DEF Clock, ExceptFsm, ExceptFlushpipe, TrapDone, fsm, SpecsTypeOK,
                   States, Types
    <3>12. extend_flush' \in BOOLEAN
      BY DEF Clock, ExceptFsm, TrapDone, fsm, SpecsTypeOK
    <3>13. extend_flush' <=> state' \in {"FLU1", "FLU2", "FLU3", "FLU4"}
      BY DEF Clock, ExceptFsm, ExceptFlushpipe, TrapDone, fsm, SpecsTypeOK, States
    <3> QED
      BY <3>1, <3>2, <3>3, <3>4, <3>5, <3>6, <3>7, <3>8, <3>9, <3>11,
         <3>12, <3>13
      DEF SpecsTypeOK
  <2>2. ASSUME SpecsTypeOK, UNCHANGED vars
        PROVE  SpecsTypeOK'
    BY <2>2 DEF SpecsTypeOK, vars, request, fsm, pipe, checker, history
  <2> QED
    BY <2>1, <2>2 DEF Next
<1> QED
  BY <1>1, <1>2, PTL DEF Spec

\* From the cycle an assertion fires until its exception begins no
\* instruction leaves EX and no GPR is written.
THEOREM NothingLeaksHolds == Spec => []NothingLeaks
<1>1. IInv => NothingLeaks
  BY DEF IInv
<1> QED
  BY <1>1, IInvHolds, PTL

\* An ILLEGAL exception begins only for an assertion that fired since the
\* last one began, or for an instruction that does not decode.
THEOREM IllegalHasCauseHolds == Spec => IllegalHasCause
<1>1. IInv /\ [Next]_vars
        => [ExceptionHandled' /\ ~ExceptionHandled
               => debt # "none" \/ ex_insn = "undecoded"]_vars
  <2> SUFFICES ASSUME IInv, NEW in \in Inputs, Clock(in),
                      ExceptionHandled', ~ExceptionHandled
               PROVE  debt # "none" \/ ex_insn = "undecoded"
    BY DEF Next
  <2>1. TakesIllegal(in)
    BY IllegalBegins DEF Clock
  <2>2. SigIllegal
    BY <2>1, TakesIllegalFacts
  <2> QED
    BY <2>2 DEF SigIllegal, IInv, RequestIsOwed, DecodeHasCause
<1> QED
  BY <1>1, IInvHolds, PTL DEF Spec, IllegalHasCause
=============================================================================
