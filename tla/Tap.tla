-------------------------------- MODULE Tap --------------------------------
(***************************************************************************)
(* The TAP controller of IEEE 1149.1, as tap_top.v implements it, and where*)
(* the fixed walks of chain_commands.c take it.                            *)
(***************************************************************************)
TapStates == {"RESET", "IDLE", "SELECT_DR", "CAPTURE_DR", "SHIFT_DR", "EXIT1_DR", "PAUSE_DR",
              "EXIT2_DR", "UPDATE_DR", "SELECT_IR", "CAPTURE_IR", "SHIFT_IR", "EXIT1_IR",
              "PAUSE_IR", "EXIT2_IR", "UPDATE_IR"}

NextTapState(s, tms) ==
  LET Go(zero, one) == IF tms = 1 THEN one ELSE zero
  IN CASE s = "RESET"      -> Go("IDLE", "RESET")
       [] s = "IDLE"       -> Go("IDLE", "SELECT_DR")
       [] s = "SELECT_DR"  -> Go("CAPTURE_DR", "SELECT_IR")
       [] s = "CAPTURE_DR" -> Go("SHIFT_DR", "EXIT1_DR")
       [] s = "SHIFT_DR"   -> Go("SHIFT_DR", "EXIT1_DR")
       [] s = "EXIT1_DR"   -> Go("PAUSE_DR", "UPDATE_DR")
       [] s = "PAUSE_DR"   -> Go("PAUSE_DR", "EXIT2_DR")
       [] s = "EXIT2_DR"   -> Go("SHIFT_DR", "UPDATE_DR")
       [] s = "UPDATE_DR"  -> Go("IDLE", "SELECT_DR")
       [] s = "SELECT_IR"  -> Go("CAPTURE_IR", "RESET")
       [] s = "CAPTURE_IR" -> Go("SHIFT_IR", "EXIT1_IR")
       [] s = "SHIFT_IR"   -> Go("SHIFT_IR", "EXIT1_IR")
       [] s = "EXIT1_IR"   -> Go("PAUSE_IR", "UPDATE_IR")
       [] s = "PAUSE_IR"   -> Go("PAUSE_IR", "EXIT2_IR")
       [] s = "EXIT2_IR"   -> Go("SHIFT_IR", "UPDATE_IR")
       [] s = "UPDATE_IR"  -> Go("IDLE", "SELECT_DR")

\* Where tap_set_shift_dr() leads from s: SHIFT_DR, if s is IDLE.
AfterShiftDr(s) == NextTapState(NextTapState(NextTapState(s, 1), 0), 0)

\* Where the last bit of a stream, the one with TMS, leads.
AfterLastBit(s) == NextTapState(s, 1)

\* Where tap_exit_to_idle() leads from s: IDLE, if s is EXIT1_DR.
AfterExitToIdle(s) == NextTapState(NextTapState(s, 1), 0)
=============================================================================
