--------------------------- MODULE MCDebugAccess ---------------------------
EXTENDS DebugAccess

BothBuilds == {[hw |-> "advanced", xilinx |-> FALSE], [hw |-> "legacy", xilinx |-> FALSE]}
LegacyBuild == {[hw |-> "legacy", xilinx |-> FALSE]}
AdvancedBuild == {[hw |-> "advanced", xilinx |-> FALSE]}
XilinxBuild == {[hw |-> "advanced", xilinx |-> TRUE]}

\* What the threads of the bridge call: the stall monitor, the serial port
\* server (in the advanced build), and the others, which the main thread's
\* self-test precedes.  dbg_cpu1_write() is never called.
CallsOf(t, b) ==
  CASE t = "monitor" -> dbg_cpu0_read_ctrl \cup dbg_cpu0_write_ctrl
    [] t = "jsp" -> IF b.hw = "advanced" THEN dbg_serial_sndrcv ELSE {}
    [] OTHER -> dbg_wb_read_block \cup dbg_wb_write_block \cup dbg_wb_read32 \cup dbg_wb_write
                  \cup dbg_cpu0_read_block \cup dbg_cpu0_write_block
                  \cup dbg_cpu0_read \cup dbg_cpu0_write
                  \cup dbg_cpu1_read \cup dbg_cpu1_read_ctrl \cup dbg_cpu1_write_ctrl
=============================================================================
