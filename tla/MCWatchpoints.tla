--------------------------- MODULE MCWatchpoints ---------------------------
EXTENDS Watchpoints
=============================================================================
