---------------------------- MODULE MCRspServer ----------------------------
(* The RSP server and one or two listeners around the stall monitor.        *)
EXTENDS RspServer
=============================================================================
