----------------------------- MODULE RspServer -----------------------------
(***************************************************************************)
(* The bridge's threads around the stall monitor: the RSP server, which    *)
(* runs on main()'s thread (rsp-server.c, adv_jtag_bridge.c), and the JSP  *)
(* and HWP servers as listeners for stall events (jsp_server.c,            *)
(* hwp_server.c).  GDB, its socket and the CPU are the environment.        *)
(*                                                                         *)
(* rsp.target_running is (view[Rsp] = "R"), kept by HardwareMonitor.       *)
(* Packets are abstracted to what the server does with them: "c" is a      *)
(* continue or a step, "q" any request answered without moving the CPU,    *)
(* "D" a detach, "brk" the out-of-band 0x03, "EOF" a lost connection.      *)
(***************************************************************************)
EXTENDS HardwareMonitor

CONSTANTS
  Rsp, Jsp,                 \* the RSP and the JSP server; the others listen like the HWP server
  StayAttached,             \* listeners whose client is there from the start and never leaves
  CpuMayTrap                \* TRUE: the program on the CPU can hit a trap of its own

ASSUME BridgeAssumption ==
  /\ Rsp \in Servers
  /\ StayAttached \subseteq Servers \ {Rsp}
  /\ CpuMayTrap \in BOOLEAN
  /\ ~PipeFaults               \* HardwareMonitor covers a failing pipe()
  /\ IsFiniteSet(Servers) /\ Cardinality(Servers) <= MAX_MONITOR_CONNECTIONS

Listeners == Servers \ {Rsp}

VARIABLES
  rpc,                      \* where main()'s thread is
  again,                    \* what follows the rsp_client_close() in progress
  client_waiting,           \* GDB expects a stop reply
  dsr,                      \* the CPU's DSR hands exceptions to the debug unit
  toServer,                 \* GDB's packets the server has not read
  gdb,                      \* "off", "idle", "ask" (reply due), "wait" (stop reply
                            \* due), "stopping" (the same, and it has sent a BREAK)
  backlog,                  \* a GDB is waiting to be accepted
  detached,                 \* history: the last session ended with a 'D' packet
  attached                  \* listeners with a network client

rspVars == <<rpc, again, client_waiting, dsr, toServer, gdb, backlog, detached, attached>>
bvars   == <<vars, rspVars>>

RspPcs == {"start", "accept", "register", "attach", "setup", "poll", "unstall",
           "close1", "close2", "close3", "close4", "detach"}
Packets == {"c", "q", "D", "brk", "EOF"}

BridgeTypeOK ==
  /\ TypeOK
  /\ rpc \in RspPcs
  /\ again \in {"none", "close", "detach"}
  /\ client_waiting \in BOOLEAN
  /\ dsr \in BOOLEAN
  /\ toServer \in Seq(Packets)
  /\ gdb \in {"off", "idle", "ask", "wait", "stopping"}
  /\ backlog \in BOOLEAN
  /\ detached \in BOOLEAN
  /\ attached \in SUBSET Listeners

BridgeInit ==
  /\ MonitorInit
  /\ cpu_stalled => CpuMayTrap
  /\ rpc = "start" /\ again = "none"
  /\ client_waiting = FALSE
  /\ dsr = FALSE
  /\ toServer = <<>> /\ gdb = "off" /\ backlog = FALSE
  /\ detached = FALSE
  /\ attached = StayAttached

TargetRunning == view[Rsp] = "R"
Waiting == gdb \in {"wait", "stopping"}

-----------------------------------------------------------------------------
(* Starting up and accepting a client. *)

(***************************************************************************)
(* main(): jsp_init() and hwp_init() register one after the other, before  *)
(* the first handle_rsp().                                                 *)
(***************************************************************************)
StartListener ==
  /\ rpc = "start"
  /\ \E l \in Listeners :
        \/ pipe_fds[l] = NoFd /\ RegisterCheck(l)
        \/ \E f \in Fds : Register(l, f)
  /\ UNCHANGED rspVars

StartRsp ==
  /\ rpc = "start"
  /\ \A l \in Listeners : pipe_fds[l] # NoFd
  /\ rpc' = "accept"
  /\ UNCHANGED <<vars, again, client_waiting, dsr, toServer, gdb, backlog, detached, attached>>

(***************************************************************************)
(* handle_rsp() without a client, and rsp_server_request(): accept() ...   *)
(***************************************************************************)
RspAccept ==
  /\ rpc = "accept" /\ backlog
  /\ backlog' = FALSE /\ gdb' = "ask" /\ toServer' = <<>>
  /\ detached' = FALSE
  /\ rpc' = "register"
  /\ UNCHANGED <<vars, again, client_waiting, dsr, attached>>

(***************************************************************************)
(* ... register for stall events ...                                       *)
(***************************************************************************)
RspRegisterCheck ==
  /\ rpc = "register"
  /\ RegisterCheck(Rsp)
  /\ UNCHANGED rspVars

RspRegister ==
  /\ rpc = "register"
  /\ \E f \in Fds : Register(Rsp, f)
  /\ rpc' = "attach"
  /\ UNCHANGED <<again, client_waiting, dsr, toServer, gdb, backlog, detached, attached>>

(***************************************************************************)
(* set_stall_state(): one command byte to the monitor.                     *)
(***************************************************************************)
SetStallDirectly(stall) ==
  /\ cpu_stalled' = stall
  /\ UNCHANGED <<pipes_mutex, connections, num_monitor_connections, open, s2m, m2s, pipe_fds,
                 view, registering>>
  /\ MonitorThreadUnchanged

SetStallState(stall) == SendCmd(Rsp, IF stall THEN "S" ELSE "U")

(***************************************************************************)
(* ... stall the CPU ("it starts off running") ...                         *)
(***************************************************************************)
RspAttach ==
  /\ rpc = "attach"
  /\ SetStallState(TRUE)
  /\ rpc' = "setup"
  /\ UNCHANGED <<again, client_waiting, dsr, toServer, gdb, backlog, detached, attached>>

(***************************************************************************)
(* ... and have exceptions break to the debug unit.  handle_rsp() then     *)
(* forgets any outstanding stop.  GDB's handshake is answered from "poll". *)
(***************************************************************************)
RspSetup ==
  /\ rpc = "setup"
  /\ dsr' = TRUE
  /\ client_waiting' = FALSE
  /\ gdb' = IF gdb = "ask" THEN "idle" ELSE gdb
  /\ rpc' = "poll"
  /\ UNCHANGED <<vars, again, toServer, backlog, detached, attached>>

-----------------------------------------------------------------------------
(* rsp_client_request(): a packet from GDB goes before an event. *)

Request(p) ==
  /\ rpc = "poll"
  /\ toServer # <<>> /\ Head(toServer) = p
  /\ toServer' = Tail(toServer)

(***************************************************************************)
(* While the target runs, only a BREAK is acted on.                        *)
(***************************************************************************)
RspBreak ==
  /\ Request("brk") /\ TargetRunning
  /\ SetStallState(TRUE)
  /\ UNCHANGED <<rpc, again, client_waiting, dsr, gdb, backlog, detached, attached>>

(***************************************************************************)
(* "Warning:  asynchronous BREAK received while target stopped."           *)
(***************************************************************************)
RspBreakIgnored ==
  /\ Request("brk") /\ ~TargetRunning
  /\ UNCHANGED <<vars, rpc, again, client_waiting, dsr, gdb, backlog, detached, attached>>

(***************************************************************************)
(* rsp_continue_generic() and rsp_step_generic(): debug registers (the DSR *)
(* has its bits since the client was accepted), then the unstall command,  *)
(* then client_waiting.                                                    *)
(***************************************************************************)
RspContinue ==
  /\ Request("c") /\ ~TargetRunning
  /\ rpc' = "unstall"
  /\ UNCHANGED <<vars, again, client_waiting, dsr, gdb, backlog, detached, attached>>

RspUnstallForgets ==
  /\ rpc = "unstall"
  /\ SetStallState(FALSE)
  /\ rpc' = "poll"
  /\ UNCHANGED <<again, client_waiting, dsr, toServer, gdb, backlog, detached, attached>>

RspUnstall ==
  /\ rpc = "unstall"
  /\ SetStallState(FALSE)
  /\ client_waiting' = TRUE
  /\ rpc' = "poll"
  /\ UNCHANGED <<again, dsr, toServer, gdb, backlog, detached, attached>>

(***************************************************************************)
(* Requests that leave the CPU alone, and any other request while the      *)
(* target runs ("Target not stopped").                                     *)
(***************************************************************************)
RspQuery ==
  /\ \E p \in {"q", "c", "D"} : Request(p) /\ (p = "q" \/ TargetRunning)
  /\ gdb' = IF gdb = "ask" THEN "idle" ELSE gdb
  /\ UNCHANGED <<vars, rpc, again, client_waiting, dsr, backlog, detached, attached>>

(***************************************************************************)
(* 'D': reply, close the client, and only then set_stall_state(0).         *)
(***************************************************************************)
RspDetach ==
  /\ Request("D") /\ ~TargetRunning
  /\ gdb' = "off"
  /\ detached' = TRUE
  /\ again' = "detach"
  /\ rpc' = "close1"
  /\ UNCHANGED <<vars, client_waiting, dsr, backlog, attached>>

(***************************************************************************)
(* EOF: get_rsp_char() closes the client, and rsp_client_request(), given  *)
(* no packet, closes it again.                                             *)
(***************************************************************************)
RspEof ==
  /\ Request("EOF")
  /\ again' = "close"
  /\ rpc' = "close1"
  /\ UNCHANGED <<vars, client_waiting, dsr, gdb, backlog, detached, attached>>

-----------------------------------------------------------------------------
(* rsp_client_close() *)

(* If target is running, stop it so we can modify SPRs. *)
RspCloseStall ==
  /\ rpc = "close1"
  /\ IF TargetRunning THEN SetStallState(TRUE) ELSE UNCHANGED vars
  /\ rpc' = "close2"
  /\ UNCHANGED <<again, client_waiting, dsr, toServer, gdb, backlog, detached, attached>>

(* Clear the DSR. *)
RspCloseDsr ==
  /\ rpc = "close2"
  /\ dsr' = FALSE
  /\ rpc' = "close3"
  /\ UNCHANGED <<vars, again, client_waiting, toServer, gdb, backlog, detached, attached>>

(* If target was running, restart it. *)
RspCloseUnstall ==
  /\ rpc = "close3"
  /\ IF TargetRunning THEN SetStallState(FALSE) ELSE UNCHANGED vars
  /\ rpc' = "close4"
  /\ UNCHANGED <<again, client_waiting, dsr, toServer, gdb, backlog, detached, attached>>

(* Unregister, which does nothing the second time, and close the socket. *)
UnregisterTwiceCounts ==
  /\ num_monitor_connections' = num_monitor_connections - 1
  /\ UNCHANGED <<pipes_mutex, connections, open, s2m, m2s, pipe_fds, view, registering, cpu_stalled>>
  /\ MonitorThreadUnchanged

UnregisterTwice == UNCHANGED vars

RspCloseUnregister ==
  /\ rpc = "close4"
  /\ IF pipe_fds[Rsp] # NoFd THEN Unregister(Rsp) ELSE UnregisterTwice
  /\ rpc' = CASE again = "close"  -> "close1"
              [] again = "detach" -> "detach"
              [] again = "none"   -> "accept"
  /\ again' = "none"
  /\ toServer' = <<>>
  /\ UNCHANGED <<client_waiting, dsr, gdb, backlog, detached, attached>>

RspDetachUnstall ==
  /\ rpc = "detach"
  /\ SetStallState(FALSE)
  /\ rpc' = "accept"
  /\ UNCHANGED <<again, client_waiting, dsr, toServer, gdb, backlog, detached, attached>>

-----------------------------------------------------------------------------
(***************************************************************************)
(* handle_rsp(), an event from the monitor: 'H' is a duplicate unless the  *)
(* target was taken to be running; a GDB that waits gets its stop reply.   *)
(***************************************************************************)
FreshHaltAlways == TRUE

FreshHalt == TargetRunning

RspEvent ==
  /\ rpc = "poll" /\ toServer = <<>>
  /\ RecvEvent(Rsp)
  /\ IF Head(m2s[pipe_fds[Rsp]]) = "H" /\ FreshHalt /\ client_waiting
     THEN /\ client_waiting' = FALSE
          /\ gdb' = IF Waiting THEN "idle" ELSE gdb
     ELSE UNCHANGED <<client_waiting, gdb>>
  /\ UNCHANGED <<rpc, again, dsr, toServer, backlog, detached, attached>>

RspNext ==
  \/ StartListener \/ StartRsp
  \/ RspAccept \/ RspRegisterCheck \/ RspRegister \/ RspAttach \/ RspSetup
  \/ RspBreak \/ RspBreakIgnored \/ RspContinue \/ RspUnstall \/ RspQuery \/ RspDetach \/ RspEof
  \/ RspCloseStall \/ RspCloseDsr \/ RspCloseUnstall \/ RspCloseUnregister \/ RspDetachUnstall
  \/ RspEvent

-----------------------------------------------------------------------------
(***************************************************************************)
(* The JSP and HWP threads read events only while a client is connected:   *)
(* without one they sit in accept().  The HWP server goes back there when  *)
(* its client leaves; the JSP server does not notice EOF and stays.        *)
(***************************************************************************)
ListenerEvent(l) ==
  /\ l \in attached
  /\ RecvEvent(l)
  /\ UNCHANGED rspVars

ListenerClientComes(l) ==
  /\ l \notin attached
  /\ attached' = attached \cup {l}
  /\ UNCHANGED <<vars, rpc, again, client_waiting, dsr, toServer, gdb, backlog, detached>>

ListenerClientLeaves(l) ==
  /\ l \in attached /\ l # Jsp /\ l \notin StayAttached
  /\ attached' = attached \ {l}
  /\ UNCHANGED <<vars, rpc, again, client_waiting, dsr, toServer, gdb, backlog, detached>>

-----------------------------------------------------------------------------
(* The environment: GDB and the program on the CPU. *)

GdbConnects ==
  /\ gdb = "off" /\ ~backlog
  /\ backlog' = TRUE
  /\ UNCHANGED <<vars, rpc, again, client_waiting, dsr, toServer, gdb, detached, attached>>

(* One BREAK at most for each continue bounds what is in flight. *)
GdbSends(p) ==
  /\ \/ gdb = "idle" /\ p = "c" /\ gdb' = "wait"
     \/ gdb = "idle" /\ p \in {"q", "D"} /\ gdb' = "ask"
     \/ gdb = "wait" /\ p = "brk" /\ gdb' = "stopping"
  /\ toServer' = Append(toServer, p)
  /\ UNCHANGED <<vars, rpc, again, client_waiting, dsr, backlog, detached, attached>>

GdbDies ==
  /\ gdb # "off"
  /\ gdb' = "off"
  /\ toServer' = Append(toServer, "EOF")
  /\ UNCHANGED <<vars, rpc, again, client_waiting, dsr, backlog, detached, attached>>

CpuTraps ==
  /\ CpuMayTrap /\ dsr
  /\ CpuHalts
  /\ UNCHANGED rspVars

-----------------------------------------------------------------------------
BridgeNext ==
  \/ MonitorNext /\ UNCHANGED rspVars
  \/ RspNext
  \/ \E l \in Listeners :
        ListenerEvent(l) \/ ListenerClientComes(l) \/ ListenerClientLeaves(l)
  \/ GdbConnects \/ (\E p \in Packets : GdbSends(p)) \/ GdbDies \/ CpuTraps

BridgeSpec == BridgeInit /\ [][BridgeNext]_bvars

(***************************************************************************)
(* The threads are preemptively scheduled, so a step that stays possible   *)
(* is taken: the monitor's, main()'s, and a listener's read.  A pthread    *)
(* mutex gives no fairness, but the monitor leaves it free for 1/4 second  *)
(* in every select(), which lets a blocked main() in: strong fairness of   *)
(* main()'s steps.  A listener selects on its pipe, and serves it first,   *)
(* every time it has a client: strong fairness of its read.  Nothing is    *)
(* assumed of GDB, of the CPU or of the network clients.                   *)
(***************************************************************************)
Fairness ==
  /\ WF_bvars(MonitorNext /\ UNCHANGED rspVars)
  /\ SF_bvars(RspNext)
  /\ \A l \in Listeners : SF_bvars(ListenerEvent(l))

FairBridge == BridgeSpec /\ Fairness

-----------------------------------------------------------------------------
(* Properties that hold. *)

(***************************************************************************)
(* GDB is told "stopped" only while the CPU is stopped: no late or         *)
(* duplicate 'H' (of a BREAK that crossed a breakpoint, of the stall at    *)
(* connection) is ever reported for a CPU that was started again.          *)
(***************************************************************************)
StopReplyTruthful ==
  [][(rpc = "poll" /\ client_waiting /\ ~client_waiting') => (cpu_stalled \/ ctrlLost)]_bvars

(***************************************************************************)
(* Once rsp_client_close() is over, the bridge leaves the CPU alone: no    *)
(* command of the closed session is still to be executed, because the      *)
(* monitor keeps the mutex from the read of a command to its execution.    *)
(***************************************************************************)
ClosedSessionIsOver ==
  [][(rpc = "accept" /\ rpc' = "accept") => cpu_stalled' = cpu_stalled]_bvars

(***************************************************************************)
(* GDB is never left waiting for a CPU that has stopped for good.          *)
(***************************************************************************)
NoSilentStop == []<>(~Waiting \/ ~cpu_stalled)

(***************************************************************************)
(* Polling algorithm (hardware_monitor.c:168): "send feedback to all       *)
(* registered servers, loop back to timeout determination".  The monitor   *)
(* gets to its select(), with its timeout, again and again: no command, no *)
(* stop of the target and no way a session ends leaves it waiting for the  *)
(* mutex or for room in a pipe.                                            *)
(***************************************************************************)
MonitorLoopsBack == []<>(mpc = "select")

(***************************************************************************)
(* Each thread of the bridge uses the monitor as its API allows: the       *)
(* bridge is an instance of HardwareMonitor's specification.               *)
(***************************************************************************)
UsesMonitorApi == MonitorInit /\ [][Next]_vars

-----------------------------------------------------------------------------
(* What comments say and the code does not do. *)

(***************************************************************************)
(* rsp-server.c:973, "If target was running, restart it."                  *)
(***************************************************************************)
RestartedAfterClose == (rpc = "accept" /\ TargetRunning) => ~cpu_stalled

(***************************************************************************)
(* rsp-server.c:809, "Detach GDB. ... The rules say that execution should  *)
(* continue."                                                              *)
(***************************************************************************)
DetachResumes == (rpc = "accept" /\ detached) => ~cpu_stalled

(***************************************************************************)
(* rsp-server.c:761, "asynchronous BREAK received while target stopped"    *)
(***************************************************************************)
BreakIgnoredStopped == [][RspBreakIgnored => cpu_stalled]_bvars
=============================================================================
