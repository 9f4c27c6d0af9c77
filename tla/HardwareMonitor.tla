-------------------------- MODULE HardwareMonitor --------------------------
(***************************************************************************)
(* The CPU-stall monitor of adv_jtag_bridge (hardware_monitor.c).          *)
(*                                                                         *)
(* One monitor thread owns the CPU's stall bit.  Every server (RSP, JSP,   *)
(* HWP) registers a pair of pipes with it: commands 'S' (stall) and 'U'    *)
(* (unstall) travel to the monitor, events 'H' (halted) and 'R' (running)  *)
(* travel back.  The connections[] array and its count are shared and      *)
(* guarded by pipes_mutex; the pipes themselves are written and read       *)
(* without it.                                                             *)
(*                                                                         *)
(* A block of code between lock and unlock that touches only what the      *)
(* mutex guards is one step, enabled when the mutex is free.  The monitor  *)
(* keeps the mutex over steps that other threads can observe (a JTAG       *)
(* access, a pipe access), so its hold is explicit in pipes_mutex.         *)
(*                                                                         *)
(* The servers appear here as any clients of the API: each may register,   *)
(* send, receive and unregister at any time.  RspServer.tla gives the RSP  *)
(* thread its own code and is checked to be one of these clients.          *)
(***************************************************************************)
EXTENDS Integers, Sequences, FiniteSets

CONSTANTS
  Servers,                  \* the threads that register with the monitor
  Fds,                      \* names the kernel can give a pair of pipes (reused after close)
  NoFd,                     \* pipe_fds[] = {-1, -1}
  MAX_MONITOR_CONNECTIONS,
  PipeCap,                  \* bytes a pipe holds before write() blocks (kernel)
  JtagFaults,               \* TRUE: a JTAG access may return an error
  PipeFaults                \* TRUE: pipe() may fail (EMFILE)

ASSUME MonitorAssumption ==
  /\ NoFd \notin Fds
  /\ MAX_MONITOR_CONNECTIONS \in Nat \ {0}
  /\ PipeCap \in Nat \ {0}
  /\ JtagFaults \in BOOLEAN
  /\ PipeFaults \in BOOLEAN

VARIABLES
  pipes_mutex,              \* "free", "monitor", or "server" (kept by a failed registration)
  connections,              \* the array: slot -> the fds of the connection
  num_monitor_connections,
  open,                     \* fds the kernel has open
  s2m, m2s,                 \* contents of the pipes, by fd
  pipe_fds,                 \* each server's own copy of its fds
  view,                     \* last event a server read since it registered;
                            \* its *_target_is_running flag is (view = "R")
  registering,              \* the server, if any, between the check of the count and
                            \* the lock in register_with_monitor_thread()
  target_is_running,        \* what the monitor believes
  cpu_stalled,              \* the STALL bit of the CPU's debug module
  ctrlLost,                 \* history: some write of the control register failed
  mpc, mi, mj,              \* the thread's place, its two loop indices,
  readset, event            \* the fd_set and the event it is announcing; a local
                            \* goes back to its first value when it is dead

vars == <<pipes_mutex, connections, num_monitor_connections, open, s2m, m2s, pipe_fds, view,
          registering, target_is_running, cpu_stalled, ctrlLost, mpc, mi, mj, readset, event>>

Slots   == 0..(MAX_MONITOR_CONNECTIONS - 1)
Faults(b) == {FALSE} \cup (IF b THEN {TRUE} ELSE {})

MonPcs == {"build", "select", "cmdlock", "cmds", "stall", "notify", "poll",
           "haltlock", "haltnotify"}
Cmds   == {"S", "U"}
Events == {"H", "R"}

TypeOK ==
  /\ pipes_mutex \in {"free", "monitor", "server"}
  /\ connections \in [Slots -> Fds \cup {NoFd}]
  /\ num_monitor_connections \in 0..MAX_MONITOR_CONNECTIONS
  /\ open \in SUBSET Fds
  /\ s2m \in [Fds -> Seq(Cmds)]
  /\ m2s \in [Fds -> Seq(Events)]
  /\ pipe_fds \in [Servers -> Fds \cup {NoFd}]
  /\ view \in [Servers -> Events \cup {"none"}]
  /\ registering \in SUBSET Servers
  /\ target_is_running \in BOOLEAN
  /\ cpu_stalled \in BOOLEAN
  /\ ctrlLost \in BOOLEAN
  /\ mpc \in MonPcs
  /\ mi \in 0..MAX_MONITOR_CONNECTIONS
  /\ mj \in 0..MAX_MONITOR_CONNECTIONS
  /\ readset \in SUBSET Fds
  /\ event \in Events

(***************************************************************************)
(* start_monitor_thread(): the target is taken to be running.  The first   *)
(* poll corrects this if the CPU is in fact stalled.                       *)
(***************************************************************************)
MonitorInit ==
  /\ pipes_mutex = "free"
  /\ connections = [i \in Slots |-> NoFd]
  /\ num_monitor_connections = 0
  /\ open = {}
  /\ s2m = [f \in Fds |-> <<>>]
  /\ m2s = [f \in Fds |-> <<>>]
  /\ pipe_fds = [s \in Servers |-> NoFd]
  /\ view = [s \in Servers |-> "none"]
  /\ registering = {}
  /\ target_is_running = TRUE
  /\ cpu_stalled \in BOOLEAN
  /\ ctrlLost = FALSE
  /\ mpc = "build" /\ mi = 0 /\ mj = 0 /\ readset = {} /\ event = "H"

Active == {connections[i] : i \in 0..(num_monitor_connections - 1)}

-----------------------------------------------------------------------------
(* The public API, called on a server's thread. *)

MonitorThreadUnchanged == UNCHANGED <<target_is_running, ctrlLost, mpc, mi, mj, readset, event>>

RoomLeftOffByOne == num_monitor_connections <= MAX_MONITOR_CONNECTIONS

RoomLeft == num_monitor_connections < MAX_MONITOR_CONNECTIONS

(***************************************************************************)
(* register_with_monitor_thread() tests the count before it takes the      *)
(* lock, and does not test it again.  All its callers (rsp_server_request, *)
(* jsp_init, hwp_init) run on main()'s thread, so one call is in progress  *)
(* at a time.  With the table full it returns 0 and nothing changes.       *)
(***************************************************************************)
RegisterCheck(s) ==
  /\ registering = {}
  /\ RoomLeft
  /\ registering' = {s}
  /\ UNCHANGED <<pipes_mutex, connections, num_monitor_connections, open, s2m, m2s, pipe_fds,
                 view, cpu_stalled>>
  /\ MonitorThreadUnchanged

(***************************************************************************)
(* With the lock: two fresh pipes go into the slot after the last one.     *)
(***************************************************************************)
Register(s, f) ==
  /\ registering = {s}
  /\ pipes_mutex = "free"
  /\ f \notin open
  /\ open' = open \cup {f}
  /\ connections' = [connections EXCEPT ![num_monitor_connections] = f]
  /\ num_monitor_connections' = num_monitor_connections + 1
  /\ pipe_fds' = [pipe_fds EXCEPT ![s] = f]
  /\ view' = [view EXCEPT ![s] = "none"]
  /\ registering' = {}
  /\ UNCHANGED <<pipes_mutex, s2m, m2s, cpu_stalled>>
  /\ MonitorThreadUnchanged

(***************************************************************************)
(* The early returns after a failed pipe(): the lock is not released, and  *)
(* the callers, which test for a result below zero, carry on with the fds  *)
(* they had.                                                               *)
(***************************************************************************)
RegisterFails(s) ==
  /\ PipeFaults
  /\ registering = {s}
  /\ pipes_mutex = "free"
  /\ pipes_mutex' = "server"
  /\ view' = [view EXCEPT ![s] = "none"]
  /\ registering' = {}
  /\ UNCHANGED <<connections, num_monitor_connections, open, s2m, m2s, pipe_fds, cpu_stalled>>
  /\ MonitorThreadUnchanged

(***************************************************************************)
(* unregister_with_monitor_thread(): the entry is found, its pipes closed, *)
(* the last entry moved into the hole and the count reduced.  What is left *)
(* in the pipes is gone with them.                                         *)
(***************************************************************************)
VacateSlotNoMove(i) ==
  /\ connections' = connections
  /\ num_monitor_connections' = num_monitor_connections - 1

VacateSlot(i) ==
  /\ connections' = [connections EXCEPT ![i] = connections[num_monitor_connections - 1]]
  /\ num_monitor_connections' = num_monitor_connections - 1

UnregisterNoLock == TRUE

UnregisterLock == pipes_mutex = "free"

Unregister(s) ==
  /\ pipe_fds[s] # NoFd
  /\ UnregisterLock
  /\ \E i \in 0..(num_monitor_connections - 1) :
        /\ connections[i] = pipe_fds[s]
        /\ VacateSlot(i)
  /\ open' = open \ {pipe_fds[s]}
  /\ s2m' = [s2m EXCEPT ![pipe_fds[s]] = <<>>]
  /\ m2s' = [m2s EXCEPT ![pipe_fds[s]] = <<>>]
  /\ pipe_fds' = [pipe_fds EXCEPT ![s] = NoFd]
  /\ UNCHANGED <<pipes_mutex, view, registering, cpu_stalled>>
  /\ MonitorThreadUnchanged

(***************************************************************************)
(* write(pipe_fds[0], cmd, 1) by a server; blocks while the pipe is full,  *)
(* and does nothing on a closed descriptor (-1).                           *)
(***************************************************************************)
SendCmd(s, c) ==
  /\ \/ /\ pipe_fds[s] # NoFd
        /\ Len(s2m[pipe_fds[s]]) < PipeCap
        /\ s2m' = [s2m EXCEPT ![pipe_fds[s]] = Append(@, c)]
     \/ /\ pipe_fds[s] = NoFd
        /\ s2m' = s2m
  /\ UNCHANGED <<pipes_mutex, connections, num_monitor_connections, open, m2s, pipe_fds,
                 view, registering, cpu_stalled>>
  /\ MonitorThreadUnchanged

(***************************************************************************)
(* read(pipe_fds[1], &status, 1) by a server that saw the pipe readable.   *)
(***************************************************************************)
RecvEvent(s) ==
  /\ pipe_fds[s] # NoFd
  /\ m2s[pipe_fds[s]] # <<>>
  /\ view' = [view EXCEPT ![s] = Head(m2s[pipe_fds[s]])]
  /\ m2s' = [m2s EXCEPT ![pipe_fds[s]] = Tail(@)]
  /\ UNCHANGED <<pipes_mutex, connections, num_monitor_connections, open, s2m, pipe_fds,
                 registering, cpu_stalled>>
  /\ MonitorThreadUnchanged

-----------------------------------------------------------------------------
(* target_handler(): the monitor thread. *)

ServersUnchanged ==
  UNCHANGED <<connections, num_monitor_connections, open, pipe_fds, view, registering>>

(***************************************************************************)
(* Lock, collect the read ends of every connection, unlock.                *)
(***************************************************************************)
MonBuild ==
  /\ mpc = "build"
  /\ pipes_mutex = "free"
  /\ readset' = Active
  /\ mpc' = "select"
  /\ UNCHANGED <<pipes_mutex, s2m, m2s, target_is_running, cpu_stalled, ctrlLost, mi, mj, event>>
  /\ ServersUnchanged

Ready == {f \in readset \cap open : s2m[f] # <<>>}

(***************************************************************************)
(* select() returns: ready descriptors lead to the command loop; a timeout *)
(* with nothing ready, or EBADF because a pipe was closed meanwhile, falls *)
(* through to the poll of the hardware.                                    *)
(***************************************************************************)
MonSelectReady ==
  /\ mpc = "select"
  /\ Ready # {}
  /\ readset' = Ready
  /\ mpc' = "cmdlock"
  /\ UNCHANGED <<pipes_mutex, s2m, m2s, target_is_running, cpu_stalled, ctrlLost, mi, mj, event>>
  /\ ServersUnchanged

MonSelectNone ==
  /\ mpc = "select"
  /\ Ready = {} \/ readset \ open # {}
  /\ readset' = {}
  /\ mpc' = "poll"
  /\ UNCHANGED <<pipes_mutex, s2m, m2s, target_is_running, cpu_stalled, ctrlLost, mi, mj, event>>
  /\ ServersUnchanged

MonCmdLock ==
  /\ mpc = "cmdlock"
  /\ pipes_mutex = "free"
  /\ pipes_mutex' = "monitor"
  /\ mpc' = "cmds"
  /\ UNCHANGED <<s2m, m2s, target_is_running, cpu_stalled, ctrlLost, mi, mj, readset, event>>
  /\ ServersUnchanged

(***************************************************************************)
(* The for loop over the connections, re-read under the lock.  A slot in   *)
(* the readset gives up one command: read() blocks if its pipe is empty,   *)
(* which a descriptor reused since select() can be.                        *)
(***************************************************************************)
MonSkip ==
  /\ mpc = "cmds"
  /\ mi < num_monitor_connections
  /\ connections[mi] \notin readset
  /\ mi' = mi + 1
  /\ UNCHANGED <<pipes_mutex, s2m, m2s, target_is_running, cpu_stalled, ctrlLost, mpc, mj,
                 readset, event>>
  /\ ServersUnchanged

MonRead ==
  /\ mpc = "cmds"
  /\ mi < num_monitor_connections
  /\ connections[mi] \in readset
  /\ s2m[connections[mi]] # <<>>
  /\ s2m' = [s2m EXCEPT ![connections[mi]] = Tail(@)]
  /\ event' = IF Head(s2m[connections[mi]]) = "S" THEN "H" ELSE "R"
  /\ mpc' = "stall"
  /\ UNCHANGED <<pipes_mutex, m2s, target_is_running, cpu_stalled, ctrlLost, mi, mj, readset>>
  /\ ServersUnchanged

MonUnlock == pipes_mutex' = "free"

MonCmdsDone ==
  /\ mpc = "cmds"
  /\ mi >= num_monitor_connections
  /\ MonUnlock
  /\ mpc' = "build"
  /\ mi' = 0 /\ readset' = {}
  /\ UNCHANGED <<s2m, m2s, target_is_running, cpu_stalled, ctrlLost, mj, event>>
  /\ ServersUnchanged

(***************************************************************************)
(* 'S': if (target_is_running) stall_cpu(1);  'U': if (!target_is_running) *)
(* stall_cpu(0).  stall_cpu() writes the control register and then sets    *)
(* target_is_running, whether or not the write succeeded.                  *)
(***************************************************************************)
StallCpu(stall) ==
  \E err \in Faults(JtagFaults) :
     /\ cpu_stalled' = IF err THEN cpu_stalled ELSE stall
     /\ ctrlLost' = (ctrlLost \/ err)
     /\ target_is_running' = ~stall

MonStall ==
  /\ mpc = "stall"
  /\ IF target_is_running = (event = "H")
     THEN StallCpu(event = "H")
     ELSE UNCHANGED <<cpu_stalled, ctrlLost, target_is_running>>
  /\ mpc' = "notify"
  /\ UNCHANGED <<pipes_mutex, s2m, m2s, mi, mj, readset, event>>
  /\ ServersUnchanged

(***************************************************************************)
(* notify_listeners(): one byte to every connection, in slot order; each   *)
(* write() blocks while that pipe is full.                                 *)
(***************************************************************************)
NotifyOneDrops ==
  /\ mj < num_monitor_connections
  /\ m2s' = IF Len(m2s[connections[mj]]) < PipeCap
            THEN [m2s EXCEPT ![connections[mj]] = Append(@, event)]
            ELSE m2s
  /\ mj' = mj + 1

NotifyOneAgain ==
  /\ mj < num_monitor_connections
  /\ Len(m2s[connections[mj]]) < PipeCap
  /\ m2s' = [m2s EXCEPT ![connections[mj]] = Append(@, event)]
  /\ mj' = mj

NotifyOne ==
  /\ mj < num_monitor_connections
  /\ Len(m2s[connections[mj]]) < PipeCap
  /\ m2s' = [m2s EXCEPT ![connections[mj]] = Append(@, event)]
  /\ mj' = mj + 1

MonNotify ==
  /\ mpc \in {"notify", "haltnotify"}
  /\ NotifyOne
  /\ UNCHANGED <<pipes_mutex, s2m, target_is_running, cpu_stalled, ctrlLost, mpc, mi,
                 readset, event>>
  /\ ServersUnchanged

MonNotifyDone ==
  /\ mpc = "notify"
  /\ mj >= num_monitor_connections
  /\ mi' = mi + 1
  /\ mj' = 0
  /\ event' = "H"
  /\ mpc' = "cmds"
  /\ UNCHANGED <<pipes_mutex, s2m, m2s, target_is_running, cpu_stalled, ctrlLost, readset>>
  /\ ServersUnchanged

(***************************************************************************)
(* No command: if the target is believed to run, read the control register *)
(* and, if the STALL bit is set, tell every listener under the lock.       *)
(***************************************************************************)
StallBitSetWrong == ~cpu_stalled

StallBitSet == cpu_stalled

MonPoll ==
  /\ mpc = "poll"
  /\ \E err \in Faults(JtagFaults) :
        IF target_is_running /\ ~err /\ StallBitSet
        THEN /\ target_is_running' = FALSE
             /\ mpc' = "haltlock"
        ELSE /\ mpc' = "build"
             /\ UNCHANGED target_is_running
  /\ UNCHANGED <<pipes_mutex, s2m, m2s, cpu_stalled, ctrlLost, mi, mj, readset, event>>
  /\ ServersUnchanged

MonHaltLock ==
  /\ mpc = "haltlock"
  /\ pipes_mutex = "free"
  /\ pipes_mutex' = "monitor"
  /\ mpc' = "haltnotify"
  /\ UNCHANGED <<s2m, m2s, target_is_running, cpu_stalled, ctrlLost, mi, mj, readset, event>>
  /\ ServersUnchanged

MonHaltDone ==
  /\ mpc = "haltnotify"
  /\ mj >= num_monitor_connections
  /\ MonUnlock
  /\ mpc' = "build"
  /\ mj' = 0
  /\ UNCHANGED <<s2m, m2s, target_is_running, cpu_stalled, ctrlLost, mi, readset, event>>
  /\ ServersUnchanged

MonitorNext ==
  \/ MonBuild \/ MonSelectReady \/ MonSelectNone
  \/ MonCmdLock \/ MonSkip \/ MonRead \/ MonCmdsDone \/ MonStall
  \/ MonNotify \/ MonNotifyDone
  \/ MonPoll \/ MonHaltLock \/ MonHaltDone

(***************************************************************************)
(* The target stops by itself: a breakpoint, a trap, a single step.        *)
(***************************************************************************)
CpuHalts ==
  /\ ~cpu_stalled
  /\ cpu_stalled' = TRUE
  /\ UNCHANGED <<pipes_mutex, connections, num_monitor_connections, open, s2m, m2s, pipe_fds,
                 view, registering>>
  /\ MonitorThreadUnchanged

-----------------------------------------------------------------------------
ServerStep(s) ==
  \/ pipe_fds[s] = NoFd /\ RegisterCheck(s)
  \/ \E f \in Fds : Register(s, f)
  \/ RegisterFails(s)
  \/ Unregister(s)
  \/ \E c \in Cmds : SendCmd(s, c)
  \/ RecvEvent(s)

Next ==
  \/ MonitorNext
  \/ CpuHalts
  \/ \E s \in Servers : ServerStep(s)

Spec == MonitorInit /\ [][Next]_vars

-----------------------------------------------------------------------------
(* Safety. *)

(***************************************************************************)
(* "The lock should no be released until the two are consistent with each  *)
(* other" (hardware_monitor.c:50): the first num_monitor_connections slots *)
(* always hold distinct, open descriptors, and exactly those the servers   *)
(* have registered, whatever order registrations and removals come in.     *)
(***************************************************************************)
TableConsistent ==
  /\ \A i, j \in 0..(num_monitor_connections - 1) :
        connections[i] = connections[j] => i = j
  /\ Active = open
  /\ \A i \in 0..(num_monitor_connections - 1) :
        \E s \in Servers : pipe_fds[s] = connections[i]

(***************************************************************************)
(* The monitor never takes a running CPU for a stopped one: only a failed  *)
(* write of the control register can make the two disagree that way.  (The *)
(* opposite disagreement is normal: the CPU stops by itself and the next   *)
(* poll notices.)                                                          *)
(***************************************************************************)
StoppedIsStopped == (~target_is_running /\ ~ctrlLost) => cpu_stalled

(***************************************************************************)
(* A server that has heard from the monitor and has drained its pipe knows *)
(* the monitor's belief, except while an event is on its way: between the  *)
(* change of target_is_running and the notification of that connection.    *)
(***************************************************************************)
Announcing == mpc \in {"notify", "haltlock", "haltnotify"}

DrainedServerAgrees ==
  \A s \in Servers :
     (/\ pipe_fds[s] # NoFd
      /\ m2s[pipe_fds[s]] = <<>>
      /\ view[s] # "none"
      /\ ~Announcing)
     => (view[s] = "R") = target_is_running
=============================================================================
