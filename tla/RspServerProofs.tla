-------------------------- MODULE RspServerProofs --------------------------
(***************************************************************************)
(* Proofs about the bridge's threads.  First the stall monitor, for any    *)
(* number of servers, any table size and pipe capacity, with JTAG and      *)
(* pipe() failures.  Then the RSP server and its listeners: they use the   *)
(* monitor as its API allows, a closed session no longer moves the CPU,    *)
(* and GDB is told "stopped" only of a stopped CPU.                        *)
(***************************************************************************)
EXTENDS RspServer, TLAPS

(***************************************************************************)
(* THE STALL MONITOR                                                       *)
(***************************************************************************)

Used == 0..(num_monitor_connections - 1)

(***************************************************************************)
(* The mutex is the monitor's exactly while it is inside a locked loop,    *)
(* and the loop indices stay inside the table meanwhile.  A registration   *)
(* that passed the check still finds room when it has the lock.            *)
(***************************************************************************)
LockInv ==
  /\ (pipes_mutex = "monitor") = (mpc \in {"cmds", "stall", "notify", "haltnotify"})
  /\ mi <= num_monitor_connections
  /\ mpc \in {"stall", "notify"} => mi < num_monitor_connections
  /\ mpc \notin {"cmds", "stall", "notify"} => mi = 0
  /\ mj <= num_monitor_connections
  /\ mpc \notin {"notify", "haltnotify"} => mj = 0
  /\ registering # {} => num_monitor_connections < MAX_MONITOR_CONNECTIONS

(***************************************************************************)
(* The table and the servers' own copies of their descriptors name the     *)
(* same connections, each once; a closed pipe is empty.                    *)
(***************************************************************************)
TableInv ==
  /\ \A i, j \in Used : connections[i] = connections[j] => i = j
  /\ \A i \in Used : connections[i] \in open
  /\ \A f \in open : \E i \in Used : connections[i] = f
  /\ \A f \in open : \E s \in Servers : pipe_fds[s] = f
  /\ \A s \in Servers : pipe_fds[s] # NoFd => pipe_fds[s] \in open
  /\ \A s, t \in Servers : pipe_fds[s] = pipe_fds[t] => s = t \/ pipe_fds[s] = NoFd
  /\ \A f \in Fds : f \notin open => m2s[f] = <<>>
  /\ \A s \in registering : pipe_fds[s] = NoFd

(***************************************************************************)
(* The event being announced is the monitor's belief.                      *)
(***************************************************************************)
EventInv ==
  /\ mpc = "notify" => (event = "R") = target_is_running
  /\ mpc \in {"haltlock", "haltnotify"} => event = "H" /\ ~target_is_running
  /\ mpc \notin {"stall", "notify"} => event = "H"

(***************************************************************************)
(* The newest event a connection has been sent, read or not, is the        *)
(* monitor's belief, unless this announcement has yet to reach its slot.   *)
(***************************************************************************)
Latest(s) == LET q == m2s[pipe_fds[s]] IN IF q = <<>> THEN view[s] ELSE q[Len(q)]

Reached(f) ==
  \/ mpc \notin {"notify", "haltlock", "haltnotify"}
  \/ mpc \in {"notify", "haltnotify"} /\ \E i \in 0..(mj - 1) : connections[i] = f

NewsInv ==
  \A s \in Servers :
     (pipe_fds[s] # NoFd /\ Reached(pipe_fds[s]) /\ Latest(s) # "none")
        => (Latest(s) = "R") = target_is_running

IInv == TypeOK /\ LockInv /\ TableInv /\ EventInv /\ StoppedIsStopped /\ NewsInv

-----------------------------------------------------------------------------
(***************************************************************************)
(* The last element of a pipe after write() and after read().              *)
(***************************************************************************)
LEMMA LastOfAppend ==
  ASSUME NEW S, NEW q \in Seq(S), NEW e \in S
  PROVE  Append(q, e) # <<>> /\ Append(q, e)[Len(Append(q, e))] = e
<1>1. Len(Append(q, e)) = Len(q) + 1 /\ Len(q) \in Nat
  OBVIOUS
<1>2. Append(q, e)[Len(q) + 1] = e
  OBVIOUS
<1> QED BY <1>1, <1>2

(***************************************************************************)
(* Taking the head off a pipe leaves its last element in place, or was     *)
(* taking that element.                                                    *)
(***************************************************************************)
LEMMA LastOfTail ==
  ASSUME NEW S, NEW q \in Seq(S), q # <<>>
  PROVE  /\ Tail(q) = <<>> => Head(q) = q[Len(q)]
         /\ Tail(q) # <<>> => Tail(q)[Len(Tail(q))] = q[Len(q)]
<1>1. Len(q) \in Nat /\ Len(q) > 0
  OBVIOUS
<1>2. Tail(q) \in Seq(S) /\ Len(Tail(q)) = Len(q) - 1
  BY <1>1
<1>3. \A i \in 1..Len(Tail(q)) : Tail(q)[i] = q[i + 1]
  BY <1>1, <1>2
<1>4. Tail(q) = <<>> => Head(q) = q[Len(q)]
  <2>1. Len(q) # 1 => Tail(q) # <<>>
    <3>1. \A r \in Seq(S) : Len(r) # 0 => r # <<>>
      OBVIOUS
    <3>2. Len(Tail(q)) # 0 => Tail(q) # <<>>
      BY <1>2, <3>1, Zenon
    <3>3. Len(q) # 1 => Len(Tail(q)) # 0
      BY <1>1, <1>2
    <3> QED BY <3>2, <3>3, Zenon
  <2>2. Len(q) = 1 => Head(q) = q[Len(q)]
    BY <1>1
  <2> QED BY <2>1, <2>2
<1>5. Tail(q) # <<>> => Len(Tail(q)) > 0
  BY <1>2
<1> QED BY <1>1, <1>2, <1>3, <1>4, <1>5

(***************************************************************************)
(* The initial state of start_monitor_thread() satisfies the invariant.    *)
(***************************************************************************)
LEMMA InitInv == MonitorInit => IInv
<1> SUFFICES ASSUME MonitorInit PROVE IInv
    OBVIOUS
<1> USE MonitorAssumption DEF MonitorInit, Slots, Cmds, Events, MonPcs, Used
<1>0. /\ s2m \in [Fds -> Seq(Cmds)]
      /\ m2s \in [Fds -> Seq(Events)]
      /\ cpu_stalled \in BOOLEAN
  OBVIOUS
<1>1. TypeOK
  <2>1. /\ connections \in [Slots -> Fds \cup {NoFd}]
        /\ pipe_fds \in [Servers -> Fds \cup {NoFd}]
        /\ view \in [Servers -> Events \cup {"none"}]
    OBVIOUS
  <2>2. /\ num_monitor_connections \in 0..MAX_MONITOR_CONNECTIONS
        /\ mi \in 0..MAX_MONITOR_CONNECTIONS
        /\ mj \in 0..MAX_MONITOR_CONNECTIONS
    OBVIOUS
  <2>3. /\ open \in SUBSET Fds
        /\ registering \in SUBSET Servers
        /\ readset \in SUBSET Fds
        /\ target_is_running \in BOOLEAN
        /\ ctrlLost \in BOOLEAN
    OBVIOUS
  <2> QED BY <1>0, <2>1, <2>2, <2>3, Zenon DEF TypeOK
<1>2. LockInv
  BY DEF LockInv
<1>3. TableInv
  BY DEF TableInv
<1>4. EventInv
  BY DEF EventInv
<1>5. StoppedIsStopped
  BY DEF StoppedIsStopped
<1>6. NewsInv
  BY DEF NewsInv
<1> QED BY <1>1, <1>2, <1>3, <1>4, <1>5, <1>6 DEF IInv

(***************************************************************************)
(* Every step keeps the types: the count never passes the size of the      *)
(* table and the loop indices stay inside it.                              *)
(***************************************************************************)
LEMMA TypeStep ==
  ASSUME IInv, Next
  PROVE  TypeOK'
<1> USE MonitorAssumption DEF IInv, TypeOK, LockInv, TableInv, Slots, Cmds, Events, MonPcs, Used
<1>1. CASE MonBuild
  BY <1>1 DEF MonBuild, Active, ServersUnchanged
<1>2. CASE MonSelectReady
  BY <1>2 DEF MonSelectReady, Ready, ServersUnchanged
<1>3. CASE MonSelectNone
  BY <1>3 DEF MonSelectNone, Ready, ServersUnchanged
<1>4. CASE MonCmdLock
  BY <1>4 DEF MonCmdLock, ServersUnchanged
<1>5. CASE MonSkip
  BY <1>5 DEF MonSkip, ServersUnchanged
<1>6. CASE MonRead
  BY <1>6 DEF MonRead, ServersUnchanged
<1>7. CASE MonCmdsDone
  BY <1>7 DEF MonCmdsDone, MonUnlock, ServersUnchanged
<1>8. CASE MonStall
  BY <1>8 DEF MonStall, StallCpu, Faults, ServersUnchanged
<1>9. CASE MonNotify
  BY <1>9 DEF MonNotify, NotifyOne, ServersUnchanged
<1>10. CASE MonNotifyDone
  BY <1>10 DEF MonNotifyDone, ServersUnchanged
<1>11. CASE MonPoll
  BY <1>11 DEF MonPoll, StallBitSet, Faults, ServersUnchanged
<1>12. CASE MonHaltLock
  BY <1>12 DEF MonHaltLock, ServersUnchanged
<1>13. CASE MonHaltDone
  BY <1>13 DEF MonHaltDone, MonUnlock, ServersUnchanged
<1>14. CASE CpuHalts
  BY <1>14 DEF CpuHalts, MonitorThreadUnchanged
<1>15. ASSUME NEW s \in Servers, NEW f \in Fds, Register(s, f)
      PROVE  TypeOK'
  BY <1>15 DEF Register, MonitorThreadUnchanged
<1>16. ASSUME NEW s \in Servers, RegisterFails(s)
      PROVE  TypeOK'
  BY <1>16 DEF RegisterFails, MonitorThreadUnchanged
<1>17. ASSUME NEW s \in Servers, Unregister(s)
      PROVE  TypeOK'
  BY <1>17 DEF Unregister, UnregisterLock, VacateSlot, MonitorThreadUnchanged
<1>18. ASSUME NEW s \in Servers, NEW c \in Cmds, SendCmd(s, c)
      PROVE  TypeOK'
  <2>1. CASE pipe_fds[s] = NoFd
    BY <1>18, <2>1 DEF SendCmd, MonitorThreadUnchanged
  <2>2. CASE pipe_fds[s] # NoFd
    <3> DEFINE g == pipe_fds[s]
    <3>0. /\ g \in Fds /\ s2m[g] \in Seq(Cmds)
          /\ s2m' = [s2m EXCEPT ![g] = Append(s2m[g], c)]
      BY <1>18, <2>2 DEF SendCmd
    <3>1. s2m' \in [Fds -> Seq(Cmds)]
      <4> HIDE DEF g
      <4>1. Append(s2m[g], c) \in Seq(Cmds)
        BY <1>18, <3>0
      <4> QED BY <3>0, <4>1
    <3> QED BY <1>18, <3>1 DEF SendCmd, MonitorThreadUnchanged
  <2> QED BY <2>1, <2>2
<1>19. ASSUME NEW s \in Servers, RecvEvent(s)
      PROVE  TypeOK'
  BY <1>19 DEF RecvEvent, MonitorThreadUnchanged
<1>20. ASSUME NEW s \in Servers, RegisterCheck(s)
      PROVE  TypeOK'
  BY <1>20 DEF RegisterCheck, RoomLeft, MonitorThreadUnchanged
<1> QED
  BY <1>1, <1>2, <1>3, <1>4, <1>5, <1>6, <1>7, <1>8, <1>9, <1>10,
     <1>11, <1>12, <1>13, <1>14, <1>15, <1>16, <1>17, <1>18, <1>19, <1>20
  DEF Next, MonitorNext, ServerStep

(***************************************************************************)
(* The monitor takes and releases the mutex on every path of its loops,    *)
(* and nobody changes the count under its indices.                         *)
(***************************************************************************)
LEMMA LockStep ==
  ASSUME IInv, Next
  PROVE  LockInv'
<1> USE MonitorAssumption DEF IInv, TypeOK, LockInv, MonPcs
<1>1. CASE MonBuild
  BY <1>1 DEF MonBuild, Active, ServersUnchanged
<1>2. CASE MonSelectReady
  BY <1>2 DEF MonSelectReady, Ready, ServersUnchanged
<1>3. CASE MonSelectNone
  BY <1>3 DEF MonSelectNone, Ready, ServersUnchanged
<1>4. CASE MonCmdLock
  BY <1>4 DEF MonCmdLock, ServersUnchanged
<1>5. CASE MonSkip
  BY <1>5 DEF MonSkip, ServersUnchanged
<1>6. CASE MonRead
  BY <1>6 DEF MonRead, ServersUnchanged
<1>7. CASE MonCmdsDone
  BY <1>7 DEF MonCmdsDone, MonUnlock, ServersUnchanged
<1>8. CASE MonStall
  BY <1>8 DEF MonStall, StallCpu, Faults, ServersUnchanged
<1>9. CASE MonNotify
  BY <1>9 DEF MonNotify, NotifyOne, ServersUnchanged
<1>10. CASE MonNotifyDone
  BY <1>10 DEF MonNotifyDone, ServersUnchanged
<1>11. CASE MonPoll
  BY <1>11 DEF MonPoll, StallBitSet, Faults, ServersUnchanged
<1>12. CASE MonHaltLock
  BY <1>12 DEF MonHaltLock, ServersUnchanged
<1>13. CASE MonHaltDone
  BY <1>13 DEF MonHaltDone, MonUnlock, ServersUnchanged
<1>14. CASE CpuHalts
  BY <1>14 DEF CpuHalts, MonitorThreadUnchanged
<1>15. ASSUME NEW s \in Servers, NEW f \in Fds, Register(s, f)
      PROVE  LockInv'
  BY <1>15 DEF Register, MonitorThreadUnchanged
<1>16. ASSUME NEW s \in Servers, RegisterFails(s)
      PROVE  LockInv'
  BY <1>16 DEF RegisterFails, MonitorThreadUnchanged
<1>17. ASSUME NEW s \in Servers, Unregister(s)
      PROVE  LockInv'
  BY <1>17 DEF Unregister, UnregisterLock, VacateSlot, MonitorThreadUnchanged
<1>18. ASSUME NEW s \in Servers, NEW c \in Cmds, SendCmd(s, c)
      PROVE  LockInv'
  BY <1>18 DEF SendCmd, MonitorThreadUnchanged
<1>19. ASSUME NEW s \in Servers, RecvEvent(s)
      PROVE  LockInv'
  BY <1>19 DEF RecvEvent, MonitorThreadUnchanged
<1>20. ASSUME NEW s \in Servers, RegisterCheck(s)
      PROVE  LockInv'
  BY <1>20 DEF RegisterCheck, RoomLeft, MonitorThreadUnchanged
<1> QED
  BY <1>1, <1>2, <1>3, <1>4, <1>5, <1>6, <1>7, <1>8, <1>9, <1>10,
     <1>11, <1>12, <1>13, <1>14, <1>15, <1>16, <1>17, <1>18, <1>19, <1>20
  DEF Next, MonitorNext, ServerStep

(***************************************************************************)
(* Only registration, removal and the pipes' traffic touch the table, and  *)
(* each leaves it in agreement with the servers' copies.                   *)
(***************************************************************************)
LEMMA TableStep ==
  ASSUME IInv, Next
  PROVE  TableInv'
<1> USE MonitorAssumption DEF IInv, TypeOK, TableInv, Slots, Used, LockInv
<1>1. CASE MonNotify
  BY <1>1 DEF MonNotify, NotifyOne, ServersUnchanged
<1>2. ASSUME NEW s \in Servers, NEW f \in Fds, Register(s, f)
      PROVE  TableInv'
  <2> DEFINE n == num_monitor_connections
  <2>1. /\ n \in Slots /\ n' = n + 1 /\ f \notin open /\ open' = open \cup {f}
        /\ connections' = [connections EXCEPT ![n] = f]
        /\ pipe_fds' = [pipe_fds EXCEPT ![s] = f]
        /\ m2s' = m2s /\ registering' = {} /\ pipe_fds[s] = NoFd
    BY <1>2 DEF Register
  <2>2. /\ connections'[n] = f
        /\ \A i \in Used : i \in Slots /\ i # n /\ connections'[i] = connections[i]
        /\ \A i \in Used' : i \in Used \/ i = n
        /\ n \in Used' /\ Used \subseteq Used'
    BY <2>1
  <2>3. /\ pipe_fds'[s] = f /\ f # NoFd
        /\ \A t \in Servers : t # s => pipe_fds'[t] = pipe_fds[t]
    BY <2>1
  <2>4. /\ \A i, j \in Used' : connections'[i] = connections'[j] => i = j
        /\ \A i \in Used' : connections'[i] \in open'
        /\ \A g \in open' : \E i \in Used' : connections'[i] = g
    <3> HIDE DEF n, Used
    <3> QED BY <2>1, <2>2
  <2>5. /\ \A g \in open' : \E t \in Servers : pipe_fds'[t] = g
        /\ \A t \in Servers : pipe_fds'[t] # NoFd => pipe_fds'[t] \in open'
        /\ \A t, u \in Servers : pipe_fds'[t] = pipe_fds'[u] => t = u \/ pipe_fds'[t] = NoFd
        /\ \A g \in Fds : g \notin open' => m2s'[g] = <<>>
        /\ \A t \in registering' : pipe_fds'[t] = NoFd
    BY <1>2, <2>1, <2>3
  <2> QED BY <2>4, <2>5
<1>3. ASSUME NEW s \in Servers, Unregister(s)
      PROVE  TableInv'
  <2> DEFINE last == num_monitor_connections - 1
             g == pipe_fds[s]
  <2>1. PICK k \in Used : /\ connections[k] = g
                          /\ connections' = [connections EXCEPT ![k] = connections[last]]
                          /\ num_monitor_connections' = num_monitor_connections - 1
    BY <1>3 DEF Unregister, UnregisterLock, VacateSlot
  <2>2. /\ g # NoFd /\ g \in open /\ g \in Fds
        /\ open' = open \ {g}
        /\ m2s' = [m2s EXCEPT ![g] = <<>>]
        /\ pipe_fds' = [pipe_fds EXCEPT ![s] = NoFd]
        /\ registering' = registering
    BY <1>3 DEF Unregister, UnregisterLock
  <2>3. /\ last \in Used /\ k \in Used
        /\ \A i \in Used : i \in Used' \/ i = last
        /\ \A i \in Used' : i \in Used /\ i # last
        /\ \A i \in Used' : connections'[i] = connections[IF i = k THEN last ELSE i]
    BY <2>1
  <2>4. /\ \A i, j \in Used' : connections'[i] = connections'[j] => i = j
        /\ \A i \in Used' : connections'[i] \in open'
        /\ \A h \in open' : \E i \in Used' : connections'[i] = h
    <3> HIDE DEF last, g, Used
    <3>1. \A i, j \in Used' : connections'[i] = connections'[j] => i = j
      <4>1. \A i, j \in Used : connections[i] = connections[j] => i = j
        OBVIOUS
      <4>2. SUFFICES ASSUME NEW i \in Used', NEW j \in Used', connections'[i] = connections'[j]
                     PROVE  i = j
        OBVIOUS
      <4> HIDE DEF IInv, TypeOK, TableInv, LockInv
      <4> QED BY <2>3, <4>1, <4>2
    <3>2. \A i \in Used' : connections'[i] \in open'
      BY <2>1, <2>2, <2>3
    <3>3. ASSUME NEW h \in open' PROVE \E i \in Used' : connections'[i] = h
      <4>1. PICK i \in Used : connections[i] = h /\ i # k
        BY <2>1, <2>2
      <4>2. CASE i = last
        BY <4>1, <4>2, <2>3
      <4>3. CASE i # last
        BY <4>1, <4>3, <2>3
      <4> QED BY <4>2, <4>3
    <3> QED BY <3>1, <3>2, <3>3
  <2>5. /\ \A h \in open' : \E t \in Servers : pipe_fds'[t] = h
        /\ \A t \in Servers : pipe_fds'[t] # NoFd => pipe_fds'[t] \in open'
        /\ \A t, u \in Servers : pipe_fds'[t] = pipe_fds'[u] => t = u \/ pipe_fds'[t] = NoFd
        /\ \A h \in Fds : h \notin open' => m2s'[h] = <<>>
        /\ \A t \in registering' : pipe_fds'[t] = NoFd
    BY <2>2
  <2> QED BY <2>4, <2>5
<1>4. ASSUME NEW s \in Servers, RecvEvent(s)
      PROVE  TableInv'
  BY <1>4 DEF RecvEvent, MonitorThreadUnchanged
<1>5. ASSUME NEW s \in Servers, pipe_fds[s] = NoFd, RegisterCheck(s)
      PROVE  TableInv'
  BY <1>5 DEF RegisterCheck
<1>6. ASSUME NEW s \in Servers, RegisterFails(s)
      PROVE  TableInv'
  BY <1>6 DEF RegisterFails
<1>7. CASE UNCHANGED <<connections, num_monitor_connections, open, pipe_fds, m2s, registering>>
  BY <1>7
<1> QED
  BY <1>1, <1>2, <1>3, <1>4, <1>5, <1>6, <1>7
  DEF Next, MonitorNext, ServerStep,
            MonBuild, MonSelectReady, MonSelectNone, MonCmdLock, MonSkip, MonRead,
      MonCmdsDone, MonStall, MonNotifyDone, MonPoll, MonHaltLock, MonHaltDone, CpuHalts,
      SendCmd, ServersUnchanged, MonitorThreadUnchanged

(***************************************************************************)
(* The event announced after a command or a poll is the belief that        *)
(* command or poll left.                                                   *)
(***************************************************************************)
LEMMA EventStep ==
  ASSUME IInv, Next
  PROVE  EventInv'
<1> USE MonitorAssumption DEF IInv, TypeOK, EventInv
<1>1. CASE MonBuild
  BY <1>1 DEF MonBuild, Active, ServersUnchanged
<1>2. CASE MonSelectReady
  BY <1>2 DEF MonSelectReady, Ready, ServersUnchanged
<1>3. CASE MonSelectNone
  BY <1>3 DEF MonSelectNone, Ready, ServersUnchanged
<1>4. CASE MonCmdLock
  BY <1>4 DEF MonCmdLock, ServersUnchanged
<1>5. CASE MonRead
  BY <1>5 DEF MonRead, ServersUnchanged
<1>6. CASE MonCmdsDone
  BY <1>6 DEF MonCmdsDone, MonUnlock, ServersUnchanged
<1>7. CASE MonStall
  <2>1. event' = event /\ mpc' = "notify" /\ event \in Events
    BY <1>7 DEF MonStall
  <2>2. CASE target_is_running = (event = "H")
    BY <1>7, <2>1, <2>2 DEF MonStall, StallCpu, Events
  <2>3. CASE target_is_running # (event = "H")
    BY <1>7, <2>1, <2>3 DEF MonStall, Events
  <2> QED BY <2>2, <2>3
<1>8. CASE MonNotifyDone
  BY <1>8 DEF MonNotifyDone, ServersUnchanged
<1>9. CASE MonPoll
  BY <1>9 DEF MonPoll, StallBitSet, Faults, ServersUnchanged
<1>10. CASE MonHaltLock
  BY <1>10 DEF MonHaltLock, ServersUnchanged
<1>11. CASE MonHaltDone
  BY <1>11 DEF MonHaltDone, MonUnlock, ServersUnchanged
<1>12. CASE UNCHANGED <<event, mpc, target_is_running>>
  BY <1>12
<1> QED
  BY <1>1, <1>2, <1>3, <1>4, <1>5, <1>6, <1>7, <1>8, <1>9, <1>10,
     <1>11, <1>12
  DEF Next, MonitorNext, ServerStep,
            MonSkip, MonNotify, CpuHalts, RegisterCheck, Register, RegisterFails,
      Unregister, SendCmd, RecvEvent, ServersUnchanged, MonitorThreadUnchanged

(***************************************************************************)
(* Only stall_cpu() can make the belief `stopped' without reading it, and  *)
(* then it has written the bit or the write has failed.                    *)
(***************************************************************************)
LEMMA StoppedStep ==
  ASSUME IInv, Next
  PROVE  StoppedIsStopped'
<1> USE MonitorAssumption DEF IInv, TypeOK, EventInv, StoppedIsStopped
<1>1. CASE MonStall
  BY <1>1 DEF MonStall, StallCpu, Faults, ServersUnchanged
<1>2. CASE MonPoll
  BY <1>2 DEF MonPoll, StallBitSet, Faults, ServersUnchanged
<1>3. CASE CpuHalts
  BY <1>3 DEF CpuHalts, MonitorThreadUnchanged
<1>4. CASE UNCHANGED <<target_is_running, cpu_stalled, ctrlLost>>
  BY <1>4
<1> QED
  BY <1>1, <1>2, <1>3, <1>4
  DEF Next, MonitorNext, ServerStep,
            MonBuild, MonSelectReady, MonSelectNone, MonCmdLock, MonSkip, MonRead,
      MonCmdsDone, MonNotify, MonNotifyDone, MonHaltLock, MonHaltDone, RegisterCheck,
      Register, RegisterFails, Unregister, SendCmd, RecvEvent, ServersUnchanged,
      MonitorThreadUnchanged

(***************************************************************************)
(* An announcement reaches every slot before the belief can change again,  *)
(* and reading an event moves it from the pipe to the server.              *)
(***************************************************************************)
LEMMA NewsStep ==
  ASSUME IInv, Next
  PROVE  NewsInv'
<1> USE MonitorAssumption DEF IInv, TypeOK, LockInv, TableInv, EventInv, NewsInv, Reached,
           Latest, Slots, Events, Used
<1>1. CASE MonBuild
  BY <1>1 DEF MonBuild, Active, ServersUnchanged
<1>2. CASE MonSelectReady
  BY <1>2 DEF MonSelectReady, Ready, ServersUnchanged
<1>3. CASE MonSelectNone
  BY <1>3 DEF MonSelectNone, Ready, ServersUnchanged
<1>4. CASE MonCmdLock
  BY <1>4 DEF MonCmdLock, ServersUnchanged
<1>5. CASE MonRead
  BY <1>5 DEF MonRead, ServersUnchanged
<1>6. CASE MonCmdsDone
  BY <1>6 DEF MonCmdsDone, MonUnlock, ServersUnchanged
<1>7. CASE MonStall
  BY <1>7 DEF MonStall, StallCpu, Faults, ServersUnchanged
<1>8. CASE MonNotify
  <2> SUFFICES ASSUME NEW s \in Servers, pipe_fds[s] # NoFd,
                      Reached(pipe_fds[s])', Latest(s)' # "none"
               PROVE  (Latest(s)' = "R") = target_is_running
    BY <1>8 DEF MonNotify, ServersUnchanged
  <2> DEFINE g == connections[mj]
  <2>1. /\ mj \in Used /\ mj' = mj + 1 /\ g \in open /\ g \in Fds
        /\ m2s' = [m2s EXCEPT ![g] = Append(m2s[g], event)]
        /\ UNCHANGED <<pipe_fds, view, connections, mpc>>
        /\ mpc \in {"notify", "haltnotify"}
    BY <1>8 DEF MonNotify, NotifyOne, ServersUnchanged
  <2>2. (event = "R") = target_is_running
    BY <1>8 DEF MonNotify
  <2>3. CASE pipe_fds[s] = g
    <3>1. m2s[g] \in Seq(Events) /\ m2s'[pipe_fds'[s]] = Append(m2s[g], event)
      BY <2>1, <2>3
    <3>2. /\ Append(m2s[g], event) # <<>>
          /\ Append(m2s[g], event)[Len(Append(m2s[g], event))] = event
      <4>1. event \in Events
        OBVIOUS
      <4> HIDE DEF g, IInv, TypeOK, Events
      <4> QED BY <3>1, <4>1, LastOfAppend
    <3>3. Latest(s)' = event
      BY <3>1, <3>2
    <3> QED BY <2>2, <3>3
  <2>4. CASE pipe_fds[s] # g
    <3>1. Latest(s)' = Latest(s)
      BY <2>1, <2>4
    <3>2. Reached(pipe_fds[s])
      BY <2>1, <2>4
    <3> QED BY <3>1, <3>2
  <2> QED BY <2>3, <2>4
<1>9. CASE MonNotifyDone
  <2>1. \A s \in Servers : pipe_fds[s] # NoFd => Reached(pipe_fds[s])
    <3> SUFFICES ASSUME NEW s \in Servers, pipe_fds[s] # NoFd PROVE Reached(pipe_fds[s])
      OBVIOUS
    <3>1. PICK i \in Used : connections[i] = pipe_fds[s]
      OBVIOUS
    <3>2. i \in 0..(mj - 1) /\ mpc = "notify"
      BY <1>9 DEF MonNotifyDone
    <3> QED BY <3>1, <3>2
  <2>2. \A s \in Servers : Latest(s)' = Latest(s)
    BY <1>9 DEF MonNotifyDone, ServersUnchanged
  <2> QED BY <1>9, <2>1, <2>2 DEF MonNotifyDone, ServersUnchanged
<1>10. CASE MonPoll
  BY <1>10 DEF MonPoll, StallBitSet, Faults, ServersUnchanged
<1>11. CASE MonHaltLock
  BY <1>11 DEF MonHaltLock, ServersUnchanged
<1>12. CASE MonHaltDone
  <2>1. \A s \in Servers : pipe_fds[s] # NoFd => Reached(pipe_fds[s])
    <3> SUFFICES ASSUME NEW s \in Servers, pipe_fds[s] # NoFd PROVE Reached(pipe_fds[s])
      OBVIOUS
    <3>1. PICK i \in Used : connections[i] = pipe_fds[s]
      OBVIOUS
    <3>2. i \in 0..(mj - 1) /\ mpc = "haltnotify"
      BY <1>12 DEF MonHaltDone
    <3> QED BY <3>1, <3>2
  <2>2. \A s \in Servers : Latest(s)' = Latest(s)
    BY <1>12 DEF MonHaltDone, MonUnlock, ServersUnchanged
  <2> QED BY <1>12, <2>1, <2>2 DEF MonHaltDone, MonUnlock, ServersUnchanged
<1>13. ASSUME NEW s \in Servers, NEW f \in Fds, Register(s, f)
      PROVE  NewsInv'
  BY <1>13 DEF Register, MonitorThreadUnchanged
<1>14. ASSUME NEW s \in Servers, RegisterFails(s)
      PROVE  NewsInv'
  BY <1>14 DEF RegisterFails, MonitorThreadUnchanged
<1>15. ASSUME NEW s \in Servers, Unregister(s)
      PROVE  NewsInv'
  BY <1>15 DEF Unregister, UnregisterLock, VacateSlot, MonitorThreadUnchanged
<1>16. ASSUME NEW s \in Servers, RecvEvent(s)
      PROVE  NewsInv'
  <2>0. UNCHANGED <<connections, pipe_fds, mpc, mj, target_is_running>>
    BY <1>16 DEF RecvEvent, MonitorThreadUnchanged
  <2> SUFFICES ASSUME NEW t \in Servers, pipe_fds[t] # NoFd,
                      Reached(pipe_fds[t]), Latest(t)' # "none"
               PROVE  (Latest(t)' = "R") = target_is_running
    BY <2>0
  <2> DEFINE q == m2s[pipe_fds[s]]
  <2>1. /\ pipe_fds[s] \in Fds /\ q \in Seq(Events) /\ q # <<>>
        /\ m2s' = [m2s EXCEPT ![pipe_fds[s]] = Tail(q)]
        /\ view' = [view EXCEPT ![s] = Head(q)]
        /\ pipe_fds' = pipe_fds
    BY <1>16 DEF RecvEvent
  <2>2. CASE t = s
    <3>1. CASE Tail(q) = <<>>
      <4>1. Head(q) = q[Len(q)]
        BY <2>1, <3>1, LastOfTail
      <4>2. Latest(s)' = Latest(s)
        BY <2>1, <3>1, <4>1
      <4> QED BY <2>2, <4>2
    <3>2. CASE Tail(q) # <<>>
      <4>1. Tail(q)[Len(Tail(q))] = q[Len(q)]
        BY <2>1, <3>2, LastOfTail
      <4>2. Latest(s)' = Latest(s)
        BY <2>1, <3>2, <4>1
      <4> QED BY <2>2, <4>2
    <3> QED BY <3>1, <3>2
  <2>3. CASE t # s
    <3>1. pipe_fds[t] # pipe_fds[s]
      BY <2>1, <2>3
    <3>2. Latest(t)' = Latest(t)
      BY <2>1, <2>3, <3>1
    <3> QED BY <3>2
  <2> QED BY <2>2, <2>3
<1>17. CASE UNCHANGED <<connections, pipe_fds, m2s, view, mpc, mj, target_is_running>>
  BY <1>17
<1> QED
  BY <1>1, <1>2, <1>3, <1>4, <1>5, <1>6, <1>7, <1>8, <1>9, <1>10,
     <1>11, <1>12, <1>13, <1>14, <1>15, <1>16, <1>17
  DEF Next, MonitorNext, ServerStep,
      MonSkip, CpuHalts, RegisterCheck, SendCmd, ServersUnchanged, MonitorThreadUnchanged

-----------------------------------------------------------------------------
(***************************************************************************)
(* A step in which nothing changes keeps every part.                       *)
(***************************************************************************)
LEMMA StutterStep ==
  ASSUME IInv, UNCHANGED vars
  PROVE  IInv'
BY DEF vars, IInv, TypeOK, LockInv, TableInv, EventInv, StoppedIsStopped, NewsInv, Reached,
       Latest, Used

(***************************************************************************)
(* The invariant is inductive: it holds in every reachable state of the    *)
(* monitor, the servers and the target.                                    *)
(***************************************************************************)
THEOREM InductiveInvariant == Spec => []IInv
<1>1. MonitorInit => IInv
  BY InitInv
<1>2. IInv /\ [Next]_vars => IInv'
  BY TypeStep, LockStep, TableStep, EventStep, StoppedStep, NewsStep, StutterStep DEF IInv
<1> QED BY <1>1, <1>2, PTL DEF Spec

(***************************************************************************)
(* Types, for any table size, any pipes and any servers; in particular     *)
(* connections[] is never indexed past its end by                          *)
(* register_with_monitor_thread() or by the monitor's loops.               *)
(***************************************************************************)
THEOREM TypeCorrect == Spec => []TypeOK
<1>1. IInv => TypeOK
  BY DEF IInv
<1> QED BY <1>1, InductiveInvariant, PTL

(***************************************************************************)
(* connections[] and its count stay consistent with each other and with    *)
(* the open descriptors (the comment at hardware_monitor.c:51), however    *)
(* registrations, removals and failed registrations interleave with the    *)
(* monitor thread.                                                         *)
(***************************************************************************)
THEOREM TableStaysConsistent == Spec => []TableConsistent
<1>1. IInv => TableConsistent
  BY DEF IInv, TableInv, TableConsistent, Active, Used
<1> QED BY <1>1, InductiveInvariant, PTL

(***************************************************************************)
(* While no write of the control register is lost, a target that the       *)
(* monitor takes for stopped is stopped.                                   *)
(***************************************************************************)
THEOREM BeliefIsSafe == Spec => []StoppedIsStopped
<1>1. IInv => StoppedIsStopped
  BY DEF IInv
<1> QED BY <1>1, InductiveInvariant, PTL

(***************************************************************************)
(* notify_listeners() keeps every registered server informed: one that has *)
(* drained its pipe, outside an announcement, has the monitor's belief.    *)
(***************************************************************************)
THEOREM ListenersAgree == Spec => []DrainedServerAgrees
<1>1. IInv => DrainedServerAgrees
  BY DEF IInv, TypeOK, NewsInv, Latest, Reached, DrainedServerAgrees, Announcing
<1> QED BY <1>1, InductiveInvariant, PTL

-----------------------------------------------------------------------------
(***************************************************************************)
(* THE RSP SERVER AND ITS LISTENERS                                        *)
(***************************************************************************)

(***************************************************************************)
(* e is somewhere in the queue q; e is there at most once.                 *)
(***************************************************************************)
Has(q, e)  == \E i \in 1..Len(q) : q[i] = e
Once(q, e) == \A i, j \in 1..Len(q) : q[i] = e /\ q[j] = e => i = j

(***************************************************************************)
(* main() is in a session from rsp_server_request()'s registration to the  *)
(* first step of rsp_client_close(), and it has its pipes all that time;   *)
(* it has none before it registers and after it has unregistered.          *)
(***************************************************************************)
InSession == rpc \in {"attach", "setup", "poll", "unstall"}

ApiInv ==
  /\ rpc \in {"start", "accept", "register", "detach"} => pipe_fds[Rsp] = NoFd
  /\ InSession => pipe_fds[Rsp] # NoFd

(***************************************************************************)
(* Only the RSP server gives commands, and the monitor executes one only   *)
(* while the RSP server is registered.                                     *)
(***************************************************************************)
CommandInv ==
  /\ \A f \in Fds : f # pipe_fds[Rsp] => s2m[f] = <<>>
  /\ mpc = "stall" => pipe_fds[Rsp] # NoFd

(***************************************************************************)
(* The CPU's own traps go to the debug unit during a session only.         *)
(***************************************************************************)
DsrInv == dsr => rpc \in {"poll", "unstall", "close1", "close2"}

(***************************************************************************)
(* GDB has at most one continue under way, and sends nothing but a BREAK   *)
(* until its stop reply.                                                   *)
(***************************************************************************)
GdbInv ==
  /\ Once(toServer, "c")
  /\ (Has(toServer, "c") \/ rpc = "unstall") => gdb \notin {"idle", "ask"}
  /\ rpc = "unstall" => ~Has(toServer, "c")

(***************************************************************************)
(* The three places where a start of the target can be on its way to the   *)
(* RSP server: a command the monitor has not read, the announcement in     *)
(* progress if it has not reached the RSP server's slot, and the event     *)
(* pipe.                                                                   *)
(***************************************************************************)
RunAsked     == Has(s2m[pipe_fds[Rsp]], "U")
RunAnnounced == event = "R" /\ \A i \in 0..(mj - 1) : connections[i] # pipe_fds[Rsp]
RunInPipe    == Has(m2s[pipe_fds[Rsp]], "R")

NoRunComing  == ~RunAsked /\ ~RunAnnounced /\ ~RunInPipe

OneRunComing ==
  /\ Once(s2m[pipe_fds[Rsp]], "U")
  /\ Once(m2s[pipe_fds[Rsp]], "R")
  /\ RunInPipe => ~RunAnnounced /\ ~RunAsked
  /\ RunAnnounced => ~RunAsked

(***************************************************************************)
(* In a session one start at most is on its way; none once the RSP server  *)
(* has read it, so that an 'H' behind it is news; and none while GDB may   *)
(* still have a continue to send or main() one to execute.                 *)
(***************************************************************************)
MayContinue == \/ gdb \in {"idle", "ask"}
               \/ Has(toServer, "c")
               \/ rpc \in {"attach", "setup", "unstall"}

SessionInv ==
  InSession => /\ OneRunComing
               /\ view[Rsp] = "R" => NoRunComing
               /\ MayContinue => NoRunComing /\ view[Rsp] # "R"

BridgeInv == IInv /\ BridgeTypeOK /\ ApiInv /\ CommandInv /\ DsrInv /\ GdbInv /\ SessionInv

-----------------------------------------------------------------------------
(***************************************************************************)
(* What a write at the end of a queue does to what it holds.               *)
(***************************************************************************)
LEMMA HasAppend ==
  ASSUME NEW S, NEW q \in Seq(S), NEW x \in S, NEW e
  PROVE  Has(Append(q, x), e) <=> Has(q, e) \/ x = e
<1>1. /\ Len(q) \in Nat /\ Len(Append(q, x)) = Len(q) + 1
      /\ \A i \in 1..Len(q) : Append(q, x)[i] = q[i]
      /\ Append(q, x)[Len(q) + 1] = x
  OBVIOUS
<1> DEFINE n == Len(q)
           r == Append(q, x)
<1> HIDE DEF n, r
<1>2. /\ n \in Nat /\ Len(r) = n + 1
      /\ \A i \in 1..n : r[i] = q[i]
      /\ r[n + 1] = x /\ Len(q) = n
  BY <1>1 DEF n, r
<1>3. Has(r, e) <=> Has(q, e) \/ x = e
  BY <1>2 DEF Has
<1> QED BY <1>3 DEF r

(***************************************************************************)
(* A second copy appears only if it is written.                            *)
(***************************************************************************)
LEMMA OnceAppend ==
  ASSUME NEW S, NEW q \in Seq(S), NEW x \in S, NEW e,
         Once(q, e), x = e => ~Has(q, e)
  PROVE  Once(Append(q, x), e)
<1>1. /\ Len(q) \in Nat /\ Len(Append(q, x)) = Len(q) + 1
      /\ \A i \in 1..Len(q) : Append(q, x)[i] = q[i]
      /\ Append(q, x)[Len(q) + 1] = x
  OBVIOUS
<1> DEFINE n == Len(q)
           r == Append(q, x)
<1> HIDE DEF n, r
<1>2. /\ n \in Nat /\ Len(r) = n + 1
      /\ \A i \in 1..n : r[i] = q[i]
      /\ r[n + 1] = x /\ Len(q) = n
  BY <1>1 DEF n, r
<1>3. Once(r, e)
  BY <1>2 DEF Has, Once
<1> QED BY <1>3 DEF r

(***************************************************************************)
(* What a read from its front does.                                        *)
(***************************************************************************)
LEMMA HasTail ==
  ASSUME NEW S, NEW q \in Seq(S), q # <<>>, NEW e
  PROVE  Has(q, e) <=> Head(q) = e \/ Has(Tail(q), e)
<1>1. /\ Len(q) \in Nat /\ Len(q) > 0 /\ Len(Tail(q)) = Len(q) - 1
      /\ \A i \in 1..(Len(q) - 1) : Tail(q)[i] = q[i + 1]
      /\ Head(q) = q[1]
  OBVIOUS
<1> DEFINE n == Len(q)
           r == Tail(q)
           h == Head(q)
<1> HIDE DEF n, r, h
<1>2. /\ n \in Nat /\ n > 0 /\ Len(r) = n - 1
      /\ \A i \in 1..(n - 1) : r[i] = q[i + 1]
      /\ h = q[1] /\ Len(q) = n
  BY <1>1 DEF n, r, h
<1>3. ASSUME NEW i \in 1..n, q[i] = e PROVE h = e \/ Has(r, e)
  <2>1. CASE i = 1
    BY <1>2, <1>3, <2>1
  <2>2. CASE i # 1
    <3>1. i - 1 \in 1..(n - 1) /\ (i - 1) + 1 = i
      BY <1>2, <2>2
    <3>2. r[i - 1] = e
      BY <1>2, <1>3, <3>1
    <3> QED BY <1>2, <3>1, <3>2 DEF Has
  <2> QED BY <2>1, <2>2
<1>4. ASSUME NEW i \in 1..(n - 1), r[i] = e PROVE \E j \in 1..n : q[j] = e
  <2>1. i + 1 \in 1..n /\ q[i + 1] = e
    BY <1>2, <1>4
  <2> QED BY <2>1
<1>5. Has(q, e) <=> h = e \/ Has(r, e)
  <2>1. 1 \in 1..n
    BY <1>2
  <2> QED BY <1>2, <1>3, <1>4, <2>1 DEF Has
<1> QED BY <1>5 DEF r, h

(***************************************************************************)
(* Reading takes the one copy away, or leaves at most one behind.          *)
(***************************************************************************)
LEMMA OnceTail ==
  ASSUME NEW S, NEW q \in Seq(S), q # <<>>, NEW e, Once(q, e)
  PROVE  Once(Tail(q), e) /\ (Head(q) = e => ~Has(Tail(q), e))
<1>1. /\ Len(q) \in Nat /\ Len(q) > 0 /\ Len(Tail(q)) = Len(q) - 1
      /\ \A i \in 1..(Len(q) - 1) : Tail(q)[i] = q[i + 1]
      /\ Head(q) = q[1]
  OBVIOUS
<1> DEFINE n == Len(q)
           r == Tail(q)
           h == Head(q)
<1> HIDE DEF n, r, h
<1>2. /\ n \in Nat /\ n > 0 /\ Len(r) = n - 1
      /\ \A i \in 1..(n - 1) : r[i] = q[i + 1] /\ i + 1 \in 1..n
      /\ h = q[1] /\ Len(q) = n /\ 1 \in 1..n
  BY <1>1 DEF n, r, h
<1>3. \A i, j \in 1..n : q[i] = e /\ q[j] = e => i = j
  BY <1>2 DEF Once
<1>4. ASSUME NEW i \in 1..(n - 1), NEW j \in 1..(n - 1), r[i] = e, r[j] = e PROVE i = j
  <2>1. i + 1 = j + 1
    BY <1>2, <1>3, <1>4
  <2> QED BY <2>1, <1>2
<1>5. ASSUME NEW i \in 1..(n - 1), h = e, r[i] = e PROVE FALSE
  <2>1. i + 1 = 1
    BY <1>2, <1>3, <1>5
  <2> QED BY <2>1, <1>2
<1> QED BY <1>2, <1>4, <1>5 DEF Once, Has, r, h

(***************************************************************************)
(* An empty queue holds nothing.                                           *)
(***************************************************************************)
LEMMA EmptyHasNothing ==
  ASSUME NEW e
  PROVE  ~Has(<<>>, e) /\ Once(<<>>, e)
BY DEF Has, Once

-----------------------------------------------------------------------------
(***************************************************************************)
(* A step of the monitor thread leaves the servers' side alone.            *)
(***************************************************************************)
LEMMA MonitorFrame ==
  ASSUME MonitorNext
  PROVE  UNCHANGED <<connections, num_monitor_connections, open, pipe_fds, view, registering>>
BY DEF MonitorNext, MonBuild, MonSelectReady, MonSelectNone, MonCmdLock, MonSkip, MonRead,
       MonCmdsDone, MonStall, MonNotify, MonNotifyDone, MonPoll, MonHaltLock, MonHaltDone,
       ServersUnchanged

(***************************************************************************)
(* What each thread does to the monitor's state is a step of the monitor's *)
(* own specification: main() registers only without pipes, and nobody      *)
(* writes or reads another's pipe.                                         *)
(***************************************************************************)
LEMMA BridgeUsesApi ==
  ASSUME ApiInv, BridgeNext
  PROVE  Next \/ UNCHANGED vars
<1> USE BridgeAssumption
<1>1. "S" \in Cmds /\ "U" \in Cmds
  BY DEF Cmds
<1>2. \A b \in BOOLEAN : SetStallState(b) => Next
  <2> SUFFICES ASSUME NEW b \in BOOLEAN, SetStallState(b) PROVE Next
    OBVIOUS
  <2>1. \E c \in Cmds : SendCmd(Rsp, c)
    BY <1>1 DEF SetStallState
  <2> QED BY <2>1 DEF Next, ServerStep
<1>3. StartListener => Next
  BY DEF StartListener, Listeners, Next, ServerStep
<1>4. RspRegisterCheck => Next
  BY DEF RspRegisterCheck, ApiInv, Next, ServerStep
<1>5. RspRegister => Next
  BY DEF RspRegister, Next, ServerStep
<1>6. RspAttach \/ RspBreak \/ RspUnstall \/ RspDetachUnstall => Next
  BY <1>2 DEF RspAttach, RspBreak, RspUnstall, RspDetachUnstall
<1>7. RspCloseStall \/ RspCloseUnstall => Next \/ UNCHANGED vars
  BY <1>2 DEF RspCloseStall, RspCloseUnstall
<1>8. RspCloseUnregister => Next \/ UNCHANGED vars
  BY DEF RspCloseUnregister, UnregisterTwice, Next, ServerStep
<1>9. RspEvent => Next
  BY DEF RspEvent, Next, ServerStep
<1>10. ASSUME NEW l \in Listeners PROVE ListenerEvent(l) => Next
  BY DEF ListenerEvent, Listeners, Next, ServerStep
<1>11. CpuTraps => Next
  BY DEF CpuTraps, Next
<1>12. MonitorNext => Next
  BY DEF Next
<1> QED
  BY <1>3, <1>4, <1>5, <1>6, <1>7, <1>8, <1>9, <1>10, <1>11, <1>12
  DEF BridgeNext, RspNext, StartRsp, RspAccept, RspSetup, RspBreakIgnored, RspContinue,
      RspQuery, RspDetach, RspEof, RspCloseDsr, ListenerClientComes, ListenerClientLeaves,
      GdbConnects, GdbSends, GdbDies

(***************************************************************************)
(* So the monitor's invariant holds of the bridge.                         *)
(***************************************************************************)
LEMMA MonitorInvStep ==
  ASSUME IInv, ApiInv, BridgeNext
  PROVE  IInv'
BY BridgeUsesApi, TypeStep, LockStep, TableStep, EventStep, StoppedStep, NewsStep, StutterStep
   DEF IInv

(***************************************************************************)
(* The last step of rsp_client_close() leaves main() without pipes.        *)
(***************************************************************************)
LEMMA CloseFrame ==
  ASSUME IInv, BridgeTypeOK, RspCloseUnregister
  PROVE  /\ rpc' \in {"close1", "detach", "accept"} /\ again' = "none" /\ toServer' = <<>>
         /\ pipe_fds'[Rsp] = NoFd
         /\ UNCHANGED <<client_waiting, dsr, gdb, backlog, detached, attached, cpu_stalled, mpc>>
<1> USE BridgeAssumption
<1>1. /\ again \in {"none", "close", "detach"}
      /\ rpc' = CASE again = "close"  -> "close1"
                  [] again = "detach" -> "detach"
                  [] again = "none"   -> "accept"
      /\ again' = "none" /\ toServer' = <<>>
      /\ UNCHANGED <<client_waiting, dsr, gdb, backlog, detached, attached>>
  BY DEF RspCloseUnregister, BridgeTypeOK
<1>2. rpc' \in {"close1", "detach", "accept"}
  BY <1>1, Zenon
<1>3. pipe_fds[Rsp] # NoFd => Unregister(Rsp)
  BY Zenon DEF RspCloseUnregister
<1>4. pipe_fds[Rsp] = NoFd => UNCHANGED vars
  BY Zenon DEF RspCloseUnregister, UnregisterTwice
<1>5. pipe_fds'[Rsp] = NoFd /\ UNCHANGED <<cpu_stalled, mpc>>
  <2>1. CASE pipe_fds[Rsp] # NoFd
    BY <1>3, <2>1 DEF Unregister, IInv, TypeOK, MonitorThreadUnchanged
  <2>2. CASE pipe_fds[Rsp] = NoFd
    BY <1>4, <2>2 DEF vars
  <2> QED BY <2>1, <2>2
<1> QED BY <1>1, <1>2, <1>5

(***************************************************************************)
(* A command leaves everything but the pipe it goes into.                  *)
(***************************************************************************)
LEMMA CommandFrame ==
  ASSUME NEW b \in BOOLEAN, SetStallState(b)
  PROVE  /\ UNCHANGED <<pipes_mutex, connections, num_monitor_connections, open, m2s, pipe_fds,
                        view, registering, cpu_stalled>>
         /\ UNCHANGED <<target_is_running, ctrlLost, mpc, mi, mj, readset, event>>
BY DEF SetStallState, SendCmd, MonitorThreadUnchanged

(***************************************************************************)
(* main()'s pipes follow its place in the code: registered from            *)
(* rsp_server_request() to rsp_client_close(), never outside.              *)
(***************************************************************************)
LEMMA ApiInvStep ==
  ASSUME IInv, BridgeTypeOK, ApiInv, BridgeNext
  PROVE  ApiInv'
<1> USE BridgeAssumption, MonitorAssumption DEF ApiInv, InSession
<1>1. CASE MonitorNext /\ UNCHANGED rspVars
  BY <1>1, MonitorFrame DEF rspVars
<1>2. CASE StartListener
  <2>1. rpc = "start" /\ rpc' = "start"
    BY <1>2 DEF StartListener, rspVars
  <2>2. PICK l \in Listeners : \/ pipe_fds[l] = NoFd /\ RegisterCheck(l)
                               \/ \E f \in Fds : Register(l, f)
    BY <1>2 DEF StartListener
  <2>3. pipe_fds'[Rsp] = pipe_fds[Rsp]
    BY <2>2 DEF Listeners, RegisterCheck, Register, IInv, TypeOK
  <2> QED BY <2>1, <2>3
<1>3. CASE RspRegister
  <2>1. PICK f \in Fds : Register(Rsp, f)
    BY <1>3 DEF RspRegister
  <2>2. pipe_fds'[Rsp] = f
    BY <2>1 DEF Register, IInv, TypeOK
  <2> QED BY <1>3, <2>2 DEF RspRegister
<1>4. CASE RspCloseUnregister
  BY <1>4, CloseFrame
<1>5. CASE RspAttach \/ RspBreak \/ RspUnstall \/ RspDetachUnstall
  BY <1>5, CommandFrame DEF RspAttach, RspBreak, RspUnstall, RspDetachUnstall, Request
<1>6. CASE RspCloseStall \/ RspCloseUnstall
  BY <1>6, CommandFrame DEF RspCloseStall, RspCloseUnstall, vars
<1>7. CASE RspEvent \/ \E l \in Listeners : ListenerEvent(l)
  BY <1>7 DEF RspEvent, ListenerEvent, RecvEvent, rspVars
<1>8. CASE RspRegisterCheck \/ CpuTraps
  BY <1>8 DEF RspRegisterCheck, RegisterCheck, CpuTraps, CpuHalts, rspVars
<1>9. CASE \/ StartRsp \/ RspAccept \/ RspSetup \/ RspBreakIgnored \/ RspContinue \/ RspQuery
           \/ RspDetach \/ RspEof \/ RspCloseDsr
  BY <1>9 DEF StartRsp, RspAccept, RspSetup, RspBreakIgnored, RspContinue, RspQuery, RspDetach,
              RspEof, RspCloseDsr, Request, vars
<1>10. CASE \/ \E l \in Listeners : ListenerClientComes(l) \/ ListenerClientLeaves(l)
            \/ GdbConnects \/ (\E p \in Packets : GdbSends(p)) \/ GdbDies
  BY <1>10 DEF ListenerClientComes, ListenerClientLeaves, GdbConnects, GdbSends, GdbDies, vars
<1> QED
  BY <1>1, <1>2, <1>3, <1>4, <1>5, <1>6, <1>7, <1>8, <1>9, <1>10 DEF BridgeNext, RspNext

(***************************************************************************)
(* Types of the bridge's own variables.                                    *)
(***************************************************************************)
LEMMA BridgeTypeStep ==
  ASSUME IInv, BridgeTypeOK, IInv', BridgeNext
  PROVE  BridgeTypeOK'
<1>0. TypeOK'
  BY DEF IInv
<1> USE BridgeAssumption, <1>0 DEF BridgeTypeOK, RspPcs, Packets
<1>1. CASE UNCHANGED rspVars
  BY <1>1 DEF rspVars
<1>2. CASE StartRsp \/ RspRegister \/ RspAttach
  BY <1>2 DEF StartRsp, RspRegister, RspAttach
<1>13. CASE RspAccept
  <2>1. toServer' \in Seq(Packets) /\ UNCHANGED <<again, client_waiting, dsr, attached>>
    BY <1>13 DEF RspAccept
  <2> QED BY <1>13, <2>1 DEF RspAccept
<1>3. CASE RspSetup
  BY <1>3 DEF RspSetup
<1>4. ASSUME NEW p \in Packets, Request(p)
      PROVE  toServer' \in Seq(Packets)
  BY <1>4 DEF Request
<1>5. CASE RspBreak \/ RspBreakIgnored \/ RspContinue \/ RspQuery \/ RspDetach \/ RspEof
  <2>1. toServer' \in Seq(Packets)
    BY <1>4, <1>5 DEF RspBreak, RspBreakIgnored, RspContinue, RspQuery, RspDetach, RspEof
  <2>2. /\ rpc' \in RspPcs /\ again' \in {"none", "close", "detach"}
        /\ gdb' \in {"off", "idle", "ask", "wait", "stopping"}
        /\ detached' \in BOOLEAN
        /\ UNCHANGED <<client_waiting, dsr, backlog, attached>>
    BY <1>5 DEF RspBreak, RspBreakIgnored, RspContinue, RspQuery, RspDetach, RspEof
  <2> QED BY <2>1, <2>2
<1>6. CASE RspUnstall \/ RspCloseStall \/ RspCloseDsr \/ RspCloseUnstall \/ RspDetachUnstall
  BY <1>6 DEF RspUnstall, RspCloseStall, RspCloseDsr, RspCloseUnstall, RspDetachUnstall
<1>7. CASE RspCloseUnregister
  <2>1. toServer' = <<>> /\ <<>> \in Seq(Packets)
    <3>1. toServer' = <<>>
      BY <1>7, CloseFrame, Zenon
    <3> QED BY <3>1
  <2>2. /\ rpc' \in RspPcs /\ again' = "none"
        /\ UNCHANGED <<client_waiting, dsr, gdb, backlog, detached, attached>>
    BY <1>7, CloseFrame
  <2> QED BY <2>1, <2>2
<1>8. CASE RspEvent
  <2>1. /\ client_waiting' \in BOOLEAN
        /\ gdb' \in {"off", "idle", "ask", "wait", "stopping"}
        /\ UNCHANGED <<rpc, again, dsr, toServer, backlog, detached, attached>>
    BY <1>8 DEF RspEvent
  <2> QED BY <2>1
<1>9. ASSUME NEW l \in Listeners, ListenerClientComes(l) \/ ListenerClientLeaves(l)
      PROVE  BridgeTypeOK'
  BY <1>9 DEF ListenerClientComes, ListenerClientLeaves
<1>10. CASE GdbConnects
  BY <1>10 DEF GdbConnects
<1>11. CASE \E p \in Packets : GdbSends(p)
  BY <1>11 DEF GdbSends
<1>12. CASE GdbDies
  BY <1>12 DEF GdbDies
<1> QED
  BY <1>1, <1>2, <1>3, <1>5, <1>6, <1>7, <1>8, <1>9, <1>10, <1>11, <1>12, <1>13
  DEF BridgeNext, RspNext, StartListener, RspRegisterCheck, ListenerEvent, CpuTraps

(***************************************************************************)
(* The DSR is set when a session is set up and cleared when it is closed.  *)
(***************************************************************************)
LEMMA DsrStep ==
  ASSUME IInv, BridgeTypeOK, DsrInv, BridgeNext
  PROVE  DsrInv'
<1> USE DEF DsrInv
<1>1. CASE UNCHANGED <<rpc, dsr>>
  BY <1>1
<1>2. CASE RspCloseUnregister
  BY <1>2, CloseFrame DEF RspCloseUnregister
<1>3. CASE \/ StartRsp \/ RspAccept \/ RspRegister \/ RspAttach \/ RspSetup \/ RspContinue
           \/ RspUnstall \/ RspDetach \/ RspEof \/ RspCloseStall \/ RspCloseDsr
           \/ RspCloseUnstall \/ RspDetachUnstall
  BY <1>3 DEF StartRsp, RspAccept, RspRegister, RspAttach, RspSetup, RspContinue, RspUnstall,
              RspDetach, RspEof, RspCloseStall, RspCloseDsr, RspCloseUnstall,
              RspDetachUnstall, Request
<1> QED
  BY <1>1, <1>2, <1>3
  DEF BridgeNext, RspNext, StartListener, RspRegisterCheck, RspBreak, RspBreakIgnored, RspQuery,
      RspEvent, ListenerEvent, ListenerClientComes, ListenerClientLeaves, GdbConnects,
      GdbSends, GdbDies, CpuTraps, rspVars

(***************************************************************************)
(* Nobody but the RSP server writes a command, and its pipes go with what  *)
(* is in them.                                                             *)
(***************************************************************************)
LEMMA CommandStep ==
  ASSUME IInv, BridgeTypeOK, ApiInv, CommandInv, BridgeNext
  PROVE  CommandInv'
<1> USE BridgeAssumption, MonitorAssumption DEF CommandInv
<1>1. CASE MonRead
  <2>1. mi \in Used /\ connections[mi] \in Fds /\ s2m[connections[mi]] # <<>>
    BY <1>1 DEF MonRead, IInv, TypeOK, TableInv, Used
  <2>2. connections[mi] = pipe_fds[Rsp] /\ pipe_fds[Rsp] # NoFd
    BY <2>1
  <2>3. pipe_fds' = pipe_fds /\ s2m' = [s2m EXCEPT ![pipe_fds[Rsp]] = Tail(@)]
    BY <1>1, <2>2 DEF MonRead, ServersUnchanged
  <2>4. \A f \in Fds : f # pipe_fds'[Rsp] => s2m'[f] = <<>>
    BY <2>3 DEF IInv, TypeOK
  <2> QED BY <2>2, <2>3, <2>4
<1>2. ASSUME MonitorNext, ~MonRead PROVE CommandInv'
  <2>1. UNCHANGED pipe_fds
    BY <1>2, MonitorFrame
  <2>2. UNCHANGED s2m /\ mpc' # "stall"
    BY <1>2 DEF MonitorNext, MonBuild, MonSelectReady, MonSelectNone, MonCmdLock, MonSkip,
                MonCmdsDone, MonStall, MonNotify, MonNotifyDone, MonPoll, MonHaltLock,
                MonHaltDone
  <2> QED BY <2>1, <2>2
<1>3. CASE StartListener
  <2>1. PICK l \in Listeners : \/ pipe_fds[l] = NoFd /\ RegisterCheck(l)
                               \/ \E f \in Fds : Register(l, f)
    BY <1>3 DEF StartListener
  <2>2. pipe_fds'[Rsp] = pipe_fds[Rsp] /\ UNCHANGED <<s2m, mpc>>
    BY <2>1 DEF Listeners, RegisterCheck, Register, IInv, TypeOK, MonitorThreadUnchanged
  <2> QED BY <2>2
<1>4. CASE RspRegister
  <2>1. PICK f \in Fds : Register(Rsp, f)
    BY <1>4 DEF RspRegister
  <2>2. pipe_fds[Rsp] = NoFd
    BY <1>4 DEF RspRegister, ApiInv
  <2>3. pipe_fds'[Rsp] = f /\ UNCHANGED <<s2m, mpc>>
    BY <2>1 DEF Register, IInv, TypeOK, MonitorThreadUnchanged
  <2> QED BY <2>2, <2>3
<1>5. ASSUME NEW b \in BOOLEAN, SetStallState(b) PROVE CommandInv'
  <2>1. pipe_fds' = pipe_fds /\ mpc' = mpc
    BY <1>5, CommandFrame
  <2>2. \A f \in Fds : f # pipe_fds[Rsp] => s2m'[f] = s2m[f]
    BY <1>5 DEF SetStallState, SendCmd, IInv, TypeOK
  <2> QED BY <2>1, <2>2
<1>6. CASE RspCloseUnregister
  <2>1. CASE pipe_fds[Rsp] # NoFd
    <3>1. Unregister(Rsp)
      BY <1>6, <2>1, Zenon DEF RspCloseUnregister
    <3>2. \A f \in Fds : s2m'[f] = <<>>
      BY <3>1 DEF Unregister, IInv, TypeOK
    <3>3. mpc # "stall" /\ mpc' = mpc
      BY <3>1 DEF Unregister, UnregisterLock, IInv, LockInv, MonitorThreadUnchanged
    <3> QED BY <3>2, <3>3
  <2>2. CASE pipe_fds[Rsp] = NoFd
    <3>1. UNCHANGED vars
      BY <1>6, <2>2, Zenon DEF RspCloseUnregister, UnregisterTwice
    <3> QED BY <3>1 DEF vars
  <2> QED BY <2>1, <2>2
<1>7. CASE UNCHANGED <<s2m, pipe_fds, mpc>>
  BY <1>7
<1>8. UNCHANGED vars => UNCHANGED <<s2m, pipe_fds, mpc>>
  BY DEF vars
<1>9. CASE \/ RspAttach \/ RspBreak \/ RspUnstall \/ RspDetachUnstall
           \/ RspCloseStall \/ RspCloseUnstall
  BY <1>5, <1>7, <1>8, <1>9 DEF RspAttach, RspBreak, RspUnstall, RspDetachUnstall,
                                RspCloseStall, RspCloseUnstall
<1>10. CASE \/ RspEvent \/ RspRegisterCheck \/ CpuTraps
            \/ \E l \in Listeners : ListenerEvent(l)
  BY <1>7, <1>10 DEF RspEvent, ListenerEvent, RecvEvent, RspRegisterCheck, RegisterCheck,
                     CpuTraps, CpuHalts, MonitorThreadUnchanged
<1> QED
  BY <1>1, <1>2, <1>3, <1>4, <1>6, <1>7, <1>8, <1>9, <1>10
  DEF BridgeNext, RspNext, StartRsp, RspAccept, RspSetup, RspBreakIgnored, RspContinue,
      RspQuery, RspDetach, RspEof, RspCloseDsr, ListenerClientComes, ListenerClientLeaves,
      GdbConnects, GdbSends, GdbDies

(***************************************************************************)
(* GDB's packets: a read takes the head, a write adds at the end.          *)
(***************************************************************************)
LEMMA RequestFrame ==
  ASSUME BridgeTypeOK, NEW p, Request(p)
  PROVE  /\ Has(toServer', "c") => Has(toServer, "c")
         /\ Once(toServer, "c") => Once(toServer', "c")
         /\ p = "c" => /\ Has(toServer, "c")
                       /\ Once(toServer, "c") => ~Has(toServer', "c")
<1>1. /\ toServer \in Seq(Packets) /\ toServer # <<>>
      /\ Head(toServer) = p /\ toServer' = Tail(toServer)
  BY DEF Request, BridgeTypeOK
<1>2. Has(toServer, "c") <=> Head(toServer) = "c" \/ Has(Tail(toServer), "c")
  BY <1>1, HasTail
<1>3. Once(toServer, "c") => /\ Once(Tail(toServer), "c")
                             /\ Head(toServer) = "c" => ~Has(Tail(toServer), "c")
  BY <1>1, OnceTail
<1> QED BY <1>1, <1>2, <1>3

(***************************************************************************)
(* What GDB sends goes to the end of what the server has not read.         *)
(***************************************************************************)
LEMMA SendFrame ==
  ASSUME BridgeTypeOK, NEW p \in Packets, toServer' = Append(toServer, p)
  PROVE  /\ Has(toServer', "c") => Has(toServer, "c") \/ p = "c"
         /\ Once(toServer, "c") /\ (p = "c" => ~Has(toServer, "c")) => Once(toServer', "c")
<1>1. toServer \in Seq(Packets)
  BY DEF BridgeTypeOK
<1>2. Has(Append(toServer, p), "c") <=> Has(toServer, "c") \/ p = "c"
  BY <1>1, HasAppend
<1>3. Once(toServer, "c") /\ (p = "c" => ~Has(toServer, "c")) => Once(Append(toServer, p), "c")
  BY <1>1, OnceAppend
<1> QED BY <1>2, <1>3

(***************************************************************************)
(* GDB's side of the protocol: one continue at a time.                     *)
(***************************************************************************)
LEMMA GdbStep ==
  ASSUME IInv, BridgeTypeOK, GdbInv, BridgeNext
  PROVE  GdbInv'
<1> USE DEF GdbInv
<1>1. CASE UNCHANGED <<rpc, toServer, gdb>>
  BY <1>1
<1>2. CASE RspAccept
  BY <1>2, EmptyHasNothing DEF RspAccept
<1>3. CASE RspCloseUnregister
  BY <1>3, CloseFrame, EmptyHasNothing
<1>4. CASE \/ StartRsp \/ RspRegister \/ RspAttach \/ RspSetup \/ RspUnstall
           \/ RspCloseStall \/ RspCloseDsr \/ RspCloseUnstall \/ RspDetachUnstall
  BY <1>4 DEF StartRsp, RspRegister, RspAttach, RspSetup, RspUnstall,
              RspCloseStall, RspCloseDsr, RspCloseUnstall, RspDetachUnstall
<1>5. CASE RspBreak \/ RspBreakIgnored \/ RspDetach \/ RspEof
  BY <1>5, RequestFrame DEF RspBreak, RspBreakIgnored, RspDetach, RspEof, Request
<1>6. CASE RspContinue
  BY <1>6, RequestFrame DEF RspContinue
<1>7. CASE RspQuery
  BY <1>7, RequestFrame DEF RspQuery, Request
<1>8. CASE RspEvent
  BY <1>8, EmptyHasNothing DEF RspEvent
<1>9. ASSUME NEW p \in Packets, GdbSends(p) PROVE GdbInv'
  <2>1. toServer' = Append(toServer, p) /\ rpc' = rpc
    BY <1>9 DEF GdbSends
  <2>2. \/ gdb = "idle" /\ p = "c" /\ gdb' = "wait"
        \/ gdb = "idle" /\ p # "c" /\ gdb' = "ask"
        \/ gdb = "wait" /\ p # "c" /\ gdb' = "stopping"
    BY <1>9 DEF GdbSends
  <2> QED BY <2>1, <2>2, SendFrame
<1>10. CASE GdbDies
  <2>1. "EOF" \in Packets /\ toServer' = Append(toServer, "EOF") /\ rpc' = rpc /\ gdb' = "off"
    BY <1>10 DEF GdbDies, Packets
  <2>2. /\ Has(toServer', "c") => Has(toServer, "c")
        /\ Once(toServer, "c") => Once(toServer', "c")
    BY <2>1, SendFrame
  <2> QED BY <2>1, <2>2
<1> QED
  BY <1>1, <1>2, <1>3, <1>4, <1>5, <1>6, <1>7, <1>8, <1>9, <1>10
  DEF BridgeNext, RspNext, StartListener, RspRegisterCheck, ListenerEvent, ListenerClientComes,
      ListenerClientLeaves, GdbConnects, CpuTraps, rspVars

-----------------------------------------------------------------------------
(***************************************************************************)
(* A step that leaves the monitor's variables alone keeps the session's    *)
(* invariant unless it lets GDB or main() continue.                        *)
(***************************************************************************)
LEMMA SessionFrame ==
  ASSUME SessionInv, UNCHANGED <<s2m, m2s, event, mj, connections, pipe_fds, view>>,
         InSession' => InSession, MayContinue' => MayContinue
  PROVE  SessionInv'
<1>1. /\ RunAsked' <=> RunAsked
      /\ RunAnnounced' <=> RunAnnounced
      /\ RunInPipe' <=> RunInPipe
      /\ view'[Rsp] = view[Rsp]
  BY DEF RunAsked, RunAnnounced, RunInPipe
<1>2. OneRunComing => OneRunComing'
  BY <1>1 DEF OneRunComing
<1>3. NoRunComing => NoRunComing'
  BY <1>1 DEF NoRunComing
<1> QED BY <1>1, <1>2, <1>3 DEF SessionInv

(***************************************************************************)
(* The monitor thread moves a start along its way and never makes one.     *)
(***************************************************************************)
LEMMA SessionMonitorStep ==
  ASSUME IInv, ApiInv, CommandInv, SessionInv, MonitorNext, UNCHANGED rspVars
  PROVE  SessionInv'
<1> USE BridgeAssumption, MonitorAssumption
<1>0. /\ UNCHANGED <<connections, num_monitor_connections, pipe_fds, view>>
      /\ InSession' <=> InSession
      /\ MayContinue' <=> MayContinue
  BY MonitorFrame DEF rspVars, InSession, MayContinue
<1>00. SUFFICES ASSUME InSession PROVE SessionInv'
  BY <1>0 DEF SessionInv
<1> DEFINE g == pipe_fds[Rsp]
<1>01. /\ g \in Fds /\ s2m[g] \in Seq(Cmds) /\ m2s[g] \in Seq(Events)
       /\ g \in open /\ \E i \in Used : connections[i] = g
       /\ pipe_fds' = pipe_fds
  BY <1>0, <1>00 DEF ApiInv, IInv, TypeOK, TableInv
<1>02. /\ RunAsked = Has(s2m[g], "U") /\ RunAsked' = Has(s2m'[g], "U")
       /\ RunInPipe = Has(m2s[g], "R") /\ RunInPipe' = Has(m2s'[g], "R")
       /\ OneRunComing' <=> /\ Once(s2m'[g], "U") /\ Once(m2s'[g], "R")
                            /\ RunInPipe' => ~RunAnnounced' /\ ~RunAsked'
                            /\ RunAnnounced' => ~RunAsked'
  BY <1>01 DEF RunAsked, RunInPipe, OneRunComing
<1>03. /\ OneRunComing
       /\ view[Rsp] = "R" => NoRunComing
       /\ MayContinue => NoRunComing /\ view[Rsp] # "R"
  BY <1>00 DEF SessionInv
<1>04. OneRunComing => /\ Once(s2m[g], "U") /\ Once(m2s[g], "R")
                       /\ RunInPipe => ~RunAnnounced /\ ~RunAsked
                       /\ RunAnnounced => ~RunAsked
  BY DEF OneRunComing
<1>05. SUFFICES /\ OneRunComing'
                /\ NoRunComing => NoRunComing'
  BY <1>0, <1>03 DEF SessionInv
<1> HIDE DEF g
<1>1. CASE MonRead
  <2>1. /\ mi \in Used /\ connections[mi] \in Fds /\ s2m[connections[mi]] # <<>>
        /\ mpc = "cmds" /\ mj = 0 /\ mj' = mj /\ event = "H" /\ m2s' = m2s
    BY <1>1 DEF MonRead, IInv, TypeOK, TableInv, LockInv, EventInv, Used
  <2>2. connections[mi] = g
    BY <2>1 DEF CommandInv, g
  <2>3. /\ s2m[g] # <<>> /\ s2m'[g] = Tail(s2m[g])
        /\ event' = IF Head(s2m[g]) = "S" THEN "H" ELSE "R"
        /\ Head(s2m[g]) \in Cmds
    BY <1>1, <1>01, <2>1, <2>2 DEF MonRead, IInv, TypeOK
  <2>4. RunAsked <=> Head(s2m[g]) = "U" \/ RunAsked'
    BY <1>01, <1>02, <2>3, HasTail
  <2>5. Once(s2m'[g], "U") /\ (Head(s2m[g]) = "U" => ~RunAsked')
    BY <1>01, <1>02, <1>03, <1>04, <2>3, OnceTail
  <2>6. ~RunAnnounced /\ (RunAnnounced' => Head(s2m[g]) = "U")
    BY <2>1, <2>3 DEF RunAnnounced, Cmds
  <2>7. RunInPipe' = RunInPipe /\ m2s'[g] = m2s[g]
    BY <1>02, <2>1
  <2> QED BY <1>02, <1>03, <1>04, <2>4, <2>5, <2>6, <2>7 DEF NoRunComing
<1>2. CASE MonNotify
  <2>1. /\ mj \in Used /\ mj \in Nat /\ mj' = mj + 1 /\ connections[mj] \in Fds
        /\ m2s' = [m2s EXCEPT ![connections[mj]] = Append(m2s[connections[mj]], event)]
        /\ s2m' = s2m /\ event' = event /\ event \in Events
    BY <1>2 DEF MonNotify, NotifyOne, IInv, TypeOK, TableInv, LockInv, Used
  <2>2. CASE connections[mj] = g
    <3>1. m2s'[g] = Append(m2s[g], event)
      BY <1>01, <2>1, <2>2 DEF IInv, TypeOK
    <3>2. RunInPipe' <=> RunInPipe \/ event = "R"
      BY <1>01, <1>02, <2>1, <3>1, HasAppend
    <3>3. \A i \in 0..(mj - 1) : connections[i] # g
      <4>1. \A i \in 0..(mj - 1) : i \in Used /\ i # mj
        BY <2>1 DEF IInv, TypeOK, LockInv, Used
      <4> QED BY <2>1, <2>2, <4>1 DEF IInv, TableInv
    <3>4. RunAnnounced <=> event = "R"
      BY <3>3 DEF RunAnnounced, g
    <3>5. ~RunAnnounced'
      <4>1. mj \in 0..(mj' - 1) /\ connections'[mj] = pipe_fds'[Rsp]
        BY <1>0, <1>01, <2>1, <2>2 DEF g
      <4> QED BY <4>1 DEF RunAnnounced
    <3>6. Once(m2s'[g], "R")
      BY <1>01, <1>02, <1>03, <1>04, <2>1, <3>1, <3>4, OnceAppend
    <3>7. RunAsked' = RunAsked /\ Once(s2m'[g], "U")
      BY <1>02, <1>03, <1>04, <2>1
    <3> QED BY <1>02, <1>03, <1>04, <3>2, <3>4, <3>5, <3>6, <3>7 DEF NoRunComing
  <2>3. CASE connections[mj] # g
    <3>1. m2s'[g] = m2s[g]
      BY <1>01, <2>1, <2>3 DEF IInv, TypeOK
    <3>2. RunAnnounced' <=> RunAnnounced
      <4>1. 0..(mj' - 1) = (0..(mj - 1)) \cup {mj}
        BY <2>1
      <4>2. RunAnnounced' <=> event = "R" /\ \A i \in 0..(mj' - 1) : connections[i] # g
        BY <1>0, <1>01, <2>1 DEF RunAnnounced, g
      <4>3. RunAnnounced <=> event = "R" /\ \A i \in 0..(mj - 1) : connections[i] # g
        BY DEF RunAnnounced, g
      <4> QED BY <2>3, <4>1, <4>2, <4>3
    <3>3. RunAsked' = RunAsked /\ Once(s2m'[g], "U") /\ RunInPipe' = RunInPipe
      BY <1>02, <1>03, <1>04, <2>1, <3>1
    <3> QED BY <1>02, <1>03, <1>04, <3>1, <3>2, <3>3 DEF NoRunComing
  <2> QED BY <2>2, <2>3
<1>3. CASE MonNotifyDone \/ MonHaltDone
  <2>1. event' = "H" /\ s2m' = s2m /\ m2s' = m2s
    BY <1>3 DEF MonNotifyDone, MonHaltDone, IInv, EventInv
  <2>2. ~RunAnnounced'
    BY <2>1 DEF RunAnnounced
  <2>3. RunAsked' = RunAsked /\ RunInPipe' = RunInPipe
    BY <1>02, <2>1
  <2> QED BY <1>02, <1>03, <1>04, <2>1, <2>2, <2>3 DEF NoRunComing
<1>4. CASE UNCHANGED <<s2m, m2s, event, mj>>
  <2>1. RunAnnounced' <=> RunAnnounced
    BY <1>0, <1>4 DEF RunAnnounced
  <2>2. RunAsked' = RunAsked /\ RunInPipe' = RunInPipe
    BY <1>02, <1>4
  <2> QED BY <1>02, <1>03, <1>04, <1>4, <2>1, <2>2 DEF NoRunComing
<1> QED
  BY <1>1, <1>2, <1>3, <1>4
  DEF MonitorNext, MonBuild, MonSelectReady, MonSelectNone, MonCmdLock, MonSkip, MonCmdsDone,
      MonStall, MonPoll, MonHaltLock

(***************************************************************************)
(* A stall command adds no start; the unstall command of a continue is the *)
(* only one on its way, and GDB has no other continue behind it.           *)
(***************************************************************************)
LEMMA SessionCommandStep ==
  ASSUME IInv, BridgeTypeOK, ApiInv, GdbInv, SessionInv, RspAttach \/ RspBreak \/ RspUnstall
  PROVE  SessionInv'
<1> USE BridgeAssumption, MonitorAssumption
<1> DEFINE g == pipe_fds[Rsp]
           c == IF RspUnstall THEN "U" ELSE "S"
<1>1. InSession
  BY DEF RspAttach, RspBreak, RspUnstall, Request, InSession
<1>2. /\ g \in Fds /\ g # NoFd /\ s2m[g] \in Seq(Cmds)
  BY <1>1 DEF ApiInv, IInv, TypeOK
<1>3. SetStallState(~RspUnstall)
  BY DEF RspAttach, RspBreak, RspUnstall, Request
<1>4. /\ UNCHANGED <<pipe_fds, m2s, view, event, mj, connections>>
      /\ s2m'[g] = Append(s2m[g], c)
  BY <1>2, <1>3 DEF SetStallState, SendCmd, IInv, TypeOK, MonitorThreadUnchanged
<1>5. c \in Cmds
  BY DEF Cmds
<1>6. /\ RunAsked <=> Has(s2m[g], "U")
      /\ RunAsked' <=> Has(s2m'[g], "U")
      /\ RunInPipe' <=> RunInPipe
      /\ RunAnnounced' <=> RunAnnounced
      /\ OneRunComing <=> /\ Once(s2m[g], "U") /\ Once(m2s[g], "R")
                          /\ RunInPipe => ~RunAnnounced /\ ~RunAsked
                          /\ RunAnnounced => ~RunAsked
      /\ OneRunComing' <=> /\ Once(s2m'[g], "U") /\ Once(m2s[g], "R")
                           /\ RunInPipe' => ~RunAnnounced' /\ ~RunAsked'
                           /\ RunAnnounced' => ~RunAsked'
  BY <1>4 DEF RunAsked, RunInPipe, RunAnnounced, OneRunComing
<1>7. /\ OneRunComing
      /\ view[Rsp] = "R" => NoRunComing
      /\ MayContinue => NoRunComing /\ view[Rsp] # "R"
  BY <1>1 DEF SessionInv
<1> HIDE DEF g, c
<1>8. RunAsked' <=> RunAsked \/ c = "U"
  BY <1>2, <1>4, <1>5, <1>6, HasAppend
<1>9. (c = "U" => ~RunAsked) => Once(s2m'[g], "U")
  BY <1>2, <1>4, <1>5, <1>6, <1>7, OnceAppend
<1>10. CASE RspUnstall
  <2>1. MayContinue /\ NoRunComing /\ view[Rsp] # "R" /\ c = "U"
    BY <1>7, <1>10 DEF RspUnstall, MayContinue, c
  <2>2. ~MayContinue'
    BY <1>10 DEF RspUnstall, MayContinue, GdbInv
  <2>3. OneRunComing'
    BY <1>6, <1>7, <1>9, <2>1 DEF NoRunComing
  <2> QED BY <1>4, <2>1, <2>2, <2>3 DEF SessionInv
<1>11. CASE ~RspUnstall
  <2>1. c = "S"
    BY <1>11 DEF c
  <2>2. RunAsked' <=> RunAsked
    BY <1>8, <2>1
  <2>3. OneRunComing' /\ (NoRunComing => NoRunComing')
    BY <1>6, <1>7, <1>9, <2>1, <2>2 DEF NoRunComing
  <2>4. MayContinue' => MayContinue
    BY <1>11, RequestFrame DEF RspAttach, RspBreak, MayContinue, Request
  <2> QED BY <1>4, <1>7, <2>3, <2>4 DEF SessionInv
<1> QED BY <1>10, <1>11

(***************************************************************************)
(* main() reads an event.  An 'R' was the one start; an 'H' after it is    *)
(* what GDB waits for, and no start is behind it.                          *)
(***************************************************************************)
LEMMA SessionEventStep ==
  ASSUME IInv, BridgeTypeOK, ApiInv, SessionInv, RspEvent
  PROVE  SessionInv'
<1> USE BridgeAssumption, MonitorAssumption
<1> DEFINE g == pipe_fds[Rsp]
<1>1. InSession /\ rpc = "poll" /\ rpc' = "poll" /\ toServer' = toServer /\ toServer = <<>>
  BY DEF RspEvent, InSession
<1>2. /\ g \in Fds /\ g # NoFd /\ m2s[g] \in Seq(Events) /\ m2s[g] # <<>>
  BY <1>1 DEF ApiInv, IInv, TypeOK, RspEvent, RecvEvent
<1>3. /\ UNCHANGED <<pipe_fds, s2m, event, mj, connections>>
      /\ m2s'[g] = Tail(m2s[g]) /\ view'[Rsp] = Head(m2s[g])
  BY <1>2 DEF RspEvent, RecvEvent, IInv, TypeOK, MonitorThreadUnchanged
<1>4. Head(m2s[g]) \in Events
  BY <1>2
<1>5. /\ RunInPipe <=> Has(m2s[g], "R")
      /\ RunInPipe' <=> Has(m2s'[g], "R")
      /\ RunAsked' <=> RunAsked
      /\ RunAnnounced' <=> RunAnnounced
      /\ OneRunComing <=> /\ Once(s2m[g], "U") /\ Once(m2s[g], "R")
                          /\ RunInPipe => ~RunAnnounced /\ ~RunAsked
                          /\ RunAnnounced => ~RunAsked
      /\ OneRunComing' <=> /\ Once(s2m[g], "U") /\ Once(m2s'[g], "R")
                           /\ RunInPipe' => ~RunAnnounced' /\ ~RunAsked'
                           /\ RunAnnounced' => ~RunAsked'
  BY <1>3 DEF RunAsked, RunInPipe, RunAnnounced, OneRunComing
<1>6. /\ OneRunComing
      /\ view[Rsp] = "R" => NoRunComing
      /\ MayContinue => NoRunComing /\ view[Rsp] # "R"
  BY <1>1 DEF SessionInv
<1>7. \/ gdb' = gdb
      \/ Head(m2s[g]) = "H" /\ view[Rsp] = "R"
  BY DEF RspEvent, FreshHalt, TargetRunning
<1> HIDE DEF g
<1>8. RunInPipe <=> Head(m2s[g]) = "R" \/ RunInPipe'
  BY <1>2, <1>3, <1>5, HasTail
<1>9. Once(m2s'[g], "R") /\ (Head(m2s[g]) = "R" => ~RunInPipe')
  BY <1>2, <1>3, <1>5, <1>6, OnceTail
<1>10. OneRunComing' /\ (NoRunComing => NoRunComing')
  BY <1>5, <1>6, <1>8, <1>9 DEF NoRunComing
<1>11. view'[Rsp] = "R" => NoRunComing'
  BY <1>3, <1>5, <1>6, <1>8, <1>9 DEF NoRunComing
<1>12. MayContinue' => NoRunComing' /\ view'[Rsp] # "R"
  <2>1. CASE gdb' = gdb
    <3>1. MayContinue' => MayContinue
      BY <1>1, <2>1 DEF MayContinue
    <3> QED BY <1>3, <1>6, <1>8, <1>10, <3>1 DEF NoRunComing
  <2>2. CASE Head(m2s[g]) = "H" /\ view[Rsp] = "R"
    BY <1>3, <1>6, <1>10, <2>2
  <2> QED BY <1>7, <2>1, <2>2
<1> QED BY <1>10, <1>11, <1>12 DEF SessionInv

(***************************************************************************)
(* A new session's pipes are empty, and the monitor, which does not hold   *)
(* the mutex, has no start to announce.                                    *)
(***************************************************************************)
LEMMA SessionRegisterStep ==
  ASSUME IInv, ApiInv, CommandInv, RspRegister
  PROVE  SessionInv'
<1> USE BridgeAssumption, MonitorAssumption
<1>1. PICK f \in Fds : Register(Rsp, f)
  BY DEF RspRegister
<1>2. /\ pipe_fds'[Rsp] = f /\ view'[Rsp] = "none"
      /\ UNCHANGED <<s2m, m2s, event>>
  BY <1>1 DEF Register, IInv, TypeOK, MonitorThreadUnchanged
<1>3. s2m[f] = <<>>
  BY <1>1 DEF RspRegister, ApiInv, CommandInv
<1>4. m2s[f] = <<>>
  BY <1>1 DEF Register, IInv, TableInv
<1>5. event # "R"
  BY <1>1 DEF Register, IInv, LockInv, EventInv
<1>6. ~RunAsked' /\ ~RunInPipe' /\ ~RunAnnounced'
  BY <1>2, <1>3, <1>4, <1>5, EmptyHasNothing DEF RunAsked, RunInPipe, RunAnnounced
<1>7. OneRunComing'
  BY <1>2, <1>3, <1>4, <1>6, EmptyHasNothing DEF OneRunComing
<1> QED BY <1>2, <1>6, <1>7 DEF SessionInv, NoRunComing

(***************************************************************************)
(* Every step of the bridge keeps the session's invariant.                 *)
(***************************************************************************)
LEMMA SessionStep ==
  ASSUME BridgeInv, BridgeNext
  PROVE  SessionInv'
<1> USE BridgeAssumption, MonitorAssumption DEF BridgeInv
<1>1. CASE MonitorNext /\ UNCHANGED rspVars
  BY <1>1, SessionMonitorStep
<1>2. CASE RspAttach \/ RspBreak \/ RspUnstall
  BY <1>2, SessionCommandStep
<1>3. CASE RspEvent
  BY <1>3, SessionEventStep
<1>4. CASE RspRegister
  BY <1>4, SessionRegisterStep
<1>5. CASE ~InSession'
  BY <1>5 DEF SessionInv
<1>6. CASE RspCloseUnregister
  <2>1. ~InSession'
    BY <1>6, CloseFrame DEF InSession
  <2> QED BY <1>5, <2>1
<1>7. CASE \/ StartListener \/ StartRsp \/ RspAccept \/ RspRegisterCheck \/ RspDetach \/ RspEof
           \/ RspCloseStall \/ RspCloseDsr \/ RspCloseUnstall \/ RspDetachUnstall
  <2>1. ~InSession'
    BY <1>7 DEF StartListener, StartRsp, RspAccept, RspRegisterCheck, RspDetach, RspEof,
                RspCloseStall, RspCloseDsr, RspCloseUnstall, RspDetachUnstall, InSession,
                rspVars
  <2> QED BY <1>5, <2>1
<1>8. UNCHANGED vars => UNCHANGED <<s2m, m2s, event, mj, connections, pipe_fds, view>>
  BY DEF vars
<1>9. CASE RspSetup \/ RspBreakIgnored \/ RspContinue \/ RspQuery
  <2>1. UNCHANGED vars /\ InSession
    BY <1>9 DEF RspSetup, RspBreakIgnored, RspContinue, RspQuery, Request, InSession
  <2>2. MayContinue' => MayContinue
    BY <1>9, RequestFrame DEF RspSetup, RspBreakIgnored, RspContinue, RspQuery, MayContinue
  <2> QED BY <1>8, <2>1, <2>2, SessionFrame
<1>10. ASSUME NEW p \in Packets, GdbSends(p) PROVE SessionInv'
  <2>1. UNCHANGED <<vars, rpc>> /\ toServer' = Append(toServer, p)
    BY <1>10 DEF GdbSends
  <2>2. Has(toServer', "c") => Has(toServer, "c") \/ p = "c"
    BY <2>1, SendFrame
  <2>3. MayContinue' => MayContinue
    BY <1>10, <2>1, <2>2 DEF GdbSends, MayContinue
  <2> QED BY <1>8, <2>1, <2>3, SessionFrame DEF InSession
<1>11. CASE GdbDies
  <2>1. UNCHANGED <<vars, rpc>> /\ toServer' = Append(toServer, "EOF") /\ gdb' = "off"
    BY <1>11 DEF GdbDies
  <2>2. Has(toServer', "c") => Has(toServer, "c")
    BY <2>1, SendFrame DEF Packets
  <2>3. MayContinue' => MayContinue
    BY <2>1, <2>2 DEF MayContinue
  <2> QED BY <1>8, <2>1, <2>3, SessionFrame DEF InSession
<1>12. ASSUME NEW l \in Listeners, ListenerEvent(l) PROVE SessionInv'
  <2>1. /\ UNCHANGED <<s2m, event, mj, connections, pipe_fds>>
        /\ UNCHANGED <<rpc, gdb, toServer>>
    BY <1>12 DEF ListenerEvent, RecvEvent, MonitorThreadUnchanged, rspVars
  <2>2. SUFFICES ASSUME InSession PROVE SessionInv'
    BY <2>1 DEF SessionInv, InSession
  <2>3. pipe_fds[Rsp] # pipe_fds[l] /\ l # Rsp /\ l \in Servers
    BY <1>12, <2>2 DEF Listeners, ListenerEvent, RecvEvent, IInv, TableInv, ApiInv
  <2>4. m2s'[pipe_fds[Rsp]] = m2s[pipe_fds[Rsp]] /\ view'[Rsp] = view[Rsp]
    BY <1>12, <2>2, <2>3 DEF ListenerEvent, RecvEvent, IInv, TypeOK, ApiInv
  <2>5. /\ RunAsked' <=> RunAsked
        /\ RunAnnounced' <=> RunAnnounced
        /\ RunInPipe' <=> RunInPipe
    BY <2>1, <2>4 DEF RunAsked, RunAnnounced, RunInPipe
  <2>6. (OneRunComing => OneRunComing') /\ (NoRunComing => NoRunComing')
    BY <2>1, <2>4, <2>5 DEF OneRunComing, NoRunComing
  <2>7. MayContinue' <=> MayContinue
    BY <2>1 DEF MayContinue
  <2> QED BY <2>2, <2>4, <2>6, <2>7 DEF SessionInv
<1>13. CASE GdbConnects \/ \E l \in Listeners : ListenerClientComes(l) \/ ListenerClientLeaves(l)
  <2>1. UNCHANGED <<vars, rpc, gdb, toServer>>
    BY <1>13 DEF GdbConnects, ListenerClientComes, ListenerClientLeaves
  <2> QED BY <1>8, <2>1, SessionFrame DEF InSession, MayContinue
<1>14. CASE CpuTraps
  <2>1. /\ UNCHANGED <<s2m, m2s, event, mj, connections, pipe_fds, view>>
        /\ UNCHANGED <<rpc, gdb, toServer>>
    BY <1>14 DEF CpuTraps, CpuHalts, MonitorThreadUnchanged, rspVars
  <2> QED BY <2>1, SessionFrame DEF InSession, MayContinue
<1> QED
  BY <1>1, <1>2, <1>3, <1>4, <1>6, <1>7, <1>9, <1>10, <1>11, <1>12, <1>13, <1>14
  DEF BridgeNext, RspNext

-----------------------------------------------------------------------------
(***************************************************************************)
(* The state main() starts in satisfies the invariant.                     *)
(***************************************************************************)
LEMMA BridgeInitInv == BridgeInit => BridgeInv
<1> SUFFICES ASSUME BridgeInit PROVE BridgeInv
  OBVIOUS
<1> USE BridgeAssumption, MonitorAssumption DEF BridgeInit
<1>1. IInv
  BY InitInv
<1>2. <<>> \in Seq(Packets) /\ StayAttached \in SUBSET Listeners
  BY DEF Listeners
<1>3. BridgeTypeOK
  BY <1>1, <1>2 DEF BridgeTypeOK, RspPcs, IInv
<1>4. ApiInv /\ CommandInv /\ DsrInv /\ SessionInv
  BY DEF ApiInv, CommandInv, DsrInv, SessionInv, InSession, MonitorInit
<1>5. GdbInv
  BY EmptyHasNothing DEF GdbInv
<1> QED BY <1>1, <1>3, <1>4, <1>5 DEF BridgeInv

(***************************************************************************)
(* Every step of the bridge, and every stutter, keeps it.                  *)
(***************************************************************************)
LEMMA BridgeInvStep == BridgeInv /\ [BridgeNext]_bvars => BridgeInv'
<1> SUFFICES ASSUME BridgeInv, [BridgeNext]_bvars PROVE BridgeInv'
  OBVIOUS
<1>1. CASE BridgeNext
  <2>1. IInv' /\ ApiInv' /\ CommandInv' /\ DsrInv' /\ GdbInv'
    BY <1>1, MonitorInvStep, ApiInvStep, CommandStep, DsrStep, GdbStep DEF BridgeInv
  <2>2. BridgeTypeOK'
    BY <1>1, <2>1, BridgeTypeStep DEF BridgeInv
  <2>3. SessionInv'
    BY <1>1, SessionStep
  <2> QED BY <2>1, <2>2, <2>3 DEF BridgeInv
<1>2. CASE UNCHANGED bvars
  <2>1. UNCHANGED vars /\ UNCHANGED rspVars
    BY <1>2 DEF bvars
  <2>2. IInv'
    BY <2>1, StutterStep DEF BridgeInv
  <2>3. BridgeTypeOK' /\ ApiInv' /\ CommandInv' /\ DsrInv' /\ GdbInv'
    BY <2>1, <2>2 DEF BridgeInv, BridgeTypeOK, ApiInv, InSession, CommandInv, DsrInv, GdbInv,
                      IInv, vars, rspVars
  <2>4. SessionInv'
    BY <2>1, SessionFrame DEF BridgeInv, InSession, MayContinue, vars, rspVars
  <2> QED BY <2>2, <2>3, <2>4 DEF BridgeInv
<1> QED BY <1>1, <1>2

(***************************************************************************)
(* The invariant holds in every state of the bridge.                       *)
(***************************************************************************)
THEOREM BridgeInvariant == BridgeSpec => []BridgeInv
<1> QED BY BridgeInitInv, BridgeInvStep, PTL DEF BridgeSpec

(***************************************************************************)
(* Types, for any number of listeners and any pipe capacity.               *)
(***************************************************************************)
THEOREM BridgeTypes == BridgeSpec => []BridgeTypeOK
<1>1. BridgeInv => BridgeTypeOK
  BY DEF BridgeInv
<1> QED BY <1>1, BridgeInvariant, PTL

(***************************************************************************)
(* The bridge implements the monitor's specification: main(), the          *)
(* listeners and the monitor thread register, send, receive and unregister *)
(* as the API allows, so whatever holds of the monitor and any clients     *)
(* (the theorems above) holds of the bridge.                               *)
(***************************************************************************)
THEOREM ApiRefined == BridgeSpec => UsesMonitorApi
<1>1. BridgeInit => MonitorInit
  BY DEF BridgeInit
<1>2. BridgeInv /\ [BridgeNext]_bvars => [Next]_vars
  BY BridgeUsesApi DEF BridgeInv, bvars
<1> QED BY <1>1, <1>2, BridgeInvariant, PTL DEF BridgeSpec, UsesMonitorApi

(***************************************************************************)
(* While main() waits for the next GDB nothing it or the monitor does      *)
(* moves the CPU: rsp_client_close() leaves no command behind.             *)
(***************************************************************************)
THEOREM ClosedIsOver == BridgeSpec => ClosedSessionIsOver
<1> DEFINE P == (rpc = "accept" /\ rpc' = "accept") => cpu_stalled' = cpu_stalled
<1>1. BridgeInv /\ [BridgeNext]_bvars => [P]_bvars
  <2> SUFFICES ASSUME BridgeInv, BridgeNext, rpc = "accept", rpc' = "accept"
               PROVE  cpu_stalled' = cpu_stalled
    OBVIOUS
  <2>1. ~dsr /\ mpc # "stall"
    BY DEF BridgeInv, ApiInv, CommandInv, DsrInv
  <2>2. CASE MonitorNext
    BY <2>1, <2>2 DEF MonitorNext, MonBuild, MonSelectReady, MonSelectNone, MonCmdLock, MonSkip,
                      MonRead, MonCmdsDone, MonStall, MonNotify, MonNotifyDone, MonPoll,
                      MonHaltLock, MonHaltDone
  <2>3. CASE RspNext
    BY <2>3 DEF RspNext, StartListener, StartRsp, RspAccept, RspRegisterCheck, RspRegister,
                RspAttach, RspSetup, RspBreak, RspBreakIgnored, RspContinue, RspUnstall,
                RspQuery, RspDetach, RspEof, RspCloseStall, RspCloseDsr, RspCloseUnstall,
                RspCloseUnregister, RspDetachUnstall, RspEvent, Request, vars
  <2>4. CASE \E l \in Listeners :
               ListenerEvent(l) \/ ListenerClientComes(l) \/ ListenerClientLeaves(l)
    BY <2>4 DEF ListenerEvent, RecvEvent, ListenerClientComes, ListenerClientLeaves, vars
  <2>5. CASE GdbConnects \/ (\E p \in Packets : GdbSends(p)) \/ GdbDies \/ CpuTraps
    BY <2>1, <2>5 DEF GdbConnects, GdbSends, GdbDies, CpuTraps, vars
  <2> QED BY <2>2, <2>3, <2>4, <2>5 DEF BridgeNext
<1> QED BY <1>1, BridgeInvariant, PTL DEF BridgeSpec, ClosedSessionIsOver

(***************************************************************************)
(* The stop reply is truthful: the 'H' that handle_rsp() reports is behind *)
(* the last start, so the monitor takes the target for stopped, and it is, *)
(* unless a write of the control register was lost.                        *)
(***************************************************************************)
THEOREM RepliesTruthful == BridgeSpec => StopReplyTruthful
<1> DEFINE P == (rpc = "poll" /\ client_waiting /\ ~client_waiting') => (cpu_stalled \/ ctrlLost)
<1>1. BridgeInv /\ [BridgeNext]_bvars => [P]_bvars
  <2> SUFFICES ASSUME BridgeInv, BridgeNext, rpc = "poll", client_waiting, ~client_waiting'
               PROVE  cpu_stalled \/ ctrlLost
    OBVIOUS
  <2> USE BridgeAssumption, MonitorAssumption
  <2>1. RspEvent
    <3>1. RspCloseUnregister => FALSE
      BY DEF RspCloseUnregister
    <3> QED
      BY <3>1
      DEF BridgeNext, RspNext, StartListener, StartRsp, RspAccept, RspRegisterCheck, RspRegister,
          RspAttach, RspSetup, RspBreak, RspBreakIgnored, RspContinue, RspUnstall, RspQuery,
          RspDetach, RspEof, RspCloseStall, RspCloseDsr, RspCloseUnstall, RspDetachUnstall,
          ListenerEvent, ListenerClientComes, ListenerClientLeaves, GdbConnects, GdbSends,
          GdbDies, CpuTraps, rspVars
  <2> DEFINE g == pipe_fds[Rsp]
             q == m2s[g]
  <2>2. /\ q # <<>> /\ q \in Seq(Events) /\ Head(q) = "H" /\ view[Rsp] = "R"
        /\ g # NoFd /\ g \in Fds
    BY <2>1 DEF RspEvent, RecvEvent, FreshHalt, TargetRunning, BridgeInv, IInv, TypeOK
  <2>3. NoRunComing
    BY <2>2 DEF BridgeInv, SessionInv, InSession
  <2>4. q[Len(q)] = "H"
    <3>1. Len(q) \in 1..Len(q) /\ q[Len(q)] \in Events
      BY <2>2
    <3>2. ~ \E i \in 1..Len(q) : q[i] = "R"
      BY <2>3 DEF NoRunComing, RunInPipe, Has
    <3> QED BY <3>1, <3>2 DEF Events
  <2>5. Latest(Rsp) = "H"
    BY <2>2, <2>4 DEF Latest
  <2>6. ~target_is_running
    <3>1. CASE Reached(g)
      BY <2>2, <2>5, <3>1 DEF BridgeInv, IInv, NewsInv
    <3>2. CASE ~Reached(g)
      <4>1. mpc \in {"haltlock", "haltnotify"} => ~target_is_running
        BY DEF BridgeInv, IInv, EventInv
      <4>2. mpc = "notify" => event # "R"
        BY <2>3, <3>2 DEF Reached, NoRunComing, RunAnnounced
      <4>3. mpc = "notify" => ~target_is_running
        BY <4>2 DEF BridgeInv, IInv, EventInv, TypeOK
      <4> QED BY <3>2, <4>1, <4>3 DEF Reached
    <3> QED BY <3>1, <3>2
  <2> QED BY <2>6 DEF BridgeInv, IInv, StoppedIsStopped
<1> QED BY <1>1, BridgeInvariant, PTL DEF BridgeSpec, StopReplyTruthful
=============================================================================
