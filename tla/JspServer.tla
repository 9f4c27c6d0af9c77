----------------------------- MODULE JspServer -----------------------------
(***************************************************************************)
(* The JTAG serial port server thread (jsp_server.c): bytes of a telnet    *)
(* client go through a ring buffer to the serial port inside the debug     *)
(* unit, and bytes of that port go through another ring to the client.     *)
(*                                                                         *)
(* The k-th byte of a direction is named k.  The client's socket, the      *)
(* monitor's pipe and the hardware's serial port are the environment; the  *)
(* thread's system calls and its JTAG transaction are its steps.  accept() *)
(* happens once: nothing in the loop ever sets jsp_client_fd back to -1.   *)
(***************************************************************************)
EXTENDS Integers, Sequences

CONSTANTS
  JSP_BUFFER_SIZE,
  XFER,                     \* bytes one transaction can carry each way (8)
  ClientReads,              \* TRUE: the socket takes every byte send() offers it
  LateFaults,               \* TRUE: a transaction may fail after the port has moved bytes
  TargetStops,              \* TRUE: the target may be stalled and started again
  MaxIn, MaxOut             \* bound: bytes the client sends, bytes the port sends

ASSUME JspAssumption ==
  /\ JSP_BUFFER_SIZE \in Nat \ {0}
  /\ XFER \in Nat \ {0}
  /\ ClientReads \in BOOLEAN
  /\ LateFaults \in BOOLEAN /\ TargetStops \in BOOLEAN
  /\ MaxIn \in Nat
  /\ MaxOut \in Nat

VARIABLES
  pc,                       \* the thread's place
  readset,                  \* what select() found readable
  client,                   \* "none", "open", or "eof": the client hung up
  jsp_target_is_running,
  target,                   \* the target really runs
  pipe,                     \* events from the monitor not read yet
  tohw_buf, jsp_tohw_rd_idx, jsp_tohw_wr_idx, jsp_tohw_count,
  fromhw_buf, jsp_fromhw_rd_idx, jsp_fromhw_wr_idx, jsp_fromhw_count,
  sent, rcvd, hwGot,        \* client's bytes: sent, received here, taken by the port
  hwSent, out               \* port's bytes: handed over, passed to the client's socket
                            \* (hwGot and out: the name of the last byte that came out)

tohw   == <<tohw_buf, jsp_tohw_rd_idx, jsp_tohw_wr_idx, jsp_tohw_count, rcvd, hwGot>>
fromhw == <<fromhw_buf, jsp_fromhw_rd_idx, jsp_fromhw_wr_idx, jsp_fromhw_count, hwSent, out>>
vars   == <<pc, readset, client, jsp_target_is_running, target, pipe, tohw, fromhw, sent>>

Idx == 0..(JSP_BUFFER_SIZE - 1)
Least(a, b) == IF a <= b THEN a ELSE b

JspTypeOK ==
  /\ pc \in {"accept", "select", "event", "queue1", "queue2", "send1", "send2", "transact"}
  /\ readset \in SUBSET {"pipe", "client"}
  /\ client \in {"none", "open", "eof"}
  /\ jsp_target_is_running \in BOOLEAN
  /\ target \in BOOLEAN
  /\ pipe \in Seq({"H", "R"})
  /\ tohw_buf \in [Idx -> Nat]
  /\ jsp_tohw_rd_idx \in Idx
  /\ jsp_tohw_wr_idx \in Idx
  /\ jsp_tohw_count \in 0..JSP_BUFFER_SIZE
  /\ fromhw_buf \in [Idx -> Nat]
  /\ jsp_fromhw_rd_idx \in Idx
  /\ jsp_fromhw_wr_idx \in Idx
  /\ jsp_fromhw_count \in Nat
  /\ sent \in Nat /\ rcvd \in Nat /\ hwGot \in Nat /\ hwSent \in Nat /\ out \in Nat

(***************************************************************************)
(* The target runs when the bridge starts; the flag starts at 0.           *)
(***************************************************************************)
JspInit ==
  /\ pc = "accept" /\ readset = {} /\ client = "none"
  /\ jsp_target_is_running = FALSE /\ target = TRUE /\ pipe = <<>>
  /\ tohw_buf = [i \in Idx |-> 0]
  /\ jsp_tohw_rd_idx = 0 /\ jsp_tohw_wr_idx = 0 /\ jsp_tohw_count = 0
  /\ fromhw_buf = [i \in Idx |-> 0]
  /\ jsp_fromhw_rd_idx = 0 /\ jsp_fromhw_wr_idx = 0 /\ jsp_fromhw_count = 0
  /\ sent = 0 /\ rcvd = 0 /\ hwGot = 0 /\ hwSent = 0 /\ out = 0

-----------------------------------------------------------------------------
(* jsp_server() *)

(* A client arrives: the rings are emptied (they are empty) and it is welcomed. *)
JspAccept ==
  /\ pc = "accept"
  /\ client' = "open"
  /\ pc' = "select"
  /\ UNCHANGED <<readset, jsp_target_is_running, target, pipe, tohw, fromhw, sent>>

Readable == {r \in {"pipe", "client"} :
               \/ r = "pipe" /\ pipe # <<>>
               \/ r = "client" /\ (rcvd < sent \/ client = "eof")}

AfterEvent(r) == IF "client" \in r THEN "queue1" ELSE "send1"

(***************************************************************************)
(* select(): with no timeout while the target is taken to be stopped, at   *)
(* once while it is taken to run.                                          *)
(***************************************************************************)
SelectBlocks == Readable # {}

SelectReturns == jsp_target_is_running \/ Readable # {}

JspSelect ==
  /\ pc = "select"
  /\ SelectReturns
  /\ readset' = Readable
  /\ pc' = IF "pipe" \in Readable THEN "event" ELSE AfterEvent(Readable)
  /\ UNCHANGED <<client, jsp_target_is_running, target, pipe, tohw, fromhw, sent>>

JspEvent ==
  /\ pc = "event"
  /\ jsp_target_is_running' = (Head(pipe) = "R")
  /\ pipe' = Tail(pipe)
  /\ pc' = AfterEvent(readset)
  /\ UNCHANGED <<readset, client, target, tohw, fromhw, sent>>

-----------------------------------------------------------------------------
(* jsp_queue_data_from_client() *)

SpaceToEnd == JSP_BUFFER_SIZE - jsp_tohw_wr_idx

Space == Least(JSP_BUFFER_SIZE - jsp_tohw_wr_idx, JSP_BUFFER_SIZE - jsp_tohw_count)

(* recv() puts n bytes into the array at the write index. *)
Received(n) ==
  /\ tohw_buf' = [i \in Idx |-> IF i \in jsp_tohw_wr_idx..(jsp_tohw_wr_idx + n - 1)
                                THEN rcvd + 1 + (i - jsp_tohw_wr_idx)
                                ELSE tohw_buf[i]]
  /\ jsp_tohw_wr_idx' = (jsp_tohw_wr_idx + n) % JSP_BUFFER_SIZE
  /\ jsp_tohw_count' = jsp_tohw_count + n
  /\ rcvd' = rcvd + n
  /\ UNCHANGED <<jsp_tohw_rd_idx, hwGot>>

(***************************************************************************)
(* The two recv() calls.  The first brings data and leads to the second,   *)
(* or has no room or is at EOF and returns 0, which also leads to the      *)
(* second; an error (nothing there after all) returns.                     *)
(***************************************************************************)
JspRecv ==
  /\ pc \in {"queue1", "queue2"}
  /\ \E n \in 1..Least(Space, sent - rcvd) : Received(n)
  /\ pc' = IF pc = "queue1" THEN "queue2" ELSE "send1"
  /\ UNCHANGED <<readset, client, jsp_target_is_running, target, pipe, fromhw, sent>>

JspRecvNothing ==
  /\ pc \in {"queue1", "queue2"}
  /\ Least(Space, sent - rcvd) <= 0
  /\ pc' = IF pc = "queue1" /\ (Space = 0 \/ client = "eof") THEN "queue2" ELSE "send1"
  /\ UNCHANGED <<readset, client, jsp_target_is_running, target, pipe, tohw, fromhw, sent>>

-----------------------------------------------------------------------------
(* jsp_send_data_to_client() *)

Available == Least(jsp_fromhw_count, JSP_BUFFER_SIZE - jsp_fromhw_rd_idx)

(* The socket takes n of the bytes on offer; 0 stands for an error. *)
Sendable == IF ClientReads THEN {Available} ELSE 0..Available

Passed(n) ==
  /\ jsp_fromhw_count' = jsp_fromhw_count - n
  /\ jsp_fromhw_rd_idx' = (jsp_fromhw_rd_idx + n) % JSP_BUFFER_SIZE
  /\ out' = IF n = 0 THEN out ELSE fromhw_buf[jsp_fromhw_rd_idx + n - 1]
  /\ UNCHANGED <<fromhw_buf, jsp_fromhw_wr_idx, hwSent>>

JspSend ==
  /\ pc \in {"send1", "send2"}
  /\ IF jsp_fromhw_count > 0
     THEN \E n \in Sendable : Passed(n)
     ELSE UNCHANGED fromhw
  /\ pc' = CASE pc = "send1" -> "send2"
             [] pc = "send2" /\ jsp_target_is_running -> "transact"
             [] OTHER -> "select"
  /\ UNCHANGED <<readset, client, jsp_target_is_running, target, pipe, tohw, sent>>

-----------------------------------------------------------------------------
(* jsp_hardware_transact() *)

BytesToSend == Least(jsp_tohw_count, XFER)

LastTaken(n) ==
  IF n = 0 THEN hwGot ELSE tohw_buf[(jsp_tohw_rd_idx + n - 1) % JSP_BUFFER_SIZE]

TakenAll(n) ==
  /\ jsp_tohw_count' = jsp_tohw_count - BytesToSend
  /\ jsp_tohw_rd_idx' = (jsp_tohw_rd_idx + BytesToSend) % JSP_BUFFER_SIZE
  /\ hwGot' = LastTaken(n)
  /\ UNCHANGED <<tohw_buf, jsp_tohw_wr_idx, rcvd>>

(* The n bytes the port had room for leave the first ring. *)
Taken(n) ==
  /\ jsp_tohw_count' = jsp_tohw_count - n
  /\ jsp_tohw_rd_idx' = (jsp_tohw_rd_idx + n) % JSP_BUFFER_SIZE
  /\ hwGot' = LastTaken(n)
  /\ UNCHANGED <<tohw_buf, jsp_tohw_wr_idx, rcvd>>

QueuedAtLate(k) == (jsp_fromhw_wr_idx + k) % JSP_BUFFER_SIZE

(* Where the loop stores rcvbuf[k - 1]. *)
QueuedAt(k) == (jsp_fromhw_wr_idx + k - 1) % JSP_BUFFER_SIZE

(* The m bytes the port had ready go into the second ring, room or no room. *)
Queued(m) ==
  /\ fromhw_buf' = [i \in Idx |->
        LET mine == {k \in 1..m : QueuedAt(k) = i}
        IN  IF mine = {} THEN fromhw_buf[i]
            ELSE hwSent + CHOOSE k \in mine : \A j \in mine : j <= k]
  /\ jsp_fromhw_wr_idx' = (jsp_fromhw_wr_idx + m) % JSP_BUFFER_SIZE
  /\ jsp_fromhw_count' = jsp_fromhw_count + m
  /\ hwSent' = hwSent + m
  /\ UNCHANGED <<jsp_fromhw_rd_idx, out>>

JspTransact ==
  /\ pc = "transact"
  /\ \E n \in 0..BytesToSend : Taken(n)
  /\ \E m \in 0..Least(XFER, MaxOut - hwSent) : Queued(m)
  /\ pc' = "select"
  /\ UNCHANGED <<readset, client, jsp_target_is_running, target, pipe, sent>>

(* The transaction fails: nothing is adjusted, although the port may have   *)
(* taken and given bytes before it did.                                     *)
JspTransactFails ==
  /\ pc = "transact"
  /\ \E n \in 0..(IF LateFaults THEN BytesToSend ELSE 0) : hwGot' = LastTaken(n)
  /\ \E m \in 0..(IF LateFaults THEN Least(XFER, MaxOut - hwSent) ELSE 0) : hwSent' = hwSent + m
  /\ pc' = "select"
  /\ UNCHANGED <<tohw_buf, jsp_tohw_wr_idx, jsp_tohw_rd_idx, jsp_tohw_count, rcvd>>
  /\ UNCHANGED <<fromhw_buf, jsp_fromhw_wr_idx, jsp_fromhw_rd_idx, jsp_fromhw_count, out>>
  /\ UNCHANGED <<readset, client, jsp_target_is_running, target, pipe, sent>>

JspThread ==
  \/ JspAccept \/ JspSelect \/ JspEvent \/ JspRecv \/ JspRecvNothing \/ JspSend
  \/ JspTransact \/ JspTransactFails

-----------------------------------------------------------------------------
(* The environment. *)

ClientSends ==
  /\ client = "open" /\ sent < MaxIn
  /\ sent' = sent + 1
  /\ UNCHANGED <<pc, readset, client, jsp_target_is_running, target, pipe, tohw, fromhw>>

ClientHangsUp ==
  /\ client = "open"
  /\ client' = "eof"
  /\ UNCHANGED <<pc, readset, jsp_target_is_running, target, pipe, tohw, fromhw, sent>>

(* The monitor starts or stops the target and tells; one event is in flight. *)
TargetChanges ==
  /\ TargetStops
  /\ pipe = <<>>
  /\ target' = ~target
  /\ pipe' = <<IF target' THEN "R" ELSE "H">>
  /\ UNCHANGED <<pc, readset, client, jsp_target_is_running, tohw, fromhw, sent>>

JspNext == JspThread \/ ClientSends \/ ClientHangsUp \/ TargetChanges

JspSpec == JspInit /\ [][JspNext]_vars

(***************************************************************************)
(* The thread is preemptively scheduled and each of its calls returns when *)
(* it can.  Nothing is assumed of the client, of the target, or of how     *)
(* many bytes the port takes.                                              *)
(***************************************************************************)
FairJsp == JspSpec /\ WF_vars(JspThread)

-----------------------------------------------------------------------------
(* Properties that hold. *)

(***************************************************************************)
(* What is in a ring: count bytes from the read index on.                  *)
(***************************************************************************)
Ring(buf, rd, count) == [k \in 1..count |-> buf[(rd + k - 1) % JSP_BUFFER_SIZE]]

ToHw   == INSTANCE ByteChannel WITH
            q <- Ring(tohw_buf, jsp_tohw_rd_idx, jsp_tohw_count), put <- rcvd, got <- hwGot
FromHw == INSTANCE ByteChannel WITH
            q <- Ring(fromhw_buf, jsp_fromhw_rd_idx, jsp_fromhw_count), put <- hwSent, got <- out

(***************************************************************************)
(* The client's bytes reach the serial port complete and in order, however *)
(* the two recv() calls, the wrap of the ring and the port's room for each *)
(* transaction fall: the ring implements a channel.                        *)
(***************************************************************************)
ToHwIsChannel == ToHw!Spec

(***************************************************************************)
(* So do the port's bytes on their way to a client whose socket takes      *)
(* whatever it is offered.                                                 *)
(***************************************************************************)
FromHwIsChannel == FromHw!Spec

(***************************************************************************)
(* While the target is taken to run, the thread does not wait for the      *)
(* client or the monitor: it goes on exchanging bytes with the hardware.   *)
(***************************************************************************)
RunningIsServed ==
  (pc # "accept" /\ jsp_target_is_running) ~> (pc = "transact" \/ ~jsp_target_is_running)

-----------------------------------------------------------------------------
(* What comments say and the code does not do. *)

(***************************************************************************)
(* jsp_server.c:283, "Send/receive data on the new connection for as long  *)
(* as it's valid": once the client has hung up, the thread stops using the *)
(* connection and waits for the next one.                                  *)
(***************************************************************************)
HangUpNoticed == (client = "eof") ~> (pc = "accept")
=============================================================================
