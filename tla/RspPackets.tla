----------------------------- MODULE RspPackets -----------------------------
(***************************************************************************)
(* The packet layer of the RSP server (get_packet(), put_packet() and the  *)
(* poll() of handle_rsp(), rsp-server.c): frames, checksums,               *)
(* acknowledgements, retransmission and the out-of-band BREAK, character   *)
(* by character over a line that may damage one and with a GDB that may    *)
(* repeat itself too early.                                                *)
(*                                                                         *)
(* Request n and the reply to it are packets with one character of data,   *)
(* named n.  The checksum is the data it was computed from: what the line  *)
(* does to a packet is detected.  A request is a query, answered at once,  *)
(* or a continue, answered when the CPU stops.                             *)
(***************************************************************************)
EXTENDS Integers, Sequences, SequencesExt

CONSTANTS
  GDB_BUF_MAX,
  EarlyKinds,               \* requests GDB may repeat too early: "q", "c"
  MaxAsked,                 \* bound: requests
  MaxIncidents              \* bound: damaged characters, early repetitions, BREAKs
                            \* that cross a packet

ASSUME PacketAssumption ==
  /\ GDB_BUF_MAX \in Nat /\ GDB_BUF_MAX > 2 /\ EarlyKinds \subseteq {"q", "c"}
  /\ {MaxAsked, MaxIncidents} \subseteq Nat

VARIABLES
  toSrv, toGdb,             \* the two directions of the socket
  srv,                      \* main()'s thread: [pc, rd (its packet so far), out (packet sent)]
  gdb,                      \* GDB: [pc, rd]
  cpu, pipe,                \* the CPU and the monitor's events for the RSP server
  target_running, client_waiting,
  kinds,                    \* GDB's requests so far, "q" (query) or "c" (continue)
  performed,                \* the requests the server performed, in order
  answers,                  \* the packets GDB took for the replies, in order
  incidents

rspVars == <<target_running, client_waiting>>
cpuVars == <<cpu, pipe>>
vars == <<toSrv, toGdb, srv, gdb, cpuVars, rspVars, kinds, performed, answers, incidents>>

Start == <<"$">>
End == <<"#">>
Ack == <<"+">>
Nak == <<"-">>
Break == <<"0x03">>
Eof == <<"EOF">>
Noise == <<"noise">>
Frame(p) == <<Start, <<"data", p>>, End, <<"hi", p>>, <<"lo", p>>>>

NotStopped == 0             \* the 'O' packet "Target not stopped"
asked == Len(kinds)

----------------------------------------------------------------------------
\* Reading a frame.  A '$' begins it again, but not where a digit of the
\* checksum is expected; a frame too long for the buffer is given up.
Searching == [at |-> "start", buf |-> << >>, hi |-> << >>]

\* Mutant: the end of the buffer is not looked at.
Overruns(r, c) ==
  CASE r.at = "start" -> IF c = Start THEN [r EXCEPT !.at = "body"] ELSE r
    [] r.at = "body" /\ c = Start -> [r EXCEPT !.buf = << >>]
    [] r.at = "body" /\ c = End -> [r EXCEPT !.at = "hi"]
    [] r.at = "body" /\ c \notin {Start, End} -> [r EXCEPT !.buf = Append(@, c)]
    [] r.at = "hi" -> [r EXCEPT !.at = "lo", !.hi = c]
    [] r.at = "lo" -> Searching

ReadChar(r, c) ==
  CASE r.at = "start" -> IF c = Start THEN [r EXCEPT !.at = "body"] ELSE r
    [] r.at = "body" /\ c = Start -> [r EXCEPT !.buf = << >>]
    [] r.at = "body" /\ c = End -> [r EXCEPT !.at = "hi"]
    [] r.at = "body" /\ c \notin {Start, End} ->
         IF Len(r.buf) + 1 < GDB_BUF_MAX - 1 THEN [r EXCEPT !.buf = Append(@, c)] ELSE Searching
    [] r.at = "hi" -> [r EXCEPT !.at = "lo", !.hi = c]
    [] r.at = "lo" -> Searching

\* Mutant: the checksum is not compared, and damaged data are another packet.
AnyChecksum(r, c) ==
  {p \in 1..asked : r.at = "lo" /\ r.buf \in {<< <<"data", p>> >>, <<Noise>>}}

\* The packet that c, its last character, completes, if the checksum is right.
Received(r, c) ==
  {p \in 0..MaxAsked : r.at = "lo" /\ <<r.buf, r.hi, c>> = <<<< <<"data", p>> >>, <<"hi", p>>, <<"lo", p>>>>}

----------------------------------------------------------------------------
\* The server, one character at a time.  handle_rsp() looks at the socket
\* first; once in get_packet() it waits there for a packet, a BREAK or the end.
SrvReads == toSrv # << >> /\ toSrv' = Tail(toSrv)

put_packet(p) == toGdb' = toGdb \o Frame(p) /\ srv' = [pc |-> "ack", rd |-> Searching, out |-> p]
Poll == [srv EXCEPT !.pc = "poll", !.rd = Searching]

\* rsp_client_request() with a whole packet, of which '+' has been sent.
rsp_client_request(p) ==
  IF target_running
  THEN /\ toGdb' = toGdb \o <<Ack>> \o Frame(NotStopped)
       /\ srv' = [pc |-> "ack", rd |-> Searching, out |-> NotStopped]
       /\ UNCHANGED <<cpuVars, rspVars, performed>>
  ELSE /\ performed' = Append(performed, p)
       /\ IF kinds[p] = "q"
          THEN /\ toGdb' = toGdb \o <<Ack>> \o Frame(p)
               /\ srv' = [pc |-> "ack", rd |-> Searching, out |-> p]
               /\ UNCHANGED <<cpuVars, rspVars>>
          ELSE /\ toGdb' = Append(toGdb, Ack) /\ srv' = Poll
               /\ cpu' = "starting" /\ client_waiting' = TRUE
               /\ UNCHANGED <<pipe, target_running>>

\* A BREAK stalls the CPU if it is known to run and is ignored otherwise; it
\* is nothing special inside a frame.
get_packet ==
  /\ srv.pc \in {"poll", "get"} /\ SrvReads
  /\ LET c == Head(toSrv)
         quiet == UNCHANGED <<toGdb, cpuVars, rspVars, performed>>
     IN \/ c = Eof /\ srv' = [srv EXCEPT !.pc = "closed"] /\ quiet
        \/ c = Break /\ srv.rd.at = "start" /\ srv' = Poll /\ quiet
        \/ c # Eof /\ \E p \in Received(srv.rd, c) : rsp_client_request(p)
        \/ /\ c # Eof /\ ~(c = Break /\ srv.rd.at = "start") /\ Received(srv.rd, c) = {}
           /\ srv' = [srv EXCEPT !.pc = "get", !.rd = ReadChar(@, c)]
           /\ toGdb' = IF srv.rd.at = "lo" THEN Append(toGdb, Nak) ELSE toGdb
           /\ UNCHANGED <<cpuVars, rspVars, performed>>
  /\ UNCHANGED <<gdb, kinds, answers, incidents>>

\* Mutant: only '-' repeats the packet.
RepeatOnNak ==
  /\ srv.pc = "ack" /\ SrvReads
  /\ CASE Head(toSrv) = Eof -> srv' = [srv EXCEPT !.pc = "closed"] /\ UNCHANGED toGdb
       [] Head(toSrv) = Nak -> put_packet(srv.out)
       [] OTHER -> srv' = Poll /\ UNCHANGED toGdb
  /\ UNCHANGED <<gdb, cpuVars, rspVars, kinds, performed, answers, incidents>>

\* put_packet() after the packet: whatever is not '+' repeats it.
put_packet_ack ==
  /\ srv.pc = "ack" /\ SrvReads
  /\ CASE Head(toSrv) = Eof -> srv' = [srv EXCEPT !.pc = "closed"] /\ UNCHANGED toGdb
       [] Head(toSrv) = Ack -> srv' = Poll /\ UNCHANGED toGdb
       [] OTHER -> put_packet(srv.out)
  /\ UNCHANGED <<gdb, cpuVars, rspVars, kinds, performed, answers, incidents>>

\* handle_rsp(): an event, when the socket has nothing.
handle_rsp ==
  /\ srv.pc = "poll" /\ toSrv = << >> /\ pipe # << >>
  /\ pipe' = Tail(pipe) /\ target_running' = (Head(pipe) = "R")
  /\ IF Head(pipe) = "H" /\ target_running /\ client_waiting
     THEN put_packet(Last(performed)) /\ client_waiting' = FALSE
     ELSE UNCHANGED <<toGdb, srv, client_waiting>>
  /\ UNCHANGED <<toSrv, gdb, cpu, kinds, performed, answers, incidents>>

Server == get_packet \/ put_packet_ack \/ handle_rsp

----------------------------------------------------------------------------
\* The monitor starts the CPU; a trap or a BREAK stops it.
Event(from, to, e) ==
  /\ cpu = from /\ cpu' = to /\ pipe' = Append(pipe, e)
  /\ UNCHANGED <<toSrv, toGdb, srv, gdb, rspVars, kinds, performed, answers, incidents>>
MonitorRuns == Event("starting", "running", "R")
CpuStops == Event("running", "stopped", "H")

----------------------------------------------------------------------------
\* GDB.
GdbLeaves == UNCHANGED <<srv, cpuVars, rspVars, performed>>

GdbAsks(k) ==
  /\ gdb.pc = "idle" /\ asked < MaxAsked
  /\ kinds' = Append(kinds, k) /\ toSrv' = toSrv \o Frame(asked + 1)
  /\ gdb' = [pc |-> "ack", rd |-> Searching]
  /\ GdbLeaves /\ UNCHANGED <<toGdb, answers, incidents>>

\* Waiting for '+': '-' repeats the request; an old packet is skipped and
\* acknowledged.  Waiting for the reply: it is acknowledged or refused, and
\* what is not in a frame is skipped.
GdbReads ==
  /\ gdb.pc \in {"ack", "reply"} /\ toGdb # << >> /\ toGdb' = Tail(toGdb)
  /\ LET c == Head(toGdb)
         outside == gdb.pc = "ack" /\ gdb.rd.at = "start"
         mine == IF gdb.pc = "reply" THEN Received(gdb.rd, c) \ {NotStopped} ELSE {}
         good == gdb.pc = "ack" \/ Received(gdb.rd, c) # {}
     IN /\ gdb' = IF outside /\ c = Ack THEN [gdb EXCEPT !.pc = "reply"]
                  ELSE IF mine # {} THEN [pc |-> "idle", rd |-> Searching]
                  ELSE [gdb EXCEPT !.rd = ReadChar(@, c)]
        /\ answers' = IF mine # {} THEN Append(answers, CHOOSE p \in mine : TRUE) ELSE answers
        /\ toSrv' = IF outside /\ c = Nak THEN toSrv \o Frame(asked)
                    ELSE IF gdb.rd.at = "lo" THEN Append(toSrv, IF good THEN Ack ELSE Nak)
                    ELSE toSrv
  /\ GdbLeaves /\ UNCHANGED <<kinds, incidents>>

\* A timeout repeats the request, or asks for the reply again; the stop of a
\* continue has none, but a person who types ^C.
IsContinue == gdb.pc = "reply" /\ kinds[asked] = "c"
GdbRepeats ==
  /\ gdb.pc \in {"ack", "reply"}
  /\ toSrv' = IF gdb.pc = "ack" THEN toSrv \o Frame(asked)
              ELSE Append(toSrv, IF IsContinue THEN Break ELSE Nak)
  /\ gdb' = IF IsContinue THEN gdb ELSE [gdb EXCEPT !.rd = Searching]
  /\ GdbLeaves /\ UNCHANGED <<toGdb, kinds, answers>>

\* It is long: nothing is on its way any more and the server has nothing to
\* do; or too short.
Idle == toSrv = << >> /\ toGdb = << >> /\ cpu # "starting" /\ (srv.pc = "poll" => pipe = << >>)
TimesOut == Idle /\ GdbRepeats /\ UNCHANGED incidents
TimesOutEarly ==
  /\ gdb.pc \in {"ack", "reply"} /\ ~Idle /\ ~IsContinue
  /\ kinds[asked] \in EarlyKinds /\ GdbRepeats
  /\ incidents < MaxIncidents /\ incidents' = incidents + 1

\* ^C crossing the report of a stop.
TypesBreak ==
  /\ IsContinue /\ toGdb # << >> /\ GdbRepeats
  /\ incidents < MaxIncidents /\ incidents' = incidents + 1

GdbDies ==
  /\ gdb.pc # "dead" /\ gdb' = [gdb EXCEPT !.pc = "dead"] /\ toSrv' = Append(toSrv, Eof)
  /\ GdbLeaves /\ UNCHANGED <<toGdb, kinds, answers, incidents>>

\* The line damages a character.
DamageLine ==
  /\ incidents < MaxIncidents /\ incidents' = incidents + 1
  /\ \/ \E i \in DOMAIN toSrv : toSrv[i] # Eof /\ toSrv' = [toSrv EXCEPT ![i] = Noise] /\ UNCHANGED toGdb
     \/ \E i \in DOMAIN toGdb : toGdb' = [toGdb EXCEPT ![i] = Noise] /\ UNCHANGED toSrv
  /\ GdbLeaves /\ UNCHANGED <<gdb, kinds, answers>>

Init ==
  /\ toSrv = <<Ack>> /\ toGdb = << >>        \* GDB's greeting
  /\ srv = [pc |-> "poll", rd |-> Searching, out |-> NotStopped]
  /\ gdb = [pc |-> "idle", rd |-> Searching]
  /\ cpu = "stopped" /\ pipe = << >> /\ target_running = FALSE /\ client_waiting = FALSE
  /\ kinds = << >> /\ performed = << >> /\ answers = << >> /\ incidents = 0

Next ==
  \/ Server \/ MonitorRuns \/ CpuStops
  \/ \E k \in {"q", "c"} : GdbAsks(k)
  \/ GdbReads \/ TimesOut \/ TimesOutEarly \/ TypesBreak \/ GdbDies \/ DamageLine

\* The threads and GDB go on, GDB's timeout comes, a program stops, and a
\* person who has waited long enough types ^C, though not all the time: the
\* server finds its socket empty again and again and then reads its pipe.
Spec ==
  /\ Init /\ [][Next]_vars
  /\ WF_vars(Server) /\ SF_vars(handle_rsp) /\ WF_vars(MonitorRuns) /\ WF_vars(CpuStops)
  /\ WF_vars(GdbReads) /\ WF_vars(TimesOut)

----------------------------------------------------------------------------
\* Type invariant.
Chars == {Start, End, Ack, Nak, Break, Eof, Noise}
           \cup {<<s, p>> : s \in {"data", "hi", "lo"}, p \in 0..MaxAsked}
PacketTypeOK ==
  /\ toSrv \in Seq(Chars) /\ toGdb \in Seq(Chars)
  /\ srv.pc \in {"poll", "get", "ack", "closed"} /\ srv.out \in 0..asked
  /\ gdb.pc \in {"idle", "ack", "reply", "dead"}
  /\ Len(srv.rd.buf) < GDB_BUF_MAX - 1
  /\ cpu \in {"stopped", "starting", "running"} /\ pipe \in Seq({"R", "H"})
  /\ target_running \in BOOLEAN /\ client_waiting \in BOOLEAN
  /\ performed \in Seq(1..asked) /\ answers \in Seq(1..asked)

\* The packet layer keeps requests and replies in step: through damage and
\* repetition the server performs only the request GDB is waiting on, and GDB
\* takes only its reply for the reply.  So it is with any number of damaged
\* characters and crossing BREAKs, and with one early repetition; two can
\* bring the server to perform a request twice, and the second '+' and reply
\* are then taken for those of the next one.
Channel == INSTANCE RequestChannel
InStep == Channel!Spec

\* "Repeat until the GDB client acknowledges satisfactory receipt"
\* (rsp-server.c:1005): every request is answered in the end, although
\* put_packet() throws away whatever it reads in place of '+', BREAKs and
\* requests included, and although get_packet() keeps the server from the
\* monitor's events.  So it is after one incident, not after two: put_packet()
\* may take the '+' of a repeated packet for that of the next one and so never
\* learn that it arrived damaged.
RequestAnswered ==
  \A n \in 1..MaxAsked : (asked = n) ~> (Len(answers) >= n \/ gdb.pc = "dead")
=============================================================================
