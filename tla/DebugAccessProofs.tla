------------------------- MODULE DebugAccessProofs -------------------------
(***************************************************************************)
(* Proofs about the debug API: the mutex is given back on every way out of *)
(* every call, and a call that reports success has done what it was called *)
(* for.  For any threads, any memory and any number of faults.             *)
(***************************************************************************)
EXTENDS DebugAccess, TLAPS

(***************************************************************************)
(* The places of a thread, by what the call is for and by the kind of      *)
(* debug hardware.                                                         *)
(***************************************************************************)
BurstPcs  == {"command", "read", "write", "error_check"}
AdvPcs    == BurstPcs \cup {"select", "ctrl_read", "ctrl_write", "transact"}
LegPcs    == {"set_chain", "legacy_command", "legacy_go", "legacy_ctrl", "legacy_ctrl_read"}
Outside   == {"idle", "lock"}
Pcs       == AdvPcs \cup LegPcs \cup Outside \cup {"unlock"}

(***************************************************************************)
(* Types.                                                                  *)
(***************************************************************************)
CallRecs == [op : {"none", "read", "write", "rctrl", "wctrl", "jsp"}, mod : Modules, sel : Modules,
             adr : Nat, len : Nat]
DataValues == WordValues \cup Nat \cup {"?"}
ThreadRecs == [pc : Pcs, call : CallRecs, part : Nat, i : Int, bus : Nat, err : BOOLEAN,
               data : Seq(DataValues), sound : BOOLEAN]
UnitRecs == [sel : Modules \cup {NoModule},
             burst : [op : {"none", "read", "write"}, adr : Int, len : Nat],
             wberr : Addrs \cup {NoAddr}, ctrl : [{"cpu0", "cpu1"} -> {0, 1}],
             room : 0..JspMax, avail : 0..JspMax]

TypeInv ==
  /\ build \in Builds
  /\ mutex \in Threads \cup {NoThread}
  /\ th \in [Threads -> ThreadRecs]
  /\ current_chain \in Modules \cup {NoModule}
  /\ desired_chain \in Modules \cup {NoModule}
  /\ unit \in UnitRecs
  /\ mem \in [Memories -> [Addrs -> WordValues]]
  /\ faults \in 0..MaxFaults
  /\ calls \in 0..MaxCalls
  /\ exited \in BOOLEAN

(***************************************************************************)
(* Where the scans leave the TAP.  A burst read that gave up leaves it in  *)
(* Shift-DR, from where the next scans lead to Pause-DR or back to IDLE; a *)
(* legacy command that failed leaves it on a round trip that never comes   *)
(* back to IDLE.  With the TAP in IDLE the IR selects the debug unit.      *)
(***************************************************************************)
TapInv ==
  IF Advanced THEN tap \in {"IDLE", "SHIFT_DR", "PAUSE_DR"} /\ ir = "debug"
  ELSE \/ tap = "IDLE" /\ ir = "debug"
       \/ tap \in {"EXIT1_DR", "SELECT_DR", "EXIT1_IR"} /\ ir \in {"debug", "other"}

(***************************************************************************)
(* A call in progress is one of the API's and its place is one for it.     *)
(***************************************************************************)
CallOK(c) ==
  /\ c.sel = c.mod
  /\ c.op \in {"read", "write"} => /\ c.mod \in Memories
                                   /\ c.adr \in Addrs /\ c.adr + c.len <= Words
                                   /\ c.mod # "wb" => c.len > 0
  /\ c.op \in {"rctrl", "wctrl"} => c.mod \in {"cpu0", "cpu1"} /\ c.adr \in {0, 1}
  /\ c.op = "jsp" => Advanced /\ c.mod = "jsp"

ThreadOK(t) ==
  LET r == th[t]
      c == r.call
  IN /\ r.part <= Words /\ r.i \in (-Words)..Words /\ r.bus <= MaxBusErrors + 1
     /\ r.pc # "idle" =>
          /\ CallOK(c) /\ c.op # "none" /\ (c.op \in {"read", "write"} => c.len > 0)
          /\ IF IsLoop(c) THEN r.part < c.len ELSE r.part = 0
          /\ Legacy => r.i = 0 /\ r.bus = 0 /\ r.pc \notin AdvPcs
          /\ Advanced => r.pc \notin LegPcs
          /\ c.op \in {"read", "write"} => c.adr + r.i \in Addrs
     /\ r.pc # "idle" /\ r.pc # "unlock" => r.bus <= MaxBusErrors
     /\ r.pc \in BurstPcs \cup {"legacy_command", "legacy_go"} => c.op \in {"read", "write"}
     /\ r.pc \in {"read", "write"} => c.op = r.pc
     /\ r.pc \in {"ctrl_read", "legacy_ctrl_read"} => c.op = "rctrl"
     /\ r.pc \in {"ctrl_write", "legacy_ctrl"} => c.op = "wctrl"
     /\ r.pc = "transact" => c.op = "jsp"

(***************************************************************************)
(* What a legacy call has read so far: one word for each register of a     *)
(* loop, nothing before a control register.                                *)
(***************************************************************************)
DataOK(t) ==
  LET r == th[t]
  IN Legacy /\ ~r.err /\ r.call.op \in {"read", "rctrl"} =>
       /\ r.pc \in LegPcs \cup {"lock"} => Len(r.data) = r.part
       /\ r.pc = "unlock" /\ IsLoop(r.call) => Len(r.data) = r.part + 1

(***************************************************************************)
(* The burst the debug unit is about to do for t.                          *)
(***************************************************************************)
BurstOK(t) ==
  /\ th[t].pc \in {"read", "write"} /\ unit.burst.op = th[t].pc /\ unit.burst.len = Part(t).len =>
       unit.burst.adr = Part(t).adr
  /\ th[t].pc = "legacy_go" /\ ~th[t].err =>
       unit.burst = [op |-> Part(t).op, adr |-> Part(t).adr, len |-> Part(t).len]

(***************************************************************************)
(* The progress of a call that found the debug unit as it expects it, as   *)
(* long as it has met no error: the module it is for is selected, and when *)
(* it is about to return, or finds no bus error in the error register, it  *)
(* has done what it was called for.                                        *)
(***************************************************************************)
SelectedFor(t) == tap = "IDLE" /\ current_chain = Part(t).mod /\ unit.sel = Part(t).mod

ProgressOK(t) ==
  (~exited /\ th[t].sound /\ ~th[t].err) =>
     /\ th[t].pc \in {"select", "set_chain"} => Sound
     /\ th[t].pc \in (AdvPcs \cup LegPcs) \ {"select", "set_chain"} => SelectedFor(t)
     /\ th[t].pc = "error_check" /\ unit.wberr = NoAddr => Done(t)
     /\ th[t].pc = "unlock" => Done(t) /\ Sound

(***************************************************************************)
(* The legacy commands cache a module only once it is selected, and select *)
(* the one of the call before anything else; a loop goes register by       *)
(* register.                                                               *)
(***************************************************************************)
ChainInv ==
  Legacy => /\ current_chain \in {NoModule, unit.sel}
            /\ \A t \in Threads :
                 /\ th[t].pc \in LegPcs \ {"set_chain"} => current_chain = th[t].call.mod
                 /\ th[t].pc = "legacy_go" /\ IsLoop(th[t].call) => unit.burst.len = 1

AccessInv ==
  /\ TypeInv /\ TapInv /\ ChainInv /\ MutexGivenBack
  /\ \A t \in Threads : ThreadOK(t) /\ DataOK(t)

DoneInv == \A t \in Threads : BurstOK(t) /\ ProgressOK(t)

-----------------------------------------------------------------------------
(***************************************************************************)
(* Where the walks of chain_commands.c lead from the states of TapInv.     *)
(***************************************************************************)
LEMMA TapWalks ==
  /\ AfterShiftDr("IDLE") = "SHIFT_DR" /\ AfterShiftDr("SHIFT_DR") = "PAUSE_DR"
  /\ AfterShiftDr("PAUSE_DR") = "SHIFT_DR" /\ AfterShiftDr("EXIT1_DR") = "IDLE"
  /\ AfterShiftDr("SELECT_DR") = "SHIFT_IR" /\ AfterShiftDr("EXIT1_IR") = "IDLE"
  /\ AfterLastBit("SHIFT_DR") = "EXIT1_DR" /\ AfterLastBit("PAUSE_DR") = "EXIT2_DR"
  /\ AfterLastBit("IDLE") = "SELECT_DR" /\ AfterLastBit("SHIFT_IR") = "EXIT1_IR"
  /\ AfterExitToIdle("EXIT1_DR") = "IDLE" /\ AfterExitToIdle("EXIT2_DR") = "IDLE"
<1>1. NextTapState("IDLE", 0) = "IDLE" /\ NextTapState("IDLE", 1) = "SELECT_DR"
  BY DEF NextTapState
<1>2. NextTapState("SELECT_DR", 0) = "CAPTURE_DR" /\ NextTapState("SELECT_DR", 1) = "SELECT_IR"
  BY DEF NextTapState
<1>3. NextTapState("CAPTURE_DR", 0) = "SHIFT_DR"
  BY DEF NextTapState
<1>4. NextTapState("SHIFT_DR", 0) = "SHIFT_DR" /\ NextTapState("SHIFT_DR", 1) = "EXIT1_DR"
  BY DEF NextTapState
<1>5. NextTapState("EXIT1_DR", 0) = "PAUSE_DR" /\ NextTapState("EXIT1_DR", 1) = "UPDATE_DR"
  BY DEF NextTapState
<1>6. NextTapState("PAUSE_DR", 0) = "PAUSE_DR" /\ NextTapState("PAUSE_DR", 1) = "EXIT2_DR"
  BY DEF NextTapState
<1>7. NextTapState("EXIT2_DR", 0) = "SHIFT_DR" /\ NextTapState("EXIT2_DR", 1) = "UPDATE_DR"
  BY DEF NextTapState
<1>8. NextTapState("UPDATE_DR", 0) = "IDLE"
  BY DEF NextTapState
<1>9. NextTapState("SELECT_IR", 0) = "CAPTURE_IR"
  BY DEF NextTapState
<1>10. NextTapState("CAPTURE_IR", 0) = "SHIFT_IR"
  BY DEF NextTapState
<1>11. NextTapState("SHIFT_IR", 1) = "EXIT1_IR"
  BY DEF NextTapState
<1>12. NextTapState("EXIT1_IR", 1) = "UPDATE_IR"
  BY DEF NextTapState
<1>13. NextTapState("UPDATE_IR", 0) = "IDLE"
  BY DEF NextTapState
<1> QED
  BY <1>1, <1>2, <1>3, <1>4, <1>5, <1>6, <1>7, <1>8, <1>9, <1>10, <1>11, <1>12, <1>13
  DEF AfterShiftDr, AfterLastBit, AfterExitToIdle

(***************************************************************************)
(* A scan from IDLE reaches the debug unit and, done, comes back.          *)
(***************************************************************************)
LEMMA ScanFromIdle ==
  ASSUME TapInv, tap = "IDLE"
  PROVE  Reaches /\ (ScanDone => tap' = "IDLE" /\ ir' = "debug")
<1>1. ir = "debug"
  BY DEF TapInv
<1> QED BY <1>1, TapWalks DEF Reaches, ScanDone

(***************************************************************************)
(* A scan of the advanced commands ends in IDLE wherever it started; one   *)
(* that gave up in the middle leaves a state the next one recovers from.   *)
(***************************************************************************)
LEMMA AdvancedTap ==
  ASSUME TapInv, Advanced, build' = build
  PROVE  /\ ScanDone => tap' = "IDLE" /\ TapInv'
         /\ tap' = AfterShiftDr(tap) /\ ir' = ir => TapInv'
<1>1. tap \in {"IDLE", "SHIFT_DR", "PAUSE_DR"} /\ ir = "debug"
  BY DEF TapInv
<1>2. Advanced'
  BY DEF Advanced
<1>3. ScanDone => tap' = "IDLE" /\ ir' = "debug"
  BY <1>1, TapWalks DEF ScanDone
<1>4. tap' = AfterShiftDr(tap) /\ ir' = ir => tap' \in {"SHIFT_DR", "PAUSE_DR"} /\ ir' = "debug"
  BY <1>1, TapWalks
<1> QED BY <1>2, <1>3, <1>4 DEF TapInv

(***************************************************************************)
(* A legacy scan reaches the debug unit from IDLE only.                    *)
(***************************************************************************)
LEMMA LegacyTap ==
  ASSUME TapInv, Legacy, build' = build
  PROVE  /\ Reaches <=> tap = "IDLE"
         /\ Reaches /\ ScanDone => tap' = "IDLE" /\ TapInv'
         /\ ScanCutOff => TapInv'
<1>1. \/ tap = "IDLE" /\ ir = "debug"
      \/ tap \in {"EXIT1_DR", "SELECT_DR", "EXIT1_IR"} /\ ir \in {"debug", "other"}
  BY DEF TapInv, Legacy, Advanced
<1>2. ~Advanced'
  BY DEF Legacy, Advanced
<1>3. Reaches <=> tap = "IDLE"
  BY <1>1, TapWalks DEF Reaches
<1>4. Reaches /\ ScanDone => tap' = "IDLE" /\ ir' = "debug"
  BY <1>1, <1>3, TapWalks DEF ScanDone
<1>5. ScanCutOff => tap' \in {"EXIT1_DR", "SELECT_DR", "EXIT1_IR"} /\ ir' \in {"debug", "other"}
  BY <1>1, TapWalks DEF ScanCutOff
<1> QED BY <1>2, <1>3, <1>4, <1>5 DEF TapInv

(***************************************************************************)
(* Every call of the API is of the right shape.                            *)
(***************************************************************************)
LEMMA CallFacts ==
  ASSUME TypeInv, NEW t \in Threads, NEW c \in Calls(t, build)
  PROVE  c \in CallRecs /\ CallOK(c) /\ c.op # "none"
<1> USE AccessAssumption
<1>1. c \in ApiCalls(build)
  BY CallsAssumption DEF TypeInv
<1>2. CASE c \in dbg_wb_read32 \cup dbg_wb_write \cup dbg_cpu0_read \cup dbg_cpu0_write \cup dbg_cpu1_read
  BY <1>2 DEF dbg_wb_read32, dbg_wb_write, dbg_cpu0_read, dbg_cpu0_write, dbg_cpu1_read, Access,
              CallRecs, CallOK, Modules, Memories, Addrs
<1>3. CASE c \in dbg_wb_read_block \cup dbg_wb_write_block
  <2>1. PICK b \in Blocks(Words) : \/ c = Access("read", "wb", "wb", b[1], b[2])
                                   \/ c = Access("write", "wb", "wb", b[1], b[2])
    BY <1>3 DEF dbg_wb_read_block, dbg_wb_write_block
  <2>2. b[1] \in Addrs /\ b[2] \in 0..Words /\ b[1] + b[2] <= Words
    BY <2>1 DEF Blocks
  <2> QED BY <2>1, <2>2 DEF Access, CallRecs, CallOK, Modules, Memories, Addrs
<1>4. CASE c \in dbg_cpu0_read_block \cup dbg_cpu0_write_block
  BY <1>4 DEF dbg_cpu0_read_block, dbg_cpu0_write_block, Access, CallRecs, CallOK, Modules,
              Memories, Addrs
<1>5. CASE c \in dbg_cpu0_read_ctrl \cup dbg_cpu0_write_ctrl \cup dbg_cpu1_read_ctrl \cup dbg_cpu1_write_ctrl
  BY <1>5 DEF dbg_cpu0_read_ctrl, dbg_cpu0_write_ctrl, dbg_cpu1_read_ctrl, dbg_cpu1_write_ctrl,
              Access, CallRecs, CallOK, Modules, Memories
<1>6. CASE build.hw = "advanced" /\ c \in dbg_serial_sndrcv
  BY <1>6 DEF dbg_serial_sndrcv, Access, CallRecs, CallOK, Modules, Memories, Advanced
<1> QED BY <1>1, <1>2, <1>3, <1>4, <1>5, <1>6 DEF ApiCalls

(***************************************************************************)
(* The access the debug unit sees: the call, or one register of a loop.    *)
(***************************************************************************)
LEMMA PartFacts ==
  ASSUME TypeInv, NEW t \in Threads, ThreadOK(t), th[t].pc # "idle"
  PROVE  /\ Part(t) \in CallRecs
         /\ Part(t).op = th[t].call.op /\ Part(t).mod = th[t].call.mod /\ Part(t).sel = Part(t).mod
         /\ Part(t).op \in {"read", "write"} =>
              /\ Part(t).mod \in Memories /\ Part(t).len > 0
              /\ Part(t).adr \in Addrs /\ Part(t).adr + Part(t).len <= Words
         /\ Part(t).op \in {"rctrl", "wctrl"} => Part(t).mod \in {"cpu0", "cpu1"} /\ Part(t).adr \in {0, 1}
         /\ IsLoop(th[t].call) => Part(t).len = 1
         /\ ~IsLoop(th[t].call) => Part(t) = th[t].call /\ th[t].part = 0
         /\ Advanced => ~IsLoop(th[t].call)
<1> USE AccessAssumption
<1> DEFINE c == th[t].call
           n == th[t].part
<1>1. /\ c \in CallRecs /\ n \in Nat /\ CallOK(c)
      /\ c.op \in {"read", "write"} => c.len > 0
      /\ IsLoop(c) => n < c.len
      /\ ~IsLoop(c) => n = 0
  BY DEF TypeInv, ThreadRecs, ThreadOK
<1>2. Part(t) = IF IsLoop(c) THEN [c EXCEPT !.adr = c.adr + n, !.len = 1] ELSE c
  BY DEF Part
<1>3. Advanced => ~IsLoop(c)
  BY DEF Advanced, Legacy, IsLoop
<1>4. IsLoop(c) => c.op \in {"read", "write"}
  BY DEF IsLoop
<1> HIDE DEF c, n
<1>5. CASE ~IsLoop(c)
  BY <1>1, <1>2, <1>3, <1>5 DEF CallOK, c, n
<1>6. CASE IsLoop(c)
  <2>1. /\ Part(t) = [c EXCEPT !.adr = c.adr + n, !.len = 1]
        /\ c.adr \in Addrs /\ c.adr + c.len <= Words /\ c.len \in Nat /\ n < c.len /\ c.adr \in Nat
    BY <1>1, <1>2, <1>4, <1>6 DEF CallOK, CallRecs
  <2>2. /\ Part(t) \in CallRecs
        /\ Part(t).op = c.op /\ Part(t).mod = c.mod /\ Part(t).sel = c.sel
        /\ Part(t).adr = c.adr + n /\ Part(t).len = 1
    <3> DEFINE a == c.adr + n
               p == Part(t)
    <3>1. a \in Nat /\ p = [c EXCEPT !.adr = a, !.len = 1] /\ c \in CallRecs
      BY <1>1, <2>1
    <3> HIDE DEF a, p
    <3>2. p \in CallRecs
      BY <3>1 DEF CallRecs
    <3>3. p.op = c.op /\ p.mod = c.mod /\ p.sel = c.sel /\ p.adr = a /\ p.len = 1
      BY <3>1 DEF CallRecs
    <3> QED BY <3>2, <3>3 DEF a, p
  <2>3. c.adr + n \in Addrs /\ (c.adr + n) + 1 <= Words
    BY <1>1, <2>1 DEF Addrs
  <2> QED BY <1>1, <1>3, <1>4, <1>6, <2>2, <2>3 DEF CallOK, c, n
<1> QED BY <1>5, <1>6

(***************************************************************************)
(* The words a call sends.                                                 *)
(***************************************************************************)
LEMMA SentFacts ==
  ASSUME TypeInv, NEW t \in Threads, ThreadOK(t), th[t].pc # "idle", Part(t).op \in {"read", "write"}
  PROVE  /\ Sent(t) \in Seq(WordValues) /\ Len(Sent(t)) = Part(t).len
         /\ DOMAIN Sent(t) = 1..Part(t).len
         /\ \A k \in 1..Part(t).len : \E a, b : Sent(t)[k] = <<a, b>>
<1> USE AccessAssumption
<1> DEFINE n == Part(t).len
           first == IF IsLoop(th[t].call) THEN th[t].part ELSE 0
<1>1. n \in Nat /\ first \in Nat /\ first + n <= Words
  <2>1. CASE ~IsLoop(th[t].call)
    BY <2>1, PartFacts DEF CallRecs, Addrs
  <2>2. CASE IsLoop(th[t].call)
    <3>1. /\ th[t].call.op \in {"read", "write"} /\ th[t].call.adr \in Nat /\ th[t].call.len \in Nat
          /\ th[t].call.adr + th[t].call.len <= Words /\ th[t].part < th[t].call.len
          /\ th[t].part \in Nat
      BY <2>2 DEF TypeInv, ThreadRecs, CallRecs, ThreadOK, CallOK, IsLoop
    <3> QED BY <2>2, <3>1, PartFacts
  <2> QED BY <2>1, <2>2
<1>2. Sent(t) = [k \in 1..n |-> <<t, ToString(first + k)>>]
  BY DEF Sent
<1> HIDE DEF n, first
<1>3. \A k \in 1..n : <<t, ToString(first + k)>> \in WordValues
  <2> SUFFICES ASSUME NEW k \in 1..n PROVE <<t, ToString(first + k)>> \in WordValues
    OBVIOUS
  <2>1. first + k \in 1..Words
    BY <1>1
  <2> QED BY <2>1 DEF WordValues
<1>4. Sent(t) \in [1..n -> WordValues]
  BY <1>2, <1>3
<1>5. Sent(t) \in Seq(WordValues) /\ Len(Sent(t)) = n
  BY <1>1, <1>4
<1>6. \A k \in 1..n : \E a, b : Sent(t)[k] = <<a, b>>
  BY <1>2
<1> QED BY <1>2, <1>5, <1>6 DEF n

(***************************************************************************)
(* A word survives ntohl(), the host's byte order and back.                *)
(***************************************************************************)
LEMMA LegacyOrder ==
  ASSUME NEW w, \E a, b : w = <<a, b>>
  PROVE  LegacyWrites(w) = w /\ LegacyReads(w) = w
<1>1. PICK a, b : w = <<a, b>>
  OBVIOUS
<1>2. \A x, y : Reverse(<<x, y>>) = <<y, x>>
  <2> SUFFICES ASSUME NEW x, NEW y PROVE Reverse(<<x, y>>) = <<y, x>>
    OBVIOUS
  <2> QED BY DEF Reverse
<1> QED BY <1>1, <1>2 DEF LegacyWrites, LegacyReads, HostBytes, HostWord, Ntohl

LEMMA WordsArePairs ==
  ASSUME NEW w \in WordValues
  PROVE  \E a, b : w = <<a, b>>
BY DEF WordValues, Erased, Garbage

(***************************************************************************)
(* A length that the 16-bit field gives back unchanged belongs to a burst  *)
(* that starts at the call's own address, as long as no two addresses are  *)
(* as far apart as the field is wide.                                      *)
(***************************************************************************)
LEMMA FieldKeepsLength ==
  ASSUME NEW n \in Nat \ {0}, NEW l \in Nat, NEW i \in (1 - n)..(n - 1), (l - i) % n = l
  PROVE  i = 0
OBVIOUS

-----------------------------------------------------------------------------
(***************************************************************************)
(* A step of thread t inside its call: it goes to p, with the error flag,  *)
(* the buffer, the index and the count of bus errors given.                *)
(***************************************************************************)
Moved(t, p, e, d, i, b) ==
  /\ th' \in [Threads -> ThreadRecs]
  /\ \A u \in Threads : u # t => th'[u] = th[u]
  /\ th'[t].pc = p /\ th'[t].err = e /\ th'[t].data = d /\ th'[t].i = i /\ th'[t].bus = b
  /\ th'[t].call = th[t].call /\ th'[t].part = th[t].part /\ th'[t].sound = th[t].sound

Stays(t, p) == Moved(t, p, th[t].err, th[t].data, th[t].i, th[t].bus)

LEMMA GotoMoves ==
  ASSUME TypeInv, NEW t \in Threads, NEW p \in Pcs, Goto(t, p)
  PROVE  Stays(t, p)
<1>1. th' = [th EXCEPT ![t].pc = p] /\ th \in [Threads -> ThreadRecs]
  BY DEF Goto, TypeInv
<1>2. th' = [th EXCEPT ![t] = [th[t] EXCEPT !.pc = p]]
  BY <1>1
<1> DEFINE r == [th[t] EXCEPT !.pc = p]
<1>3. /\ r \in ThreadRecs
      /\ r.pc = p /\ r.err = th[t].err /\ r.data = th[t].data /\ r.i = th[t].i
      /\ r.bus = th[t].bus /\ r.call = th[t].call /\ r.part = th[t].part
      /\ r.sound = th[t].sound
  BY <1>1 DEF ThreadRecs
<1> HIDE DEF r
<1>4. th' = [th EXCEPT ![t] = r]
  BY <1>2 DEF r
<1> QED BY <1>1, <1>3, <1>4 DEF Stays, Moved

LEMMA FailsMoves ==
  ASSUME TypeInv, NEW t \in Threads, Fails(t)
  PROVE  Moved(t, "unlock", TRUE, th[t].data, th[t].i, th[t].bus)
<1>1. th' = [th EXCEPT ![t].pc = "unlock", ![t].err = TRUE] /\ th \in [Threads -> ThreadRecs]
  BY DEF Fails, TypeInv
<1>2. th' = [th EXCEPT ![t] = [th[t] EXCEPT !.pc = "unlock", !.err = TRUE]]
  BY <1>1
<1> DEFINE r == [th[t] EXCEPT !.pc = "unlock", !.err = TRUE]
<1>3. /\ r \in ThreadRecs
      /\ r.pc = "unlock" /\ r.err = TRUE /\ r.data = th[t].data /\ r.i = th[t].i
      /\ r.bus = th[t].bus /\ r.call = th[t].call /\ r.part = th[t].part
      /\ r.sound = th[t].sound
  BY <1>1 DEF ThreadRecs, Pcs
<1> HIDE DEF r
<1>4. th' = [th EXCEPT ![t] = r]
  BY <1>2 DEF r
<1> QED BY <1>1, <1>3, <1>4 DEF Moved

LEMMA DataMoves ==
  ASSUME TypeInv, NEW t \in Threads, NEW p \in Pcs, NEW d \in Seq(DataValues),
         th' = [th EXCEPT ![t].pc = p, ![t].data = d]
  PROVE  Moved(t, p, th[t].err, d, th[t].i, th[t].bus)
<1>1. th \in [Threads -> ThreadRecs]
  BY DEF TypeInv
<1>2. th' = [th EXCEPT ![t] = [th[t] EXCEPT !.pc = p, !.data = d]]
  BY <1>1
<1> DEFINE r == [th[t] EXCEPT !.pc = p, !.data = d]
<1>3. /\ r \in ThreadRecs
      /\ r.pc = p /\ r.err = th[t].err /\ r.data = d /\ r.i = th[t].i
      /\ r.bus = th[t].bus /\ r.call = th[t].call /\ r.part = th[t].part
      /\ r.sound = th[t].sound
  BY <1>1 DEF ThreadRecs
<1> HIDE DEF r
<1>4. th' = [th EXCEPT ![t] = r]
  BY <1>2 DEF r
<1> QED BY <1>1, <1>3, <1>4 DEF Moved

(***************************************************************************)
(* The place p is one for a call of operation op.                          *)
(***************************************************************************)
PlaceFits(p, op) ==
  /\ p \in Pcs \ Outside
  /\ p \in LegPcs => Legacy
  /\ p \in AdvPcs => Advanced
  /\ p \in BurstPcs \cup {"legacy_command", "legacy_go"} => op \in {"read", "write"}
  /\ p \in {"read", "write"} => op = p
  /\ p \in {"ctrl_read", "legacy_ctrl_read"} => op = "rctrl"
  /\ p \in {"ctrl_write", "legacy_ctrl"} => op = "wctrl"
  /\ p = "transact" => op = "jsp"

(***************************************************************************)
(* A step inside a call, to a place for that call, keeps what is known of  *)
(* the threads; the mutex stays where it is.                               *)
(***************************************************************************)
LEMMA ThreadsKept ==
  ASSUME AccessInv, NEW t \in Threads, th[t].pc \notin Outside,
         NEW p, NEW e, NEW d, NEW i \in Int, NEW b \in Nat, Moved(t, p, e, d, i, b),
         UNCHANGED <<build, mutex>>,
         PlaceFits(p, th[t].call.op),
         i = th[t].i \/ (Advanced /\ th[t].call.op \in {"read", "write"} /\ th[t].call.adr + i \in Addrs),
         b = th[t].bus \/ (Advanced /\ b <= MaxBusErrors + 1),
         p # "unlock" => b <= MaxBusErrors,
         Legacy /\ ~e /\ th[t].call.op \in {"read", "rctrl"} =>
           /\ p \in LegPcs => Len(d) = th[t].part
           /\ p = "unlock" /\ IsLoop(th[t].call) => Len(d) = th[t].part + 1
  PROVE  /\ MutexGivenBack'
         /\ \A u \in Threads : ThreadOK(u)' /\ DataOK(u)'
<1> USE AccessAssumption
<1>1. /\ Advanced' = Advanced /\ Legacy' = Legacy
      /\ \A c : IsLoop(c)' <=> IsLoop(c)
      /\ \A c : CallOK(c)' <=> CallOK(c)
  BY DEF Advanced, Legacy, IsLoop, CallOK
<1>2. ASSUME NEW u \in Threads, u # t PROVE ThreadOK(u)' /\ DataOK(u)'
  <2>1. th'[u] = th[u] /\ ThreadOK(u) /\ DataOK(u)
    BY <1>2 DEF Moved, AccessInv
  <2>2. ThreadOK(u)'
    BY <1>1, <2>1 DEF ThreadOK
  <2>3. DataOK(u)'
    BY <1>1, <2>1 DEF DataOK
  <2> QED BY <2>2, <2>3
<1>3. /\ ThreadOK(t) /\ th[t].pc # "idle" /\ th[t] \in ThreadRecs
      /\ p # "idle" /\ p # "lock"
  BY DEF AccessInv, TypeInv, Outside, PlaceFits
<1>4. /\ th[t].part <= Words /\ th[t].bus <= MaxBusErrors + 1 /\ th[t].i \in (-Words)..Words
      /\ CallOK(th[t].call) /\ th[t].call.op # "none"
      /\ th[t].call.op \in {"read", "write"} => th[t].call.len > 0
      /\ IF IsLoop(th[t].call) THEN th[t].part < th[t].call.len ELSE th[t].part = 0
      /\ Legacy => th[t].i = 0 /\ th[t].bus = 0
      /\ th[t].call.op \in {"read", "write"} => th[t].call.adr + th[t].i \in Addrs
  BY <1>3 DEF ThreadOK
<1>5. ~(Advanced /\ Legacy) /\ AdvPcs \cap LegPcs = {}
  BY DEF Advanced, Legacy, AdvPcs, BurstPcs, LegPcs
<1>6. i \in (-Words)..Words
  <2>1. CASE i = th[t].i
    BY <1>4, <2>1
  <2>2. CASE th[t].call.op \in {"read", "write"} /\ th[t].call.adr + i \in Addrs
    <3>1. th[t].call.adr \in Addrs /\ th[t].call.adr \in Nat
      BY <1>3, <1>4, <2>2 DEF CallOK, ThreadRecs, CallRecs
    <3> DEFINE a == th[t].call.adr
    <3>2. a \in 0..(Words - 1) /\ a + i \in 0..(Words - 1) /\ Words \in Nat
      BY <2>2, <3>1 DEF Addrs
    <3> HIDE DEF a
    <3> QED BY ONLY <3>2, i \in Int
  <2>3. \/ i = th[t].i
        \/ th[t].call.op \in {"read", "write"} /\ th[t].call.adr + i \in Addrs
    OBVIOUS
  <2> QED BY <2>1, <2>2, <2>3
<1>7. th'[t].pc = p /\ th'[t].err = e /\ th'[t].data = d /\ th'[t].i = i /\ th'[t].bus = b
      /\ th'[t].call = th[t].call /\ th'[t].part = th[t].part
  BY DEF Moved
<1>8. ThreadOK(t)'
  <2>1. Legacy => i = 0 /\ b = 0 /\ p \notin AdvPcs
    BY <1>4, <1>5 DEF PlaceFits
  <2>2. Advanced => p \notin LegPcs
    BY <1>5 DEF PlaceFits
  <2>3. b <= MaxBusErrors + 1
    BY <1>4
  <2>4. th[t].call.op \in {"read", "write"} => th[t].call.adr + i \in Addrs
    BY <1>4
  <2> QED BY <1>1, <1>3, <1>4, <1>6, <1>7, <2>1, <2>2, <2>3, <2>4 DEF ThreadOK, PlaceFits
<1>9. DataOK(t)'
  BY <1>1, <1>3, <1>7 DEF DataOK
<1>10. MutexGivenBack'
  <2>1. \A u \in Threads : (th'[u].pc \notin {"idle", "lock"}) <=> (th[u].pc \notin {"idle", "lock"})
    BY <1>3, <1>7 DEF Moved, Outside
  <2> QED BY <2>1 DEF MutexGivenBack, AccessInv
<1> QED BY <1>2, <1>8, <1>9, <1>10

-----------------------------------------------------------------------------
(***************************************************************************)
(* What the steps inside a call can change besides the thread: its type.   *)
(***************************************************************************)
WorldOK ==
  /\ current_chain \in Modules \cup {NoModule}
  /\ desired_chain \in Modules \cup {NoModule}
  /\ unit \in UnitRecs
  /\ mem \in [Memories -> [Addrs -> WordValues]]
  /\ faults \in 0..MaxFaults
  /\ exited \in BOOLEAN

(***************************************************************************)
(* Where a thread inside a call is, its call belongs there.                *)
(***************************************************************************)
LEMMA InsideFacts ==
  ASSUME AccessInv, NEW t \in Threads, th[t].pc \notin Outside
  PROVE  /\ PlaceFits(th[t].pc, th[t].call.op)
         /\ th[t] \in ThreadRecs /\ mutex = t
         /\ \A u \in Threads : u # t => th[u].pc \in Outside
<1>1. ThreadOK(t) /\ TypeInv /\ MutexGivenBack
  BY DEF AccessInv
<1>2. th[t] \in ThreadRecs /\ th[t].pc \in Pcs \ Outside
  BY <1>1 DEF TypeInv, ThreadRecs
<1>3. Advanced \/ Legacy
  BY <1>1, AccessAssumption DEF TypeInv, Advanced, Legacy
<1>4. mutex = t /\ \A u \in Threads : u # t => th[u].pc \in Outside
  BY <1>1 DEF MutexGivenBack, Outside
<1>5. th[t].pc # "idle"
  BY DEF Outside
<1> QED BY <1>1, <1>2, <1>3, <1>4, <1>5 DEF ThreadOK, PlaceFits

(***************************************************************************)
(* A step of an advanced command, to a place for the call.                 *)
(***************************************************************************)
LEMMA AdvancedStep ==
  ASSUME AccessInv, NEW t \in Threads, th[t].pc \in AdvPcs,
         NEW p, NEW e, NEW d, Moved(t, p, e, d, th[t].i, th[t].bus),
         PlaceFits(p, th[t].call.op), UNCHANGED <<build, mutex, calls>>, WorldOK', TapInv'
  PROVE  AccessInv'
<1>1. /\ th[t].pc \notin Outside /\ th[t].pc # "unlock" /\ th[t].pc # "idle"
      /\ ThreadOK(t) /\ th[t].i \in Int /\ th[t].bus \in Nat
  BY DEF AdvPcs, BurstPcs, Outside, AccessInv, TypeInv, ThreadRecs
<1>2. Advanced /\ ~Legacy
  BY <1>1, InsideFacts DEF PlaceFits, Advanced, Legacy
<1>3. th[t].bus <= MaxBusErrors
  BY <1>1 DEF ThreadOK
<1>4. MutexGivenBack' /\ \A u \in Threads : ThreadOK(u)' /\ DataOK(u)'
  BY <1>1, <1>2, <1>3, ThreadsKept
<1>5. TypeInv'
  BY DEF AccessInv, TypeInv, WorldOK, Moved
<1>6. ChainInv'
  BY <1>2 DEF ChainInv, Legacy
<1> QED BY <1>4, <1>5, <1>6 DEF AccessInv

(***************************************************************************)
(* A step of a legacy command, to a place for the call.                    *)
(***************************************************************************)
LEMMA LegacyStep ==
  ASSUME AccessInv, NEW t \in Threads, th[t].pc \in LegPcs,
         NEW p, NEW e, NEW d, Moved(t, p, e, d, th[t].i, th[t].bus),
         PlaceFits(p, th[t].call.op), UNCHANGED <<build, mutex, calls>>, WorldOK', TapInv',
         current_chain' \in {NoModule, unit'.sel},
         p \in LegPcs \ {"set_chain"} => current_chain' = th[t].call.mod,
         p = "legacy_go" /\ IsLoop(th[t].call) => unit'.burst.len = 1,
         ~e /\ th[t].call.op \in {"read", "rctrl"} =>
           /\ p \in LegPcs => Len(d) = th[t].part
           /\ p = "unlock" /\ IsLoop(th[t].call) => Len(d) = th[t].part + 1
  PROVE  AccessInv'
<1>1. /\ th[t].pc \notin Outside /\ th[t].pc # "unlock" /\ th[t].pc # "idle"
      /\ ThreadOK(t) /\ th[t].i \in Int /\ th[t].bus \in Nat
  BY DEF LegPcs, Outside, AccessInv, TypeInv, ThreadRecs
<1>2. th[t].bus <= MaxBusErrors
  BY <1>1 DEF ThreadOK
<1>3. MutexGivenBack' /\ \A u \in Threads : ThreadOK(u)' /\ DataOK(u)'
  BY <1>1, <1>2, ThreadsKept
<1>4. TypeInv'
  BY DEF AccessInv, TypeInv, WorldOK, Moved
<1>5. ChainInv'
  <2>1. \A u \in Threads : u # t => th'[u].pc \notin LegPcs
    BY <1>1, InsideFacts DEF Moved, Outside, LegPcs
  <2>2. /\ th'[t].pc \in LegPcs \ {"set_chain"} => current_chain' = th'[t].call.mod
        /\ th'[t].pc = "legacy_go" /\ IsLoop(th[t].call) => unit'.burst.len = 1
        /\ th'[t].call = th[t].call
    BY DEF Moved
  <2>3. IsLoop(th[t].call)' <=> IsLoop(th[t].call)
    BY <2>2 DEF IsLoop, Legacy
  <2>4. "legacy_go" \in LegPcs
    BY DEF LegPcs
  <2> QED BY <2>1, <2>2, <2>3, <2>4 DEF ChainInv
<1> QED BY <1>3, <1>4, <1>5 DEF AccessInv

(***************************************************************************)
(* The debug unit after a scan, field by field.                            *)
(***************************************************************************)
LEMMA UnitFacts ==
  ASSUME unit \in UnitRecs
  PROVE  /\ /\ Transferred \in UnitRecs /\ Transferred.sel = unit.sel
            /\ Transferred.burst = NoBurst /\ Transferred.wberr = unit.wberr
            /\ Transferred.ctrl = unit.ctrl
         /\ \A m \in Modules :
              LET u == [Transferred EXCEPT !.sel = m]
              IN u \in UnitRecs /\ u.sel = m
         /\ \A m \in Modules :
              LET u == [unit EXCEPT !.sel = m]
              IN u \in UnitRecs /\ u.sel = m
         /\ \A b \in [op : {"none", "read", "write"}, adr : Int, len : Nat] :
              LET u == [unit EXCEPT !.burst = b]
              IN u \in UnitRecs /\ u.sel = unit.sel /\ u.burst = b
         /\ LET u == [unit EXCEPT !.wberr = NoAddr]
            IN u \in UnitRecs /\ u.sel = unit.sel
<1>1. NoBurst \in [op : {"none", "read", "write"}, adr : Int, len : Nat]
  BY DEF NoBurst
<1> HIDE DEF NoBurst
<1>2. /\ Transferred \in UnitRecs /\ Transferred.sel = unit.sel
      /\ Transferred.burst = NoBurst /\ Transferred.wberr = unit.wberr
      /\ Transferred.ctrl = unit.ctrl
  BY <1>1 DEF Transferred, UnitRecs
<1>3. \A m \in Modules :
        LET u == [Transferred EXCEPT !.sel = m]
        IN u \in UnitRecs /\ u.sel = m
  BY <1>2 DEF UnitRecs
<1>4. \A m \in Modules :
        LET u == [unit EXCEPT !.sel = m]
        IN u \in UnitRecs /\ u.sel = m
  BY DEF UnitRecs
<1>5. \A b \in [op : {"none", "read", "write"}, adr : Int, len : Nat] :
        LET u == [unit EXCEPT !.burst = b]
        IN u \in UnitRecs /\ u.sel = unit.sel /\ u.burst = b
  BY DEF UnitRecs
<1>6. LET u == [unit EXCEPT !.wberr = NoAddr]
      IN u \in UnitRecs /\ u.sel = unit.sel
  BY DEF UnitRecs
<1> QED BY <1>2, <1>3, <1>4, <1>5, <1>6

(***************************************************************************)
(* A bus error at a word of the burst is latched at that word's address,   *)
(* or an earlier one's stays.                                              *)
(***************************************************************************)
LEMMA LatchedFacts ==
  ASSUME unit \in UnitRecs, NEW k \in 1..Words, CanFail(k)
  PROVE  /\ Latched(k) \in UnitRecs /\ Latched(k).sel = unit.sel /\ Latched(k).burst = NoBurst
         /\ Latched(k).wberr # NoAddr
<1> DEFINE a == IF Transferred.wberr = NoAddr THEN unit.burst.adr + k - 1 ELSE Transferred.wberr
<1>1. /\ Transferred \in UnitRecs /\ Transferred.sel = unit.sel /\ Transferred.burst = NoBurst
      /\ Transferred.wberr = unit.wberr /\ unit.wberr \in Addrs \cup {NoAddr}
  BY UnitFacts DEF UnitRecs
<1>2. a \in Addrs /\ a # NoAddr
  BY <1>1, AccessAssumption DEF CanFail, Addrs, NoAddr
<1>3. Latched(k) = [Transferred EXCEPT !.wberr = a]
  BY DEF Latched
<1> HIDE DEF a
<1> QED BY <1>1, <1>2, <1>3 DEF UnitRecs

(***************************************************************************)
(* What a burst reads and what it stores are words.                        *)
(***************************************************************************)
LEMMA BurstWordsType ==
  ASSUME TypeInv
  PROVE  /\ BurstWords \in Seq(WordValues) /\ Len(BurstWords) = unit.burst.len
         /\ DOMAIN BurstWords = 1..unit.burst.len
<1>1. unit.burst.len \in Nat
  BY DEF TypeInv, UnitRecs
<1>2. \A m, a : UnitWord(m, a) \in WordValues
  BY DEF UnitWord, TypeInv, WordValues
<1> DEFINE n == unit.burst.len
<1>3. BurstWords \in [1..n -> WordValues]
  BY <1>2 DEF BurstWords
<1> HIDE DEF n
<1>4. BurstWords \in Seq(WordValues) /\ Len(BurstWords) = n /\ DOMAIN BurstWords = 1..n
  BY <1>1, <1>3 DEF n
<1> QED BY <1>4 DEF n

LEMMA StoredType ==
  ASSUME TypeInv, NEW s \in Seq(WordValues), NEW lost
  PROVE  Stored(s, lost) \in [Memories -> [Addrs -> WordValues]]
<1> DEFINE first == unit.burst.adr
           Word(a) == IF a - first + 1 \in DOMAIN s THEN s[a - first + 1] ELSE Garbage
           taken == {a \in first..(first + unit.burst.len - 1) : a - first <= Len(s)} \ lost
           new == [a \in Addrs |-> IF a \in taken THEN Word(a) ELSE mem[unit.sel][a]]
<1>1. mem \in [Memories -> [Addrs -> WordValues]]
  BY DEF TypeInv
<1>2. Garbage \in WordValues
  BY DEF WordValues
<1>3. \A j \in DOMAIN s : s[j] \in WordValues
  OBVIOUS
<1>4. \A a : Word(a) \in WordValues
  BY <1>2, <1>3
<1>5. CASE unit.sel \in Memories
  <2>1. Stored(s, lost) = [mem EXCEPT ![unit.sel] = new]
    BY <1>1, <1>5 DEF Stored
  <2> HIDE DEF taken, Word
  <2>2. new \in [Addrs -> WordValues]
    BY <1>1, <1>4, <1>5
  <2> HIDE DEF new
  <2> QED BY <1>1, <2>1, <2>2
<1>6. CASE unit.sel \notin Memories
  BY <1>1, <1>6 DEF Stored
<1> QED BY <1>5, <1>6

-----------------------------------------------------------------------------
(***************************************************************************)
(* A call, the mutex, and the target's serial port.                        *)
(***************************************************************************)
LEMMA FaultCounts ==
  ASSUME WorldOK, NEW k, Fault(k)
  PROVE  faults' \in 0..MaxFaults /\ faults' # faults
BY AccessAssumption DEF WorldOK, Fault

LEMMA WorldOfInv ==
  ASSUME AccessInv
  PROVE  WorldOK
BY DEF AccessInv, TypeInv, WorldOK

LEMMA CallKeeps ==
  ASSUME AccessInv, NEW t \in Threads, NEW c \in Calls(t, build), Call(t, c)
  PROVE  AccessInv'
<1> USE AccessAssumption
<1> DEFINE r == [pc |-> IF c.len = 0 /\ c.mod = "wb" THEN "idle" ELSE "lock", call |-> c,
                 part |-> 0, i |-> 0, bus |-> 0, err |-> FALSE, data |-> << >>, sound |-> TRUE]
<1>1. c \in CallRecs /\ CallOK(c) /\ c.op # "none" /\ TypeInv
  BY CallFacts DEF AccessInv
<1>2. th' = [th EXCEPT ![t] = r] /\ th \in [Threads -> ThreadRecs] /\ th[t].pc = "idle"
  BY <1>1 DEF Call, At, TypeInv
<1>3. << >> \in Seq(DataValues)
  OBVIOUS
<1>4. /\ r \in ThreadRecs /\ r.call = c /\ r.part = 0 /\ r.i = 0 /\ r.bus = 0 /\ r.data = << >>
      /\ r.pc \in Outside
      /\ r.pc # "idle" /\ c.op \in {"read", "write"} => c.len > 0
  <2>1. r.pc \in Pcs /\ r.pc \in Outside
    BY DEF Pcs, Outside
  <2>2. c.op \in {"read", "write"} /\ c.len = 0 => c.mod = "wb"
    BY <1>1 DEF CallOK, CallRecs
  <2>3. c.len \in Nat
    BY <1>1 DEF CallRecs
  <2>4. r.pc # "idle" /\ c.op \in {"read", "write"} => c.len > 0
    BY <2>2, <2>3
  <2> QED BY <1>1, <1>3, <2>1, <2>4 DEF ThreadRecs
<1> HIDE DEF r
<1>5. /\ th' \in [Threads -> ThreadRecs] /\ th'[t] = r
      /\ \A u \in Threads : u # t => th'[u] = th[u]
  BY <1>2, <1>4
<1>6. /\ UNCHANGED <<build, mutex, current_chain, desired_chain, tap, ir, unit, mem, faults, exited>>
      /\ calls \in 0..MaxCalls /\ calls < MaxCalls /\ calls' = calls + 1
  BY <1>1 DEF Call, sw, hw, TypeInv
<1>7. TypeInv'
  <2>1. calls' \in 0..MaxCalls
    BY <1>6
  <2> QED BY <1>1, <1>5, <1>6, <2>1 DEF TypeInv
<1>8. TapInv'
  BY <1>6 DEF AccessInv, TapInv, Advanced
<1>9. ChainInv'
  <2>1. \A u \in Threads : th'[u].pc \in LegPcs => th'[u] = th[u]
    BY <1>4, <1>5 DEF LegPcs, Outside
  <2> QED BY <1>6, <2>1 DEF AccessInv, ChainInv, Legacy, IsLoop, LegPcs
<1>10. MutexGivenBack'
  <2>1. th'[t].pc \in {"idle", "lock"}
    BY <1>4, <1>5 DEF Outside
  <2> QED BY <1>2, <1>5, <1>6, <2>1 DEF AccessInv, MutexGivenBack
<1>11. /\ Advanced' = Advanced /\ Legacy' = Legacy
       /\ \A x : IsLoop(x)' <=> IsLoop(x)
       /\ \A x : CallOK(x)' <=> CallOK(x)
  BY <1>6 DEF Advanced, Legacy, IsLoop, CallOK
<1>12. ASSUME NEW u \in Threads PROVE ThreadOK(u)' /\ DataOK(u)'
  <2>1. CASE u # t
    <3>1. th'[u] = th[u] /\ ThreadOK(u) /\ DataOK(u)
      BY <1>5, <2>1 DEF AccessInv
    <3> QED BY <1>11, <3>1 DEF ThreadOK, DataOK
  <2>2. CASE u = t
    <3>1. ThreadOK(t)'
      <4>1. IsLoop(c) => 0 < c.len
        BY <1>1 DEF IsLoop, CallRecs
      <4>2. c.op \in {"read", "write"} => c.adr \in Addrs /\ c.adr + 0 \in Addrs
        BY <1>1 DEF CallOK, Addrs
      <4>3. 0 \in (-Words)..Words /\ 0 <= Words /\ 0 <= MaxBusErrors + 1 /\ 0 <= MaxBusErrors
        OBVIOUS
      <4>4. r.pc \notin AdvPcs \cup LegPcs \cup {"unlock"}
        BY <1>4 DEF Outside, AdvPcs, BurstPcs, LegPcs
      <4> QED BY <1>1, <1>4, <1>5, <1>11, <4>1, <4>2, <4>3, <4>4 DEF ThreadOK, AdvPcs, LegPcs, BurstPcs
    <3>2. DataOK(t)'
      BY <1>4, <1>5 DEF DataOK, Outside, LegPcs
    <3> QED BY <2>2, <3>1, <3>2
  <2> QED BY <2>1, <2>2
<1> QED BY <1>7, <1>8, <1>9, <1>10, <1>12 DEF AccessInv

(***************************************************************************)
(* A step that goes in or out of a call and touches nothing but the thread *)
(* and the mutex.                                                          *)
(***************************************************************************)
LEMMA MutexStep ==
  ASSUME AccessInv, NEW t \in Threads, NEW r \in ThreadRecs, th' = [th EXCEPT ![t] = r],
         UNCHANGED <<build, current_chain, desired_chain, tap, ir, unit, mem, faults, calls, exited>>,
         mutex' \in Threads \cup {NoThread},
         r.call = th[t].call, r.pc \notin LegPcs \ {"set_chain"}, MutexGivenBack',
         ThreadOK(t)', DataOK(t)'
  PROVE  AccessInv'
<1>1. /\ th' \in [Threads -> ThreadRecs] /\ th'[t] = r
      /\ \A u \in Threads : u # t => th'[u] = th[u]
  BY DEF AccessInv, TypeInv
<1>2. TypeInv'
  BY <1>1 DEF AccessInv, TypeInv
<1>3. TapInv'
  BY DEF AccessInv, TapInv, Advanced
<1>4. ChainInv'
  BY <1>1 DEF AccessInv, ChainInv, Legacy, IsLoop, LegPcs
<1>5. /\ Advanced' = Advanced /\ Legacy' = Legacy
      /\ \A x : IsLoop(x)' <=> IsLoop(x)
      /\ \A x : CallOK(x)' <=> CallOK(x)
  BY DEF Advanced, Legacy, IsLoop, CallOK
<1>6. ASSUME NEW u \in Threads PROVE ThreadOK(u)' /\ DataOK(u)'
  <2>1. CASE u # t
    <3>1. th'[u] = th[u] /\ ThreadOK(u) /\ DataOK(u)
      BY <1>1, <2>1 DEF AccessInv
    <3> QED BY <1>5, <3>1 DEF ThreadOK, DataOK
  <2>2. CASE u = t
    BY <2>2
  <2> QED BY <2>1, <2>2
<1> QED BY <1>2, <1>3, <1>4, <1>6 DEF AccessInv

LEMMA LockKeeps ==
  ASSUME AccessInv, NEW t \in Threads, Lock(t)
  PROVE  AccessInv'
<1> USE AccessAssumption
<1> DEFINE p == IF Advanced THEN "select" ELSE "set_chain"
           r == [th[t] EXCEPT !.pc = p, !.sound = Sound]
<1>1. /\ TypeInv /\ th[t] \in ThreadRecs /\ th \in [Threads -> ThreadRecs]
      /\ th[t].pc = "lock" /\ mutex = NoThread /\ mutex' = t
      /\ UNCHANGED <<build, current_chain, desired_chain, tap, ir, unit, mem, faults, calls, exited>>
  BY DEF Lock, At, AccessInv, TypeInv, sw, hw
<1>2. th' = [th EXCEPT ![t] = r]
  BY <1>1 DEF Lock
<1>3. p \in Pcs /\ p \notin {"idle", "lock"} /\ p \notin LegPcs \ {"set_chain"}
  BY DEF Pcs, AdvPcs, LegPcs
<1>4. Sound \in BOOLEAN
  BY DEF Sound
<1>5. /\ r \in ThreadRecs /\ r.pc = p /\ r.call = th[t].call /\ r.part = th[t].part /\ r.i = th[t].i
      /\ r.bus = th[t].bus /\ r.err = th[t].err /\ r.data = th[t].data
  BY <1>1, <1>3, <1>4 DEF ThreadRecs
<1>6. \/ p = "select" /\ Advanced /\ ~Legacy
      \/ p = "set_chain" /\ Legacy /\ ~Advanced
  BY <1>1 DEF TypeInv, Advanced, Legacy
<1> HIDE DEF r, p
<1>7. th'[t] = r /\ \A u \in Threads : u # t => th'[u] = th[u]
  BY <1>1, <1>2
<1>8. /\ Advanced' = Advanced /\ Legacy' = Legacy
      /\ \A x : IsLoop(x)' <=> IsLoop(x)
      /\ \A x : CallOK(x)' <=> CallOK(x)
  BY <1>1 DEF Advanced, Legacy, IsLoop, CallOK
<1>9. MutexGivenBack'
  <2>1. \A u \in Threads : u # t => th[u].pc \in {"idle", "lock"}
    BY <1>1 DEF AccessInv, MutexGivenBack, NoThread
  <2> QED BY <1>1, <1>3, <1>5, <1>7, <2>1 DEF MutexGivenBack
<1>10. ThreadOK(t)'
  <2>1. ThreadOK(t)
    BY DEF AccessInv
  <2>2. p = "select" => p \in AdvPcs /\ p \notin LegPcs
    BY DEF AdvPcs, LegPcs
  <2>3. p = "set_chain" => p \notin AdvPcs /\ p \in LegPcs
    BY DEF AdvPcs, BurstPcs, LegPcs
  <2>4. p \notin BurstPcs
    BY <1>6 DEF BurstPcs
  <2> QED BY <1>1, <1>5, <1>6, <1>7, <1>8, <2>1, <2>2, <2>3, <2>4 DEF ThreadOK
<1>11. DataOK(t)'
  <2>1. DataOK(t)
    BY DEF AccessInv
  <2> QED BY <1>1, <1>5, <1>6, <1>7, <1>8, <2>1 DEF DataOK
<1> QED BY <1>1, <1>2, <1>3, <1>5, <1>9, <1>10, <1>11, MutexStep

LEMMA UnlockKeeps ==
  ASSUME AccessInv, NEW t \in Threads, Unlock(t)
  PROVE  AccessInv'
<1> USE AccessAssumption
<1> DEFINE more == IsLoop(th[t].call) /\ th[t].part + 1 < th[t].call.len
           p == IF more THEN "lock" ELSE "idle"
           n == IF more THEN th[t].part + 1 ELSE th[t].part
           r == [th[t] EXCEPT !.pc = p, !.part = n]
<1>1. /\ TypeInv /\ th[t] \in ThreadRecs /\ th \in [Threads -> ThreadRecs] /\ ThreadOK(t) /\ DataOK(t)
      /\ th[t].pc = "unlock" /\ mutex' = NoThread
      /\ UNCHANGED <<build, current_chain, desired_chain, tap, ir, unit, mem, faults, calls, exited>>
  BY DEF Unlock, At, AccessInv, TypeInv, sw, hw
<1>2. th' = [th EXCEPT ![t] = r]
  BY <1>1 DEF Unlock
<1>3. /\ th[t].part \in Nat /\ th[t].call.len \in Nat /\ th[t].call.adr \in Nat
      /\ th[t].part <= Words /\ CallOK(th[t].call)
      /\ th[t].bus \in Nat /\ th[t].bus <= MaxBusErrors + 1
  BY <1>1 DEF ThreadRecs, CallRecs, ThreadOK
<1>4. /\ n \in Nat /\ p \in {"lock", "idle"} /\ p \in Pcs
      /\ p = "lock" => more
      /\ more => IsLoop(th[t].call) /\ n < th[t].call.len /\ n = th[t].part + 1
      /\ ~more => n = th[t].part
  BY <1>3 DEF Pcs, Outside
<1>5. n <= Words
  <2>1. CASE more
    <3>1. th[t].call.len <= Words
      <4>1. th[t].call.op \in {"read", "write"}
        BY <2>1 DEF IsLoop
      <4> QED BY <1>3, <4>1 DEF CallOK
    <3> QED BY <1>3, <1>4, <2>1, <3>1
  <2>2. CASE ~more
    BY <1>3, <1>4, <2>2
  <2> QED BY <2>1, <2>2
<1>6. more => Legacy
  BY DEF IsLoop
<1> HIDE DEF n, p, more
<1>7. /\ r \in ThreadRecs /\ r.pc = p /\ r.call = th[t].call /\ r.part = n /\ r.i = th[t].i
      /\ r.bus = th[t].bus /\ r.err = th[t].err /\ r.data = th[t].data
  BY <1>1, <1>4 DEF ThreadRecs
<1> HIDE DEF r
<1>8. th'[t] = r /\ \A u \in Threads : u # t => th'[u] = th[u]
  BY <1>1, <1>2
<1>9. /\ Advanced' = Advanced /\ Legacy' = Legacy
      /\ \A x : IsLoop(x)' <=> IsLoop(x)
      /\ \A x : CallOK(x)' <=> CallOK(x)
  BY <1>1 DEF Advanced, Legacy, IsLoop, CallOK
<1>10. MutexGivenBack'
  <2>1. mutex = t /\ \A u \in Threads : u # t => th[u].pc \in {"idle", "lock"}
    BY <1>1 DEF AccessInv, MutexGivenBack
  <2>2. \A u \in Threads : th'[u].pc \in {"idle", "lock"}
    BY <1>4, <1>7, <1>8, <2>1
  <2> QED BY <1>1, <2>2 DEF MutexGivenBack, NoThread
<1>11. p \notin AdvPcs \cup LegPcs \cup BurstPcs \cup {"unlock"}
  BY <1>4 DEF AdvPcs, BurstPcs, LegPcs
<1>12. ThreadOK(t)'
  <2>1. /\ th[t].i \in (-Words)..Words /\ th[t].call.op # "none"
        /\ th[t].call.op \in {"read", "write"} => th[t].call.len > 0 /\ th[t].call.adr + th[t].i \in Addrs
        /\ Legacy => th[t].i = 0 /\ th[t].bus = 0
    BY <1>1 DEF ThreadOK
  <2>2. p # "idle" => Legacy /\ IsLoop(th[t].call) /\ n < th[t].call.len
    BY <1>4, <1>6
  <2>3. p # "idle" => th[t].bus <= MaxBusErrors
    BY <2>1, <2>2
  <2>4. ~(Legacy /\ Advanced)
    BY DEF Advanced, Legacy
  <2> QED BY <1>3, <1>5, <1>7, <1>8, <1>9, <1>11, <2>1, <2>2, <2>3, <2>4 DEF ThreadOK, LegPcs, BurstPcs, AdvPcs
<1>13. DataOK(t)'
  <2>1. Legacy /\ ~th[t].err /\ th[t].call.op \in {"read", "rctrl"} /\ IsLoop(th[t].call) => Len(th[t].data) = th[t].part + 1
    BY <1>1 DEF DataOK
  <2> QED BY <1>4, <1>7, <1>8, <1>9, <1>11, <2>1 DEF DataOK
<1> QED BY <1>1, <1>2, <1>7, <1>10, <1>11, <1>12, <1>13, MutexStep

LEMMA SerialKeeps ==
  ASSUME AccessInv, TargetSerial
  PROVE  /\ AccessInv' /\ unit'.sel = unit.sel /\ unit'.burst = unit.burst
         /\ UNCHANGED <<build, th, current_chain, tap, exited>>
<1> USE AccessAssumption
<1>1. PICK r \in unit.room..JspMax, a \in unit.avail..JspMax :
             /\ <<r, a>> # <<unit.room, unit.avail>>
             /\ unit' = [unit EXCEPT !.room = r, !.avail = a]
  BY DEF TargetSerial
<1>2. UNCHANGED <<build, mutex, th, current_chain, desired_chain, tap, ir, mem, faults, calls, exited>>
  BY DEF TargetSerial, sw
<1>3. unit \in UnitRecs /\ unit.room \in 0..JspMax /\ unit.avail \in 0..JspMax
  BY DEF AccessInv, TypeInv, UnitRecs
<1>4. r \in 0..JspMax /\ a \in 0..JspMax
  BY <1>3
<1>5. unit' \in UnitRecs /\ unit'.sel = unit.sel /\ unit'.burst = unit.burst
  BY <1>1, <1>3, <1>4 DEF UnitRecs
<1>6. TypeInv' /\ TapInv' /\ ChainInv' /\ MutexGivenBack'
  BY <1>2, <1>5 DEF AccessInv, TypeInv, TapInv, Advanced, ChainInv, Legacy, IsLoop, MutexGivenBack
<1>7. \A u \in Threads : ThreadOK(u)' /\ DataOK(u)'
  BY <1>2 DEF AccessInv, ThreadOK, DataOK, CallOK, IsLoop, Advanced, Legacy
<1> QED BY <1>2, <1>5, <1>6, <1>7 DEF AccessInv

-----------------------------------------------------------------------------
(***************************************************************************)
(* The steps of the advanced commands.  What a step does to the call's     *)
(* progress is stated with it: Kept(t) is the part of DoneInv for t.       *)
(***************************************************************************)
Kept(t) == BurstOK(t) /\ ProgressOK(t)

LEMMA PartSame ==
  ASSUME NEW t \in Threads, NEW p, NEW e, NEW d, NEW i, NEW b, Moved(t, p, e, d, i, b), build' = build
  PROVE  Part(t)' = Part(t) /\ Sent(t)' = Sent(t)
<1>1. th'[t].call = th[t].call /\ th'[t].part = th[t].part
  BY DEF Moved
<1>2. IsLoop(th[t].call)' <=> IsLoop(th[t].call)
  BY <1>1 DEF IsLoop, Legacy
<1>3. Part(t)' = Part(t)
  BY <1>1, <1>2 DEF Part
<1> QED BY <1>1, <1>2, <1>3 DEF Sent

LEMMA FailedKept ==
  ASSUME NEW t \in Threads, NEW d, NEW i, NEW b, Moved(t, "unlock", TRUE, d, i, b)
  PROVE  Kept(t)'
<1>1. th'[t].pc = "unlock" /\ th'[t].err
  BY DEF Moved
<1> QED BY <1>1 DEF Kept, BurstOK, ProgressOK

(***************************************************************************)
(* On the way to a scan that the call still has to make, it is enough that *)
(* the module is selected.                                                 *)
(***************************************************************************)
LEMMA OnTheWay ==
  ASSUME NEW t \in Threads, NEW p, NEW d, NEW i, NEW b, Moved(t, p, th[t].err, d, i, b),
         build' = build,
         p \in {"command", "ctrl_read", "ctrl_write", "transact",
                "legacy_command", "legacy_ctrl", "legacy_ctrl_read"},
         ~exited' /\ th[t].sound /\ ~th[t].err =>
           tap' = "IDLE" /\ current_chain' = Part(t).mod /\ unit'.sel = Part(t).mod
  PROVE  Kept(t)'
<1>1. th'[t].pc = p /\ th'[t].err = th[t].err /\ th'[t].sound = th[t].sound
  BY DEF Moved
<1>2. Part(t)' = Part(t)
  BY PartSame
<1>3. BurstOK(t)'
  BY <1>1 DEF BurstOK
<1>4. ProgressOK(t)'
  BY <1>1, <1>2 DEF ProgressOK, SelectedFor
<1> QED BY <1>3, <1>4 DEF Kept

(***************************************************************************)
(* What is known at a place of the advanced commands.                      *)
(***************************************************************************)
LEMMA AdvancedFacts ==
  ASSUME AccessInv, NEW t \in Threads, th[t].pc \in AdvPcs
  PROVE  /\ Advanced /\ ~Legacy /\ TypeInv /\ WorldOK /\ TapInv /\ ThreadOK(t)
         /\ th[t] \in ThreadRecs /\ th[t].pc \notin Outside /\ th[t].pc # "idle" /\ unit \in UnitRecs
         /\ Part(t) = th[t].call /\ Part(t) \in CallRecs /\ th[t].part = 0
         /\ Part(t).sel = Part(t).mod /\ Part(t).mod \in Modules
         /\ Part(t).op \in {"read", "write"} =>
              /\ Part(t).mod \in Memories /\ Part(t).len > 0
              /\ Part(t).adr \in Addrs /\ Part(t).adr + Part(t).len <= Words
         /\ Part(t).op \in {"rctrl", "wctrl"} => Part(t).mod \in {"cpu0", "cpu1"} /\ Part(t).adr \in {0, 1}
         /\ Part(t).op # "none"
         /\ PlaceFits(th[t].pc, Part(t).op)
<1>1. /\ TypeInv /\ WorldOK /\ TapInv /\ ThreadOK(t) /\ th[t].pc \notin Outside /\ th[t].pc # "idle"
      /\ unit \in UnitRecs
  BY WorldOfInv DEF AccessInv, AdvPcs, BurstPcs, Outside, TypeInv
<1>2. PlaceFits(th[t].pc, th[t].call.op) /\ th[t] \in ThreadRecs
  BY <1>1, InsideFacts
<1>3. Advanced /\ ~Legacy
  BY <1>2 DEF PlaceFits, Advanced, Legacy
<1>4. th[t].call.op # "none"
  BY <1>1 DEF ThreadOK
<1>5. Part(t) \in CallRecs => Part(t).mod \in Modules
  BY DEF CallRecs
<1>6. ~IsLoop(th[t].call)
  BY <1>3 DEF IsLoop
<1> QED BY <1>1, <1>2, <1>3, <1>4, <1>5, <1>6, PartFacts

LEMMA AfterSelectFits ==
  ASSUME Advanced, ~Legacy, NEW c \in CallRecs, c.op # "none"
  PROVE  /\ PlaceFits(AfterSelect(c), c.op)
         /\ AfterSelect(c) \in {"command", "ctrl_read", "ctrl_write", "transact"}
         /\ AfterSelect(c) \in Pcs
<1>1. CASE c.op \in {"read", "write"}
  <2>1. AfterSelect(c) = "command"
    BY <1>1 DEF AfterSelect
  <2> QED BY <1>1, <2>1 DEF PlaceFits, Pcs, AdvPcs, BurstPcs, LegPcs, Outside
<1>2. CASE c.op = "rctrl"
  <2>1. AfterSelect(c) = "ctrl_read"
    BY <1>2 DEF AfterSelect
  <2> QED BY <1>2, <2>1 DEF PlaceFits, Pcs, AdvPcs, BurstPcs, LegPcs, Outside
<1>3. CASE c.op = "wctrl"
  <2>1. AfterSelect(c) = "ctrl_write"
    BY <1>3 DEF AfterSelect
  <2> QED BY <1>3, <2>1 DEF PlaceFits, Pcs, AdvPcs, BurstPcs, LegPcs, Outside
<1>4. CASE c.op = "jsp"
  <2>1. AfterSelect(c) = "transact"
    BY <1>4 DEF AfterSelect
  <2> QED BY <1>4, <2>1 DEF PlaceFits, Pcs, AdvPcs, BurstPcs, LegPcs, Outside
<1> QED BY <1>1, <1>2, <1>3, <1>4 DEF CallRecs

LEMMA UnlockFits ==
  ASSUME NEW op
  PROVE  PlaceFits("unlock", op) /\ "unlock" \in Pcs
BY DEF PlaceFits, Pcs, AdvPcs, BurstPcs, LegPcs, Outside

(***************************************************************************)
(* A step of an advanced command that fails.                               *)
(***************************************************************************)
LEMMA AdvancedFails ==
  ASSUME AccessInv, NEW t \in Threads, th[t].pc \in AdvPcs, Fails(t),
         UNCHANGED <<build, mutex, calls>>, WorldOK', TapInv'
  PROVE  AccessInv' /\ Kept(t)' /\ \A u \in Threads : u # t => th'[u] = th[u]
<1>1. Moved(t, "unlock", TRUE, th[t].data, th[t].i, th[t].bus)
  BY AdvancedFacts, FailsMoves
<1>2. \A u \in Threads : u # t => th'[u] = th[u]
  BY <1>1 DEF Moved
<1> QED BY <1>1, <1>2, UnlockFits, AdvancedStep, FailedKept

LEMMA SelectKeeps ==
  ASSUME AccessInv, NEW t \in Threads, adbg_select_module(t)
  PROVE  /\ AccessInv' /\ \A u \in Threads : u # t => th'[u] = th[u]
         /\ Kept(t) => Kept(t)'
<1> DEFINE m == Part(t).sel
           p == AfterSelect(Part(t))
<1>1. th[t].pc = "select" /\ UNCHANGED <<build, mutex, calls, exited>> /\ th[t].pc \in AdvPcs /\ ~exited
  BY DEF adbg_select_module, At, AdvPcs
<1>2. /\ TypeInv /\ WorldOK /\ TapInv /\ Advanced /\ unit \in UnitRecs /\ m \in Modules
      /\ m = Part(t).mod /\ PlaceFits(p, th[t].call.op) /\ p \in Pcs
      /\ p \in {"command", "ctrl_read", "ctrl_write", "transact"}
  BY <1>1, AdvancedFacts, AfterSelectFits
<1>3. m # NoModule
  BY <1>2 DEF Modules, Memories, NoModule
<1>4. Kept(t) /\ th[t].sound /\ ~th[t].err => tap = "IDLE" /\ current_chain \in {NoModule, unit.sel}
  BY <1>1 DEF Kept, ProgressOK, Sound
<1>5. CASE current_chain = m
  <2>1. Goto(t, p) /\ UNCHANGED <<current_chain, desired_chain, tap, ir, unit, mem, faults>>
    BY <1>5 DEF adbg_select_module, sw, hw
  <2>2. Stays(t, p)
    BY <1>2, <2>1, GotoMoves
  <2>3. WorldOK' /\ TapInv'
    BY <1>1, <1>2, <2>1 DEF WorldOK, TapInv, Advanced
  <2>4. AccessInv'
    BY <1>1, <1>2, <2>2, <2>3, AdvancedStep DEF Stays
  <2>5. Kept(t) => Kept(t)'
    <3> HAVE Kept(t)
    <3>1. th[t].sound /\ ~th[t].err =>
            tap' = "IDLE" /\ current_chain' = Part(t).mod /\ unit'.sel = Part(t).mod
      BY <1>2, <1>3, <1>4, <1>5, <2>1
    <3> QED BY <1>1, <1>2, <2>2, <3>1, OnTheWay DEF Stays
  <2> QED BY <2>2, <2>4, <2>5 DEF Stays, Moved
<1>6. CASE current_chain # m
  <2>1. /\ current_chain' = m /\ desired_chain' = m /\ ScanDone /\ UNCHANGED mem
        /\ \/ Selected(m) /\ Goto(t, p) /\ UNCHANGED faults
           \/ Fault("cable") /\ Fails(t) /\ (Selected(m) \/ unit' = Transferred)
    BY <1>6 DEF adbg_select_module
  <2>2. unit' \in UnitRecs
    BY <1>2, <2>1, UnitFacts DEF Selected
  <2>3. TapInv' /\ tap' = "IDLE"
    BY <1>1, <1>2, <2>1, AdvancedTap
  <2>4. faults' \in 0..MaxFaults
    BY <1>2, <2>1, FaultCounts DEF WorldOK
  <2>5. WorldOK'
    BY <1>1, <1>2, <2>1, <2>2, <2>4 DEF WorldOK
  <2>6. CASE Fails(t)
    BY <1>1, <2>3, <2>5, <2>6, AdvancedFails
  <2>7. CASE Selected(m) /\ Goto(t, p)
    <3>1. Stays(t, p)
      BY <1>2, <2>7, GotoMoves
    <3>2. AccessInv'
      BY <1>1, <1>2, <2>3, <2>5, <3>1, AdvancedStep DEF Stays
    <3>3. Kept(t) => Kept(t)'
      <4> HAVE Kept(t)
      <4>1. th[t].sound /\ ~th[t].err =>
              tap' = "IDLE" /\ current_chain' = Part(t).mod /\ unit'.sel = Part(t).mod
        <5> SUFFICES ASSUME th[t].sound, ~th[t].err
                     PROVE  tap' = "IDLE" /\ current_chain' = Part(t).mod /\ unit'.sel = Part(t).mod
          OBVIOUS
        <5>1. Reaches
          BY <1>2, <1>4, ScanFromIdle
        <5>2. unit' = [Transferred EXCEPT !.sel = m]
          BY <2>7, <5>1 DEF Selected
        <5>3. unit'.sel = m
          BY <1>2, <5>2, UnitFacts
        <5> QED BY <1>2, <2>1, <2>3, <5>3
      <4> QED BY <1>1, <1>2, <3>1, <4>1, OnTheWay DEF Stays
    <3> QED BY <3>1, <3>2, <3>3 DEF Stays, Moved
  <2> QED BY <2>1, <2>6, <2>7
<1> QED BY <1>5, <1>6

(***************************************************************************)
(* The burst asked for is of the call's length only if it starts at the    *)
(* call's address.                                                         *)
(***************************************************************************)
LEMMA BurstFacts ==
  ASSUME AccessInv, NEW t \in Threads, th[t].pc = "command", NEW b \in Burst(t)
  PROVE  /\ b \in [op : {"none", "read", "write"}, adr : Int, len : Nat]
         /\ b.op = Part(t).op
         /\ Words <= LengthField /\ b.len = Part(t).len => b.adr = Part(t).adr
<1> USE AccessAssumption
<1> DEFINE c == Part(t)
           i == th[t].i
           l == c.len
           a == c.adr
<1>1. /\ c \in CallRecs /\ c.op \in {"read", "write"} /\ a \in Addrs /\ i \in Int /\ a + i \in Addrs
      /\ l \in Nat
  <2>1. th[t].pc \in AdvPcs /\ th[t].pc \in BurstPcs /\ th[t].pc # "idle"
    BY DEF AdvPcs, BurstPcs
  <2>2. c.op \in {"read", "write"} /\ c = th[t].call /\ ThreadOK(t)
    BY <2>1, AdvancedFacts DEF PlaceFits
  <2>3. a + i \in Addrs
    BY <2>1, <2>2 DEF ThreadOK
  <2> QED BY <2>1, <2>2, <2>3, AdvancedFacts DEF ThreadRecs, CallRecs
<1>2. /\ b.op = c.op /\ b.len = (l - i) % LengthField
      /\ b.adr \in (IF l - i \in 0..(LengthField - 1) THEN {a + i} ELSE Addrs)
      /\ b = [op |-> b.op, adr |-> b.adr, len |-> b.len]
  BY DEF Burst
<1>3. a + i \in Int /\ Addrs \subseteq Int /\ (l - i) % LengthField \in 0..(LengthField - 1)
  BY <1>1 DEF Addrs
<1> HIDE DEF c, i, l, a
<1>4. b.adr \in Int /\ b.len \in Nat
  BY <1>2, <1>3
<1>5. b \in [op : {"none", "read", "write"}, adr : Int, len : Nat]
  BY <1>1, <1>2, <1>4
<1>6. ASSUME Words <= LengthField, b.len = l PROVE b.adr = a
  <2>1. i \in (1 - LengthField)..(LengthField - 1)
    BY <1>1, <1>6 DEF Addrs
  <2>2. i = 0
    BY <1>1, <1>2, <1>6, <2>1, FieldKeepsLength
  <2>3. l - i = l /\ l \in 0..(LengthField - 1)
    BY <1>1, <1>2, <1>3, <1>6, <2>2
  <2> QED BY <1>1, <1>2, <2>2, <2>3 DEF Addrs
<1> QED BY <1>2, <1>5, <1>6 DEF c, l, a

LEMMA CommandKeeps ==
  ASSUME AccessInv, NEW t \in Threads, adbg_burst_command(t)
  PROVE  /\ AccessInv' /\ \A u \in Threads : u # t => th'[u] = th[u]
         /\ Kept(t) /\ ~build.xilinx /\ Words <= LengthField => Kept(t)'
<1> DEFINE p == Part(t).op
<1>1. /\ th[t].pc = "command" /\ UNCHANGED <<build, mutex, desired_chain, mem, calls, exited>>
      /\ th[t].pc \in AdvPcs /\ ~exited /\ th[t].pc \in BurstPcs /\ ScanDone
      /\ current_chain' = IF build.xilinx /\ p = "read" THEN NoModule ELSE current_chain
      /\ \/ Goto(t, p) /\ UNCHANGED faults
         \/ Fault("cable") /\ Fails(t)
  BY DEF adbg_burst_command, At, AdvPcs, BurstPcs
<1>2. /\ TypeInv /\ WorldOK /\ TapInv /\ Advanced /\ ~Legacy /\ unit \in UnitRecs
      /\ p \in {"read", "write"} /\ p = th[t].call.op /\ Part(t).len > 0
  BY <1>1, AdvancedFacts DEF PlaceFits
<1>3. PICK b \in Burst(t) : unit' = IF Reaches /\ b.len > 0 THEN [unit EXCEPT !.burst = b] ELSE Transferred
  BY DEF adbg_burst_command
<1>4. /\ b \in [op : {"none", "read", "write"}, adr : Int, len : Nat] /\ b.op = p
      /\ Words <= LengthField /\ b.len = Part(t).len => b.adr = Part(t).adr
  BY <1>1, BurstFacts
<1>5. unit' \in UnitRecs /\ unit'.sel = unit.sel
  <2>1. CASE unit' = Transferred
    BY <1>2, <2>1, UnitFacts
  <2>2. CASE unit' = [unit EXCEPT !.burst = b]
    BY <1>2, <1>4, <2>2, UnitFacts
  <2> QED BY <1>3, <2>1, <2>2
<1>6. TapInv' /\ tap' = "IDLE"
  BY <1>1, <1>2, AdvancedTap
<1>7. WorldOK'
  <2>1. faults' \in 0..MaxFaults
    BY <1>1, <1>2, FaultCounts DEF WorldOK
  <2> QED BY <1>1, <1>2, <1>5, <2>1 DEF WorldOK
<1>8. CASE Fails(t)
  BY <1>1, <1>6, <1>7, <1>8, AdvancedFails
<1>9. CASE Goto(t, p)
  <2>1. PlaceFits(p, th[t].call.op) /\ p \in Pcs
    BY <1>2 DEF PlaceFits, Pcs, AdvPcs, BurstPcs, LegPcs, Outside
  <2>2. Stays(t, p)
    BY <1>2, <1>9, <2>1, GotoMoves
  <2>3. AccessInv'
    BY <1>1, <1>6, <1>7, <2>1, <2>2, AdvancedStep DEF Stays
  <2>4. Part(t)' = Part(t) /\ th'[t].pc = p /\ th'[t].err = th[t].err /\ th'[t].sound = th[t].sound
    BY <1>1, <2>2, PartSame DEF Stays, Moved
  <2>5. ASSUME Words <= LengthField PROVE BurstOK(t)'
    <3>1. ASSUME unit'.burst.op = p, unit'.burst.len = Part(t).len PROVE unit'.burst.adr = Part(t).adr
      <4>1. unit' # Transferred
        BY <1>2, <3>1, UnitFacts DEF NoBurst
      <4>2. unit' = [unit EXCEPT !.burst = b]
        BY <1>3, <4>1
      <4>3. unit'.burst = b
        BY <1>2, <1>4, <4>2, UnitFacts
      <4> QED BY <1>4, <2>5, <3>1, <4>3
    <3> QED BY <1>2, <2>4, <3>1 DEF BurstOK
  <2>6. ASSUME Kept(t), ~build.xilinx PROVE ProgressOK(t)'
    <3>1. ~exited /\ th[t].sound /\ ~th[t].err =>
            current_chain = Part(t).mod /\ unit.sel = Part(t).mod
      BY <1>1, <2>6 DEF Kept, ProgressOK, SelectedFor
    <3> QED BY <1>1, <1>2, <1>5, <1>6, <2>4, <2>6, <3>1 DEF ProgressOK, SelectedFor
  <2> QED BY <2>2, <2>3, <2>5, <2>6 DEF Stays, Moved, Kept
<1> QED BY <1>1, <1>8, <1>9

(***************************************************************************)
(* A read that does not find the debug unit in a burst gives up, in the    *)
(* middle of the scan or at its end.                                       *)
(***************************************************************************)
LEMMA NoBurstReadKeeps ==
  ASSUME AccessInv, NEW t \in Threads, BurstReadTimesOut(t) \/ BurstReadOfRegister(t)
  PROVE  AccessInv' /\ Kept(t)' /\ \A u \in Threads : u # t => th'[u] = th[u]
<1>1. /\ th[t].pc \in AdvPcs /\ Fails(t)
      /\ UNCHANGED <<build, mutex, current_chain, desired_chain, unit, mem, calls, exited>>
      /\ ScanDone \/ (tap' = AfterShiftDr(tap) /\ ir' = ir)
      /\ faults' = faults \/ Fault("timeout")
  BY DEF BurstReadTimesOut, BurstReadOfRegister, At, AdvPcs, BurstPcs, sw
<1>2. WorldOK /\ TapInv /\ Advanced
  BY <1>1, AdvancedFacts
<1>3. faults' \in 0..MaxFaults
  BY <1>1, <1>2, FaultCounts DEF WorldOK
<1>4. WorldOK' /\ TapInv'
  BY <1>1, <1>2, <1>3, AdvancedTap DEF WorldOK
<1> QED BY <1>1, <1>4, AdvancedFails

(***************************************************************************)
(* What it takes, after a step, for a call to have done what it was for.   *)
(***************************************************************************)
LEMMA DoneNext ==
  ASSUME NEW t \in Threads, Part(t)' = Part(t), Sent(t)' = Sent(t)
  PROVE  /\ /\ Part(t).op = "read"
            /\ \A k \in 1..Part(t).len :
                 th'[t].data[th'[t].part + k] = mem'[Part(t).mod][Part(t).adr + k - 1]
            => Done(t)'
         /\ /\ Part(t).op = "write"
            /\ \A k \in 1..Part(t).len : mem'[Part(t).mod][Part(t).adr + k - 1] = Sent(t)[k]
            => Done(t)'
         /\ Part(t).op = "rctrl" /\ th'[t].data = <<unit'.ctrl[Part(t).mod]>> => Done(t)'
         /\ Part(t).op = "wctrl" /\ unit'.ctrl[Part(t).mod] = Part(t).adr => Done(t)'
         /\ Part(t).op = "jsp" /\ th'[t].data[1] = th'[t].data[3] => Done(t)'
BY DEF Done

LEMMA DoneSame ==
  ASSUME NEW t \in Threads, Part(t)' = Part(t), Sent(t)' = Sent(t), mem' = mem, unit' = unit,
         th'[t].data = th[t].data, th'[t].part = th[t].part
  PROVE  Done(t)' <=> Done(t)
BY DEF Done

(***************************************************************************)
(* The last place of a burst: for the Wishbone, the error check.           *)
(***************************************************************************)
LEMMA AfterBurstFits ==
  ASSUME Advanced, ~Legacy, NEW op \in {"read", "write"}
  PROVE  /\ PlaceFits(AfterBurst, op) /\ AfterBurst \in Pcs
         /\ AfterBurst \in {"error_check", "unlock"}
         /\ current_chain = "wb" => AfterBurst = "error_check"
BY DEF AfterBurst, PlaceFits, Pcs, AdvPcs, BurstPcs, LegPcs, Outside

LEMMA BurstDone ==
  ASSUME NEW t \in Threads, NEW d, Moved(t, AfterBurst, th[t].err, d, th[t].i, th[t].bus),
         build' = build, current_chain' = current_chain, tap' = "IDLE", unit'.sel = unit.sel,
         Kept(t), ~exited, th[t].pc \in {"read", "write"},
         ~exited' /\ th[t].sound /\ ~th[t].err /\ SelectedFor(t) =>
           Done(t)' \/ (unit.sel = "wb" /\ unit'.wberr # NoAddr)
  PROVE  Kept(t)'
<1>1. th'[t].pc = AfterBurst /\ th'[t].err = th[t].err /\ th'[t].sound = th[t].sound
  BY DEF Moved
<1>2. Part(t)' = Part(t)
  BY PartSame
<1>3. AfterBurst \in {"error_check", "unlock"} /\ (current_chain = "wb" => AfterBurst = "error_check")
  BY DEF AfterBurst
<1>4. BurstOK(t)'
  BY <1>1, <1>3 DEF BurstOK
<1>5. ProgressOK(t)'
  <2> SUFFICES ASSUME ~exited', th[t].sound, ~th[t].err PROVE ProgressOK(t)'
    BY <1>1 DEF ProgressOK
  <2>1. SelectedFor(t)
    BY DEF Kept, ProgressOK, AdvPcs, BurstPcs
  <2>2. SelectedFor(t)' /\ Sound'
    BY <1>2, <2>1 DEF SelectedFor, Sound
  <2>3. Done(t)' \/ (AfterBurst = "error_check" /\ unit'.wberr # NoAddr)
    BY <1>3, <2>1 DEF SelectedFor
  <2> QED BY <1>1, <1>3, <2>2, <2>3 DEF ProgressOK
<1> QED BY <1>4, <1>5 DEF Kept

LEMMA ReadKeeps ==
  ASSUME AccessInv, NEW t \in Threads, adbg_wb_burst_read(t)
  PROVE  /\ AccessInv' /\ \A u \in Threads : u # t => th'[u] = th[u]
         /\ Kept(t) => Kept(t)'
<1> DEFINE Whole == unit' = Transferred /\ unit.burst.len = Part(t).len
                    /\ th' = [th EXCEPT ![t].pc = AfterBurst, ![t].data = BurstWords]
           Failed(k) == unit' = Latched(k) /\ CanFail(k)
                        /\ th' = [th EXCEPT ![t].pc = AfterBurst, ![t].data = [BurstWords EXCEPT ![k] = Garbage]]
<1>1. /\ th[t].pc = "read" /\ th[t].pc \in AdvPcs /\ ~exited /\ Bursting("read") /\ ScanDone
      /\ UNCHANGED <<build, mutex, current_chain, desired_chain, mem, calls, exited>>
  BY DEF adbg_wb_burst_read, At, AdvPcs, BurstPcs, sw
<1>2. /\ TypeInv /\ WorldOK /\ TapInv /\ Advanced /\ ~Legacy /\ unit \in UnitRecs
      /\ Part(t).op = "read" /\ th[t].call.op = "read" /\ th[t].part = 0 /\ Part(t).len \in Nat
      /\ Part(t).mod \in Memories /\ Part(t).adr \in Addrs /\ Part(t).adr + Part(t).len <= Words
  BY <1>1, AdvancedFacts DEF PlaceFits, CallRecs
<1>3. TapInv' /\ tap' = "IDLE"
  BY <1>1, <1>2, AdvancedTap
<1>4. /\ unit' = Transferred \/ \E k \in 1..Words : CanFail(k) /\ unit' = Latched(k)
      /\ faults' = faults \/ Fault("corrupt") \/ Fault("bus")
      /\ Fails(t) \/ Whole \/ \E k \in 1..Words : Failed(k)
  BY DEF adbg_wb_burst_read
<1>5. unit' \in UnitRecs /\ unit'.sel = unit.sel
  BY <1>2, <1>4, UnitFacts, LatchedFacts
<1>6. faults' \in 0..MaxFaults
  BY <1>2, <1>4, FaultCounts DEF WorldOK
<1>7. WorldOK'
  BY <1>1, <1>2, <1>5, <1>6 DEF WorldOK
<1>8. BurstWords \in Seq(DataValues)
  <2>1. WordValues \subseteq DataValues
    BY DEF DataValues
  <2> QED BY <1>2, <2>1, BurstWordsType
<1>9. AfterBurst \in Pcs /\ PlaceFits(AfterBurst, th[t].call.op)
  BY <1>2, AfterBurstFits
<1>10. CASE Fails(t)
  BY <1>1, <1>3, <1>7, <1>10, AdvancedFails
<1>11. CASE Whole
  <2>1. Moved(t, AfterBurst, th[t].err, BurstWords, th[t].i, th[t].bus)
    BY <1>2, <1>8, <1>9, <1>11, DataMoves
  <2>2. AccessInv'
    BY <1>1, <1>3, <1>7, <1>9, <2>1, AdvancedStep
  <2>3. Kept(t) => Kept(t)'
    <3> SUFFICES ASSUME Kept(t) PROVE Kept(t)'
      OBVIOUS
    <3>1. ASSUME SelectedFor(t) PROVE Done(t)'
      <4>1. unit.burst.adr = Part(t).adr
        BY <1>1, <1>11 DEF Kept, BurstOK, Bursting
      <4>2. Part(t)' = Part(t) /\ Sent(t)' = Sent(t) /\ th'[t].data = BurstWords /\ th'[t].part = 0
        BY <1>1, <1>2, <2>1, PartSame DEF Moved
      <4>3. ASSUME NEW k \in 1..Part(t).len
            PROVE  BurstWords[k] = mem[Part(t).mod][Part(t).adr + k - 1]
        <5>1. BurstWords[k] = UnitWord(unit.sel, Part(t).adr + k - 1)
          BY <1>11, <4>1, <4>3 DEF BurstWords
        <5>2. Part(t).adr + k - 1 \in Addrs
          BY <1>2, <4>3, AccessAssumption DEF Addrs
        <5> QED BY <1>2, <3>1, <5>1, <5>2 DEF UnitWord, SelectedFor
      <4>4. \A k \in 1..Part(t).len :
              th'[t].data[th'[t].part + k] = mem'[Part(t).mod][Part(t).adr + k - 1]
        BY <1>1, <1>2, <4>2, <4>3
      <4> QED BY <1>2, <4>2, <4>4, DoneNext
    <3> QED BY <1>1, <1>3, <1>5, <2>1, <3>1, BurstDone
  <2> QED BY <2>1, <2>2, <2>3 DEF Moved
<1>12. CASE \E k \in 1..Words : Failed(k)
  <2>1. PICK k \in 1..Words : Failed(k)
    BY <1>12
  <2> DEFINE d == [BurstWords EXCEPT ![k] = Garbage]
  <2>2. Garbage \in DataValues
    BY DEF DataValues, WordValues
  <2>3. d \in Seq(DataValues)
    <3> DEFINE w == BurstWords
               n == Len(w)
    <3>1. w \in [1..n -> DataValues] /\ n \in Nat
      BY <1>8
    <3> HIDE DEF w, n
    <3>2. [w EXCEPT ![k] = Garbage] \in [1..n -> DataValues]
      BY <2>2, <3>1
    <3>3. [w EXCEPT ![k] = Garbage] \in Seq(DataValues)
      BY <3>1, <3>2
    <3> QED BY <3>3 DEF w
  <2>4. th' = [th EXCEPT ![t].pc = AfterBurst, ![t].data = d]
    BY <2>1
  <2> HIDE DEF d
  <2>5. Moved(t, AfterBurst, th[t].err, d, th[t].i, th[t].bus)
    BY <1>2, <1>9, <2>3, <2>4, DataMoves
  <2>6. AccessInv'
    BY <1>1, <1>3, <1>7, <1>9, <2>5, AdvancedStep
  <2>7. unit.sel = "wb" /\ unit'.wberr # NoAddr
    BY <1>2, <2>1, LatchedFacts DEF CanFail
  <2>8. Kept(t) => Kept(t)'
    BY <1>1, <1>3, <1>5, <2>5, <2>7, BurstDone
  <2> QED BY <2>5, <2>6, <2>8 DEF Moved
<1> QED BY <1>4, <1>10, <1>11, <1>12

(***************************************************************************)
(* What a whole burst stores, word by word.                                *)
(***************************************************************************)
LEMMA WithinMemory ==
  ASSUME NEW a \in Nat, NEW n \in Nat, a + n <= Words, NEW k \in 1..n
  PROVE  a + k - 1 \in Addrs
  BY AccessAssumption DEF Addrs

LEMMA StoredWords ==
  ASSUME TypeInv, NEW m \in Memories, NEW s \in Seq(WordValues), NEW a \in Nat,
         unit.sel = m, unit.burst.adr = a, unit.burst.len = Len(s), a + Len(s) <= Words,
         NEW k \in 1..Len(s)
  PROVE  Stored(s, {})[m][a + k - 1] = s[k]
<1>1. Stored(s, {}) =
        [mem EXCEPT ![m] =
           [x \in Addrs |->
              IF x \in {y \in a..(a + Len(s) - 1) : y - a <= Len(s)} \ {}
              THEN (IF x - a + 1 \in DOMAIN s THEN s[x - a + 1] ELSE Garbage)
              ELSE mem[m][x]]]
  BY DEF Stored, TypeInv
<1>2. mem \in [Memories -> [Addrs -> WordValues]]
  BY DEF TypeInv
<1> DEFINE x == a + k - 1
<1>3. x \in Addrs /\ x \in a..(a + Len(s) - 1) /\ x - a + 1 = k /\ x - a <= Len(s) /\ k \in DOMAIN s
  BY AccessAssumption DEF Addrs
<1> HIDE DEF x
<1>4. Stored(s, {})[m][x] = s[k]
  BY <1>1, <1>2, <1>3
<1> QED BY <1>4 DEF x

LEMMA WriteKeeps ==
  ASSUME AccessInv, NEW t \in Threads, adbg_wb_burst_write(t)
  PROVE  /\ AccessInv' /\ \A u \in Threads : u # t => th'[u] = th[u]
         /\ Kept(t) => Kept(t)'
<1> DEFINE words == Sent(t)
           Continue == exited' = ~MatchBit(words) /\ Goto(t, AfterBurst)
           Whole == mem' = Stored(words, {}) /\ unit' = Transferred /\ Continue
           Failed(k) == CanFail(k) /\ mem' = Stored(words, {unit.burst.adr + k - 1})
                        /\ unit' = Latched(k) /\ Continue
           Damaged(k) == mem' = Stored([words EXCEPT ![k] = Garbage], {})
                         /\ unit' = Transferred /\ exited' = TRUE /\ UNCHANGED th
<1>1. /\ th[t].pc = "write" /\ th[t].pc \in AdvPcs /\ ~exited /\ ScanDone
      /\ UNCHANGED <<build, mutex, current_chain, desired_chain, calls>>
  BY DEF adbg_wb_burst_write, At, AdvPcs, BurstPcs, sw
<1>2. /\ TypeInv /\ WorldOK /\ TapInv /\ Advanced /\ ~Legacy /\ unit \in UnitRecs /\ ThreadOK(t)
      /\ Part(t).op = "write" /\ th[t].call.op = "write" /\ Part(t).len \in Nat
      /\ Part(t).mod \in Memories /\ Part(t).adr \in Addrs /\ Part(t).adr + Part(t).len <= Words
      /\ th[t].pc # "idle" /\ th[t].pc \notin Outside
  BY <1>1, AdvancedFacts DEF PlaceFits, CallRecs
<1>3. /\ words \in Seq(WordValues) /\ Len(words) = Part(t).len /\ DOMAIN words = 1..Part(t).len
  BY <1>2, SentFacts
<1>4. TapInv' /\ tap' = "IDLE"
  BY <1>1, <1>2, AdvancedTap
<1>5. /\ faults' = faults \/ Fault("corrupt") \/ Fault("bus")
      /\ \/ Whole /\ Bursting("write")
         \/ Bursting("write") /\ \E k \in DOMAIN words : Damaged(k)
         \/ \E k \in 1..Words : Failed(k)
         \/ exited' = TRUE /\ UNCHANGED <<th, unit, mem>>
  BY DEF adbg_wb_burst_write
<1>6. faults' \in 0..MaxFaults
  BY <1>2, <1>5, FaultCounts DEF WorldOK
<1>7. AfterBurst \in Pcs /\ PlaceFits(AfterBurst, th[t].call.op)
  BY <1>2, AfterBurstFits
<1>8. MatchBit(words) \in BOOLEAN
  BY DEF MatchBit
<1>9. ASSUME UNCHANGED th PROVE Stays(t, "write")
  BY <1>1, <1>2, <1>9 DEF Stays, Moved, TypeInv
<1>10. PlaceFits("write", th[t].call.op)
  BY <1>1, <1>2, InsideFacts
<1> HIDE DEF words
<1>11. CASE Whole /\ Bursting("write")
  <2>1. WorldOK'
    BY <1>1, <1>2, <1>3, <1>6, <1>8, <1>11, UnitFacts, StoredType DEF WorldOK
  <2>2. Stays(t, AfterBurst)
    BY <1>2, <1>7, <1>11, GotoMoves
  <2>3. AccessInv'
    BY <1>1, <1>4, <1>7, <2>1, <2>2, AdvancedStep DEF Stays
  <2>4. Kept(t) => Kept(t)'
    <3> SUFFICES ASSUME Kept(t) PROVE Kept(t)'
      OBVIOUS
    <3>1. ASSUME SelectedFor(t), ~exited' PROVE Done(t)'
      <4>1. unit.burst.len = Len(words)
        BY <1>8, <1>11, <3>1 DEF MatchBit
      <4>2. unit.burst.adr = Part(t).adr
        BY <1>1, <1>3, <1>11, <4>1 DEF Kept, BurstOK, Bursting
      <4>3. unit.sel = Part(t).mod /\ Part(t).adr \in Nat
        BY <1>2, <3>1 DEF SelectedFor, Addrs
      <4>4. \A k \in 1..Part(t).len : mem'[Part(t).mod][Part(t).adr + k - 1] = words[k]
        BY <1>2, <1>3, <1>11, <4>1, <4>2, <4>3, StoredWords
      <4>5. Part(t)' = Part(t) /\ Sent(t)' = Sent(t)
        BY <1>1, <2>2, PartSame DEF Stays
      <4> QED BY <1>2, <4>4, <4>5, DoneNext DEF words
    <3>2. unit'.sel = unit.sel
      BY <1>2, <1>11, UnitFacts
    <3> QED BY <1>1, <1>4, <2>2, <3>1, <3>2, BurstDone DEF Stays
  <2> QED BY <2>2, <2>3, <2>4 DEF Stays, Moved
<1>12. CASE Bursting("write") /\ \E k \in DOMAIN words : Damaged(k)
  <2>1. PICK k \in DOMAIN words : Damaged(k)
    BY <1>12
  <2>2. [words EXCEPT ![k] = Garbage] \in Seq(WordValues)
    <3> DEFINE n == Len(words)
    <3>1. words \in [1..n -> WordValues] /\ n \in Nat /\ Garbage \in WordValues
      BY <1>3 DEF WordValues
    <3> HIDE DEF n
    <3>2. [words EXCEPT ![k] = Garbage] \in [1..n -> WordValues]
      BY <3>1
    <3> QED BY <3>1, <3>2
  <2>3. WorldOK'
    BY <1>1, <1>2, <1>6, <2>1, <2>2, UnitFacts, StoredType DEF WorldOK
  <2>4. AccessInv'
    BY <1>1, <1>4, <1>9, <1>10, <2>1, <2>3, AdvancedStep DEF Stays
  <2>5. Kept(t)'
    <3>1. unit'.burst.op = "none"
      BY <1>2, <2>1, UnitFacts DEF NoBurst
    <3>2. th'[t].pc = "write" /\ exited'
      BY <1>1, <2>1
    <3> QED BY <3>1, <3>2 DEF Kept, BurstOK, ProgressOK
  <2> QED BY <2>1, <2>4, <2>5
<1>13. CASE \E k \in 1..Words : Failed(k)
  <2>1. PICK k \in 1..Words : Failed(k)
    BY <1>13
  <2>2. WorldOK'
    BY <1>1, <1>2, <1>3, <1>6, <1>8, <2>1, LatchedFacts, StoredType DEF WorldOK
  <2>3. Stays(t, AfterBurst)
    BY <1>2, <1>7, <2>1, GotoMoves
  <2>4. AccessInv'
    BY <1>1, <1>4, <1>7, <2>2, <2>3, AdvancedStep DEF Stays
  <2>5. unit.sel = "wb" /\ unit'.wberr # NoAddr /\ unit'.sel = unit.sel
    BY <1>2, <2>1, LatchedFacts DEF CanFail
  <2>6. Kept(t) => Kept(t)'
    BY <1>1, <1>4, <2>3, <2>5, BurstDone DEF Stays
  <2> QED BY <2>3, <2>4, <2>6 DEF Stays, Moved
<1>14. CASE exited' = TRUE /\ UNCHANGED <<th, unit, mem>>
  <2>1. WorldOK'
    BY <1>1, <1>2, <1>6, <1>14 DEF WorldOK
  <2>2. AccessInv'
    BY <1>1, <1>4, <1>9, <1>10, <1>14, <2>1, AdvancedStep DEF Stays
  <2>3. Kept(t) => Kept(t)'
    <3> SUFFICES ASSUME Kept(t) PROVE Kept(t)'
      OBVIOUS
    <3>1. Part(t)' = Part(t)
      BY <1>1, <1>9, <1>14, PartSame DEF Stays
    <3> QED BY <1>1, <1>14, <3>1 DEF Kept, BurstOK, ProgressOK
  <2> QED BY <1>14, <2>2, <2>3
<1> QED BY <1>5, <1>11, <1>12, <1>13, <1>14

(***************************************************************************)
(* The check of the error register, and the retry from the failed word.    *)
(***************************************************************************)
LEMMA ErrorCheckKeeps ==
  ASSUME AccessInv, NEW t \in Threads, ErrorCheck(t)
  PROVE  /\ AccessInv' /\ \A u \in Threads : u # t => th'[u] = th[u]
         /\ Kept(t) => Kept(t)'
<1> USE AccessAssumption
<1> DEFINE tries == th[t].bus + 1
           i == RetryFrom(t)
<1>1. /\ th[t].pc = "error_check" /\ th[t].pc \in AdvPcs /\ ~exited /\ ScanDone
      /\ UNCHANGED <<build, mutex, current_chain, desired_chain, mem, faults, calls, exited>>
  BY DEF ErrorCheck, At, AdvPcs, BurstPcs, sw
<1>2. /\ TypeInv /\ WorldOK /\ TapInv /\ Advanced /\ ~Legacy /\ unit \in UnitRecs /\ ThreadOK(t)
      /\ Part(t).op \in {"read", "write"} /\ Part(t) = th[t].call /\ th[t] \in ThreadRecs
      /\ Part(t).adr \in Addrs /\ th[t].pc # "idle" /\ th[t].pc \notin Outside
  BY <1>1, AdvancedFacts DEF PlaceFits, BurstPcs
<1>3. TapInv' /\ tap' = "IDLE"
  BY <1>1, <1>2, AdvancedTap
<1>4. th[t].bus \in Nat /\ th[t].bus <= MaxBusErrors /\ th[t].i \in Int
  BY <1>1, <1>2 DEF ThreadOK, ThreadRecs
<1>5. CASE unit.wberr = NoAddr \/ ~Reaches
  <2>1. Goto(t, "unlock") /\ UNCHANGED unit
    BY <1>5 DEF ErrorCheck
  <2>2. Stays(t, "unlock")
    BY <1>2, <2>1, UnlockFits, GotoMoves
  <2>3. WorldOK'
    BY <1>1, <1>2, <2>1 DEF WorldOK
  <2>4. AccessInv'
    BY <1>1, <1>3, <2>2, <2>3, UnlockFits, AdvancedStep DEF Stays
  <2>5. Kept(t) => Kept(t)'
    <3> SUFFICES ASSUME Kept(t) PROVE Kept(t)'
      OBVIOUS
    <3>1. /\ th'[t].pc = "unlock" /\ th'[t].err = th[t].err /\ th'[t].sound = th[t].sound
          /\ th'[t].data = th[t].data /\ th'[t].part = th[t].part
          /\ Part(t)' = Part(t) /\ Sent(t)' = Sent(t)
      BY <1>1, <2>2, PartSame DEF Stays, Moved
    <3>2. ASSUME th[t].sound, ~th[t].err PROVE Done(t)' /\ Sound'
      <4>1. SelectedFor(t) /\ (unit.wberr = NoAddr => Done(t))
        BY <1>1, <3>2 DEF Kept, ProgressOK
      <4>2. Reaches
        BY <1>2, <4>1, ScanFromIdle DEF SelectedFor
      <4>3. Done(t)'
        BY <1>1, <1>5, <2>1, <3>1, <4>1, <4>2, DoneSame
      <4> QED BY <1>1, <1>3, <2>1, <4>1, <4>3 DEF Sound, SelectedFor
    <3>3. BurstOK(t)'
      BY <3>1 DEF BurstOK
    <3>4. th'[t].sound /\ ~th'[t].err => Done(t)' /\ Sound'
      BY <3>1, <3>2
    <3>5. ProgressOK(t)'
      BY <3>1, <3>4 DEF ProgressOK, AdvPcs, BurstPcs, LegPcs
    <3> QED BY <3>3, <3>5 DEF Kept
  <2> QED BY <2>2, <2>4, <2>5 DEF Stays, Moved
<1>6. CASE ~(unit.wberr = NoAddr \/ ~Reaches) /\ tries > MaxBusErrors
  <2>1. /\ th' = [th EXCEPT ![t].pc = "unlock", ![t].err = TRUE, ![t].bus = tries] /\ UNCHANGED unit
    BY <1>6 DEF ErrorCheck
  <2> HIDE DEF tries
  <2>2. tries \in Nat /\ tries <= MaxBusErrors + 1
    BY <1>4 DEF tries
  <2>3. Moved(t, "unlock", TRUE, th[t].data, th[t].i, tries)
    <3> DEFINE r == [th[t] EXCEPT !.pc = "unlock", !.err = TRUE, !.bus = tries]
    <3>1. th' = [th EXCEPT ![t] = r] /\ th \in [Threads -> ThreadRecs]
      BY <1>2, <2>1 DEF TypeInv
    <3>2. /\ r \in ThreadRecs
          /\ r.pc = "unlock" /\ r.err = TRUE /\ r.data = th[t].data /\ r.i = th[t].i
          /\ r.bus = tries /\ r.call = th[t].call /\ r.part = th[t].part /\ r.sound = th[t].sound
      BY <1>2, <2>2 DEF ThreadRecs, Pcs
    <3> HIDE DEF r
    <3> QED BY <3>1, <3>2 DEF Moved
  <2>4. MutexGivenBack' /\ \A u \in Threads : ThreadOK(u)' /\ DataOK(u)'
    BY <1>1, <1>2, <1>4, <2>2, <2>3, UnlockFits, ThreadsKept
  <2>5. TypeInv'
    BY <1>1, <1>2, <2>1, <2>3 DEF TypeInv, Moved
  <2>6. ChainInv'
    BY <1>1, <1>2 DEF ChainInv, Legacy
  <2>7. Kept(t)'
    BY <2>3, FailedKept
  <2> QED BY <1>3, <2>3, <2>4, <2>5, <2>6, <2>7 DEF AccessInv, Moved
<1>7. CASE ~(unit.wberr = NoAddr \/ ~Reaches) /\ ~(tries > MaxBusErrors)
  <2>1. /\ th' = [th EXCEPT ![t].pc = "command", ![t].bus = tries, ![t].i = i]
        /\ unit' = [unit EXCEPT !.wberr = NoAddr]
    BY <1>7 DEF ErrorCheck
  <2>2. tries \in Nat /\ tries <= MaxBusErrors
    BY <1>4, <1>7
  <2>3. i \in Int /\ th[t].call.adr + i \in Addrs
    <3>1. unit.wberr \in Addrs
      BY <1>2, <1>7 DEF UnitRecs
    <3> QED BY <1>2, <3>1 DEF RetryFrom, Addrs
  <2> HIDE DEF tries, i
  <2>4. Moved(t, "command", th[t].err, th[t].data, i, tries)
    <3> DEFINE r == [th[t] EXCEPT !.pc = "command", !.bus = tries, !.i = i]
    <3>1. th' = [th EXCEPT ![t] = r] /\ th \in [Threads -> ThreadRecs]
      BY <1>2, <2>1 DEF TypeInv
    <3>2. /\ r \in ThreadRecs
          /\ r.pc = "command" /\ r.err = th[t].err /\ r.data = th[t].data /\ r.i = i
          /\ r.bus = tries /\ r.call = th[t].call /\ r.part = th[t].part /\ r.sound = th[t].sound
      BY <1>2, <2>2, <2>3 DEF ThreadRecs, Pcs, AdvPcs, BurstPcs
    <3> HIDE DEF r
    <3> QED BY <3>1, <3>2 DEF Moved
  <2>5. PlaceFits("command", th[t].call.op)
    BY <1>2 DEF PlaceFits, Pcs, AdvPcs, BurstPcs, LegPcs, Outside
  <2>6. MutexGivenBack' /\ \A u \in Threads : ThreadOK(u)' /\ DataOK(u)'
    BY <1>1, <1>2, <2>2, <2>3, <2>4, <2>5, ThreadsKept
  <2>7. unit' \in UnitRecs /\ unit'.sel = unit.sel
    BY <1>2, <2>1, UnitFacts
  <2>8. TypeInv'
    BY <1>1, <1>2, <2>4, <2>7 DEF TypeInv, Moved
  <2>9. ChainInv'
    BY <1>1, <1>2 DEF ChainInv, Legacy
  <2>10. Kept(t) => Kept(t)'
    <3> SUFFICES ASSUME Kept(t) PROVE Kept(t)'
      OBVIOUS
    <3>1. th[t].sound /\ ~th[t].err => SelectedFor(t)
      BY <1>1 DEF Kept, ProgressOK, AdvPcs, BurstPcs
    <3> QED BY <1>1, <1>3, <2>4, <2>7, <3>1, OnTheWay DEF SelectedFor
  <2> QED BY <1>3, <2>4, <2>6, <2>8, <2>9, <2>10 DEF AccessInv, Moved
<1> QED BY <1>5, <1>6, <1>7

(***************************************************************************)
(* A call about to return without an error.                                *)
(***************************************************************************)
LEMMA ReturnKept ==
  ASSUME NEW t \in Threads, NEW d, NEW i, NEW b, Moved(t, "unlock", th[t].err, d, i, b),
         th[t].sound /\ ~th[t].err =>
           Done(t)' /\ tap' = "IDLE" /\ current_chain' \in {NoModule, unit'.sel}
  PROVE  Kept(t)'
<1>1. th'[t].pc = "unlock" /\ th'[t].err = th[t].err /\ th'[t].sound = th[t].sound
  BY DEF Moved
<1>2. BurstOK(t)'
  BY <1>1 DEF BurstOK
<1>3. th'[t].sound /\ ~th'[t].err => Done(t)' /\ Sound'
  BY <1>1 DEF Sound
<1>4. ProgressOK(t)'
  BY <1>1, <1>3 DEF ProgressOK, AdvPcs, BurstPcs, LegPcs
<1> QED BY <1>2, <1>4 DEF Kept

LEMMA CtrlWriteKeeps ==
  ASSUME AccessInv, NEW t \in Threads, adbg_ctrl_write(t)
  PROVE  /\ AccessInv' /\ \A u \in Threads : u # t => th'[u] = th[u]
         /\ Kept(t) => Kept(t)'
<1>1. /\ th[t].pc = "ctrl_write" /\ th[t].pc \in AdvPcs /\ ~exited /\ ScanDone
      /\ UNCHANGED <<build, mutex, current_chain, desired_chain, mem, calls, exited>>
      /\ unit' = IF Reaches /\ unit.sel \in DOMAIN unit.ctrl
                 THEN [unit EXCEPT !.ctrl[unit.sel] = Part(t).adr] ELSE unit
      /\ \/ Succeeds(t, << >>) /\ UNCHANGED faults
         \/ Fault("cable") /\ Fails(t)
  BY DEF adbg_ctrl_write, At, AdvPcs, sw
<1>2. /\ TypeInv /\ WorldOK /\ TapInv /\ Advanced /\ unit \in UnitRecs
      /\ Part(t).op = "wctrl" /\ Part(t).mod \in {"cpu0", "cpu1"} /\ Part(t).adr \in {0, 1}
  BY <1>1, AdvancedFacts DEF PlaceFits
<1>3. unit.ctrl \in [{"cpu0", "cpu1"} -> {0, 1}]
  BY <1>2 DEF UnitRecs
<1>4. /\ unit' \in UnitRecs /\ unit'.sel = unit.sel
      /\ Reaches /\ unit.sel \in {"cpu0", "cpu1"} => unit'.ctrl[unit.sel] = Part(t).adr
  <2> DEFINE f == [unit.ctrl EXCEPT ![unit.sel] = Part(t).adr]
             v == [unit EXCEPT !.ctrl = f]
  <2>1. f \in [{"cpu0", "cpu1"} -> {0, 1}] /\ (unit.sel \in {"cpu0", "cpu1"} => f[unit.sel] = Part(t).adr)
    BY <1>2, <1>3
  <2>2. unit' = IF Reaches /\ unit.sel \in {"cpu0", "cpu1"} THEN v ELSE unit
    BY <1>1, <1>3
  <2> HIDE DEF f
  <2>3. v \in UnitRecs /\ v.sel = unit.sel /\ v.ctrl = f
    BY <1>2, <2>1 DEF UnitRecs
  <2> HIDE DEF v
  <2> QED BY <1>2, <2>1, <2>2, <2>3
<1>5. TapInv' /\ tap' = "IDLE"
  BY <1>1, <1>2, AdvancedTap
<1>6. WorldOK'
  <2>1. faults' \in 0..MaxFaults
    BY <1>1, <1>2, FaultCounts DEF WorldOK
  <2> QED BY <1>1, <1>2, <1>4, <2>1 DEF WorldOK
<1>7. CASE Fails(t)
  BY <1>1, <1>5, <1>6, <1>7, AdvancedFails
<1>8. CASE Succeeds(t, << >>)
  <2>1. << >> \in Seq(DataValues)
    OBVIOUS
  <2>2. Moved(t, "unlock", th[t].err, << >>, th[t].i, th[t].bus)
    BY <1>2, <1>8, <2>1, UnlockFits, DataMoves DEF Succeeds
  <2>3. AccessInv'
    BY <1>1, <1>5, <1>6, <2>2, UnlockFits, AdvancedStep
  <2>4. Kept(t) => Kept(t)'
    <3> SUFFICES ASSUME Kept(t) PROVE Kept(t)'
      OBVIOUS
    <3>1. ASSUME th[t].sound, ~th[t].err PROVE Done(t)' /\ current_chain' = unit'.sel
      <4>1. SelectedFor(t)
        BY <1>1, <3>1 DEF Kept, ProgressOK
      <4>2. Reaches
        BY <1>2, <4>1, ScanFromIdle DEF SelectedFor
      <4>3. unit'.ctrl[Part(t).mod] = Part(t).adr
        BY <1>2, <1>4, <4>1, <4>2 DEF SelectedFor
      <4>4. Part(t)' = Part(t) /\ Sent(t)' = Sent(t)
        BY <1>1, <2>2, PartSame
      <4> QED BY <1>1, <1>2, <1>4, <4>1, <4>3, <4>4, DoneNext DEF SelectedFor
    <3> QED BY <1>5, <2>2, <3>1, ReturnKept
  <2> QED BY <2>2, <2>3, <2>4 DEF Moved
<1> QED BY <1>1, <1>7, <1>8

LEMMA CtrlReadKeeps ==
  ASSUME AccessInv, NEW t \in Threads, adbg_ctrl_read(t)
  PROVE  /\ AccessInv' /\ \A u \in Threads : u # t => th'[u] = th[u]
         /\ Kept(t) => Kept(t)'
<1> DEFINE v == ModuleRegister
<1>1. /\ th[t].pc = "ctrl_read" /\ th[t].pc \in AdvPcs /\ ~exited /\ ScanDone
      /\ UNCHANGED <<build, mutex, current_chain, desired_chain, unit, mem, calls, exited>>
      /\ \/ Succeeds(t, <<v>>) /\ UNCHANGED faults
         \/ Fault("cable") /\ Fails(t)
  BY DEF adbg_ctrl_read, At, AdvPcs, sw
<1>2. /\ TypeInv /\ WorldOK /\ TapInv /\ Advanced /\ unit \in UnitRecs
      /\ Part(t).op = "rctrl" /\ Part(t).mod \in {"cpu0", "cpu1"}
  BY <1>1, AdvancedFacts DEF PlaceFits
<1>3. unit.ctrl \in [{"cpu0", "cpu1"} -> {0, 1}]
  BY <1>2 DEF UnitRecs
<1>4. /\ Reaches /\ unit.sel \in {"cpu0", "cpu1"} => v = unit.ctrl[unit.sel]
      /\ v \in DataValues
  <2>1. CASE ~Reaches
    BY <2>1 DEF ModuleRegister, DataValues
  <2>2. CASE Reaches /\ unit.sel \in {"cpu0", "cpu1"}
    <3>1. v = unit.ctrl[unit.sel]
      BY <1>3, <2>2 DEF ModuleRegister
    <3>2. unit.ctrl[unit.sel] \in Nat
      BY <1>3, <2>2
    <3> QED BY <3>1, <3>2 DEF DataValues
  <2>3. CASE Reaches /\ unit.sel \notin {"cpu0", "cpu1"}
    <3>1. v = IF unit.wberr = NoAddr THEN 0 ELSE 1
      BY <1>3, <2>3 DEF ModuleRegister
    <3>2. v \in Nat
      BY <3>1
    <3> QED BY <2>3, <3>2 DEF DataValues
  <2> QED BY <2>1, <2>2, <2>3
<1> HIDE DEF v
<1>5. TapInv' /\ tap' = "IDLE"
  BY <1>1, <1>2, AdvancedTap
<1>6. WorldOK'
  <2>1. faults' \in 0..MaxFaults
    BY <1>1, <1>2, FaultCounts DEF WorldOK
  <2> QED BY <1>1, <1>2, <2>1 DEF WorldOK
<1>7. CASE Fails(t)
  BY <1>1, <1>5, <1>6, <1>7, AdvancedFails
<1>8. CASE Succeeds(t, <<v>>)
  <2>1. <<v>> \in Seq(DataValues)
    BY <1>4
  <2>2. Moved(t, "unlock", th[t].err, <<v>>, th[t].i, th[t].bus)
    BY <1>2, <1>8, <2>1, UnlockFits, DataMoves DEF Succeeds
  <2>3. AccessInv'
    BY <1>1, <1>5, <1>6, <2>2, UnlockFits, AdvancedStep
  <2>4. Kept(t) => Kept(t)'
    <3> SUFFICES ASSUME Kept(t) PROVE Kept(t)'
      OBVIOUS
    <3>1. ASSUME th[t].sound, ~th[t].err PROVE Done(t)' /\ current_chain' = unit'.sel
      <4>1. SelectedFor(t)
        BY <1>1, <3>1 DEF Kept, ProgressOK
      <4>2. Reaches
        BY <1>2, <4>1, ScanFromIdle DEF SelectedFor
      <4>3. th'[t].data = <<unit'.ctrl[Part(t).mod]>>
        BY <1>1, <1>2, <1>4, <2>2, <4>1, <4>2 DEF SelectedFor, Moved
      <4>4. Part(t)' = Part(t) /\ Sent(t)' = Sent(t)
        BY <1>1, <2>2, PartSame
      <4> QED BY <1>1, <1>2, <4>1, <4>3, <4>4, DoneNext DEF SelectedFor
    <3> QED BY <1>5, <2>2, <3>1, ReturnKept
  <2> QED BY <2>2, <2>3, <2>4 DEF Moved
<1> QED BY <1>1, <1>7, <1>8

(***************************************************************************)
(* A transaction of the serial port: what is reported as sent is what the  *)
(* debug unit has taken.                                                   *)
(***************************************************************************)
LEMMA TransactKeeps ==
  ASSUME AccessInv, NEW t \in Threads, adbg_jsp_transact(t)
  PROVE  /\ AccessInv' /\ \A u \in Threads : u # t => th'[u] = th[u]
         /\ Kept(t) => Kept(t)'
<1> USE AccessAssumption
<1> DEFINE taken == IF unit.sel = "jsp" THEN Least(Least(Part(t).len, JspMax), unit.room) ELSE 0
<1>1. /\ th[t].pc = "transact" /\ th[t].pc \in AdvPcs /\ ~exited /\ ScanDone
      /\ UNCHANGED <<build, mutex, current_chain, desired_chain, mem, faults, calls, exited>>
      /\ unit' = IF unit.sel = "jsp" THEN [unit EXCEPT !.room = unit.room - taken, !.avail = 0] ELSE unit
  BY DEF adbg_jsp_transact, At, AdvPcs, sw
<1>2. /\ TypeInv /\ WorldOK /\ TapInv /\ Advanced /\ unit \in UnitRecs
      /\ Part(t).op = "jsp" /\ Part(t).len \in Nat /\ unit.room \in 0..JspMax
  BY <1>1, AdvancedFacts DEF PlaceFits, CallRecs, UnitRecs
<1>3. PICK room, avail \in 0..JspMax :
             /\ unit.sel = "jsp" => room = unit.room /\ avail = unit.avail
             /\ Succeeds(t, <<Least(Part(t).len, room), avail, taken>>)
  BY DEF adbg_jsp_transact
<1>4. /\ taken \in Nat /\ Least(Part(t).len, room) \in Nat
      /\ unit.sel = "jsp" => taken <= unit.room /\ taken = Least(Part(t).len, room)
  <2> DEFINE l == Part(t).len
             r == unit.room
  <2>1. l \in Nat /\ room \in Nat /\ JspMax \in Nat /\ r \in Nat /\ r <= JspMax
    BY <1>2
  <2> HIDE DEF l, r
  <2>2. Least(l, room) \in Nat
    BY <2>1 DEF Least
  <2>3. Least(Least(l, JspMax), r) = Least(l, r)
    BY <2>1 DEF Least
  <2>4. Least(l, r) \in Nat /\ Least(l, r) <= r
    BY <2>1 DEF Least
  <2> QED BY <1>3, <2>2, <2>3, <2>4 DEF l, r
<1> HIDE DEF taken
<1>5. unit' \in UnitRecs /\ unit'.sel = unit.sel
  <2>1. CASE unit.sel = "jsp"
    <3> DEFINE n == unit.room - taken
    <3>1. n \in 0..JspMax /\ 0 \in 0..JspMax
      BY <1>2, <1>4, <2>1
    <3>2. unit' = [unit EXCEPT !.room = n, !.avail = 0]
      BY <1>1, <2>1
    <3> HIDE DEF n
    <3> QED BY <1>2, <3>1, <3>2 DEF UnitRecs
  <2>2. CASE unit.sel # "jsp"
    BY <1>1, <1>2, <2>2
  <2> QED BY <2>1, <2>2
<1>6. TapInv' /\ tap' = "IDLE"
  BY <1>1, <1>2, AdvancedTap
<1>7. WorldOK'
  BY <1>1, <1>2, <1>5 DEF WorldOK
<1> DEFINE n == Least(Part(t).len, room)
           d == <<n, avail, taken>>
<1>8. d \in Seq(DataValues) /\ d[1] = n /\ d[3] = taken
  <2>1. n \in DataValues /\ avail \in DataValues /\ taken \in DataValues
    BY <1>4 DEF DataValues
  <2> HIDE DEF n
  <2> QED BY <2>1
<1>9. Succeeds(t, d)
  BY <1>3
<1> HIDE DEF d
<1>10. Moved(t, "unlock", th[t].err, d, th[t].i, th[t].bus)
  BY <1>2, <1>8, <1>9, UnlockFits, DataMoves DEF Succeeds
<1>11. AccessInv'
  BY <1>1, <1>6, <1>7, <1>10, UnlockFits, AdvancedStep
<1>12. Kept(t) => Kept(t)'
  <2> SUFFICES ASSUME Kept(t) PROVE Kept(t)'
    OBVIOUS
  <2>1. ASSUME th[t].sound, ~th[t].err PROVE Done(t)' /\ current_chain' = unit'.sel
    <3>1. SelectedFor(t)
      BY <1>1, <2>1 DEF Kept, ProgressOK
    <3>2. unit.sel = "jsp"
      <4>1. Part(t).mod = "jsp"
        BY <1>1, <1>2, AdvancedFacts DEF ThreadOK, CallOK
      <4> QED BY <3>1, <4>1 DEF SelectedFor
    <3>3. th'[t].data[1] = th'[t].data[3]
      BY <1>4, <1>8, <1>10, <3>2 DEF Moved
    <3>4. Part(t)' = Part(t) /\ Sent(t)' = Sent(t)
      BY <1>1, <1>10, PartSame
    <3> QED BY <1>1, <1>2, <1>5, <3>1, <3>3, <3>4, DoneNext DEF SelectedFor
  <2> QED BY <1>6, <1>10, <2>1, ReturnKept
<1> QED BY <1>10, <1>11, <1>12 DEF Moved

-----------------------------------------------------------------------------
(***************************************************************************)
(* The steps of the legacy commands.                                       *)
(***************************************************************************)
LEMMA LegacyFacts ==
  ASSUME AccessInv, NEW t \in Threads, th[t].pc \in LegPcs
  PROVE  /\ Legacy /\ ~Advanced /\ TypeInv /\ WorldOK /\ TapInv /\ ThreadOK(t) /\ DataOK(t)
         /\ th[t] \in ThreadRecs /\ th[t].pc \notin Outside /\ th[t].pc # "idle" /\ unit \in UnitRecs
         /\ Part(t) \in CallRecs /\ Part(t).op = th[t].call.op /\ Part(t).mod = th[t].call.mod
         /\ Part(t).sel = Part(t).mod /\ Part(t).mod \in Modules
         /\ Part(t).op \in {"read", "write"} =>
              /\ Part(t).mod \in Memories /\ Part(t).len > 0
              /\ Part(t).adr \in Addrs /\ Part(t).adr + Part(t).len <= Words
         /\ Part(t).op \in {"rctrl", "wctrl"} => Part(t).mod \in {"cpu0", "cpu1"} /\ Part(t).adr \in {0, 1}
         /\ Part(t).op \in {"read", "write", "rctrl", "wctrl"}
         /\ PlaceFits(th[t].pc, Part(t).op)
         /\ current_chain \in {NoModule, unit.sel}
         /\ th[t].pc # "set_chain" => current_chain = Part(t).mod /\ unit.sel = Part(t).mod
         /\ th[t].pc = "legacy_go" /\ IsLoop(th[t].call) => unit.burst.len = 1
<1>1. /\ TypeInv /\ WorldOK /\ TapInv /\ ThreadOK(t) /\ DataOK(t) /\ ChainInv
      /\ th[t].pc \notin Outside /\ th[t].pc # "idle" /\ unit \in UnitRecs
  BY WorldOfInv DEF AccessInv, LegPcs, Outside, TypeInv
<1>2. PlaceFits(th[t].pc, th[t].call.op) /\ th[t] \in ThreadRecs
  BY <1>1, InsideFacts
<1>3. Legacy /\ ~Advanced
  BY <1>2 DEF PlaceFits, Advanced, Legacy
<1>4. th[t].call.op # "none" /\ th[t].call.op # "jsp"
  BY <1>1, <1>3 DEF ThreadOK, CallOK
<1>5. Part(t) \in CallRecs => Part(t).mod \in Modules
  BY DEF CallRecs
<1>6. th[t].call.op \in {"none", "read", "write", "rctrl", "wctrl", "jsp"}
  BY <1>2 DEF ThreadRecs, CallRecs
<1>7. th[t].call.mod \in Modules
  BY <1>2 DEF ThreadRecs, CallRecs
<1>8. /\ current_chain \in {NoModule, unit.sel}
      /\ th[t].pc # "set_chain" => current_chain = th[t].call.mod
      /\ th[t].pc = "legacy_go" /\ IsLoop(th[t].call) => unit.burst.len = 1
  BY <1>1, <1>3 DEF ChainInv
<1>9. NoModule \notin Modules
  BY DEF NoModule, Modules, Memories
<1> QED BY <1>1, <1>2, <1>3, <1>4, <1>5, <1>6, <1>7, <1>8, <1>9, PartFacts

(***************************************************************************)
(* A legacy command has succeeded when its scan was complete and right:    *)
(* then it has done what it is for, and the TAP is back in IDLE.           *)
(***************************************************************************)
LEMMA LegacyScanFacts ==
  ASSUME AccessInv, NEW t \in Threads, th[t].pc \in LegPcs, build' = build,
         NEW u \in UnitRecs, NEW m \in [Memories -> [Addrs -> WordValues]], LegacyScan(t, u, m)
  PROVE  /\ TapInv' /\ faults' \in 0..MaxFaults
         /\ unit' \in {unit, u} /\ unit' \in UnitRecs /\ mem' \in [Memories -> [Addrs -> WordValues]]
         /\ Reaches /\ faults' = faults => unit' = u /\ mem' = m /\ tap' = "IDLE" /\ tap = "IDLE"
<1>1. Legacy /\ TypeInv /\ WorldOK /\ TapInv /\ unit \in UnitRecs
  BY LegacyFacts
<1>2. CASE Reaches /\ unit' = u /\ mem' = m /\ UNCHANGED faults /\ ScanDone
  BY <1>1, <1>2, LegacyTap DEF WorldOK
<1>3. CASE /\ IF Reaches THEN Fault("corrupt") ELSE UNCHANGED faults
           /\ \/ UNCHANGED <<unit, mem>>
              \/ Reaches /\ unit' = u /\ mem' = m
           /\ ScanCutOff
  <2>1. faults' \in 0..MaxFaults /\ (Reaches => faults' # faults)
    BY <1>1, <1>3, FaultCounts DEF WorldOK
  <2>2. TapInv'
    BY <1>1, <1>3, LegacyTap
  <2> QED BY <1>1, <1>3, <2>1, <2>2 DEF WorldOK
<1> QED BY <1>2, <1>3 DEF LegacyScan

LEMMA LegacyMoves ==
  ASSUME AccessInv, NEW t \in Threads, NEW p \in Pcs, NEW d \in Seq(DataValues), LegacyResult(t, p, d)
  PROVE  \/ /\ Reaches /\ faults' = faults
            /\ Moved(t, p, th[t].err, th[t].data \o d, th[t].i, th[t].bus)
         \/ Moved(t, "unlock", TRUE, th[t].data, th[t].i, th[t].bus)
<1>1. TypeInv /\ th \in [Threads -> ThreadRecs] /\ th[t].data \in Seq(DataValues)
  BY DEF AccessInv, TypeInv, ThreadRecs
<1>2. CASE Reaches /\ faults' = faults
  <2> DEFINE x == th[t].data \o d
  <2>1. th' = [th EXCEPT ![t].pc = p, ![t].data = x]
    BY <1>1, <1>2 DEF LegacyResult
  <2>2. x \in Seq(DataValues)
    BY <1>1
  <2> HIDE DEF x
  <2>3. Moved(t, p, th[t].err, x, th[t].i, th[t].bus)
    BY <1>1, <2>1, <2>2, DataMoves
  <2> QED BY <1>2, <2>3 DEF x
<1>3. CASE ~(Reaches /\ faults' = faults)
  BY <1>1, <1>3, FailsMoves DEF LegacyResult
<1> QED BY <1>2, <1>3

(***************************************************************************)
(* A step of a legacy command that fails.                                  *)
(***************************************************************************)
LEMMA LegacyFails ==
  ASSUME AccessInv, NEW t \in Threads, th[t].pc \in LegPcs,
         Moved(t, "unlock", TRUE, th[t].data, th[t].i, th[t].bus),
         UNCHANGED <<build, mutex, calls>>, WorldOK', TapInv', current_chain' \in {NoModule, unit'.sel}
  PROVE  AccessInv' /\ Kept(t)' /\ \A u \in Threads : u # t => th'[u] = th[u]
<1>1. \A u \in Threads : u # t => th'[u] = th[u]
  BY DEF Moved
<1>2. "unlock" \notin LegPcs /\ "unlock" # "legacy_go"
  BY DEF LegPcs
<1>3. AccessInv'
  BY <1>2, UnlockFits, LegacyStep
<1> QED BY <1>1, <1>3, FailedKept

LEMMA AfterSetChainFits ==
  ASSUME Legacy, ~Advanced, NEW c \in CallRecs, c.op \in {"read", "write", "rctrl", "wctrl"}
  PROVE  /\ PlaceFits(AfterSetChain(c), c.op)
         /\ AfterSetChain(c) \in {"legacy_command", "legacy_ctrl", "legacy_ctrl_read"}
         /\ AfterSetChain(c) \in Pcs
<1>1. CASE c.op \in {"read", "write"}
  <2>1. AfterSetChain(c) = "legacy_command"
    BY <1>1 DEF AfterSetChain
  <2> QED BY <1>1, <2>1 DEF PlaceFits, Pcs, AdvPcs, BurstPcs, LegPcs, Outside
<1>2. CASE c.op = "rctrl"
  <2>1. AfterSetChain(c) = "legacy_ctrl_read"
    BY <1>2 DEF AfterSetChain
  <2> QED BY <1>2, <2>1 DEF PlaceFits, Pcs, AdvPcs, BurstPcs, LegPcs, Outside
<1>3. CASE c.op = "wctrl"
  <2>1. AfterSetChain(c) = "legacy_ctrl"
    BY <1>3 DEF AfterSetChain
  <2> QED BY <1>3, <2>1 DEF PlaceFits, Pcs, AdvPcs, BurstPcs, LegPcs, Outside
<1> QED BY <1>1, <1>2, <1>3

LEMMA NothingRead ==
  ASSUME AccessInv, NEW t \in Threads, th[t].pc \in LegPcs, NEW d, d = th[t].data \o << >>
  PROVE  d = th[t].data /\ (~th[t].err /\ th[t].call.op \in {"read", "rctrl"} => Len(d) = th[t].part)
<1>1. th[t].data \in Seq(DataValues) /\ DataOK(t) /\ Legacy
  BY LegacyFacts DEF ThreadRecs
<1>2. d = th[t].data
  BY <1>1
<1> QED BY <1>1, <1>2 DEF DataOK

LEMMA SetChainKeeps ==
  ASSUME AccessInv, NEW t \in Threads, legacy_dbg_set_chain(t)
  PROVE  /\ AccessInv' /\ \A u \in Threads : u # t => th'[u] = th[u]
         /\ Kept(t) => Kept(t)'
<1> DEFINE m == Part(t).sel
           p == AfterSetChain(Part(t))
<1>1. /\ th[t].pc = "set_chain" /\ th[t].pc \in LegPcs /\ ~exited
      /\ UNCHANGED <<build, mutex, calls, exited>> /\ desired_chain' = m
  BY DEF legacy_dbg_set_chain, At, LegPcs
<1>2. /\ TypeInv /\ WorldOK /\ TapInv /\ Legacy /\ ~Advanced /\ unit \in UnitRecs /\ m \in Modules
      /\ m = Part(t).mod /\ m = th[t].call.mod /\ current_chain \in {NoModule, unit.sel}
      /\ PlaceFits(p, th[t].call.op) /\ p \in Pcs /\ th[t].data \in Seq(DataValues)
      /\ p \in {"legacy_command", "legacy_ctrl", "legacy_ctrl_read"}
      /\ mem \in [Memories -> [Addrs -> WordValues]]
  BY <1>1, LegacyFacts, AfterSetChainFits DEF ThreadRecs, TypeInv
<1>3. m # NoModule /\ p # "unlock" /\ p # "legacy_go"
  BY <1>2 DEF Modules, Memories, NoModule
<1>4. Kept(t) /\ th[t].sound /\ ~th[t].err => tap = "IDLE"
  BY <1>1 DEF Kept, ProgressOK, Sound
<1>5. CASE current_chain = m
  <2>1. Goto(t, p) /\ UNCHANGED <<current_chain, tap, ir, unit, mem, faults>>
    BY <1>5 DEF legacy_dbg_set_chain, hw
  <2>2. Stays(t, p)
    BY <1>2, <2>1, GotoMoves
  <2>3. WorldOK' /\ TapInv'
    BY <1>1, <1>2, <2>1 DEF WorldOK, TapInv, Advanced
  <2>4. ~th[t].err /\ th[t].call.op \in {"read", "rctrl"} => Len(th[t].data) = th[t].part
    BY <1>1, LegacyFacts DEF DataOK
  <2>5. AccessInv'
    BY <1>1, <1>2, <1>3, <1>5, <2>1, <2>2, <2>3, <2>4, LegacyStep DEF Stays
  <2>6. Kept(t) => Kept(t)'
    <3> HAVE Kept(t)
    <3>1. th[t].sound /\ ~th[t].err =>
            tap' = "IDLE" /\ current_chain' = Part(t).mod /\ unit'.sel = Part(t).mod
      BY <1>2, <1>3, <1>4, <1>5, <2>1
    <3> QED BY <1>1, <1>2, <2>2, <3>1, OnTheWay DEF Stays
  <2> QED BY <2>2, <2>5, <2>6 DEF Stays, Moved
<1>6. CASE current_chain # m
  <2> DEFINE v == [unit EXCEPT !.sel = m]
  <2>1. /\ LegacyScan(t, v, mem) /\ LegacyResult(t, p, << >>)
        /\ current_chain' = IF Reaches /\ faults' = faults THEN m ELSE NoModule
    BY <1>6 DEF legacy_dbg_set_chain
  <2>2. v \in UnitRecs /\ v.sel = m
    BY <1>2, UnitFacts
  <2> HIDE DEF v
  <2>3. /\ TapInv' /\ faults' \in 0..MaxFaults /\ unit' \in UnitRecs
        /\ mem' \in [Memories -> [Addrs -> WordValues]]
        /\ Reaches /\ faults' = faults => unit' = v /\ tap' = "IDLE"
    BY <1>1, <1>2, <2>1, <2>2, LegacyScanFacts
  <2>4. WorldOK' /\ current_chain' \in {NoModule, unit'.sel}
    BY <1>1, <1>2, <2>1, <2>2, <2>3 DEF WorldOK
  <2>5. << >> \in Seq(DataValues)
    OBVIOUS
  <2>6. \/ /\ Reaches /\ faults' = faults
           /\ Moved(t, p, th[t].err, th[t].data \o << >>, th[t].i, th[t].bus)
        \/ Moved(t, "unlock", TRUE, th[t].data, th[t].i, th[t].bus)
    BY <1>2, <2>1, <2>5, LegacyMoves
  <2>7. CASE Moved(t, "unlock", TRUE, th[t].data, th[t].i, th[t].bus)
    BY <1>1, <2>3, <2>4, <2>7, LegacyFails
  <2>8. CASE /\ Reaches /\ faults' = faults
             /\ Moved(t, p, th[t].err, th[t].data \o << >>, th[t].i, th[t].bus)
    <3> DEFINE d == th[t].data \o << >>
    <3>1. ~th[t].err /\ th[t].call.op \in {"read", "rctrl"} => Len(d) = th[t].part
      BY <1>1, NothingRead
    <3>2. Moved(t, p, th[t].err, d, th[t].i, th[t].bus)
      BY <2>8
    <3> HIDE DEF d
    <3>3. current_chain' = m /\ unit'.sel = m /\ tap' = "IDLE"
      BY <2>1, <2>2, <2>3, <2>8
    <3>4. AccessInv'
      BY <1>1, <1>2, <1>3, <2>3, <2>4, <3>1, <3>2, <3>3, LegacyStep
    <3>5. Kept(t)'
      BY <1>1, <1>2, <3>2, <3>3, OnTheWay
    <3> QED BY <3>2, <3>4, <3>5 DEF Moved
  <2> QED BY <2>6, <2>7, <2>8
<1> QED BY <1>5, <1>6

LEMMA CommandLegacyKeeps ==
  ASSUME AccessInv, NEW t \in Threads, legacy_dbg_command(t)
  PROVE  /\ AccessInv' /\ \A u \in Threads : u # t => th'[u] = th[u]
         /\ Kept(t) => Kept(t)'
<1> DEFINE c == Part(t)
           b == [op |-> c.op, adr |-> c.adr, len |-> c.len]
           v == [unit EXCEPT !.burst = b]
<1>1. /\ th[t].pc = "legacy_command" /\ th[t].pc \in LegPcs /\ ~exited
      /\ UNCHANGED <<build, mutex, current_chain, desired_chain, calls, exited>>
      /\ LegacyScan(t, v, mem) /\ LegacyResult(t, "legacy_go", << >>)
  BY DEF legacy_dbg_command, At, LegPcs, sw
<1>2. /\ TypeInv /\ WorldOK /\ TapInv /\ Legacy /\ ~Advanced /\ unit \in UnitRecs
      /\ c.op \in {"read", "write"} /\ c.adr \in Nat /\ c.len \in Nat
      /\ current_chain = c.mod /\ unit.sel = c.mod /\ c.mod = th[t].call.mod
      /\ th[t].call.op = c.op /\ mem \in [Memories -> [Addrs -> WordValues]]
  BY <1>1, LegacyFacts DEF PlaceFits, CallRecs, TypeInv
<1>3. b \in [op : {"none", "read", "write"}, adr : Int, len : Nat]
  BY <1>2
<1>4. v \in UnitRecs /\ v.sel = unit.sel /\ v.burst = b
  BY <1>2, <1>3, UnitFacts
<1> HIDE DEF v
<1>5. /\ TapInv' /\ faults' \in 0..MaxFaults /\ unit' \in UnitRecs /\ unit' \in {unit, v}
      /\ mem' \in [Memories -> [Addrs -> WordValues]]
      /\ Reaches /\ faults' = faults => unit' = v /\ tap' = "IDLE"
  BY <1>1, <1>2, <1>4, LegacyScanFacts
<1>6. WorldOK' /\ unit'.sel = unit.sel /\ current_chain' \in {NoModule, unit'.sel}
  BY <1>1, <1>2, <1>4, <1>5 DEF WorldOK
<1>7. << >> \in Seq(DataValues) /\ "legacy_go" \in Pcs
  <2>1. << >> \in Seq(DataValues)
    OBVIOUS
  <2> QED BY <2>1 DEF Pcs, LegPcs
<1>8. \/ /\ Reaches /\ faults' = faults
         /\ Moved(t, "legacy_go", th[t].err, th[t].data \o << >>, th[t].i, th[t].bus)
      \/ Moved(t, "unlock", TRUE, th[t].data, th[t].i, th[t].bus)
  BY <1>1, <1>7, LegacyMoves
<1>9. CASE Moved(t, "unlock", TRUE, th[t].data, th[t].i, th[t].bus)
  BY <1>1, <1>5, <1>6, <1>9, LegacyFails
<1>10. CASE /\ Reaches /\ faults' = faults
            /\ Moved(t, "legacy_go", th[t].err, th[t].data \o << >>, th[t].i, th[t].bus)
  <2> DEFINE d == th[t].data \o << >>
  <2>1. ~th[t].err /\ th[t].call.op \in {"read", "rctrl"} => Len(d) = th[t].part
    BY <1>1, NothingRead
  <2>2. Moved(t, "legacy_go", th[t].err, d, th[t].i, th[t].bus)
    BY <1>10
  <2> HIDE DEF d
  <2>3. unit' = v /\ tap' = "IDLE"
    BY <1>5, <1>10
  <2>4. IsLoop(th[t].call) => unit'.burst.len = 1
    BY <1>1, <1>4, <2>3, LegacyFacts, PartFacts
  <2>5. PlaceFits("legacy_go", th[t].call.op)
    BY <1>2 DEF PlaceFits, Pcs, AdvPcs, BurstPcs, LegPcs, Outside
  <2>6. AccessInv'
    BY <1>1, <1>2, <1>5, <1>6, <2>1, <2>2, <2>4, <2>5, LegacyStep
  <2>7. /\ Part(t)' = c /\ th'[t].pc = "legacy_go" /\ th'[t].err = th[t].err
        /\ th'[t].sound = th[t].sound
    BY <1>1, <2>2, PartSame DEF Moved
  <2>8. BurstOK(t)'
    BY <1>4, <2>3, <2>7 DEF BurstOK
  <2>9. SelectedFor(t)'
    BY <1>1, <1>2, <1>6, <2>3, <2>7 DEF SelectedFor
  <2>10. ProgressOK(t)'
    BY <2>7, <2>9 DEF ProgressOK
  <2> QED BY <2>2, <2>6, <2>8, <2>10 DEF Moved, Kept
<1> QED BY <1>8, <1>9, <1>10

(***************************************************************************)
(* The words of a transfer come out of the byte order conversions as they  *)
(* went in.                                                                *)
(***************************************************************************)
LEMMA StreamIsWords ==
  ASSUME NEW s \in Seq(WordValues)
  PROVE  /\ [k \in DOMAIN s |-> LegacyWrites(s[k])] = s
         /\ [k \in DOMAIN s |-> LegacyReads(s[k])] = s
<1>1. \A k \in DOMAIN s : LegacyWrites(s[k]) = s[k] /\ LegacyReads(s[k]) = s[k]
  <2> SUFFICES ASSUME NEW k \in DOMAIN s PROVE LegacyWrites(s[k]) = s[k] /\ LegacyReads(s[k]) = s[k]
    OBVIOUS
  <2>1. s[k] \in WordValues
    OBVIOUS
  <2> DEFINE w == s[k]
  <2> HIDE DEF w
  <2>2. \E a, b : w = <<a, b>>
    BY <2>1, WordsArePairs DEF w
  <2>3. LegacyWrites(w) = w /\ LegacyReads(w) = w
    BY <2>2, LegacyOrder
  <2> QED BY <2>3 DEF w
<1>2. s = [k \in DOMAIN s |-> s[k]]
  OBVIOUS
<1> QED BY <1>1, <1>2

LEMMA AppendedWords ==
  ASSUME NEW S, NEW s \in Seq(S), NEW w \in Seq(S)
  PROVE  /\ Len(s \o w) = Len(s) + Len(w)
         /\ \A k \in 1..Len(w) : (s \o w)[Len(s) + k] = w[k]
OBVIOUS

LEMMA GoKeeps ==
  ASSUME AccessInv, NEW t \in Threads, legacy_dbg_go(t)
  PROVE  /\ AccessInv' /\ \A u \in Threads : u # t => th'[u] = th[u]
         /\ Kept(t) => Kept(t)'
<1> DEFINE c == Part(t)
           writes == c.op = "write"
           m == IF writes THEN Stored(Sent(t), {}) ELSE mem
           x == IF writes THEN << >> ELSE BurstWords
<1>1. /\ th[t].pc = "legacy_go" /\ th[t].pc \in LegPcs /\ ~exited
      /\ UNCHANGED <<build, mutex, current_chain, desired_chain, calls, exited>>
  BY DEF legacy_dbg_go, At, LegPcs, sw
<1>2. /\ TypeInv /\ WorldOK /\ TapInv /\ Legacy /\ ~Advanced /\ unit \in UnitRecs /\ ThreadOK(t)
      /\ c.op \in {"read", "write"} /\ c.adr \in Addrs /\ c.len \in Nat /\ c.adr + c.len <= Words
      /\ current_chain = c.mod /\ unit.sel = c.mod /\ c.mod = th[t].call.mod /\ c.mod \in Memories
      /\ th[t].call.op = c.op /\ th[t].pc # "idle" /\ DataOK(t)
      /\ th[t].data \in Seq(DataValues) /\ th[t].part \in Nat
      /\ IsLoop(th[t].call) => unit.burst.len = 1
      /\ mem \in [Memories -> [Addrs -> WordValues]]
  BY <1>1, LegacyFacts DEF PlaceFits, CallRecs, TypeInv, ThreadRecs
<1>3. Sent(t) \in Seq(WordValues) /\ Len(Sent(t)) = c.len
  BY <1>2, SentFacts
<1>4. /\ BurstWords \in Seq(WordValues) /\ Len(BurstWords) = unit.burst.len
  BY <1>2, BurstWordsType
<1>5. /\ [k \in DOMAIN Sent(t) |-> LegacyWrites(Sent(t)[k])] = Sent(t)
      /\ [k \in DOMAIN BurstWords |-> LegacyReads(BurstWords[k])] = BurstWords
  BY <1>3, <1>4, StreamIsWords
<1>6. LegacyScan(t, Transferred, m) /\ LegacyResult(t, "unlock", x)
  BY <1>5 DEF legacy_dbg_go
<1>7. m \in [Memories -> [Addrs -> WordValues]]
  BY <1>2, <1>3, StoredType
<1>8. x \in Seq(DataValues)
  <2>1. WordValues \subseteq DataValues
    BY DEF DataValues
  <2>2. BurstWords \in Seq(DataValues)
    BY <1>4, <2>1
  <2>3. << >> \in Seq(DataValues)
    OBVIOUS
  <2> QED BY <2>2, <2>3
<1>9. Transferred \in UnitRecs /\ Transferred.sel = unit.sel
  BY <1>2, UnitFacts
<1> HIDE DEF m, x
<1>10. /\ TapInv' /\ faults' \in 0..MaxFaults /\ unit' \in UnitRecs /\ unit' \in {unit, Transferred}
       /\ mem' \in [Memories -> [Addrs -> WordValues]]
       /\ Reaches /\ faults' = faults => mem' = m /\ tap' = "IDLE"
  BY <1>1, <1>6, <1>7, <1>9, LegacyScanFacts
<1>11. WorldOK' /\ unit'.sel = unit.sel /\ current_chain' \in {NoModule, unit'.sel}
  BY <1>1, <1>2, <1>9, <1>10 DEF WorldOK
<1>12. \/ /\ Reaches /\ faults' = faults
          /\ Moved(t, "unlock", th[t].err, th[t].data \o x, th[t].i, th[t].bus)
       \/ Moved(t, "unlock", TRUE, th[t].data, th[t].i, th[t].bus)
  BY <1>6, <1>8, UnlockFits, LegacyMoves
<1>13. CASE Moved(t, "unlock", TRUE, th[t].data, th[t].i, th[t].bus)
  BY <1>1, <1>10, <1>11, <1>13, LegacyFails
<1>14. CASE /\ Reaches /\ faults' = faults
            /\ Moved(t, "unlock", th[t].err, th[t].data \o x, th[t].i, th[t].bus)
  <2> DEFINE d == th[t].data \o x
  <2>1. ~th[t].err /\ c.op = "read" => Len(th[t].data) = th[t].part /\ x = BurstWords
    BY <1>1, <1>2 DEF DataOK, x
  <2>2. ~th[t].err /\ c.op = "read" =>
          /\ Len(d) = th[t].part + unit.burst.len
          /\ \A k \in 1..unit.burst.len : d[th[t].part + k] = BurstWords[k]
    <3> SUFFICES ASSUME ~th[t].err, c.op = "read"
                 PROVE  /\ Len(d) = th[t].part + unit.burst.len
                        /\ \A k \in 1..unit.burst.len : d[th[t].part + k] = BurstWords[k]
      OBVIOUS
    <3> DEFINE s == th[t].data
    <3>1. s \in Seq(DataValues) /\ Len(s) = th[t].part /\ x = BurstWords /\ Len(x) = unit.burst.len
      BY <1>2, <1>4, <2>1
    <3> HIDE DEF s
    <3>2. /\ Len(s \o x) = Len(s) + Len(x)
          /\ \A k \in 1..Len(x) : (s \o x)[Len(s) + k] = x[k]
      <4>1. s \in Seq(DataValues) /\ x \in Seq(DataValues)
        BY <1>8, <3>1
      <4> HIDE DEF DataValues
      <4> QED BY <4>1, AppendedWords, Zenon
    <3> QED BY <3>1, <3>2 DEF s
  <2>3. Moved(t, "unlock", th[t].err, d, th[t].i, th[t].bus)
    BY <1>14
  <2> HIDE DEF d
  <2>4. "unlock" \notin LegPcs /\ "unlock" # "legacy_go"
    BY DEF LegPcs
  <2>5. AccessInv'
    BY <1>1, <1>2, <1>10, <1>11, <2>2, <2>3, <2>4, UnlockFits, LegacyStep
  <2>6. /\ c' = c /\ Sent(t)' = Sent(t) /\ th'[t].data = d /\ th'[t].part = th[t].part
        /\ mem' = m /\ tap' = "IDLE"
    BY <1>1, <1>10, <1>14, <2>3, PartSame DEF Moved
  <2>7. Kept(t) => Kept(t)'
    <3> SUFFICES ASSUME Kept(t) PROVE Kept(t)'
      OBVIOUS
    <3>1. ASSUME ~th[t].err PROVE Done(t)'
      <4>1. unit.burst.adr = c.adr /\ unit.burst.len = c.len /\ c.adr \in Nat
        BY <1>1, <1>2, <3>1 DEF Kept, BurstOK, Addrs
      <4>2. CASE c.op = "write"
        <5>1. ASSUME NEW k \in 1..c.len
              PROVE  mem'[c.mod][c.adr + k - 1] = Sent(t)[k]
          <6>1. mem' = Stored(Sent(t), {})
            BY <2>6, <4>2 DEF m
          <6>2. /\ TypeInv /\ c.mod \in Memories /\ unit.sel = c.mod
                /\ Sent(t) \in Seq(WordValues) /\ Len(Sent(t)) = c.len
            BY <1>2, <1>3
          <6>3. c.adr + c.len <= Words
            BY <1>2
          <6>4. Stored(Sent(t), {})[c.mod][c.adr + k - 1] = Sent(t)[k]
            BY <4>1, <5>1, <6>2, <6>3, StoredWords
          <6> QED BY <6>1, <6>4
        <5> QED BY <2>6, <4>2, <5>1, DoneNext
      <4>3. CASE c.op = "read"
        <5>1. ASSUME NEW k \in 1..c.len
              PROVE  BurstWords[k] = mem[c.mod][c.adr + k - 1]
          <6>1. BurstWords[k] = UnitWord(unit.sel, c.adr + k - 1)
            BY <4>1, <5>1 DEF BurstWords
          <6>2. c.adr + k - 1 \in Addrs
            <7>1. c.len \in Nat /\ c.adr + c.len <= Words
              BY <1>2
            <7> QED BY <4>1, <5>1, <7>1, WithinMemory
          <6> QED BY <1>2, <6>1, <6>2 DEF UnitWord
        <5>2. mem' = mem
          BY <2>6, <4>3 DEF m
        <5>3. \A k \in 1..c.len : th'[t].data[th'[t].part + k] = mem'[c.mod][c.adr + k - 1]
          BY <2>2, <2>6, <3>1, <4>1, <4>3, <5>1, <5>2
        <5> QED BY <2>6, <4>3, <5>3, DoneNext
      <4> QED BY <1>2, <4>2, <4>3
    <3> QED BY <1>11, <2>3, <2>6, <3>1, ReturnKept
  <2> QED BY <2>3, <2>5, <2>7 DEF Moved
<1> QED BY <1>12, <1>13, <1>14

LEMMA LegacyCtrlKeeps ==
  ASSUME AccessInv, NEW t \in Threads, legacy_dbg_ctrl(t)
  PROVE  /\ AccessInv' /\ \A u \in Threads : u # t => th'[u] = th[u]
         /\ Kept(t) => Kept(t)'
<1> DEFINE c == Part(t)
           f == [unit.ctrl EXCEPT ![unit.sel] = c.adr]
           v == [unit EXCEPT !.ctrl = f]
<1>1. /\ th[t].pc = "legacy_ctrl" /\ th[t].pc \in LegPcs /\ ~exited
      /\ UNCHANGED <<build, mutex, current_chain, desired_chain, calls, exited>>
      /\ LegacyScan(t, v, mem) /\ LegacyResult(t, "unlock", << >>)
  BY DEF legacy_dbg_ctrl, At, LegPcs, sw
<1>2. /\ TypeInv /\ WorldOK /\ TapInv /\ Legacy /\ ~Advanced /\ unit \in UnitRecs
      /\ c.op = "wctrl" /\ c.adr \in {0, 1} /\ c.mod \in {"cpu0", "cpu1"} /\ th[t].call.op = c.op
      /\ current_chain = c.mod /\ unit.sel = c.mod
      /\ unit.ctrl \in [{"cpu0", "cpu1"} -> {0, 1}] /\ mem \in [Memories -> [Addrs -> WordValues]]
  BY <1>1, LegacyFacts DEF PlaceFits, TypeInv, UnitRecs
<1>3. f \in [{"cpu0", "cpu1"} -> {0, 1}] /\ f[c.mod] = c.adr
  BY <1>2
<1> HIDE DEF f
<1>4. v \in UnitRecs /\ v.sel = unit.sel /\ v.ctrl = f
  BY <1>2, <1>3 DEF UnitRecs
<1> HIDE DEF v
<1>5. /\ TapInv' /\ faults' \in 0..MaxFaults /\ unit' \in UnitRecs /\ unit' \in {unit, v}
      /\ mem' \in [Memories -> [Addrs -> WordValues]]
      /\ Reaches /\ faults' = faults => unit' = v /\ tap' = "IDLE"
  BY <1>1, <1>2, <1>4, LegacyScanFacts
<1>6. WorldOK' /\ unit'.sel = unit.sel /\ current_chain' \in {NoModule, unit'.sel}
  BY <1>1, <1>2, <1>4, <1>5 DEF WorldOK
<1>7. << >> \in Seq(DataValues)
  OBVIOUS
<1>8. \/ /\ Reaches /\ faults' = faults
         /\ Moved(t, "unlock", th[t].err, th[t].data \o << >>, th[t].i, th[t].bus)
      \/ Moved(t, "unlock", TRUE, th[t].data, th[t].i, th[t].bus)
  BY <1>1, <1>7, UnlockFits, LegacyMoves
<1>9. CASE Moved(t, "unlock", TRUE, th[t].data, th[t].i, th[t].bus)
  BY <1>1, <1>5, <1>6, <1>9, LegacyFails
<1>10. CASE /\ Reaches /\ faults' = faults
            /\ Moved(t, "unlock", th[t].err, th[t].data \o << >>, th[t].i, th[t].bus)
  <2> DEFINE d == th[t].data \o << >>
  <2>1. Moved(t, "unlock", th[t].err, d, th[t].i, th[t].bus)
    BY <1>10
  <2> HIDE DEF d
  <2>2. "unlock" \notin LegPcs /\ "unlock" # "legacy_go" /\ th[t].call.op \notin {"read", "rctrl"}
    BY <1>2 DEF LegPcs
  <2>3. AccessInv'
    BY <1>1, <1>5, <1>6, <2>1, <2>2, UnlockFits, LegacyStep
  <2>4. Done(t)' /\ tap' = "IDLE"
    <3>1. Part(t)' = Part(t) /\ Sent(t)' = Sent(t)
      BY <1>1, <2>1, PartSame
    <3>2. unit'.ctrl[c.mod] = c.adr /\ tap' = "IDLE"
      BY <1>3, <1>4, <1>5, <1>10
    <3> QED BY <1>2, <3>1, <3>2, DoneNext
  <2>5. Kept(t)'
    BY <1>6, <2>1, <2>4, ReturnKept
  <2> QED BY <2>1, <2>3, <2>5 DEF Moved
<1> QED BY <1>8, <1>9, <1>10

LEMMA LegacyCtrlReadKeeps ==
  ASSUME AccessInv, NEW t \in Threads, legacy_dbg_ctrl_read(t)
  PROVE  /\ AccessInv' /\ \A u \in Threads : u # t => th'[u] = th[u]
         /\ Kept(t) => Kept(t)'
<1> DEFINE c == Part(t)
           v == unit.ctrl[unit.sel]
<1>1. /\ th[t].pc = "legacy_ctrl_read" /\ th[t].pc \in LegPcs /\ ~exited
      /\ UNCHANGED <<build, mutex, current_chain, desired_chain, calls, exited>>
      /\ LegacyScan(t, unit, mem) /\ LegacyResult(t, "unlock", <<v>>)
  BY DEF legacy_dbg_ctrl_read, At, LegPcs, sw
<1>2. /\ TypeInv /\ WorldOK /\ TapInv /\ Legacy /\ ~Advanced /\ unit \in UnitRecs
      /\ c.op = "rctrl" /\ c.mod \in {"cpu0", "cpu1"} /\ th[t].call.op = c.op
      /\ current_chain = c.mod /\ unit.sel = c.mod
      /\ unit.ctrl \in [{"cpu0", "cpu1"} -> {0, 1}] /\ mem \in [Memories -> [Addrs -> WordValues]]
  BY <1>1, LegacyFacts DEF PlaceFits, TypeInv, UnitRecs
<1>3. <<v>> \in Seq(DataValues) /\ v = unit.ctrl[c.mod]
  <2>1. v \in Nat /\ v = unit.ctrl[c.mod]
    BY <1>2
  <2>2. v \in DataValues
    BY <2>1 DEF DataValues
  <2> HIDE DEF v
  <2>3. <<v>> \in Seq(DataValues)
    BY <2>2
  <2> QED BY <2>1, <2>3
<1> HIDE DEF v
<1>4. /\ TapInv' /\ faults' \in 0..MaxFaults /\ unit' = unit
      /\ mem' \in [Memories -> [Addrs -> WordValues]]
      /\ Reaches /\ faults' = faults => tap' = "IDLE"
  BY <1>1, <1>2, LegacyScanFacts
<1>5. WorldOK' /\ current_chain' \in {NoModule, unit'.sel}
  BY <1>1, <1>2, <1>4 DEF WorldOK
<1>6. \/ /\ Reaches /\ faults' = faults
         /\ Moved(t, "unlock", th[t].err, th[t].data \o <<v>>, th[t].i, th[t].bus)
      \/ Moved(t, "unlock", TRUE, th[t].data, th[t].i, th[t].bus)
  BY <1>1, <1>3, UnlockFits, LegacyMoves
<1>7. CASE Moved(t, "unlock", TRUE, th[t].data, th[t].i, th[t].bus)
  BY <1>1, <1>4, <1>5, <1>7, LegacyFails
<1>8. CASE /\ Reaches /\ faults' = faults
           /\ Moved(t, "unlock", th[t].err, th[t].data \o <<v>>, th[t].i, th[t].bus)
  <2> DEFINE d == th[t].data \o <<v>>
  <2>1. Moved(t, "unlock", th[t].err, d, th[t].i, th[t].bus)
    BY <1>8
  <2>2. "unlock" \notin LegPcs /\ "unlock" # "legacy_go" /\ ~IsLoop(th[t].call)
    BY <1>2 DEF LegPcs, IsLoop
  <2>3. ASSUME ~th[t].err PROVE d = <<v>>
    <3> DEFINE s == th[t].data
    <3>1. s \in Seq(DataValues) /\ th[t].part = 0
      BY <1>1, <2>2, LegacyFacts, PartFacts DEF ThreadRecs
    <3>2. Len(s) = 0
      BY <1>1, <1>2, <2>3, <3>1, LegacyFacts DEF DataOK
    <3> HIDE DEF s
    <3>3. s = << >>
      BY <3>1, <3>2
    <3> QED BY <3>3 DEF s
  <2> HIDE DEF d
  <2>4. AccessInv'
    BY <1>1, <1>4, <1>5, <2>1, <2>2, UnlockFits, LegacyStep
  <2>5. tap' = "IDLE" /\ (~th[t].err => Done(t)')
    <3>1. Part(t)' = Part(t) /\ Sent(t)' = Sent(t)
      BY <1>1, <2>1, PartSame
    <3>2. tap' = "IDLE" /\ (~th[t].err => th'[t].data = <<unit'.ctrl[c.mod]>>)
      BY <1>3, <1>4, <1>8, <2>1, <2>3 DEF Moved
    <3> QED BY <1>2, <3>1, <3>2, DoneNext
  <2>6. Kept(t)'
    BY <1>5, <2>1, <2>5, ReturnKept
  <2> QED BY <2>1, <2>4, <2>6 DEF Moved
<1> QED BY <1>6, <1>7, <1>8

-----------------------------------------------------------------------------
(***************************************************************************)
(* The invariants hold initially, and every step preserves them.           *)
(***************************************************************************)
LEMMA InitFacts ==
  ASSUME Init
  PROVE  AccessInv /\ DoneInv
<1> USE AccessAssumption
<1> DEFINE c == Access("none", "wb", "wb", 0, 0)
           r == [pc |-> "idle", call |-> c, part |-> 0,
                 i |-> 0, bus |-> 0, err |-> FALSE, data |-> << >>, sound |-> TRUE]
<1>1. c \in CallRecs
  BY DEF Access, CallRecs, Modules, Memories
<1> HIDE DEF c
<1>2. << >> \in Seq(DataValues)
  OBVIOUS
<1>3. r \in ThreadRecs /\ r.pc = "idle" /\ r.part = 0 /\ r.i = 0 /\ r.bus = 0
  BY <1>1, <1>2 DEF ThreadRecs, Pcs, Outside
<1>4. th = [t \in Threads |-> r]
  BY DEF Init, c
<1> HIDE DEF r
<1>5. \A t \in Threads : th[t] = r
  BY <1>4
<1>6. unit \in UnitRecs
  <2>1. NoBurst \in [op : {"none", "read", "write"}, adr : Int, len : Nat]
    BY DEF NoBurst
  <2>2. [m \in {"cpu0", "cpu1"} |-> 0] \in [{"cpu0", "cpu1"} -> {0, 1}]
    OBVIOUS
  <2>3. JspMax \in 0..JspMax /\ 0 \in 0..JspMax
    OBVIOUS
  <2> HIDE DEF NoBurst
  <2> QED BY <2>1, <2>2, <2>3 DEF Init, UnitRecs
<1>7. mem \in [Memories -> [Addrs -> WordValues]]
  BY DEF Init, WordValues
<1>8. TypeInv
  <2>1. th \in [Threads -> ThreadRecs]
    BY <1>3, <1>4
  <2>2. 0 \in 0..MaxFaults /\ 0 \in 0..MaxCalls
    OBVIOUS
  <2>3. /\ build \in Builds /\ mutex = NoThread /\ current_chain = NoModule
        /\ desired_chain = NoModule /\ faults = 0 /\ calls = 0 /\ exited = FALSE
    BY DEF Init
  <2> QED BY <1>6, <1>7, <2>1, <2>2, <2>3 DEF TypeInv
<1>9. TapInv
  BY DEF Init, TapInv
<1>10. ChainInv
  BY <1>3, <1>5 DEF Init, ChainInv, LegPcs
<1>11. MutexGivenBack
  BY <1>3, <1>5 DEF Init, MutexGivenBack, NoThread
<1>12. ASSUME NEW t \in Threads PROVE ThreadOK(t) /\ DataOK(t)
  <2>1. 0 <= Words /\ 0 \in (-Words)..Words /\ 0 <= MaxBusErrors + 1
    OBVIOUS
  <2> QED BY <1>3, <1>5, <2>1 DEF ThreadOK, DataOK, AdvPcs, BurstPcs, LegPcs
<1>13. DoneInv
  BY <1>3, <1>5 DEF DoneInv, BurstOK, ProgressOK, AdvPcs, BurstPcs, LegPcs
<1> QED BY <1>8, <1>9, <1>10, <1>11, <1>12, <1>13 DEF AccessInv

LEMMA AccessStep ==
  ASSUME AccessInv, [Next]_vars
  PROVE  AccessInv'
<1>1. ASSUME NEW t \in Threads, Step(t) PROVE AccessInv'
  <2>1. CASE Lock(t) \/ Unlock(t)
    BY <2>1, LockKeeps, UnlockKeeps
  <2>2. CASE adbg_select_module(t) \/ adbg_burst_command(t)
    BY <2>2, SelectKeeps, CommandKeeps
  <2>3. CASE BurstReadTimesOut(t) \/ BurstReadOfRegister(t) \/ adbg_wb_burst_read(t)
    BY <2>3, NoBurstReadKeeps, ReadKeeps
  <2>4. CASE adbg_wb_burst_write(t) \/ ErrorCheck(t)
    BY <2>4, WriteKeeps, ErrorCheckKeeps
  <2>5. CASE adbg_ctrl_write(t) \/ adbg_ctrl_read(t) \/ adbg_jsp_transact(t)
    BY <2>5, CtrlWriteKeeps, CtrlReadKeeps, TransactKeeps
  <2>6. CASE legacy_dbg_set_chain(t) \/ legacy_dbg_command(t) \/ legacy_dbg_go(t)
    BY <2>6, SetChainKeeps, CommandLegacyKeeps, GoKeeps
  <2>7. CASE legacy_dbg_ctrl(t) \/ legacy_dbg_ctrl_read(t)
    BY <2>7, LegacyCtrlKeeps, LegacyCtrlReadKeeps
  <2> QED BY <1>1, <2>1, <2>2, <2>3, <2>4, <2>5, <2>6, <2>7 DEF Step
<1>2. CASE TargetSerial
  BY <1>2, SerialKeeps
<1>3. ASSUME UNCHANGED vars PROVE AccessInv'
  <2>1. UNCHANGED <<build, mutex, th, current_chain, desired_chain, tap, ir, unit, mem, faults, calls, exited>>
    BY <1>3 DEF vars, sw, hw
  <2>2. TypeInv' /\ TapInv' /\ MutexGivenBack'
    BY <2>1 DEF AccessInv, TypeInv, TapInv, Advanced, MutexGivenBack
  <2>3. ChainInv'
    BY <2>1 DEF AccessInv, ChainInv, Legacy, IsLoop
  <2>4. \A t \in Threads : ThreadOK(t)' /\ DataOK(t)'
    BY <2>1 DEF AccessInv, ThreadOK, DataOK, CallOK, IsLoop, Advanced, Legacy
  <2> QED BY <2>2, <2>3, <2>4 DEF AccessInv
<1> QED BY <1>1, <1>2, <1>3, CallKeeps DEF Next

(***************************************************************************)
(* While t is inside a call the others are outside, and have no progress   *)
(* to keep.                                                                *)
(***************************************************************************)
LEMMA OutsideKept ==
  ASSUME NEW u \in Threads, th'[u].pc \in Outside
  PROVE  Kept(u)'
BY DEF Kept, BurstOK, ProgressOK, Outside, AdvPcs, BurstPcs, LegPcs

LEMMA OthersKept ==
  ASSUME AccessInv, NEW t \in Threads, th[t].pc \notin Outside,
         \A u \in Threads : u # t => th'[u] = th[u], Kept(t)'
  PROVE  DoneInv'
<1>1. ASSUME NEW u \in Threads, u # t PROVE Kept(u)'
  BY <1>1, InsideFacts, OutsideKept
<1> QED BY <1>1 DEF DoneInv, Kept

LEMMA SameKept ==
  ASSUME NEW u \in Threads, th'[u] = th[u], Kept(u),
         UNCHANGED <<build, current_chain, tap, unit, mem, exited>>
  PROVE  Kept(u)'
<1>1. IsLoop(th[u].call)' <=> IsLoop(th[u].call)
  BY DEF IsLoop, Legacy
<1>2. Part(u)' = Part(u)
  BY <1>1 DEF Part
<1>3. Sent(u)' = Sent(u)
  BY <1>1, <1>2 DEF Sent
<1>4. Done(u)' <=> Done(u)
  BY <1>2, <1>3, DoneSame
<1>5. BurstOK(u)'
  BY <1>2 DEF Kept, BurstOK
<1>6. SelectedFor(u)' <=> SelectedFor(u)
  BY <1>2 DEF SelectedFor
<1>7. Sound' <=> Sound
  BY DEF Sound
<1>8. ProgressOK(u)'
  BY <1>4, <1>6, <1>7 DEF Kept, ProgressOK
<1> QED BY <1>5, <1>8 DEF Kept

LEMMA DoneStep ==
  ASSUME AccessInv, DoneInv, [Next]_vars, \A b \in Builds : ~b.xilinx, Words <= LengthField
  PROVE  DoneInv'
<1>1. \A t \in Threads : Kept(t)
  BY DEF DoneInv, Kept
<1>2. ~build.xilinx
  BY DEF AccessInv, TypeInv
<1>3. ASSUME NEW t \in Threads, Lock(t) PROVE DoneInv'
  <2>1. /\ mutex = NoThread /\ th[t].pc = "lock" /\ th \in [Threads -> ThreadRecs]
        /\ th' = [th EXCEPT ![t].pc = IF Advanced THEN "select" ELSE "set_chain", ![t].sound = Sound]
        /\ UNCHANGED <<current_chain, tap, unit>>
    BY <1>3 DEF Lock, At, sw, hw, AccessInv, TypeInv
  <2>2. \A u \in Threads : u # t => th'[u] = th[u] /\ th[u].pc \in Outside
    BY <2>1, AccessAssumption DEF AccessInv, MutexGivenBack, NoThread, Outside
  <2>3. th'[t].pc \in {"select", "set_chain"} /\ th'[t].sound = Sound
    BY <2>1 DEF ThreadRecs
  <2>4. BurstOK(t)'
    BY <2>3 DEF BurstOK
  <2>5. Sound' <=> Sound
    BY <2>1 DEF Sound
  <2>6. ProgressOK(t)'
    BY <2>3, <2>5 DEF ProgressOK
  <2>7. \A u \in Threads : u # t => Kept(u)'
    BY <2>2, OutsideKept
  <2> QED BY <2>4, <2>6, <2>7 DEF DoneInv, Kept
<1>4. ASSUME NEW t \in Threads, Unlock(t) PROVE DoneInv'
  <2> DEFINE more == IsLoop(th[t].call) /\ th[t].part + 1 < th[t].call.len
  <2>1. /\ th[t].pc = "unlock" /\ th \in [Threads -> ThreadRecs]
        /\ th' = [th EXCEPT ![t].pc = IF more THEN "lock" ELSE "idle",
                            ![t].part = IF more THEN th[t].part + 1 ELSE th[t].part]
    BY <1>4 DEF Unlock, At, AccessInv, TypeInv
  <2> HIDE DEF more
  <2>2. th'[t].pc \in Outside /\ \A u \in Threads : u # t => th'[u] = th[u]
    BY <2>1 DEF Outside, ThreadRecs
  <2>3. th[t].pc \notin Outside
    BY <2>1 DEF Outside
  <2> QED BY <2>2, <2>3, OutsideKept, OthersKept
<1>5. ASSUME NEW t \in Threads, NEW c \in Calls(t, build), Call(t, c) PROVE DoneInv'
  <2> DEFINE r == [pc |-> IF c.len = 0 /\ c.mod = "wb" THEN "idle" ELSE "lock", call |-> c, part |-> 0,
                   i |-> 0, bus |-> 0, err |-> FALSE, data |-> << >>, sound |-> TRUE]
  <2>1. /\ th \in [Threads -> ThreadRecs] /\ th' = [th EXCEPT ![t] = r]
        /\ UNCHANGED <<build, current_chain, tap, unit, mem, exited>>
    BY <1>5 DEF Call, AccessInv, TypeInv, sw, hw
  <2>2. r.pc \in Outside
    BY DEF Outside
  <2> HIDE DEF r
  <2>3. th'[t] = r /\ \A u \in Threads : u # t => th'[u] = th[u]
    BY <2>1
  <2>4. \A u \in Threads : u # t => Kept(u)'
    BY <1>1, <2>1, <2>3, SameKept
  <2>5. Kept(t)'
    BY <2>2, <2>3, OutsideKept
  <2> QED BY <2>4, <2>5 DEF DoneInv, Kept
<1>6. ASSUME NEW t \in Threads, Step(t), ~Lock(t), ~Unlock(t) PROVE DoneInv'
  <2>1. th[t].pc \notin Outside
    BY <1>6 DEF Step, At, Outside, adbg_select_module, adbg_burst_command, BurstReadTimesOut,
                BurstReadOfRegister, adbg_wb_burst_read, adbg_wb_burst_write, ErrorCheck,
                adbg_ctrl_write, adbg_ctrl_read, adbg_jsp_transact, legacy_dbg_set_chain,
                legacy_dbg_command, legacy_dbg_go, legacy_dbg_ctrl, legacy_dbg_ctrl_read
  <2>2. Kept(t)' /\ \A u \in Threads : u # t => th'[u] = th[u]
    <3>1. CASE adbg_select_module(t) \/ adbg_burst_command(t)
      BY <1>1, <1>2, <3>1, SelectKeeps, CommandKeeps
    <3>2. CASE BurstReadTimesOut(t) \/ BurstReadOfRegister(t) \/ adbg_wb_burst_read(t)
      BY <1>1, <3>2, NoBurstReadKeeps, ReadKeeps
    <3>3. CASE adbg_wb_burst_write(t) \/ ErrorCheck(t)
      BY <1>1, <3>3, WriteKeeps, ErrorCheckKeeps
    <3>4. CASE adbg_ctrl_write(t) \/ adbg_ctrl_read(t) \/ adbg_jsp_transact(t)
      BY <1>1, <3>4, CtrlWriteKeeps, CtrlReadKeeps, TransactKeeps
    <3>5. CASE legacy_dbg_set_chain(t) \/ legacy_dbg_command(t) \/ legacy_dbg_go(t)
      BY <1>1, <3>5, SetChainKeeps, CommandLegacyKeeps, GoKeeps
    <3>6. CASE legacy_dbg_ctrl(t) \/ legacy_dbg_ctrl_read(t)
      BY <1>1, <3>6, LegacyCtrlKeeps, LegacyCtrlReadKeeps
    <3> QED BY <1>6, <3>1, <3>2, <3>3, <3>4, <3>5, <3>6 DEF Step
  <2> QED BY <2>1, <2>2, OthersKept
<1>7. CASE TargetSerial
  <2>1. PICK t \in Threads : th[t].pc = "transact" /\ ~exited
    BY <1>7 DEF TargetSerial, At
  <2>2. /\ unit'.sel = unit.sel /\ UNCHANGED <<build, th, current_chain, tap, exited>>
        /\ th \in [Threads -> ThreadRecs]
    BY <1>7, SerialKeeps DEF AccessInv, TypeInv
  <2>3. Stays(t, "transact")
    BY <2>1, <2>2 DEF Stays, Moved
  <2>4. th[t].sound /\ ~th[t].err => SelectedFor(t)
    BY <1>1, <2>1 DEF Kept, ProgressOK, AdvPcs
  <2>5. Kept(t)'
    BY <2>2, <2>3, <2>4, OnTheWay DEF Stays, SelectedFor
  <2>6. th[t].pc \notin Outside
    BY <2>1 DEF Outside
  <2> QED BY <2>2, <2>5, <2>6, OthersKept
<1>8. ASSUME UNCHANGED vars PROVE DoneInv'
  <2>1. UNCHANGED <<build, th, current_chain, tap, unit, mem, exited>>
    BY <1>8 DEF vars, sw, hw
  <2> QED BY <1>1, <2>1, SameKept DEF DoneInv, Kept
<1> QED BY <1>3, <1>4, <1>5, <1>6, <1>7, <1>8 DEF Next

-----------------------------------------------------------------------------
(***************************************************************************)
(* The bridge's and the debug unit's state keeps its type whatever the     *)
(* threads call, in every build and through any faults.                    *)
(***************************************************************************)
THEOREM AccessTypes == Spec => []AccessTypeOK
<1>1. Init => AccessInv
  BY InitFacts
<1>2. AccessInv /\ [Next]_vars => AccessInv'
  BY AccessStep
<1>3. AccessInv => AccessTypeOK
  <2> SUFFICES ASSUME AccessInv PROVE AccessTypeOK
    OBVIOUS
  <2> USE AccessAssumption
  <2>1. ASSUME NEW t \in Threads
        PROVE  /\ th[t].part \in 0..Words /\ th[t].i \in (-Words)..Words
               /\ th[t].bus \in 0..(MaxBusErrors + 1) /\ th[t].err \in BOOLEAN
    <3>1. ThreadOK(t) /\ th[t] \in ThreadRecs
      BY DEF AccessInv, TypeInv
    <3>2. /\ th[t].part \in Nat /\ th[t].bus \in Nat /\ th[t].err \in BOOLEAN
          /\ th[t].part <= Words /\ th[t].i \in (-Words)..Words /\ th[t].bus <= MaxBusErrors + 1
      BY <3>1 DEF ThreadOK, ThreadRecs
    <3> QED BY <3>2
  <2>2. tap \in TapStates /\ ir \in {"debug", "other"}
    BY DEF AccessInv, TapInv, TapStates
  <2>3. /\ unit.sel \in Modules \cup {NoModule} /\ unit.wberr \in Addrs \cup {NoAddr}
        /\ unit.room \in 0..JspMax /\ unit.avail \in 0..JspMax
    BY DEF AccessInv, TypeInv, UnitRecs
  <2> QED BY <2>1, <2>2, <2>3 DEF AccessInv, TypeInv, AccessTypeOK
<1> QED BY <1>1, <1>2, <1>3, PTL DEF Spec

(***************************************************************************)
(* dbg_access_mutex is held by a thread inside a call and by no other: it  *)
(* is given back on every way out of every function of dbg_api.c, after an *)
(* error too, and between the registers of a legacy loop.                  *)
(***************************************************************************)
THEOREM MutexReturned == Spec => []MutexGivenBack
<1>1. Init => AccessInv
  BY InitFacts
<1>2. AccessInv /\ [Next]_vars => AccessInv'
  BY AccessStep
<1>3. AccessInv => MutexGivenBack
  BY DEF AccessInv
<1> QED BY <1>1, <1>2, <1>3, PTL DEF Spec

(***************************************************************************)
(* A call of the debug API that finds the debug unit as the code expects   *)
(* it and returns APP_ERR_NONE has done what it was called for, and leaves *)
(* the debug unit as the next call expects it.  The two hypotheses: no     *)
(* Xilinx BSCAN build, whose tap_set_ir() before a read forgets the module *)
(* and with it the error check, and no two addresses of a module further   *)
(* apart than the 16-bit length field is wide.                             *)
(***************************************************************************)
THEOREM SuccessDone ==
  ASSUME \A b \in Builds : ~b.xilinx, Words <= LengthField
  PROVE  Spec => []SuccessMeansDone
<1>1. Init => AccessInv /\ DoneInv
  BY InitFacts
<1>2. AccessInv /\ DoneInv /\ [Next]_vars => AccessInv' /\ DoneInv'
  BY AccessStep, DoneStep
<1>3. AccessInv /\ DoneInv => SuccessMeansDone
  BY DEF DoneInv, ProgressOK, SuccessMeansDone, At
<1> QED BY <1>1, <1>2, <1>3, PTL DEF Spec
=============================================================================
