------------------------------- MODULE MpHash -------------------------------
(***************************************************************************)
(* The RSP server's table of matchpoints (rsp.mp_hash, rsp-server.c).  An  *)
(* entry has a type, an address and "instr": the instruction a memory      *)
(* breakpoint replaced, or the number of the hardware watchpoint.  The     *)
(* buckets and their chains are abstracted: entries are searched by type   *)
(* and address only, so the table is a set of entries.                     *)
(***************************************************************************)

mp_hash_init == {}

\* The entries that match; the functions below keep it at one at most.
mp_hash_lookup(hash, type, addr) == {e \in hash : e.type = type /\ e.addr = addr}

\* Mutant: the entry is replaced.
AddReplaces(hash, type, addr, instr) ==
  {e \in hash : e.type # type \/ e.addr # addr} \cup {[type |-> type, addr |-> addr, instr |-> instr]}

\* Does nothing when the entry is already there.
mp_hash_add(hash, type, addr, instr) ==
  IF mp_hash_lookup(hash, type, addr) = {}
  THEN hash \cup {[type |-> type, addr |-> addr, instr |-> instr]}
  ELSE hash

mp_hash_delete(hash, type, addr) == hash \ mp_hash_lookup(hash, type, addr)
=============================================================================
