-------------------------------- MODULE Bsdl --------------------------------
(***************************************************************************)
(* The BSDL reader (bsdl.c, bsdl_parse.c): what the bridge knows of the    *)
(* devices on the JTAG chain.  The files are read lazily: a question about *)
(* an IDCODE is answered from the last answer, then from the files parsed  *)
(* so far, and only then by parsing more files.                            *)
(*                                                                         *)
(* A file is the sequence of its statements or cannot be opened, a         *)
(* directory is the sequence of its BSDL files, and the text of a          *)
(* statement is abstracted to its value.                                   *)
(***************************************************************************)
EXTENDS Integers, Sequences, FiniteSets, SequencesExt

CONSTANT IdBits               \* bits of an IDCODE above its start bit (31)

ASSUME IdBitsAssumption == IdBits \in Nat \ {0}

X == 2                        \* the don't-care character of an IDCODE string
NoCmd == << >>                \* TAP_CMD_INVALID
NoSize == -1                  \* the IR length of a device nobody knows
NoInfo == [idcode |-> << >>, mask |-> << >>, ir |-> NoSize, debug |-> NoCmd,
           user1 |-> NoCmd, idc |-> NoCmd]
Spins == [NoInfo EXCEPT !.ir = -2]   \* the parser does not come back

(***************************************************************************)
(* parse_extract_values(): the statements of a file are read in order, to  *)
(* END, to the end of the file or until all three values are found.  Most  *)
(* are skipped up to their ';', three attributes carry values.             *)
(***************************************************************************)
Attributes == {"INSTRUCTION_LENGTH", "INSTRUCTION_OPCODE", "IDCODE_REGISTER"}

Statements ==
       [t : {"INSTRUCTION_LENGTH"}, v : Nat \ {0}, closed : BOOLEAN]
  \cup [t : {"INSTRUCTION_OPCODE"}, v : Seq(STRING \X Seq({0, 1})), closed : BOOLEAN]
  \cup [t : {"IDCODE_REGISTER"}, v : [1..IdBits -> {0, 1, X}], closed : BOOLEAN]
  \cup [t : STRING \ Attributes, v : {0}, closed : BOOLEAN]
Files == [opens : BOOLEAN, statements : Seq(Statements)]

\* A statement whose ';' is missing is searched for it beyond the end of the
\* file, for ever.  An ENTITY or an unknown line is not searched for one.
NeverEnds(s) == ~s.closed /\ s.t \notin {"ENTITY", "UNKNOWN", "END"}

\* The statements the parser's loop comes to.
Read(ss) == {n \in DOMAIN ss :
               /\ \A k \in 1..n : ss[k].t # "END"
               /\ \A k \in 1..(n - 1) : ~NeverEnds(ss[k])
               /\ ~ Attributes \subseteq {ss[k].t : k \in 1..(n - 1)}}

\* The values of those of one kind, in order.
Kind(ss, t) == FlattenSeq([n \in DOMAIN ss |-> IF n \in Read(ss) /\ ss[n].t = t
                                               THEN <<ss[n].v>> ELSE << >>])

\* parse_opcodes(): of the pairs of a name and an opcode only three names matter,
\* and the last opcode given for one counts.
ParseOpcodes(pairs, name) ==
  LET hit == SelectLastInSeq(pairs, LAMBDA p : p[1] = name)
  IN IF hit = 0 THEN NoCmd ELSE pairs[hit][2]

\* IDCODE_REGISTER: ones are added to the code, don't-cares taken out of the mask.
ParseIdcode(codes, char, hit, miss) ==
  [b \in 1..IdBits |-> IF \E n \in DOMAIN codes : codes[n][b] = char THEN hit ELSE miss]

ParseInstructionLength(found) == IF found = << >> THEN NoSize ELSE Last(found)

Extracted(lengths, pairs, codes) ==
  [idcode |-> ParseIdcode(codes, 1, 1, 0), mask |-> ParseIdcode(codes, X, 0, 1),
   ir |-> ParseInstructionLength(lengths), debug |-> ParseOpcodes(pairs, "DEBUG"),
   user1 |-> ParseOpcodes(pairs, "USER1"), idc |-> ParseOpcodes(pairs, "IDCODE")]

ParseExtractValues(file) ==
  LET ss == file.statements
  IN IF ~file.opens THEN NoInfo
     ELSE IF \E n \in Read(ss) : NeverEnds(ss[n]) THEN Spins
     ELSE Extracted(Kind(ss, "INSTRUCTION_LENGTH"), FlattenSeq(Kind(ss, "INSTRUCTION_OPCODE")),
                    Kind(ss, "IDCODE_REGISTER"))

(***************************************************************************)
(* get_bsdl_info() over the state of the reader: the infos parsed so far,  *)
(* the one last used, and the directories still to be read, the one added  *)
(* last first.                                                             *)
(***************************************************************************)

BsdlInit(dirs) == [parsed |-> << >>, last |-> NoInfo, dirs |-> Reverse(dirs)]

Matches(info, idcode) ==
  info # NoInfo /\ \A b \in 1..IdBits : info.mask[b] = 1 => info.idcode[b] = idcode[b]

Stored(info) == info # NoInfo  \* a file that could not be read adds nothing

\* The files in the order in which the reader will come to them.
Unread(bsdl) == FlattenSeq(bsdl.dirs)

\* Drops the first n unread files.
DropFiles(bsdl, n) == << SubSeq(Unread(bsdl), n + 1, Len(Unread(bsdl))) >>

\* The reader after n more files; infos is what is in the unread ones.
ReadOn(bsdl, infos, n) ==
  [bsdl EXCEPT !.parsed = @ \o FlattenSeq([k \in 1..n |-> IF Stored(infos[k]) THEN <<infos[k]>>
                                                          ELSE << >>]),
               !.dirs = DropFiles(bsdl, n)]

\* Files are read until one is the device's, or the parser does not come back.
FromFiles(bsdl, infos, stop) ==
  IF stop = 0 THEN [info |-> NoInfo, bsdl |-> ReadOn(bsdl, infos, Len(infos))]
  ELSE IF infos[stop] = Spins THEN [info |-> Spins, bsdl |-> bsdl]
  ELSE [info |-> infos[stop], bsdl |-> [ReadOn(bsdl, infos, stop) EXCEPT !.last = infos[stop]]]

LookUp(bsdl, idcode, known, infos) ==
  IF Matches(bsdl.last, idcode) THEN [info |-> bsdl.last, bsdl |-> bsdl]
  ELSE IF known # 0 THEN [info |-> bsdl.parsed[known],
                          bsdl |-> [bsdl EXCEPT !.last = bsdl.parsed[known]]]
  ELSE FromFiles(bsdl, infos, SelectInSeq(infos, LAMBDA i : i = Spins \/ Matches(i, idcode)))

GetBsdlInfo(bsdl, idcode) ==
  LookUp(bsdl, idcode, SelectInSeq(bsdl.parsed, LAMBDA i : Matches(i, idcode)),
         [n \in DOMAIN Unread(bsdl) |-> ParseExtractValues(Unread(bsdl)[n])])
=============================================================================
