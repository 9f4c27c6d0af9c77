---------------------------- MODULE MCChainSetup ----------------------------
(* Chains of up to five devices, words of five bits, IDCODEs of five bits    *)
(* above the start bit.                                                      *)
EXTENDS ChainSetup

Plain == <<0, 1, 0>>        \* manufacturer codes
Xilinx == <<1, 0, 0>>
Altera == <<0, 0, 1>>

None == [irlen |-> 2, id |-> << >>, idcode |-> << >>, debug |-> <<0, 0>>, vir |-> << >>, vdr |-> << >>]
Soc == [irlen |-> 2, id |-> Plain \o <<1, 0>>, idcode |-> <<1, 0>>, debug |-> <<0, 1>>,
        vir |-> << >>, vdr |-> << >>]
Fpga == [irlen |-> 3, id |-> Xilinx \o <<1, 1>>, idcode |-> <<0, 0, 1>>, debug |-> <<0, 1, 0>>,
         vir |-> << >>, vdr |-> << >>]
Cyclone == [irlen |-> 3, id |-> Altera \o <<0, 1>>, idcode |-> <<0, 1, 1>>, debug |-> << >>,
            vir |-> <<0, 1, 0>>, vdr |-> <<0, 0, 1>>]

CmdVir == <<0, 1, 0>>
CmdVdr == <<0, 0, 1>>

S(t, v) == [t |-> t, v |-> v, closed |-> TRUE]
File(ss) == [opens |-> TRUE, statements |-> ss]
SocFile == File(<<S("ENTITY", 0), S("PORT", 0), S("INSTRUCTION_LENGTH", 2),
                  S("INSTRUCTION_OPCODE", <<<<"EXTEST", <<0, 0>>>>, <<"DEBUG", <<0, 1>>>>,
                                            <<"IDCODE", <<1, 0>>>>>>),
                  S("IDCODE_REGISTER", Plain \o <<X, 0>>), S("END", 0)>>)
FpgaFile == File(<<S("CONSTANT", 0), S("IDCODE_REGISTER", Xilinx \o <<1, X>>),
                   S("INSTRUCTION_OPCODE", <<<<"USER1", <<0, 1, 0>>>>, <<"IDCODE", <<0, 0, 1>>>>>>),
                   S("INSTRUCTION_LENGTH", 3), S("UNKNOWN", 0)>>)
CycloneFile == File(<<S("INSTRUCTION_LENGTH", 3), S("IDCODE_REGISTER", Altera \o <<0, 1>>),
                      S("INSTRUCTION_OPCODE", <<<<"IDCODE", <<0, 1, 1>>>>>>)>>)
Empty == File(<< >>)
Unreadable == [opens |-> FALSE, statements |-> << >>]
Cut == File(<<S("ENTITY", 0), [t |-> "PORT", v |-> 0, closed |-> FALSE]>>)

Base == [chain |-> <<Soc>>, target |-> 0, initialTap |-> {"IDLE", "SHIFT_IR"}, trst |-> FALSE, stuck |-> "no", level |-> 0,
         shift |-> "masked", legacy |-> FALSE, args |-> << >>, cable |-> TRUE, virDebug |-> <<0, 1, 1>>, status |-> <<1, 0>>,
         dirs |-> <<<<CycloneFile>>, <<Unreadable, Empty, FpgaFile>>, <<SocFile>>>>, wellFormed |-> TRUE]

\* Every chain of up to three devices and every target in it whose instruction
\* stays inside a word; the command line has the lengths no BSDL file has.
ChainsUpTo(n) == UNION {[1..m -> {None, Soc, Cyclone}] : m \in 1..n}
Lengths(c, d) == FoldLeft(LAMBDA n, k : n + c[k].irlen, 0, [k \in 1..d |-> k])
InsideWord(c, t) == (Lengths(c, t) % WordBits) + c[t + 1].irlen < WordBits
Unlisted(c) == SelectSeq([d \in DOMAIN c |-> <<"l", <<d - 1, IF c[d].id = << >> THEN 2 ELSE 0>>>>],
                         LAMBDA e : e[2][2] # 0)
Options(c, t) == <<<<"x", t>>>> \o Unlisted(c)
                   \o IF c[t + 1].id = << >> THEN <<<<"c", <<0, 0>>>>>> ELSE << >>
AllChains == UNION {{[Base EXCEPT !.chain = c, !.target = t, !.args = Options(c, t), !.initialTap = {"IDLE"}] :
                       t \in {t \in 0..(Len(c) - 1) : InsideWord(c, t)}} : c \in ChainsUpTo(3)}

\* What can be wrong or unusual: options, a long chain, a stuck line, a broken file.
MCScenarios == AllChains \cup {
  [Base EXCEPT !.shift = "zero", !.trst = TRUE, !.legacy = TRUE],
  [Base EXCEPT !.legacy = TRUE, !.chain = <<Soc, None>>, !.args = <<<<"l", <<1, 2>>>>>>],
  [Base EXCEPT !.chain = <<Fpga, Soc>>, !.args = <<<<"l", <<0, 2>>>>, <<"l", <<0, 3>>>>>>],
  [Base EXCEPT !.chain = <<Soc, Cyclone, Fpga>>, !.target = 2, !.args = <<<<"g", 0>>, <<"x", 2>>>>],
  [Base EXCEPT !.chain = <<Cyclone>>, !.args = <<<<"a", 0>>>>],
  [Base EXCEPT !.chain = <<None, Soc>>],
  [Base EXCEPT !.args = <<<<"x", 1>>>>],
  [Base EXCEPT !.args = <<<<"h", 0>>>>],
  [Base EXCEPT !.cable = FALSE],
  [Base EXCEPT !.chain = <<Cyclone>>, !.args = <<<<"v", <<0, 1, 0>>>>, <<"r", <<0, 0, 1>>>>, <<"a", 1>>>>],
  [Base EXCEPT !.chain = <<Soc, Soc, Soc, Soc, None>>, !.args = <<<<"l", <<4, 2>>>>>>],
  [Base EXCEPT !.stuck = "yes", !.level = 0],
  [Base EXCEPT !.stuck = "yes", !.level = 1],
  [Base EXCEPT !.dirs = <<<<SocFile>>, <<Cut>>>>, !.wellFormed = FALSE] }

\* The target's instruction crosses the end of the first word.
SpillScenarios == {
  [Base EXCEPT !.chain = <<None, Fpga>>, !.target = 1, !.args = <<<<"x", 1>>, <<"l", <<0, 2>>>>>>],
  [Base EXCEPT !.chain = <<Fpga, Fpga>>, !.target = 1, !.args = <<<<"x", 1>>>>] }
=============================================================================
