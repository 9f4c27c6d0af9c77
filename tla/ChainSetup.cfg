SPECIFICATION Spec
CONSTANTS
  IdBits = 5
  WordBits = 5
  VirBits = 2
  DbgBits = 2
  MaxFaults = 1
  ManufBits = 3
  StartOnes = 3
  MaxDevices = 4
  AllocSize = 1
  Scenarios <- MCScenarios
  XilinxManuf <- Xilinx
  AlteraManuf <- Altera
  VirCmd <- CmdVir
  VdrCmd <- CmdVdr
INVARIANTS SetupTypeOK  OnlyTargetSelected ScansLandInTarget
PROPERTY StartupEnds
