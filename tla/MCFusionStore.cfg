SPECIFICATION Spec
CONSTANTS
  Regs <- ThreeRegs
  Insts <- StoreInsts
  MaxProgram = 3
  DecodeWidth = 4
  LoadFusion = TRUE
  AbrFusion = TRUE
  MacFusion = FALSE
INVARIANT FusionPreservesProgram
