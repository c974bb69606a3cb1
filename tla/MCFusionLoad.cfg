SPECIFICATION Spec
CONSTANTS
  Regs <- ThreeRegs
  Insts <- LoadInsts
  MaxProgram = 4
  DecodeWidth = 4
  LoadFusion = TRUE
  AbrFusion = TRUE
  MacFusion = TRUE
INVARIANT FusionPreservesProgram
