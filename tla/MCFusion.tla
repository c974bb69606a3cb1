------------------------------ MODULE MCFusion ------------------------------
(* Instruction sets for model-checking Fusion. *)
EXTENDS Fusion

I(op, rd, rs, off) == [op |-> op, rd |-> rd, rs |-> rs, off |-> off]

ThreeRegs == {"x1", "x2", "x3"}

\* Load pairs with and without a gap; chain, address, branch and multiply-add
\* pairs; the triple.  Left out, because fusion does not preserve them: stores;
\* a branch or an add that reads one register twice; an slli or mul whose
\* result the add that follows does not overwrite.
LoadInsts ==
  {I("ld", d, <<"x1">>, o) : d \in ThreeRegs, o \in {0, 1}}
  \cup {I("addi", d, <<"x2">>, 0) : d \in ThreeRegs}
  \cup {I("slli", "x1", <<"x2">>, 0), I("mul", "x1", <<"x2", "x3">>, 0),
        I("add", "x1", <<"x1", "x3">>, 0)}
  \cup {I("andi", "x1", <<"x1">>, 0), I("andi", "x1", <<"x2">>, 0), I("andi", "x2", <<"x1">>, 0)}
  \cup {I("beq", NoReg, <<"x1", "x2">>, 0), I("beq", NoReg, <<"x3", "x1">>, 0)}

\* Load pairs with stores between them.
StoreInsts ==
  {I("ld", d, <<"x1">>, o) : d \in ThreeRegs, o \in {0, 1}}
  \cup {I("sd", NoReg, <<"x1", d>>, o) : d \in ThreeRegs, o \in {0, 1}}

=============================================================================
