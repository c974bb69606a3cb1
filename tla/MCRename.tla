------------------------------ MODULE MCRename ------------------------------
(* Instances of the rename stage for TLC.                                  *)
EXTENDS Rename, TLC

CONSTANTS r1, r2, x0, p1, p2, p3, p4, p5

Inst(o, s, d) == [op |-> o, src |-> s, dsts |-> d, imm |-> 0]

\* A write of each register, a pair load, a store, a write of x0, moves between
\* the two registers, from x0 and to itself.
MCInsts ==
  {Inst("alu", r1, <<r2>>), Inst("alu", x0, <<r1, r2>>), Inst("alu", r2, <<>>),
   Inst("mov", r1, <<r2>>), Inst("mov", r2, <<r1>>), Inst("mov", x0, <<r1>>),
   Inst("mov", r1, <<r1>>), Inst("alu", r1, <<x0>>)}

\* Two writes, a move each way and a store.
LiveInsts ==
  {Inst("alu", r1, <<r1>>), Inst("mov", r1, <<r2>>), Inst("alu", r2, <<>>)}

PhysSymmetry == Permutations({p1, p2, p3, p4, p5})

=============================================================================
