------------------------------ MODULE ArchState ------------------------------
(***************************************************************************)
(* What renaming promises: the registers of a machine that runs one        *)
(* instruction after the other.  `arch' is the architectural state after   *)
(* the retired instructions; `log' lists the instructions that have been   *)
(* renamed and not retired, in program order, each with the value its      *)
(* source operand has in program order.                                    *)
(***************************************************************************)
EXTENDS Naturals, Sequences

CONSTANTS
  ArchRegs,  \* renameable architectural registers
  Zero,      \* the architectural register x0
  Insts,     \* decoded instructions: [op, src, dsts, imm]
  MaxSeq     \* bound: sequence numbers handed out

VARIABLES arch, log

\* Values are symbolic: the instruction result they derive from (b) plus an
\* added constant (o).  x0 always reads as ZeroValue.
ZeroValue == [b |-> <<>>, o |-> 0]

\* What destination i of the instruction holds, given its source's value.
Result(sn, inst, i, srcval) ==
  CASE inst.op = "alu"  -> [b |-> <<sn, i>>, o |-> 0]
    [] inst.op = "mov"  -> srcval
    [] inst.op = "addi" -> [srcval EXCEPT !.o = @ + inst.imm]

\* The destination slots of the instruction that write register a.
Slots(inst, a) == {j \in 1..Len(inst.dsts) : inst.dsts[j] = a}

LastOf(S) == CHOOSE i \in S : \A k \in S : k <= i

\* The value of register a once the instructions of `log' have run.
SpecRead(a) ==
  LET writers == {i \in 1..Len(log) : Slots(log[i].inst, a) # {}}
      w == log[LastOf(writers)]
  IN IF a = Zero THEN ZeroValue
     ELSE IF writers = {} THEN arch[a]
     ELSE Result(w.sn, w.inst, LastOf(Slots(w.inst, a)), w.srcval)

\* The registers after the instruction of log entry e has run on `arch'.
Apply(e) ==
  [a \in ArchRegs |->
     IF Slots(e.inst, a) = {} THEN arch[a]
     ELSE Result(e.sn, e.inst, LastOf(Slots(e.inst, a)), e.srcval)]

ArchInit ==
  /\ arch = [a \in ArchRegs |-> [b |-> <<a>>, o |-> 0]]
  /\ log = <<>>

Dispatch ==
  /\ \E sn \in 1..MaxSeq, inst \in Insts :
       /\ \A i \in 1..Len(log) : log[i].sn < sn
       /\ log' = Append(log, [sn |-> sn, inst |-> inst,
                              srcval |-> SpecRead(inst.src)])
  /\ UNCHANGED arch

Retire ==
  /\ log # <<>>
  /\ arch' = Apply(Head(log))
  /\ log' = Tail(log)

Squash ==
  /\ \E k \in 0..Len(log) : log' = SubSeq(log, 1, k)
  /\ UNCHANGED arch

ArchNext == Dispatch \/ Retire \/ Squash

ArchSpec == ArchInit /\ [][ArchNext]_<<arch, log>>

=============================================================================
