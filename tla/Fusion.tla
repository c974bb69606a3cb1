------------------------------- MODULE Fusion -------------------------------
(***************************************************************************)
(* Macro-op fusion in the decode stage.  decodeInsts takes one instruction *)
(* per iteration and tries, in this order, to fuse it with its predecessor *)
(* and its successor (triple), with its predecessor (pair), or, for a      *)
(* load, with an earlier load of the same cycle (non-consecutive pair).    *)
(* The result is compared with the program: a fused instruction must leave *)
(* the registers, memory and branch conditions its parts would have left.  *)
(*                                                                         *)
(* Values are terms: a register holds <<"init", r>> or the operation that  *)
(* made its value.  Two addresses are the same when their terms are.       *)
(* Instructions of a kind that the fusion tables treat alike are one       *)
(* opcode here: "slli" is any Slli of fusionMap3 whose shift amount is in  *)
(* fusionMap too, "andi" is Andi with the immediate 1, "ld" any load with  *)
(* an offset counted in its own size, "beq" any conditional branch.        *)
(***************************************************************************)
EXTENDS Naturals, Sequences

CONSTANTS
  Regs,        \* the integer registers a program uses
  Insts,       \* the instructions a program may contain
  MaxProgram,  \* bound: instructions of a program
  DecodeWidth, \* params.decodeWidth
  LoadFusion,  \* params.enable_loadFusion
  AbrFusion,   \* params.enable_abrFusion
  MacFusion    \* params.enable_macFusion

NoReg == "none"
Opcodes == {"slli", "andi", "addi", "add", "mul", "ld", "sd", "beq"}

ASSUME FusionAssumption ==
  /\ NoReg \notin Regs /\ DecodeWidth \in Nat \ {0}
  /\ \A i \in Insts : /\ i.op \in Opcodes /\ i.rd \in Regs \cup {NoReg} /\ i.off \in Nat
                      /\ i.rs \in Seq(Regs)

VARIABLES
  program, \* the instructions fetched
  pending, \* Decode::fixedbuffer: those still to decode
  vec,     \* fusionInst of decodeInsts
  index,   \* toRenameIndex
  sent     \* what rename has received

vars == <<program, pending, vec, index, sent>>

Last(s) == s[Len(s)]
Front(s) == SubSeq(s, 1, Len(s) - 1)

-----------------------------------------------------------------------------
(* What instructions do *)

InitialState == [regs |-> [r \in Regs |-> <<"init", r>>], mem |-> <<>>, branches |-> <<>>]

\* The value an ALU instruction makes of its operands.
Value(op, args) ==
  CASE op \in {"add", "mul"} -> <<op, {args[1], args[2]}>>
    [] OTHER -> <<op, args[1]>>

Load(st, base, off) ==
  LET hits == {k \in DOMAIN st.mem : st.mem[k].addr = <<base, off>>}
  IN  IF hits = {} THEN <<"mem", base, off>>
      ELSE st.mem[CHOOSE k \in hits : \A j \in hits : j <= k].data

SetReg(st, r, v) == [st EXCEPT !.regs[r] = v]

\* A branch is recorded with the registers it leaves the program with if taken.
AddBranch(st, v, w) ==
  [st EXCEPT !.branches = Append(@, [cond |-> <<v, w>>, regs |-> st.regs])]

Args(st, i) == [k \in DOMAIN i.rs |-> st.regs[i.rs[k]]]

\* One instruction on its own.
Execute(st, i) ==
  LET args == Args(st, i)
  IN  CASE i.op = "ld" -> SetReg(st, i.rd, Load(st, args[1], i.off))
        [] i.op = "sd" -> [st EXCEPT !.mem = Append(@, [addr |-> <<args[1], i.off>>,
                                                         data |-> args[2]])]
        [] i.op = "beq" -> AddBranch(st, args[1], args[2])
        [] OTHER -> SetReg(st, i.rd, Value(i.op, args))

-----------------------------------------------------------------------------
(* Fused instructions: f.parts in program order *)

Plain(i) == [fuse |-> "none", parts |-> <<i>>]

Others(i, r) == SelectSeq(i.rs, LAMBDA s : s # r)

\* The operand AluBr and Macc take from outside for their second part; reading
\* past the sources of the fused instruction yields anything.
OtherArg(st, i, r) == IF Others(i, r) = <<>> THEN <<"junk">> ELSE st.regs[Others(i, r)[1]]

\* Destination and source registers the fused instruction declares.
Dests(f) ==
  (CASE f.fuse \in {"none", "chain", "alubr"} -> {f.parts[1].rd}
     [] f.fuse \in {"macc", "aluld"} -> {f.parts[2].rd}
     [] f.fuse = "seqld" -> {f.parts[1].rd, f.parts[2].rd}
     [] f.fuse = "triple" -> {f.parts[3].rd}) \ {NoReg}

Sources(f) ==
  LET rs(k) == {f.parts[k].rs[j] : j \in DOMAIN f.parts[k].rs}
  IN  CASE f.fuse \in {"none", "aluld", "seqld"} -> rs(1)
        [] f.fuse \in {"chain", "alubr", "macc"} -> rs(1) \cup (rs(2) \ {f.parts[1].rd})
        [] f.fuse = "triple" ->
             rs(1) \cup {f.parts[2].rs[IF f.parts[2].rs[1] = f.parts[1].rd THEN 2 ELSE 1]}

isControl(f) == \E k \in DOMAIN f.parts : f.parts[k].op = "beq"

\* ChainFusionInst: the second part reads the first one's result from a
\* temporary, every other operand from the registers.
ExecuteChain(st, p) ==
  LET v == Value(p[1].op, Args(st, p[1]))
  IN  SetReg(st, p[1].rd,
             Value(p[2].op, [k \in DOMAIN p[2].rs |->
                               IF p[2].rs[k] = p[1].rd THEN v ELSE st.regs[p[2].rs[k]]]))

ExecuteAluBr(st, p) ==
  LET v == Value(p[1].op, Args(st, p[1]))
      w == OtherArg(st, p[2], p[1].rd)
      next == SetReg(st, p[1].rd, v)
  IN  IF p[2].rs[1] = p[1].rd THEN AddBranch(next, v, w) ELSE AddBranch(next, w, v)

ExecuteMacc(st, p) ==
  SetReg(st, p[2].rd, Value(p[2].op, <<Value(p[1].op, Args(st, p[1])),
                                       OtherArg(st, p[2], p[1].rd)>>))

ExecuteAluLoad(st, p) ==
  SetReg(st, p[2].rd, Load(st, Value(p[1].op, Args(st, p[1])), p[2].off))

ExecuteSeqLoad(st, p) ==
  LET base == st.regs[p[1].rs[1]]
  IN  SetReg(SetReg(st, p[1].rd, Load(st, base, p[1].off)), p[2].rd, Load(st, base, p[2].off))

ExecuteSlliAddLoad(st, p) ==
  LET base == st.regs[p[2].rs[IF p[2].rs[1] = p[1].rd THEN 2 ELSE 1]]
  IN  SetReg(st, p[3].rd, Load(st, Value("add", <<Value("slli", Args(st, p[1])), base>>), p[3].off))

ExecuteFused(st, f) ==
  CASE f.fuse = "none"   -> Execute(st, f.parts[1])
    [] f.fuse = "chain"  -> ExecuteChain(st, f.parts)
    [] f.fuse = "alubr"  -> ExecuteAluBr(st, f.parts)
    [] f.fuse = "macc"   -> ExecuteMacc(st, f.parts)
    [] f.fuse = "aluld"  -> ExecuteAluLoad(st, f.parts)
    [] f.fuse = "seqld"  -> ExecuteSeqLoad(st, f.parts)
    [] f.fuse = "triple" -> ExecuteSlliAddLoad(st, f.parts)

-----------------------------------------------------------------------------
(* The fusion tables and their checkers *)

\* Dest0EqualSecondSrc0or1 and Dest0EqualSrc0or1 (x its own consumer).
Feeds(x, y) == \E k \in DOMAIN y.rs : y.rs[k] = x.rd
SameDest(x, y) == x.rd = y.rd

\* SeqLoadCheck and the offsets.
SeqLoadCheck(x, y) == x.rs[1] = y.rs[1] /\ x.rd # x.rs[1] /\ x.rd # y.rd /\ y.off = x.off + 1

\* fusionMap: the class of the fused instruction that x and y make, or "none".
fusionMap(x, y) ==
  CASE x.op = "slli" /\ y.op = "add" /\ SameDest(x, y) /\ Feeds(y, y) -> "chain"
    [] x.op = "andi" /\ y.op \in {"add", "andi"} /\ SameDest(x, y) /\ Feeds(y, y) -> "chain"
    [] x.op \in {"add", "addi"} /\ y.op = "ld" /\ SameDest(x, y) /\ y.rd = y.rs[1] -> "aluld"
    [] x.op \in {"addi", "andi"} /\ y.op = "beq" /\ Feeds(x, y) -> "alubr"
    [] x.op = "mul" /\ y.op = "add" /\ Feeds(x, y) -> "macc"
    [] x.op = "ld" /\ y.op = "ld" /\ SeqLoadCheck(x, y) -> "seqld"
    [] OTHER -> "none"

\* SlliAddLdCheck.  A load has one source register; the second one the macro
\* reads is the slot after it, which holds the load's destination.
SlliAddLdCheck(x, y, z) ==
  /\ x.op = "slli" /\ y.op = "add" /\ z.op = "ld"
  /\ Feeds(x, y) /\ y.rd = z.rd /\ z.rd = z.rs[1]

-----------------------------------------------------------------------------
(* Decode::decodeInsts *)

isPlain(f) == f.fuse = "none"
isLoad(f) == f.parts[Len(f.parts)].op = "ld"

\* The parameters that switch a class of pairs off.
PairEnabled(f, i) ==
  /\ LoadFusion \/ ~(isLoad(f) \/ i.op = "ld")
  /\ AbrFusion \/ i.op # "beq"
  /\ MacFusion \/ ~(isPlain(f) /\ f.parts[1].op = "mul")

\* checkAndFuseTriple with the last instruction taken, i and the next pending one.
CanFuseTriple(i, rest) ==
  /\ vec # <<>> /\ rest # <<>> /\ LoadFusion /\ isPlain(Last(vec))
  /\ SlliAddLdCheck(Last(vec).parts[1], i, rest[1])

\* checkAndFuseInsts.
CanFusePair(i) ==
  /\ vec # <<>> /\ PairEnabled(Last(vec), i) /\ isPlain(Last(vec))
  /\ fusionMap(Last(vec).parts[1], i) # "none"

\* Mutant of SafeGap: a branch may stand between the two loads.
GapMayBranch(f, i) == Dests(f) \cap {i.rd, i.rs[1]} = {} /\ i.rd \notin Sources(f)

\* What checkAndFuseNonConsec demands of every instruction between the head and
\* the tail i, and of the head.
SafeGap(f, i) ==
  /\ ~isControl(f)
  /\ Dests(f) \cap {i.rd, i.rs[1]} = {}
  /\ i.rd \notin Sources(f)

\* checkAndFuseNonConsec: the positions of vec whose load can be the head of
\* the pair that i completes.
Heads(i) ==
  {k \in 1..Len(vec) - 1 :
     /\ LoadFusion /\ i.op = "ld" /\ i.rd # i.rs[1]
     /\ \A j \in k..Len(vec) : SafeGap(vec[j], i)
     /\ isPlain(vec[k]) /\ fusionMap(vec[k].parts[1], i) = "seqld"}

Pair(x, y) == [fuse |-> fusionMap(x, y), parts |-> <<x, y>>]

Decoding == pending # <<>> /\ index < DecodeWidth

Advance(n) ==
  /\ pending' = SubSeq(pending, n + 1, Len(pending))
  /\ index' = index + 1
  /\ UNCHANGED <<program, sent>>

checkAndFuseTriple ==
  /\ Decoding /\ CanFuseTriple(pending[1], Tail(pending))
  /\ vec' = Append(Front(vec), [fuse |-> "triple",
                                parts |-> <<Last(vec).parts[1], pending[1], pending[2]>>])
  /\ Advance(2)

checkAndFuseInsts ==
  /\ Decoding /\ ~CanFuseTriple(pending[1], Tail(pending)) /\ CanFusePair(pending[1])
  /\ vec' = Append(Front(vec), Pair(Last(vec).parts[1], pending[1]))
  /\ Advance(1)

checkAndFuseNonConsec ==
  /\ Decoding /\ ~CanFuseTriple(pending[1], Tail(pending)) /\ ~CanFusePair(pending[1])
  /\ \E k \in Heads(pending[1]) :
       /\ \A j \in Heads(pending[1]) : j <= k
       /\ vec' = [vec EXCEPT ![k] = Pair(vec[k].parts[1], pending[1])]
  /\ Advance(1)

pushInst ==
  /\ Decoding /\ ~CanFuseTriple(pending[1], Tail(pending)) /\ ~CanFusePair(pending[1])
  /\ Heads(pending[1]) = {}
  /\ vec' = Append(vec, Plain(pending[1]))
  /\ Advance(1)

\* The end of decodeInsts: what the cycle made goes to rename.
sendInsts ==
  /\ vec # <<>> /\ ~Decoding
  /\ sent' = sent \o vec
  /\ vec' = <<>> /\ index' = 0
  /\ UNCHANGED <<program, pending>>

\* Fetch delivers a program and rename uses up what it received.
Programs == UNION {[1..n -> Insts] : n \in 1..MaxProgram}

fetchInsts ==
  /\ program = <<>>
  /\ \E p \in Programs : program' = p /\ pending' = p
  /\ UNCHANGED <<vec, index, sent>>

renameInsts ==
  /\ program # <<>> /\ pending = <<>> /\ vec = <<>>
  /\ program' = <<>> /\ sent' = <<>>
  /\ UNCHANGED <<pending, vec, index>>

Init == program = <<>> /\ pending = <<>> /\ vec = <<>> /\ index = 0 /\ sent = <<>>

Next == \/ fetchInsts \/ checkAndFuseTriple \/ checkAndFuseInsts
        \/ checkAndFuseNonConsec \/ pushInst \/ sendInsts \/ renameInsts

Spec == Init /\ [][Next]_vars

-----------------------------------------------------------------------------
(* Properties *)

RunSequential(p) ==
  LET run[k \in 0..Len(p)] == IF k = 0 THEN InitialState ELSE Execute(run[k - 1], p[k])
  IN  run[Len(p)]

RunFused(fs) ==
  LET run[k \in 0..Len(fs)] == IF k = 0 THEN InitialState ELSE ExecuteFused(run[k - 1], fs[k])
  IN  run[Len(fs)]

Consumed == SubSeq(program, 1, Len(program) - Len(pending))

\* At the end of every decode cycle the instructions sent to rename, fused or
\* not, leave the registers, the memory and the branch conditions exactly as
\* the instructions that decode took from fetch would one by one.
FusionPreservesProgram == vec = <<>> => RunFused(sent) = RunSequential(Consumed)
=============================================================================
