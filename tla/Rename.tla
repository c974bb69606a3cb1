------------------------------- MODULE Rename -------------------------------
(***************************************************************************)
(* The rename stage of the O3 core for one hardware thread and one         *)
(* register class: the rename map, the commit rename map, the free list,   *)
(* the reference counts that move elimination and constant folding need,   *)
(* the history buffer, and the delayed release of physical registers.      *)
(*                                                                         *)
(* A cycle is commit.tick() followed by rename.tick(); `phase' says which  *)
(* part of the cycle runs next, and every loop of the code (the undo loop  *)
(* of doSquash, the free loop of removeFromHistory, the destination loop   *)
(* of renameDestRegs) is one step per iteration.  The commit stage is only *)
(* what rename sees of it: which instructions retire, and which sequence   *)
(* number a squash keeps.                                                  *)
(*                                                                         *)
(* The free list is the set of free registers: which of them getReg()      *)
(* hands out is data no property depends on.  The history buffer is a set  *)
(* of entries ordered by the position `hid' at which they were pushed.     *)
(* `log' stands for the renamed instructions that have not retired; its    *)
(* srcval fields, `arch' and `val' are history variables that say what     *)
(* program order computes and what a physical register will hold.  A       *)
(* register is overwritten, in `val', the moment it is allocated.          *)
(***************************************************************************)
EXTENDS Naturals, Sequences, FiniteSets, ArchState

CONSTANTS
  PhysRegs,              \* renameable physical registers
  InvalidReg,            \* UnifiedRenameMap::invalidPhysRegId, reads as zero
  MaxDests,              \* bound: destinations of one instruction
  RenameWidth,           \* params.renameWidth
  ReleaseWidth,          \* params.phyregReleaseWidth
  EnableMoveElimination, \* params.enableMoveElimination
  EnableConstantFolding  \* params.enableConstantFolding

ASSUME RegsAssumption ==
  /\ IsFiniteSet(ArchRegs) /\ IsFiniteSet(PhysRegs)
  /\ Zero \notin ArchRegs /\ InvalidReg \notin PhysRegs

ASSUME WidthAssumption ==
  RenameWidth \in Nat \ {0} /\ MaxDests \in Nat /\ ReleaseWidth \in Nat /\ MaxSeq \in Nat

ASSUME FlagAssumption ==
  EnableMoveElimination \in BOOLEAN /\ EnableConstantFolding \in BOOLEAN

ASSUME InstsAssumption ==
  \A i \in Insts : /\ i.op \in {"alu", "mov", "addi"}
                   /\ i.src \in ArchRegs \cup {Zero}
                   /\ i.dsts \in Seq(ArchRegs \cup {Zero})
                   /\ i.imm \in Nat
                   /\ Len(i.dsts) <= MaxDests
                   /\ i.op # "alu" => Len(i.dsts) = 1

VARIABLES
  phase,          \* the part of the cycle that runs next
  renameMap,      \* UnifiedRenameMap::map of the rename stage
  commitMap,      \* commitRenameMap
  freeList,       \* SimpleFreeList::freeRegs
  numRef,         \* PhysRegId::numRef
  history,        \* Rename::historyBuffer
  nextHid,        \* position of the next history entry
  finalCommitSeq, \* Rename::finalCommitSeq
  releaseSeq,     \* Rename::releaseSeq
  fixedbuffer,    \* Rename::fixedbuffer
  destIdx,        \* dest_idx of renameDestRegs, 0 between instructions
  blockRename,    \* stallSig->blockRename
  toRename,       \* what commit writes to the time buffer in this cycle
  fromCommit,     \* what commit wrote in the previous cycle
  robSquashing,   \* commitStatus = ROBSquashing
  lastCommitted,  \* Commit::lastCommitedSeqNum
  nextSeq,        \* the next sequence number
  val             \* the value each physical register holds or will hold

mapVars == <<renameMap, freeList, numRef, history, nextHid>>
releaseVars == <<finalCommitSeq, releaseSeq>>
bufferVars == <<fixedbuffer, destIdx, nextSeq>>
commitVars == <<commitMap, toRename, robSquashing, lastCommitted, arch>>
wireVars == <<fromCommit, blockRename>>
vars == <<phase, mapVars, releaseVars, bufferVars, commitVars, wireVars,
          log, val>>

-----------------------------------------------------------------------------
(* Registers, values, and the program-order meaning of an instruction.     *)

VirtRegs == [phy : PhysRegs \cup {InvalidReg}, imm : Nat]

InvalidVirt == [phy |-> InvalidReg, imm |-> 0]

lookup(map, a) == IF a = Zero THEN InvalidVirt ELSE map[a]

\* VirtRegId::correct applied to the contents of the physical register.
Read(v) == [b |-> val[v.phy].b, o |-> val[v.phy].o + v.imm]

NoInfo == [done |-> 0, squash |-> FALSE]

Init ==
  /\ phase = "commit"
  /\ renameMap \in [ArchRegs -> [phy : PhysRegs, imm : {0}]]
  /\ \A a, b \in ArchRegs : renameMap[a].phy = renameMap[b].phy => a = b
  /\ commitMap = renameMap
  /\ freeList = PhysRegs \ {renameMap[a].phy : a \in ArchRegs}
  /\ numRef = [p \in PhysRegs |-> IF p \in freeList THEN 0 ELSE 1]
  /\ history = {} /\ nextHid = 1
  /\ finalCommitSeq = 0 /\ releaseSeq = 0
  /\ fixedbuffer = <<>> /\ destIdx = 0 /\ nextSeq = 1
  /\ blockRename = FALSE /\ toRename = NoInfo /\ fromCommit = NoInfo
  /\ robSquashing = FALSE /\ lastCommitted = 0
  /\ log = <<>>
  /\ arch = [a \in ArchRegs |-> [b |-> <<a>>, o |-> 0]]
  /\ val = [p \in PhysRegs \cup {InvalidReg} |->
              IF \E a \in ArchRegs : renameMap[a].phy = p
              THEN [b |-> <<CHOOSE a \in ArchRegs : renameMap[a].phy = p>>,
                    o |-> 0]
              ELSE ZeroValue]

-----------------------------------------------------------------------------
(* The commit stage as rename sees it.                                     *)

\* ROB::doSquash has removed the last squashed instruction.
RobDoneSquashing ==
  /\ phase = "commit" /\ robSquashing /\ ~toRename.squash
  /\ robSquashing' = FALSE
  /\ UNCHANGED <<phase, mapVars, releaseVars, bufferVars, wireVars,
                 commitMap, toRename, lastCommitted, log, arch, val>>

\* Faulty variant: an eliminated move does not update the commit rename map.
CommittedMapSkipsMoves(e) ==
  [a \in ArchRegs |-> IF Slots(e.inst, a) = {} \/ e.inst.op = "mov" THEN commitMap[a]
                      ELSE e.dst[LastOf(Slots(e.inst, a))]]

\* The commit rename map once log entry e has retired.
CommittedMap(e) ==
  [a \in ArchRegs |-> IF Slots(e.inst, a) = {} THEN commitMap[a]
                      ELSE e.dst[LastOf(Slots(e.inst, a))]]

\* commitHead: the head instruction retires and its destinations enter the
\* commit rename map.
CommitHead ==
  /\ phase = "commit" /\ ~robSquashing /\ log # <<>>
  /\ LET h == Head(log)
     IN /\ commitMap' = CommittedMap(h)
        /\ arch' = Apply(h)
        /\ lastCommitted' = h.sn
        /\ toRename' = [toRename EXCEPT !.done = h.sn]
  /\ log' = Tail(log)
  /\ UNCHANGED <<phase, mapVars, releaseVars, bufferVars, wireVars,
                 robSquashing, val>>

\* Sequence numbers for a squash that keeps the first k instructions: a branch
\* or a value misprediction keeps its instruction, a memory-order violation or
\* a re-execution keeps the ones before it, squashAll keeps what has retired.
SquashPoints(k) ==
  {IF k = 0 THEN lastCommitted ELSE log[k].sn}
  \cup (IF k < Len(log) THEN {log[k + 1].sn - 1} ELSE {})

CommitSquash ==
  /\ phase = "commit" /\ toRename = NoInfo
  /\ \E k \in 0..Len(log) :
       /\ \E s \in SquashPoints(k) : toRename' = [done |-> s, squash |-> TRUE]
       /\ log' = SubSeq(log, 1, k)
  /\ robSquashing' = TRUE
  /\ UNCHANGED <<phase, mapVars, releaseVars, bufferVars, wireVars,
                 commitMap, lastCommitted, arch, val>>

\* The end of commit.tick() and of iew.tick(): a squashing ROB blocks IEW, and
\* IEW then blocks rename in the same cycle.
CommitDone ==
  /\ phase = "commit"
  /\ blockRename' \in {b \in BOOLEAN : robSquashing => b}
  /\ phase' = "move"
  /\ UNCHANGED <<mapVars, releaseVars, bufferVars, commitVars, fromCommit,
                 log, val>>

-----------------------------------------------------------------------------
(* Rename::tick.                                                           *)

\* moveInstsToBuffer: decode delivers a group only when the buffer is empty.
moveInstsToBuffer ==
  /\ phase = "move"
  /\ \/ UNCHANGED <<fixedbuffer, nextSeq>>
     \/ /\ fixedbuffer = <<>>
        /\ \E n \in 1..RenameWidth :
             /\ nextSeq + n - 1 <= MaxSeq
             /\ \E g \in [1..n -> Insts] :
                  fixedbuffer' = [i \in 1..n |-> [sn   |-> nextSeq + i - 1,
                                                  inst |-> g[i]]]
             /\ nextSeq' = nextSeq + n
  /\ phase' = "squash"
  /\ UNCHANGED <<mapVars, releaseVars, destIdx, commitVars, wireVars, log, val>>

\* Faulty variants: the class check is missing; the register is freed whatever
\* its count; the register is not put back on the free list.
FreeInvalid(p, refs, free) ==
  IF p = InvalidReg THEN <<refs, free \cup {p}>>
  ELSE <<[refs EXCEPT ![p] = @ - 1], IF refs[p] = 1 THEN free \cup {p} ELSE free>>
FreeUncounted(p, refs, free) ==
  IF p = InvalidReg \/ (p \in PhysRegs /\ refs[p] = 0) THEN <<refs, free>>
  ELSE <<[refs EXCEPT ![p] = @ - 1], free \cup {p}>>
FreeLeaks(p, refs, free) ==
  IF p = InvalidReg \/ (p \in PhysRegs /\ refs[p] = 0) THEN <<refs, free>>
  ELSE <<[refs EXCEPT ![p] = @ - 1], free>>

\* tryFreePReg: the result is the pair of the counts and the free list.
tryFreePReg(p, refs, free) ==
  IF p = InvalidReg \/ (p \in PhysRegs /\ refs[p] = 0) THEN <<refs, free>>
  ELSE <<[refs EXCEPT ![p] = @ - 1],
         IF refs[p] = 1 THEN free \cup {p} ELSE free>>

\* Faulty variant: doSquash walks the history from the squash point upwards.
OldestSquashed(h) == \A g \in history : g.sn > fromCommit.done => h.hid <= g.hid

Youngest(h) == \A g \in history : g.hid <= h.hid
Oldest(h) == \A g \in history : h.hid <= g.hid

\* Faulty variant: the undo forgets setEntry.
UndoneMapStale(h) == renameMap

\* The map after the undo of history entry h.
UndoneMap(h) == [renameMap EXCEPT ![h.arch] = h.prev]

\* doSquash, one iteration: undo the youngest rename above the squash point.
doSquash ==
  /\ phase = "squash" /\ fromCommit.squash
  /\ \E h \in history :
       /\ Youngest(h) /\ h.sn > fromCommit.done
       /\ IF h.new # h.prev
          THEN /\ renameMap' = UndoneMap(h)
               /\ LET r == IF h.new.phy # h.prev.phy
                           THEN tryFreePReg(h.new.phy, numRef, freeList)
                           ELSE <<numRef, freeList>>
                  IN numRef' = r[1] /\ freeList' = r[2]
          ELSE UNCHANGED <<renameMap, numRef, freeList>>
       /\ history' = history \ {h}
  /\ fixedbuffer' = <<>>
  /\ UNCHANGED <<phase, nextHid, releaseVars, destIdx, nextSeq, commitVars,
                 wireVars, log, val>>

\* Faulty variants: no cap at the committed instructions; no last step to them.
AdvanceReleaseUncapped == releaseSeq + ReleaseWidth
AdvanceReleaseStops ==
  IF releaseSeq + ReleaseWidth < finalCommitSeq
  THEN releaseSeq + ReleaseWidth ELSE releaseSeq

\* How far releasePhysRegs releases in this cycle.
AdvanceRelease ==
  IF releaseSeq + ReleaseWidth < finalCommitSeq
  THEN releaseSeq + ReleaseWidth ELSE finalCommitSeq

\* checkSquash is over; releasePhysRegs advances releaseSeq.
checkSquashDone ==
  /\ phase = "squash"
  /\ fromCommit.squash => \A h \in history : h.sn <= fromCommit.done
  /\ fixedbuffer' = IF fromCommit.squash THEN <<>> ELSE fixedbuffer
  /\ releaseSeq' = AdvanceRelease
  /\ phase' = "release"
  /\ UNCHANGED <<mapVars, finalCommitSeq, destIdx, nextSeq, commitVars,
                 wireVars, log, val>>

\* removeFromHistory, one iteration: the oldest entry is released and the
\* register its instruction overwrote loses a reference.
removeFromHistory ==
  /\ phase = "release"
  /\ \E h \in history :
       /\ Oldest(h) /\ h.sn <= releaseSeq
       /\ LET r == IF h.new.phy # h.prev.phy
                   THEN tryFreePReg(h.prev.phy, numRef, freeList)
                   ELSE <<numRef, freeList>>
          IN numRef' = r[1] /\ freeList' = r[2]
       /\ history' = history \ {h}
  /\ UNCHANGED <<phase, renameMap, nextHid, releaseVars, bufferVars,
                 commitVars, wireVars, log, val>>

\* Faulty variant: the sequence number of a squash is taken for a commit.
CommittedInfoOrSquash == fromCommit.done # 0

\* Commit retired instructions in the last cycle.
CommittedInfo == fromCommit.done # 0 /\ ~fromCommit.squash

\* The end of releasePhysRegs: note what commit retired in the last cycle.
releaseDone ==
  /\ phase = "release"
  /\ \A h \in history : h.sn > releaseSeq
  /\ IF CommittedInfo
     THEN /\ finalCommitSeq' = fromCommit.done
          /\ releaseSeq' = IF history = {} THEN 0
                           ELSE (CHOOSE h \in history : Oldest(h)).sn
     ELSE UNCHANGED releaseVars
  /\ phase' = "check"
  /\ UNCHANGED <<mapVars, bufferVars, commitVars, wireVars, log, val>>

\* numDestRegs summed over the buffer; x0 is not of the register class.
DestSlots ==
  {s \in (1..Len(fixedbuffer)) \X (1..MaxDests) :
     /\ s[2] <= Len(fixedbuffer[s[1]].inst.dsts)
     /\ fixedbuffer[s[1]].inst.dsts[s[2]] # Zero}

\* Faulty variant: only the worst case of one register per instruction.
canRenameByWidth == RenameWidth <= Cardinality(freeList)

\* canRename: the buffered destinations, and never fewer than renameWidth.
canRename ==
  /\ Cardinality(DestSlots) <= Cardinality(freeList)
  /\ RenameWidth <= Cardinality(freeList)

\* The stall check of tick(): a blocked or empty stage renames nothing.
startRename ==
  /\ phase = "check"
  /\ phase' = IF ~blockRename /\ canRename /\ fixedbuffer # <<>>
              THEN "rename" ELSE "end"
  /\ UNCHANGED <<mapVars, releaseVars, bufferVars, commitVars, wireVars,
                 log, val>>

renameSrcRegs ==
  /\ phase = "rename" /\ destIdx = 0 /\ fixedbuffer # <<>>
  /\ LET e == Head(fixedbuffer)
     IN log' = Append(log, [sn     |-> e.sn,
                            inst   |-> e.inst,
                            src    |-> lookup(renameMap, e.inst.src),
                            srcval |-> SpecRead(e.inst.src),
                            dst    |-> <<>>])
  /\ destIdx' = 1
  /\ UNCHANGED <<phase, mapVars, releaseVars, fixedbuffer, nextSeq,
                 commitVars, wireVars, val>>

CurInst == Head(fixedbuffer)
CurDest == CurInst.inst.dsts[destIdx]

\* Move elimination and constant folding reuse the source's register.
Bypassed(inst) ==
  \/ inst.op = "mov" /\ EnableMoveElimination
  \/ inst.op = "addi" /\ EnableConstantFolding

BypassReg(inst) ==
  LET s == lookup(renameMap, inst.src)
  IN IF inst.op = "addi" THEN [s EXCEPT !.imm = @ + inst.imm] ELSE s

PushHistory(new) ==
  /\ history' = history \cup {[hid  |-> nextHid,
                               sn   |-> CurInst.sn,
                               arch |-> CurDest,
                               new  |-> new,
                               prev |-> lookup(renameMap, CurDest)]}
  /\ log' = [log EXCEPT ![Len(log)].dst = Append(@, new)]

\* UnifiedRenameMap::rename of a register that is not renameable.
SkipZero ==
  /\ CurDest = Zero
  /\ PushHistory(InvalidVirt)
  /\ UNCHANGED <<renameMap, freeList, numRef, val>>

\* Faulty variant: the shared register gains no reference.
ShareRegUncounted ==
  /\ CurDest # Zero /\ Bypassed(CurInst.inst)
  /\ renameMap' = [renameMap EXCEPT ![CurDest] = BypassReg(CurInst.inst)]
  /\ PushHistory(BypassReg(CurInst.inst))
  /\ UNCHANGED <<numRef, freeList, val>>

\* SimpleRenameMap::rename with a bypass register.
ShareReg ==
  /\ CurDest # Zero /\ Bypassed(CurInst.inst)
  /\ LET v == BypassReg(CurInst.inst)
     IN /\ renameMap' = [renameMap EXCEPT ![CurDest] = v]
        /\ numRef' = IF v.phy = renameMap[CurDest].phy \/ v.phy = InvalidReg
                     THEN numRef ELSE [numRef EXCEPT ![v.phy] = @ + 1]
        /\ PushHistory(v)
  /\ UNCHANGED <<freeList, val>>

\* SimpleRenameMap::rename without one: take a register off the free list.
AllocateReg ==
  /\ CurDest # Zero /\ ~Bypassed(CurInst.inst)
  /\ \E p \in freeList :
       /\ freeList' = freeList \ {p}
       /\ numRef' = [numRef EXCEPT ![p] = @ + 1]
       /\ renameMap' = [renameMap EXCEPT ![CurDest] = [phy |-> p, imm |-> 0]]
       /\ val' = [val EXCEPT ![p] = Result(CurInst.sn, CurInst.inst, destIdx,
                                           log[Len(log)].srcval)]
       /\ PushHistory([phy |-> p, imm |-> 0])

renameDestRegs ==
  /\ phase = "rename" /\ destIdx # 0
  /\ destIdx <= Len(CurInst.inst.dsts)
  /\ SkipZero \/ ShareReg \/ AllocateReg
  /\ nextHid' = nextHid + 1
  /\ destIdx' = destIdx + 1
  /\ UNCHANGED <<phase, releaseVars, fixedbuffer, nextSeq, commitVars, wireVars>>

\* The instruction leaves for IEW and the reorder buffer.
renameInstDone ==
  /\ phase = "rename" /\ destIdx # 0
  /\ destIdx > Len(Head(fixedbuffer).inst.dsts)
  /\ fixedbuffer' = Tail(fixedbuffer)
  /\ destIdx' = 0
  /\ phase' = IF Len(fixedbuffer) = 1 THEN "end" ELSE phase
  /\ UNCHANGED <<mapVars, releaseVars, nextSeq, commitVars, wireVars, log, val>>

\* The time buffers advance.
advance ==
  /\ phase = "end"
  /\ fromCommit' = toRename
  /\ toRename' = NoInfo
  /\ phase' = "commit"
  /\ UNCHANGED <<mapVars, releaseVars, bufferVars, commitMap, robSquashing,
                 lastCommitted, arch, blockRename, log, val>>

Commit == RobDoneSquashing \/ CommitHead \/ CommitSquash \/ CommitDone

RenameTick ==
  \/ moveInstsToBuffer \/ doSquash \/ checkSquashDone
  \/ removeFromHistory \/ releaseDone \/ startRename
  \/ renameSrcRegs \/ renameDestRegs \/ renameInstDone \/ advance

Next == Commit \/ RenameTick

Spec == Init /\ [][Next]_vars

\* Rename::updateActivate never lets the stage go idle, so every cycle ends;
\* a head instruction that can retire again and again, and a squash walk, are
\* not put off for ever.
FairSpec ==
  /\ Spec
  /\ WF_vars(RenameTick) /\ WF_vars(CommitDone)
  /\ SF_vars(CommitHead) /\ SF_vars(RobDoneSquashing)

-----------------------------------------------------------------------------
(* Properties.                                                             *)

HistoryEntries ==
  [hid : Nat, sn : Nat, arch : ArchRegs \cup {Zero}, new : VirtRegs,
   prev : VirtRegs]

Infos == [done : Nat, squash : BOOLEAN]

Values == [b : Seq(ArchRegs \cup Nat), o : Nat]

LogEntries == [sn : Nat \ {0}, inst : Insts, src : VirtRegs, srcval : Values,
               dst : Seq(VirtRegs)]

\* Every variable of the stage has its type.
TypeOK ==
  /\ phase \in {"commit", "move", "squash", "release", "check", "rename", "end"}
  /\ renameMap \in [ArchRegs -> VirtRegs]
  /\ commitMap \in [ArchRegs -> VirtRegs]
  /\ freeList \subseteq PhysRegs
  /\ numRef \in [PhysRegs -> Nat]
  /\ history \subseteq HistoryEntries /\ nextHid \in Nat
  /\ finalCommitSeq \in Nat /\ releaseSeq \in Nat
  /\ fixedbuffer \in Seq([sn : Nat \ {0}, inst : Insts])
  /\ destIdx \in Nat /\ nextSeq \in Nat \ {0} /\ lastCommitted \in Nat
  /\ toRename \in Infos /\ fromCommit \in Infos
  /\ blockRename \in BOOLEAN /\ robSquashing \in BOOLEAN
  /\ log \in Seq(LogEntries)
  /\ arch \in [ArchRegs -> Values]
  /\ val \in [PhysRegs \cup {InvalidReg} -> Values]

\* An instruction is in the reorder buffer with all its destinations renamed,
\* save the one renameDestRegs is working on.
LogComplete ==
  /\ phase # "rename" => destIdx = 0
  /\ destIdx # 0 =>
       /\ fixedbuffer # <<>> /\ log # <<>>
       /\ log[Len(log)].inst = Head(fixedbuffer).inst
       /\ Len(log[Len(log)].dst) = destIdx - 1
       /\ destIdx - 1 <= Len(Head(fixedbuffer).inst.dsts)
  /\ \A i \in 1..Len(log) :
       i < Len(log) \/ destIdx = 0 => Len(log[i].dst) = Len(log[i].inst.dsts)

\* The history buffer is a list: its positions are distinct and below the next
\* one, and an entry for x0 renames nothing.
HistoryList ==
  /\ IsFiniteSet(history)
  /\ \A h \in history : h.hid < nextHid
  /\ \A g, h \in history : g.hid = h.hid => g = h
  /\ \A h \in history : h.arch = Zero => h.new = InvalidVirt /\ h.prev = InvalidVirt

Adjacent(g, h) ==
  /\ g.arch = h.arch /\ g.hid < h.hid
  /\ \A k \in history : k.arch = g.arch => k.hid <= g.hid \/ h.hid <= k.hid

\* doSquash can undo the history newest first: the youngest entry of a register
\* is its current mapping, and each entry's previous mapping is the new mapping
\* of the entry before it.
UndoChain ==
  /\ \A h \in history :
       h.arch # Zero /\ (\A g \in history : g.arch = h.arch => g.hid <= h.hid)
         => renameMap[h.arch] = h.new
  /\ \A g, h \in history : Adjacent(g, h) => h.prev = g.new

\* The owners of a physical register: the map entries that name it, and the
\* history entries that would free it when they are released.
MapOwners(p) == {a \in ArchRegs : renameMap[a].phy = p}
HistoryOwners(p) == {h \in history : h.prev.phy = p /\ h.new.phy # p}

\* PhysRegId::numRef counts exactly the owners of the register, across sharing
\* by move elimination, undo by doSquash and release by removeFromHistory.
RefCountExact ==
  \A p \in PhysRegs :
    numRef[p] = Cardinality(MapOwners(p)) + Cardinality(HistoryOwners(p))

\* "freed_reg's refCnt must is 0": a register is on the free list exactly when
\* nothing owns it, so none leaks and none is freed twice or while in use.
FreeIffUnowned ==
  \A p \in PhysRegs : p \in freeList <=> numRef[p] = 0

SquashPending ==
  \/ toRename.squash
  \/ fromCommit.squash /\ phase \in {"commit", "move", "squash"}

\* Between instructions, and once a squash has been undone, the rename map
\* leads every architectural register to the value program order gives it.
RenameMapFollowsProgram ==
  ~SquashPending /\ destIdx = 0 =>
    \A a \in ArchRegs : Read(renameMap[a]) = SpecRead(a)

\* A source register renamed for an instruction that has not retired still
\* holds (or will hold) the value program order gives that operand: it has not
\* been freed and handed to a younger instruction.
SourcesIntact ==
  \A i \in 1..Len(log) : Read(log[i].src) = log[i].srcval

\* The commit rename map holds the architectural state: what it names is
\* neither reallocated nor lost while younger instructions come and go.
CommitMapIntact ==
  \A a \in ArchRegs : Read(commitMap[a]) = arch[a]

\* Seen through the physical registers, the renamed machine is the sequential
\* one: operands and architectural registers are what ArchState computes.
Abs == INSTANCE ArchState
         WITH arch <- [a \in ArchRegs |-> Read(commitMap[a])],
              log  <- [i \in 1..Len(log) |-> [sn |-> log[i].sn,
                                              inst |-> log[i].inst,
                                              srcval |-> Read(log[i].src)]]

\* Renaming, squashing and releasing implement the sequential register file.
ImplementsArchState == Abs!ArchSpec

\* However slowly releasePhysRegs works, the register an instruction overwrote
\* is released once the instruction has retired.
ReleaseEventually ==
  \A n \in 1..(MaxSeq * MaxDests) :
    (\E h \in history : h.hid = n /\ h.sn <= lastCommitted)
      ~> ~(\E h \in history : h.hid = n)

\* A group that waits for physical registers does not wait for ever.
RegisterStallEnds ==
  (fixedbuffer # <<>> /\ ~canRename) ~> (fixedbuffer = <<>> \/ canRename)

\* SimpleFreeList::getReg's assert(!freeRegs.empty()): canRename counted the
\* whole group, so no destination of it finds the free list empty.
GetRegNeverEmpty ==
  phase = "rename" =>
    LET done == {s \in DestSlots : s[1] = 1 /\ s[2] < destIdx}
    IN Cardinality(DestSlots \ done) <= Cardinality(freeList)

=============================================================================
