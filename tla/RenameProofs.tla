---------------------------- MODULE RenameProofs ----------------------------
(***************************************************************************)
(* Proofs about the rename stage: its type invariant, and that reference   *)
(* counts are exact and the free list holds exactly the unowned registers. *)
(***************************************************************************)
EXTENDS Rename, TLAPS, FiniteSetTheorems, SequenceTheorems,
        WellFoundedInduction

-----------------------------------------------------------------------------
(* Auxiliary facts.                                                        *)

\* A nonempty set of numbers up to n has a greatest element, so LastOf names
\* one of its elements.
LEMMA LastOfMember ==
  ASSUME NEW n \in Nat, NEW S \in SUBSET (1..n), S # {}
  PROVE  LastOf(S) \in S
<1> DEFINE T == {n - i : i \in S}
<1>0. PICK j \in S : TRUE
  OBVIOUS
<1>1. T \subseteq Nat /\ T # {}
  <2>1. n - j \in T
    BY <1>0
  <2>2. \A i \in S : n - i \in Nat
    OBVIOUS
  <2> QED
    BY <2>1, <2>2
<1>2. PICK x \in T : \A y \in T : ~(<<y, x>> \in OpToRel(<, Nat))
  BY <1>1, NatLessThanWellFounded, WFMin, Zenon
<1>3. \A y \in T : ~(y < x)
  BY <1>1, <1>2 DEF OpToRel
<1>4. PICK i \in S : x = n - i
  BY <1>2
<1>5. \A k \in S : k <= i
  BY <1>3, <1>4
<1> QED
  BY <1>5 DEF LastOf

\* The slots of an instruction that write a register are slots of it.
LEMMA LastSlot ==
  ASSUME NEW inst \in Insts, NEW a, Slots(inst, a) # {}
  PROVE  LastOf(Slots(inst, a)) \in 1..Len(inst.dsts)
<1>1. Len(inst.dsts) \in Nat
  BY InstsAssumption
<1> QED
  BY <1>1, LastOfMember DEF Slots

\* What an instruction writes is a value when its operand is.
LEMMA ResultType ==
  ASSUME NEW sn \in Nat, NEW inst \in Insts, NEW i \in Nat, NEW v \in Values
  PROVE  Result(sn, inst, i, v) \in Values
<1>1. <<sn, i>> \in Seq(ArchRegs \cup Nat)
  OBVIOUS
<1> QED
  BY <1>1, InstsAssumption DEF Result, Values

\* Program order gives every register a value.
LEMMA SpecReadType ==
  ASSUME TypeOK, NEW a \in ArchRegs \cup {Zero}
  PROVE  SpecRead(a) \in Values
<1> DEFINE writers == {i \in 1..Len(log) : Slots(log[i].inst, a) # {}}
           l == LastOf(writers)
           w == log[l]
<1>1. CASE a = Zero
  <2>1. << >> \in Seq(ArchRegs \cup Nat)
    OBVIOUS
  <2> QED
    BY <1>1, <2>1 DEF SpecRead, ZeroValue, Values
<1>2. CASE a # Zero /\ writers = {}
  BY <1>2 DEF SpecRead, TypeOK
<1>3. CASE a # Zero /\ writers # {}
  <2>a. Len(log) \in Nat /\ writers \in SUBSET (1..Len(log))
    BY DEF TypeOK
  <2>1. l \in writers
    <3> HIDE DEF writers
    <3> QED BY <1>3, <2>a, LastOfMember
  <2>2. w \in LogEntries /\ Slots(w.inst, a) # {}
    <3> HIDE DEF l
    <3> QED BY <2>1, <2>a DEF TypeOK
  <2>3. LastOf(Slots(w.inst, a)) \in Nat
    <3> HIDE DEF w
    <3>1. w.inst \in Insts
      BY <2>2 DEF LogEntries
    <3>2. LastOf(Slots(w.inst, a)) \in 1..Len(w.inst.dsts)
      BY <2>2, <3>1, LastSlot
    <3>3. Len(w.inst.dsts) \in Nat
      BY <3>1, InstsAssumption
    <3> QED
      BY <3>2, <3>3
  <2>4. Result(w.sn, w.inst, LastOf(Slots(w.inst, a)), w.srcval) \in Values
    BY <2>2, <2>3, ResultType DEF LogEntries
  <2> QED
    BY <1>3, <2>4 DEF SpecRead
<1> QED
  BY <1>1, <1>2, <1>3

\* A nonempty history buffer has an oldest entry.
LEMMA OldestExists ==
  ASSUME TypeOK, history # {}
  PROVE  \E h \in history : Oldest(h)
<1> DEFINE T == {h.hid : h \in history}
<1>0. \A h \in history : h.hid \in Nat
  BY DEF TypeOK, HistoryEntries
<1>1. T \subseteq Nat /\ T # {}
  BY <1>0
<1>2. PICK x \in T : \A y \in T : ~(<<y, x>> \in OpToRel(<, Nat))
  BY <1>1, NatLessThanWellFounded, WFMin, Zenon
<1>3. \A y \in T : ~(y < x)
  BY <1>1, <1>2 DEF OpToRel
<1>4. PICK h \in history : x = h.hid
  BY <1>2
<1>5. \A g \in history : h.hid <= g.hid
  <2>1. ASSUME NEW g \in history PROVE ~(g.hid < x)
    BY <1>3
  <2> QED
    BY <1>0, <1>4, <2>1
<1> QED
  BY <1>4, <1>5 DEF Oldest

-----------------------------------------------------------------------------
(* Type correctness.                                                       *)

TypeInv == TypeOK /\ LogComplete

LEMMA TypeInit == Init => TypeInv
<1> SUFFICES ASSUME Init PROVE TypeInv
  OBVIOUS
<1>1. \A a \in ArchRegs : <<a>> \in Seq(ArchRegs \cup Nat)
  OBVIOUS
<1>2. << >> \in Seq(ArchRegs \cup Nat)
  OBVIOUS
<1>3. arch \in [ArchRegs -> Values]
  BY <1>1 DEF Init, Values
<1>4. val \in [PhysRegs \cup {InvalidReg} -> Values]
  BY <1>1, <1>2 DEF Init, Values, ZeroValue
<1>5. TypeOK
  <2>1. renameMap \in [ArchRegs -> VirtRegs]
    BY DEF Init, VirtRegs
  <2>2. numRef \in [PhysRegs -> Nat] /\ freeList \subseteq PhysRegs
    BY DEF Init
  <2>3. toRename \in Infos /\ fromCommit \in Infos
    BY DEF Init, NoInfo, Infos
  <2>4. blockRename \in BOOLEAN /\ robSquashing \in BOOLEAN
    BY Zenon DEF Init
  <2>5. /\ log \in Seq(LogEntries)
        /\ fixedbuffer \in Seq([sn : Nat \ {0}, inst : Insts])
        /\ history \subseteq HistoryEntries
    BY DEF Init
  <2>6. /\ nextHid \in Nat /\ finalCommitSeq \in Nat /\ releaseSeq \in Nat
        /\ destIdx \in Nat /\ nextSeq \in Nat \ {0} /\ lastCommitted \in Nat
    BY DEF Init
  <2>7. /\ phase = "commit" /\ commitMap = renameMap
    BY DEF Init
  <2> QED
    BY <1>3, <1>4, <2>1, <2>2, <2>3, <2>4, <2>5, <2>6, <2>7, Zenon DEF TypeOK
<1>6. LogComplete
  BY DEF Init, LogComplete
<1> QED
  BY <1>5, <1>6 DEF TypeInv

\* tryFreePReg keeps counts and the free list in their types.
LEMMA TryFreeType ==
  ASSUME NEW p \in PhysRegs \cup {InvalidReg}, NEW refs \in [PhysRegs -> Nat],
         NEW free \in SUBSET PhysRegs
  PROVE  /\ tryFreePReg(p, refs, free)[1] \in [PhysRegs -> Nat]
         /\ tryFreePReg(p, refs, free)[2] \subseteq PhysRegs
  BY DEF tryFreePReg

\* The instruction at the head of the buffer while renameDestRegs works on it.
LEMMA CurInstType ==
  ASSUME TypeInv, destIdx # 0
  PROVE  /\ CurInst \in [sn : Nat \ {0}, inst : Insts]
         /\ CurInst.inst.dsts \in Seq(ArchRegs \cup {Zero})
         /\ Len(log) \in Nat \ {0} /\ Len(log) \in 1..Len(log)
         /\ destIdx <= Len(CurInst.inst.dsts) => CurDest \in ArchRegs \cup {Zero}
<1>1. fixedbuffer \in Seq([sn : Nat \ {0}, inst : Insts]) /\ fixedbuffer # <<>>
  BY DEF TypeInv, TypeOK, LogComplete
<1>2. CurInst \in [sn : Nat \ {0}, inst : Insts]
  BY <1>1, HeadTailProperties DEF CurInst
<1>3. CurInst.inst.dsts \in Seq(ArchRegs \cup {Zero})
  BY <1>2, InstsAssumption
<1>4. log \in Seq(LogEntries) /\ log # <<>> /\ destIdx \in Nat
  BY DEF TypeInv, TypeOK, LogComplete
<1>5. Len(log) \in Nat \ {0}
  BY <1>4, EmptySeq
<1> QED
  BY <1>2, <1>3, <1>4, <1>5 DEF CurDest

\* Looking a register up yields a register with its added constant.
LEMMA LookupType ==
  ASSUME TypeOK, NEW a \in ArchRegs \cup {Zero}
  PROVE  lookup(renameMap, a) \in VirtRegs
  BY DEF lookup, InvalidVirt, VirtRegs, TypeOK

LEMMA BypassRegType ==
  ASSUME TypeOK, NEW inst \in Insts
  PROVE  BypassReg(inst) \in VirtRegs
<1>1. inst.src \in ArchRegs \cup {Zero} /\ inst.imm \in Nat
  BY InstsAssumption
<1> QED
  BY <1>1, LookupType DEF BypassReg, VirtRegs

\* A step of renameDestRegs pushes one entry, for some new mapping.
LEMMA PushedEntry ==
  ASSUME TypeInv, renameDestRegs
  PROVE  \E new \in VirtRegs : PushHistory(new)
<1>0. CurInst.inst \in Insts
  BY CurInstType DEF renameDestRegs
<1>1. CASE SkipZero
  BY <1>1 DEF SkipZero, InvalidVirt, VirtRegs
<1>2. CASE ShareReg
  BY <1>0, <1>2, BypassRegType DEF ShareReg, TypeInv
<1>3. CASE AllocateReg
  BY <1>3 DEF AllocateReg, VirtRegs, TypeInv, TypeOK
<1> QED
  BY <1>1, <1>2, <1>3 DEF renameDestRegs

LEMMA Type_RobDoneSquashing == TypeInv /\ RobDoneSquashing => TypeInv'
<1> SUFFICES ASSUME TypeInv, RobDoneSquashing PROVE TypeInv'
  OBVIOUS
<1> USE DEF mapVars, releaseVars, bufferVars, commitVars, wireVars
<1>1. UNCHANGED <<phase, renameMap, commitMap, freeList, numRef, history, nextHid, finalCommitSeq, releaseSeq, fixedbuffer, destIdx, nextSeq, lastCommitted, toRename, fromCommit, blockRename, log, arch, val>>
  BY DEF RobDoneSquashing
<1>2. (robSquashing \in BOOLEAN)'
  BY Zenon DEF RobDoneSquashing
<1>3. TypeOK'
  BY <1>1, <1>2, Zenon DEF TypeInv, TypeOK
<1>4. LogComplete'
  BY <1>1 DEF RobDoneSquashing, TypeInv, TypeOK, LogComplete
<1> QED
  BY <1>3, <1>4 DEF TypeInv

LEMMA Type_CommitHead == TypeInv /\ CommitHead => TypeInv'
<1> SUFFICES ASSUME TypeInv, CommitHead PROVE TypeInv'
  OBVIOUS
<1> USE DEF mapVars, releaseVars, bufferVars, commitVars, wireVars
<1>0. /\ Head(log) \in LogEntries /\ Head(log) = log[1] /\ destIdx = 0
      /\ 1 \in 1..Len(log)
      /\ Len(Head(log).dst) = Len(Head(log).inst.dsts)
  <2>1. log \in Seq(LogEntries) /\ log # <<>> /\ destIdx = 0
    BY DEF CommitHead, TypeInv, TypeOK, LogComplete
  <2>2. 1 \in 1..Len(log) /\ Head(log) = log[1]
    BY <2>1
  <2>3. Head(log) \in LogEntries
    BY <2>1, <2>2
  <2> QED
    BY <2>1, <2>2, <2>3 DEF TypeInv, LogComplete
<1>h. /\ Head(log).sn \in Nat /\ Head(log).inst \in Insts
      /\ Head(log).srcval \in Values /\ Head(log).dst \in Seq(VirtRegs)
  BY <1>0 DEF LogEntries
<1>s. \A a \in ArchRegs : Slots(Head(log).inst, a) # {} =>
        /\ LastOf(Slots(Head(log).inst, a)) \in 1..Len(Head(log).dst)
        /\ LastOf(Slots(Head(log).inst, a)) \in Nat
  <2>1. Len(Head(log).dst) \in Nat
    BY <1>h
  <2>2. ASSUME NEW a \in ArchRegs, Slots(Head(log).inst, a) # {}
        PROVE  LastOf(Slots(Head(log).inst, a)) \in 1..Len(Head(log).dst)
    BY <1>0, <1>h, <2>2, LastSlot, Zenon
  <2> QED
    BY <2>1, <2>2
<1>1. UNCHANGED <<phase, renameMap, freeList, numRef, history, nextHid, finalCommitSeq, releaseSeq, fixedbuffer, destIdx, nextSeq, fromCommit, blockRename, robSquashing, val>>
  BY DEF CommitHead
<1>2. (commitMap \in [ArchRegs -> VirtRegs])'
  <2>1. \A a \in ArchRegs : Slots(Head(log).inst, a) # {} =>
          Head(log).dst[LastOf(Slots(Head(log).inst, a))] \in VirtRegs
    BY <1>h, <1>s
  <2> QED
    BY <2>1 DEF CommitHead, CommittedMap, TypeInv, TypeOK
<1>3. (toRename \in Infos)'
  <2>1. toRename' = [toRename EXCEPT !.done = Head(log).sn]
    BY DEF CommitHead
  <2> QED
    BY <1>h, <2>1 DEF TypeInv, TypeOK, Infos
<1>4. (lastCommitted \in Nat)'
  BY <1>h DEF CommitHead
<1>5. (log \in Seq(LogEntries))'
  BY DEF CommitHead, TypeInv, TypeOK, LogComplete, Infos, LogEntries
<1>6. (arch \in [ArchRegs -> Values])'
  <2>1. ASSUME NEW a \in ArchRegs, Slots(Head(log).inst, a) # {}
        PROVE  Result(Head(log).sn, Head(log).inst,
                      LastOf(Slots(Head(log).inst, a)), Head(log).srcval)
                 \in Values
    BY <1>h, <1>s, <2>1, ResultType
  <2>2. arch' = Apply(Head(log))
    BY DEF CommitHead
  <2> QED
    BY <2>1, <2>2 DEF Apply, TypeInv, TypeOK
<1>7. TypeOK'
  BY <1>1, <1>2, <1>3, <1>4, <1>5, <1>6, Zenon DEF TypeInv, TypeOK
<1>8. LogComplete'
  <2>1. /\ Len(log') = Len(log) - 1 /\ Len(log) \in Nat
        /\ \A i \in 1..Len(log') : log'[i] = log[i + 1]
    BY <1>0 DEF CommitHead, TypeInv, TypeOK
  <2>2. destIdx' = 0
    BY <1>0, <1>1
  <2>3. \A i \in 1..Len(log) : Len(log[i].dst) = Len(log[i].inst.dsts)
    BY <1>0 DEF TypeInv, LogComplete
  <2>4. \A i \in 1..Len(log') : Len(log'[i].dst) = Len(log'[i].inst.dsts)
    BY <2>1, <2>3
  <2> QED
    BY <2>2, <2>4 DEF LogComplete
<1> QED
  BY <1>7, <1>8 DEF TypeInv

LEMMA Type_CommitSquash == TypeInv /\ CommitSquash => TypeInv'
<1> SUFFICES ASSUME TypeInv, CommitSquash PROVE TypeInv'
  OBVIOUS
<1> USE DEF mapVars, releaseVars, bufferVars, commitVars, wireVars
<1>0. PICK k \in 0..Len(log) :
        /\ \E s \in SquashPoints(k) : toRename' = [done |-> s, squash |-> TRUE]
        /\ log' = SubSeq(log, 1, k)
  BY DEF CommitSquash
<1>l. Len(log) \in Nat /\ \A i \in 1..Len(log) : log[i] \in LogEntries
  BY DEF TypeInv, TypeOK
<1>1. UNCHANGED <<phase, renameMap, commitMap, freeList, numRef, history, nextHid, finalCommitSeq, releaseSeq, fixedbuffer, destIdx, nextSeq, lastCommitted, fromCommit, blockRename, arch, val>>
  BY DEF CommitSquash
<1>2. (toRename \in Infos)'
  <2>1. \A i \in 1..Len(log) : log[i].sn \in Nat \ {0}
    BY <1>l DEF LogEntries
  <2>2. (IF k = 0 THEN lastCommitted ELSE log[k].sn) \in Nat
    BY <1>l, <2>1 DEF TypeInv, TypeOK
  <2>3. k < Len(log) => log[k + 1].sn - 1 \in Nat
    BY <1>l, <2>1
  <2>4. SquashPoints(k) \subseteq Nat
    BY <2>2, <2>3 DEF SquashPoints
  <2> QED
    BY <1>0, <2>4 DEF Infos
<1>3. (robSquashing \in BOOLEAN)'
  BY Zenon DEF CommitSquash
<1>4. (log \in Seq(LogEntries))'
  BY <1>0, <1>l, SubSeqProperties
<1>5. TypeOK'
  BY <1>1, <1>2, <1>3, <1>4, Zenon DEF TypeInv, TypeOK
<1>6. LogComplete'
  <2>1. /\ Len(log') = k
        /\ \A i \in 1..k : log'[i] = log[i]
    BY <1>0, <1>l, SubSeqProperties
  <2>2. destIdx = 0 /\ destIdx' = 0
    BY <1>1 DEF CommitSquash, TypeInv, LogComplete
  <2>3. \A i \in 1..Len(log) : Len(log[i].dst) = Len(log[i].inst.dsts)
    BY <2>2 DEF TypeInv, LogComplete
  <2>4. \A i \in 1..Len(log') : Len(log'[i].dst) = Len(log'[i].inst.dsts)
    BY <1>l, <2>1, <2>3
  <2> QED
    BY <2>2, <2>4 DEF LogComplete
<1> QED
  BY <1>5, <1>6 DEF TypeInv

LEMMA Type_CommitDone == TypeInv /\ CommitDone => TypeInv'
<1> SUFFICES ASSUME TypeInv, CommitDone PROVE TypeInv'
  OBVIOUS
<1> USE DEF mapVars, releaseVars, bufferVars, commitVars, wireVars
<1>1. UNCHANGED <<renameMap, commitMap, freeList, numRef, history, nextHid, finalCommitSeq, releaseSeq, fixedbuffer, destIdx, nextSeq, lastCommitted, toRename, fromCommit, robSquashing, log, arch, val>>
  BY DEF CommitDone
<1>2. (phase \in {"commit", "move", "squash", "release", "check", "rename", "end"})'
  BY Zenon DEF CommitDone
<1>3. (blockRename \in BOOLEAN)'
  BY Zenon DEF CommitDone
<1>4. TypeOK'
  BY <1>1, <1>2, <1>3, Zenon DEF TypeInv, TypeOK
<1>5. LogComplete'
  BY <1>1 DEF CommitDone, TypeInv, TypeOK, LogComplete
<1> QED
  BY <1>4, <1>5 DEF TypeInv

LEMMA Type_moveInstsToBuffer == TypeInv /\ moveInstsToBuffer => TypeInv'
<1> SUFFICES ASSUME TypeInv, moveInstsToBuffer PROVE TypeInv'
  OBVIOUS
<1> USE DEF mapVars, releaseVars, bufferVars, commitVars, wireVars
<1>1. UNCHANGED <<renameMap, commitMap, freeList, numRef, history, nextHid, finalCommitSeq, releaseSeq, destIdx, lastCommitted, toRename, fromCommit, blockRename, robSquashing, log, arch, val>>
  BY DEF moveInstsToBuffer
<1>2. (phase \in {"commit", "move", "squash", "release", "check", "rename", "end"})'
  BY Zenon DEF moveInstsToBuffer
<1>3. (fixedbuffer \in Seq([sn : Nat \ {0}, inst : Insts]))'
  <2>1. CASE UNCHANGED fixedbuffer
    BY <2>1 DEF TypeInv, TypeOK
  <2>2. ASSUME NEW n \in 1..RenameWidth, NEW g \in [1..n -> Insts],
               fixedbuffer' = [i \in 1..n |-> [sn   |-> nextSeq + i - 1,
                                               inst |-> g[i]]]
        PROVE  fixedbuffer' \in Seq([sn : Nat \ {0}, inst : Insts])
    <3>1. n \in Nat /\ nextSeq \in Nat \ {0}
      BY WidthAssumption DEF TypeInv, TypeOK
    <3>2. \A i \in 1..n : [sn |-> nextSeq + i - 1, inst |-> g[i]]
                            \in [sn : Nat \ {0}, inst : Insts]
      BY <3>1
    <3> QED
      BY <2>2, <3>1, <3>2
  <2> QED
    BY <2>1, <2>2 DEF moveInstsToBuffer
<1>4. (nextSeq \in Nat \ {0})'
  BY DEF moveInstsToBuffer, TypeInv, TypeOK, LogComplete, Infos, LogEntries
<1>5. TypeOK'
  BY <1>1, <1>2, <1>3, <1>4, Zenon DEF TypeInv, TypeOK
<1>6. LogComplete'
  BY <1>1 DEF moveInstsToBuffer, TypeInv, TypeOK, LogComplete
<1> QED
  BY <1>5, <1>6 DEF TypeInv

LEMMA Type_doSquash == TypeInv /\ doSquash => TypeInv'
<1> SUFFICES ASSUME TypeInv, doSquash PROVE TypeInv'
  OBVIOUS
<1> USE DEF mapVars, releaseVars, bufferVars, commitVars, wireVars
<1>0. PICK h \in history :
        IF h.new # h.prev
        THEN /\ renameMap' = [renameMap EXCEPT ![h.arch] = h.prev]
             /\ LET r == IF h.new.phy # h.prev.phy
                         THEN tryFreePReg(h.new.phy, numRef, freeList)
                         ELSE <<numRef, freeList>>
                IN numRef' = r[1] /\ freeList' = r[2]
        ELSE UNCHANGED <<renameMap, numRef, freeList>>
  BY DEF doSquash, UndoneMap
<1>h. h.new.phy \in PhysRegs \cup {InvalidReg} /\ h.prev \in VirtRegs
  BY DEF TypeInv, TypeOK, HistoryEntries, VirtRegs
<1>t. /\ numRef \in [PhysRegs -> Nat] /\ freeList \in SUBSET PhysRegs
      /\ renameMap \in [ArchRegs -> VirtRegs]
  BY DEF TypeInv, TypeOK
<1>1. UNCHANGED <<phase, commitMap, nextHid, finalCommitSeq, releaseSeq, destIdx, nextSeq, lastCommitted, toRename, fromCommit, blockRename, robSquashing, log, arch, val>>
  BY DEF doSquash
<1>2. (renameMap \in [ArchRegs -> VirtRegs])'
  BY <1>0, <1>h, <1>t
<1>3. (numRef \in [PhysRegs -> Nat])'
  BY <1>0, <1>h, <1>t, TryFreeType
<1>4. (freeList \subseteq PhysRegs)'
  BY <1>0, <1>h, <1>t, TryFreeType
<1>5. (history \subseteq HistoryEntries)'
  BY DEF doSquash, TypeInv, TypeOK, LogComplete, Infos, LogEntries
<1>6. (fixedbuffer \in Seq([sn : Nat \ {0}, inst : Insts]))'
  BY DEF doSquash, TypeInv, TypeOK, LogComplete, Infos, LogEntries
<1>7. TypeOK'
  BY <1>1, <1>2, <1>3, <1>4, <1>5, <1>6, Zenon DEF TypeInv, TypeOK
<1>8. LogComplete'
  BY <1>1 DEF doSquash, TypeInv, TypeOK, LogComplete
<1> QED
  BY <1>7, <1>8 DEF TypeInv

LEMMA Type_checkSquashDone == TypeInv /\ checkSquashDone => TypeInv'
<1> SUFFICES ASSUME TypeInv, checkSquashDone PROVE TypeInv'
  OBVIOUS
<1> USE DEF mapVars, releaseVars, bufferVars, commitVars, wireVars
<1>1. UNCHANGED <<renameMap, commitMap, freeList, numRef, history, nextHid, finalCommitSeq, destIdx, nextSeq, lastCommitted, toRename, fromCommit, blockRename, robSquashing, log, arch, val>>
  BY DEF checkSquashDone
<1>2. (phase \in {"commit", "move", "squash", "release", "check", "rename", "end"})'
  BY Zenon DEF checkSquashDone
<1>3. (fixedbuffer \in Seq([sn : Nat \ {0}, inst : Insts]))'
  BY DEF checkSquashDone, TypeInv, TypeOK, LogComplete, Infos, LogEntries
<1>4. (releaseSeq \in Nat)'
  BY WidthAssumption DEF checkSquashDone, AdvanceRelease, TypeInv, TypeOK
<1>5. TypeOK'
  BY <1>1, <1>2, <1>3, <1>4, Zenon DEF TypeInv, TypeOK
<1>6. LogComplete'
  BY <1>1 DEF checkSquashDone, TypeInv, TypeOK, LogComplete
<1> QED
  BY <1>5, <1>6 DEF TypeInv

LEMMA Type_removeFromHistory == TypeInv /\ removeFromHistory => TypeInv'
<1> SUFFICES ASSUME TypeInv, removeFromHistory PROVE TypeInv'
  OBVIOUS
<1> USE DEF mapVars, releaseVars, bufferVars, commitVars, wireVars
<1>0. PICK h \in history :
        LET r == IF h.new.phy # h.prev.phy
                 THEN tryFreePReg(h.prev.phy, numRef, freeList)
                 ELSE <<numRef, freeList>>
        IN numRef' = r[1] /\ freeList' = r[2]
  BY DEF removeFromHistory
<1>h. h.prev.phy \in PhysRegs \cup {InvalidReg}
  BY DEF TypeInv, TypeOK, HistoryEntries, VirtRegs
<1>t. numRef \in [PhysRegs -> Nat] /\ freeList \in SUBSET PhysRegs
  BY DEF TypeInv, TypeOK
<1>1. UNCHANGED <<phase, renameMap, commitMap, nextHid, finalCommitSeq, releaseSeq, fixedbuffer, destIdx, nextSeq, lastCommitted, toRename, fromCommit, blockRename, robSquashing, log, arch, val>>
  BY DEF removeFromHistory
<1>2. (numRef \in [PhysRegs -> Nat])'
  BY <1>0, <1>h, <1>t, TryFreeType
<1>3. (freeList \subseteq PhysRegs)'
  BY <1>0, <1>h, <1>t, TryFreeType
<1>4. (history \subseteq HistoryEntries)'
  BY DEF removeFromHistory, TypeInv, TypeOK, LogComplete, Infos, LogEntries
<1>5. TypeOK'
  BY <1>1, <1>2, <1>3, <1>4, Zenon DEF TypeInv, TypeOK
<1>6. LogComplete'
  BY <1>1 DEF removeFromHistory, TypeInv, TypeOK, LogComplete
<1> QED
  BY <1>5, <1>6 DEF TypeInv

LEMMA Type_releaseDone == TypeInv /\ releaseDone => TypeInv'
<1> SUFFICES ASSUME TypeInv, releaseDone PROVE TypeInv'
  OBVIOUS
<1> USE DEF mapVars, releaseVars, bufferVars, commitVars, wireVars
<1>1. UNCHANGED <<renameMap, commitMap, freeList, numRef, history, nextHid, fixedbuffer, destIdx, nextSeq, lastCommitted, toRename, fromCommit, blockRename, robSquashing, log, arch, val>>
  BY DEF releaseDone
<1>2. (phase \in {"commit", "move", "squash", "release", "check", "rename", "end"})'
  BY Zenon DEF releaseDone
<1>3. (finalCommitSeq \in Nat)'
  BY DEF releaseDone, TypeInv, TypeOK, LogComplete, Infos, LogEntries
<1>4. (releaseSeq \in Nat)'
  <2>1. ASSUME history # {}
        PROVE  (CHOOSE h \in history : Oldest(h)).sn \in Nat
    BY <2>1, OldestExists DEF TypeInv, TypeOK, HistoryEntries
  <2> QED
    BY <2>1 DEF releaseDone, TypeInv, TypeOK
<1>5. TypeOK'
  BY <1>1, <1>2, <1>3, <1>4, Zenon DEF TypeInv, TypeOK
<1>6. LogComplete'
  BY <1>1 DEF releaseDone, TypeInv, TypeOK, LogComplete
<1> QED
  BY <1>5, <1>6 DEF TypeInv

LEMMA Type_startRename == TypeInv /\ startRename => TypeInv'
<1> SUFFICES ASSUME TypeInv, startRename PROVE TypeInv'
  OBVIOUS
<1> USE DEF mapVars, releaseVars, bufferVars, commitVars, wireVars
<1>1. UNCHANGED <<renameMap, commitMap, freeList, numRef, history, nextHid, finalCommitSeq, releaseSeq, fixedbuffer, destIdx, nextSeq, lastCommitted, toRename, fromCommit, blockRename, robSquashing, log, arch, val>>
  BY DEF startRename
<1>2. (phase \in {"commit", "move", "squash", "release", "check", "rename", "end"})'
  BY DEF startRename, TypeInv, TypeOK, LogComplete, Infos, LogEntries
<1>3. TypeOK'
  BY <1>1, <1>2, Zenon DEF TypeInv, TypeOK
<1>4. LogComplete'
  BY <1>1 DEF startRename, TypeInv, TypeOK, LogComplete
<1> QED
  BY <1>3, <1>4 DEF TypeInv

LEMMA Type_renameSrcRegs == TypeInv /\ renameSrcRegs => TypeInv'
<1> SUFFICES ASSUME TypeInv, renameSrcRegs PROVE TypeInv'
  OBVIOUS
<1> USE DEF mapVars, releaseVars, bufferVars, commitVars, wireVars
<1> DEFINE e == Head(fixedbuffer)
           r == [sn     |-> e.sn,
                 inst   |-> e.inst,
                 src    |-> lookup(renameMap, e.inst.src),
                 srcval |-> SpecRead(e.inst.src),
                 dst    |-> <<>>]
<1>e. e \in [sn : Nat \ {0}, inst : Insts]
  <2>1. fixedbuffer \in Seq([sn : Nat \ {0}, inst : Insts]) /\ fixedbuffer # <<>>
    BY DEF renameSrcRegs, TypeInv, TypeOK
  <2> QED
    BY <2>1, HeadTailProperties
<1>i. e.inst.src \in ArchRegs \cup {Zero} /\ Len(e.inst.dsts) \in Nat
  BY <1>e, InstsAssumption
<1>r. r \in LogEntries
  <2>1. lookup(renameMap, e.inst.src) \in VirtRegs
    BY <1>i DEF lookup, InvalidVirt, VirtRegs, TypeInv, TypeOK
  <2>2. SpecRead(e.inst.src) \in Values
    BY <1>i, SpecReadType DEF TypeInv
  <2>3. << >> \in Seq(VirtRegs)
    OBVIOUS
  <2> QED
    BY <1>e, <2>1, <2>2, <2>3 DEF LogEntries
<1>l. log' = Append(log, r) /\ log \in Seq(LogEntries)
  BY DEF renameSrcRegs, TypeInv, TypeOK
<1> HIDE DEF r
<1>1. UNCHANGED <<phase, renameMap, commitMap, freeList, numRef, history, nextHid, finalCommitSeq, releaseSeq, fixedbuffer, nextSeq, lastCommitted, toRename, fromCommit, blockRename, robSquashing, arch, val>>
  BY DEF renameSrcRegs
<1>2. (log \in Seq(LogEntries))'
  BY <1>r, <1>l
<1>3. (destIdx \in Nat)'
  BY DEF renameSrcRegs, TypeInv, TypeOK, LogComplete, Infos, LogEntries
<1>4. TypeOK'
  BY <1>1, <1>2, <1>3, Zenon DEF TypeInv, TypeOK
<1>5. LogComplete'
  <2>1. /\ Len(log') = Len(log) + 1 /\ log'[Len(log) + 1] = r
        /\ \A i \in 1..Len(log) : log'[i] = log[i]
        /\ Len(log) \in Nat
    BY <1>r, <1>l
  <2>2. r.inst = e.inst /\ Len(r.dst) = 0
    BY DEF r
  <2>3. destIdx = 0 /\ destIdx' = 1 /\ phase' = "rename" /\ fixedbuffer' = fixedbuffer
        /\ fixedbuffer # <<>>
    BY DEF renameSrcRegs
  <2>4. \A i \in 1..Len(log) : Len(log[i].dst) = Len(log[i].inst.dsts)
    BY <2>3 DEF TypeInv, LogComplete
  <2>5. \A i \in 1..Len(log') : i < Len(log') => Len(log'[i].dst) = Len(log'[i].inst.dsts)
    BY <2>1, <2>4
  <2>6. log' # <<>>
    BY <1>2, <2>1
  <2> QED
    BY <1>i, <2>1, <2>2, <2>3, <2>5, <2>6 DEF LogComplete
<1> QED
  BY <1>4, <1>5 DEF TypeInv

LEMMA Type_renameDestRegs == TypeInv /\ renameDestRegs => TypeInv'
<1> SUFFICES ASSUME TypeInv, renameDestRegs PROVE TypeInv'
  OBVIOUS
<1> USE DEF mapVars, releaseVars, bufferVars, commitVars, wireVars
<1>0. /\ CurInst \in [sn : Nat \ {0}, inst : Insts]
      /\ CurDest \in ArchRegs \cup {Zero}
      /\ Len(log) \in Nat \ {0} /\ Len(log) \in 1..Len(log)
  BY CurInstType DEF renameDestRegs
<1>b. BypassReg(CurInst.inst) \in VirtRegs
  BY <1>0, BypassRegType DEF TypeInv
<1>t. /\ renameMap \in [ArchRegs -> VirtRegs] /\ numRef \in [PhysRegs -> Nat]
      /\ freeList \subseteq PhysRegs /\ nextHid \in Nat /\ destIdx \in Nat
      /\ val \in [PhysRegs \cup {InvalidReg} -> Values]
      /\ history \subseteq HistoryEntries /\ log \in Seq(LogEntries)
  BY DEF TypeInv, TypeOK
<1>p. PICK new \in VirtRegs : PushHistory(new)
  BY PushedEntry
<1>d. SkipZero \/ ShareReg \/ AllocateReg
  BY DEF renameDestRegs
<1>1. UNCHANGED <<phase, commitMap, finalCommitSeq, releaseSeq, fixedbuffer, nextSeq, lastCommitted, toRename, fromCommit, blockRename, robSquashing, arch>>
  BY DEF renameDestRegs
<1>v. \A p \in freeList : [phy |-> p, imm |-> 0] \in VirtRegs
  BY <1>t DEF VirtRegs
<1>2. (renameMap \in [ArchRegs -> VirtRegs])'
  <2>1. CASE SkipZero
    BY <1>t, <2>1 DEF SkipZero
  <2>2. CASE ShareReg
    BY <1>b, <1>t, <2>2 DEF ShareReg
  <2>3. CASE AllocateReg
    <3>1. PICK p \in freeList :
            renameMap' = [renameMap EXCEPT ![CurDest] = [phy |-> p, imm |-> 0]]
      BY <2>3 DEF AllocateReg
    <3>2. [phy |-> p, imm |-> 0] \in VirtRegs
      BY <1>v
    <3> QED
      BY <1>t, <3>1, <3>2
  <2> QED
    BY <1>d, <2>1, <2>2, <2>3
<1>3. (numRef \in [PhysRegs -> Nat])'
  <2>1. CASE SkipZero
    BY <1>t, <2>1 DEF SkipZero
  <2>2. CASE ShareReg
    <3>1. PICK q : /\ q = BypassReg(CurInst.inst).phy
                   /\ numRef' = IF q = renameMap[CurDest].phy \/ q = InvalidReg
                                THEN numRef ELSE [numRef EXCEPT ![q] = @ + 1]
      BY <2>2 DEF ShareReg
    <3>2. q \in PhysRegs \cup {InvalidReg}
      BY <1>b, <3>1 DEF VirtRegs
    <3>3. CASE numRef' = numRef
      BY <1>t, <3>3
    <3>4. CASE q \in PhysRegs /\ numRef' = [numRef EXCEPT ![q] = @ + 1]
      BY <1>t, <3>4
    <3> QED
      BY <3>1, <3>2, <3>3, <3>4
  <2>3. CASE AllocateReg
    BY <1>t, <2>3 DEF AllocateReg
  <2> QED
    BY <1>d, <2>1, <2>2, <2>3
<1>4. (freeList \subseteq PhysRegs)'
  BY <1>d, <1>t DEF SkipZero, ShareReg, AllocateReg
<1>5. (val \in [PhysRegs \cup {InvalidReg} -> Values])'
  <2>1. log[Len(log)].srcval \in Values
    <3>1. log[Len(log)] \in LogEntries
      BY <1>0, <1>t, ElementOfSeq
    <3> QED
      BY <3>1 DEF LogEntries
  <2>2. Result(CurInst.sn, CurInst.inst, destIdx, log[Len(log)].srcval) \in Values
    BY <1>0, <1>t, <2>1, ResultType
  <2> QED
    BY <1>d, <1>t, <2>2 DEF SkipZero, ShareReg, AllocateReg
<1>6. (history \subseteq HistoryEntries)'
  <2>1. lookup(renameMap, CurDest) \in VirtRegs
    BY <1>0, LookupType DEF TypeInv
  <2> QED
    BY <1>0, <1>p, <1>t, <2>1 DEF PushHistory, HistoryEntries
<1>7. (nextHid \in Nat)'
  BY <1>t DEF renameDestRegs
<1>l. /\ log' \in Seq(LogEntries) /\ Len(log') = Len(log)
      /\ \A i \in 1..Len(log) : i < Len(log) => log'[i] = log[i]
      /\ log'[Len(log)].inst = log[Len(log)].inst
      /\ Len(log'[Len(log)].dst) = Len(log[Len(log)].dst) + 1
  <2> DEFINE x == log[Len(log)]
             y == [x EXCEPT !.dst = Append(@, new)]
  <2>1. x \in LogEntries
    BY <1>0, <1>t
  <2>2. x.dst \in Seq(VirtRegs)
    BY <2>1 DEF LogEntries
  <2>3. Append(x.dst, new) \in Seq(VirtRegs) /\ Len(Append(x.dst, new)) = Len(x.dst) + 1
    BY <2>2
  <2>4. y \in LogEntries /\ y.inst = x.inst /\ y.dst = Append(x.dst, new)
    BY <2>1, <2>3 DEF LogEntries
  <2>5. log' = [log EXCEPT ![Len(log)] = y]
    BY <1>p DEF PushHistory
  <2> HIDE DEF y
  <2>6. /\ log' \in Seq(LogEntries) /\ Len(log') = Len(log)
        /\ \A i \in 1..Len(log) : i < Len(log) => log'[i] = log[i]
        /\ log'[Len(log)] = y
    BY <1>0, <1>t, <2>4, <2>5
  <2> QED
    BY <2>3, <2>4, <2>6
<1>8. (log \in Seq(LogEntries))'
  BY <1>l
<1>9. (destIdx \in Nat)'
  BY <1>t DEF renameDestRegs
<1>10. TypeOK'
  BY <1>1, <1>2, <1>3, <1>4, <1>5, <1>6, <1>7, <1>8, <1>9, Zenon DEF TypeInv, TypeOK
<1>11. LogComplete'
  <2>1. /\ destIdx # 0 /\ destIdx' = destIdx + 1 /\ phase' = "rename"
        /\ fixedbuffer' = fixedbuffer /\ destIdx <= Len(CurInst.inst.dsts)
        /\ phase = "rename"
    BY DEF renameDestRegs
  <2>2. /\ fixedbuffer # <<>> /\ log # <<>>
        /\ log[Len(log)].inst = CurInst.inst
        /\ Len(log[Len(log)].dst) = destIdx - 1
        /\ \A i \in 1..Len(log) :
             i < Len(log) => Len(log[i].dst) = Len(log[i].inst.dsts)
    BY <2>1 DEF TypeInv, LogComplete, CurInst
  <2>3. log' # <<>>
    BY <1>0, <1>l, EmptySeq
  <2>4. \A i \in 1..Len(log') :
          i < Len(log') => Len(log'[i].dst) = Len(log'[i].inst.dsts)
    BY <1>l, <2>2
  <2>5. Len(log'[Len(log')].dst) = destIdx' - 1 /\ destIdx' # 0
    BY <1>l, <1>t, <2>1, <2>2
  <2>6. destIdx' - 1 <= Len(Head(fixedbuffer').inst.dsts)
    BY <1>t, <2>1 DEF CurInst
  <2> QED
    BY <1>l, <2>1, <2>2, <2>3, <2>4, <2>5, <2>6 DEF LogComplete, CurInst
<1> QED
  BY <1>10, <1>11 DEF TypeInv

LEMMA Type_renameInstDone == TypeInv /\ renameInstDone => TypeInv'
<1> SUFFICES ASSUME TypeInv, renameInstDone PROVE TypeInv'
  OBVIOUS
<1> USE DEF mapVars, releaseVars, bufferVars, commitVars, wireVars
<1>1. UNCHANGED <<renameMap, commitMap, freeList, numRef, history, nextHid, finalCommitSeq, releaseSeq, nextSeq, lastCommitted, toRename, fromCommit, blockRename, robSquashing, log, arch, val>>
  BY DEF renameInstDone
<1>2. (phase \in {"commit", "move", "squash", "release", "check", "rename", "end"})'
  BY DEF renameInstDone, TypeInv, TypeOK, LogComplete, Infos, LogEntries
<1>3. (fixedbuffer \in Seq([sn : Nat \ {0}, inst : Insts]))'
  BY DEF renameInstDone, TypeInv, TypeOK, LogComplete, Infos, LogEntries
<1>4. (destIdx \in Nat)'
  BY DEF renameInstDone, TypeInv, TypeOK, LogComplete, Infos, LogEntries
<1>5. TypeOK'
  BY <1>1, <1>2, <1>3, <1>4, Zenon DEF TypeInv, TypeOK
<1>6. LogComplete'
  <2>1. /\ destIdx # 0 /\ destIdx' = 0 /\ log' = log
        /\ destIdx > Len(Head(fixedbuffer).inst.dsts)
    BY <1>1 DEF renameInstDone
  <2>2. /\ Head(fixedbuffer).inst \in Insts
        /\ destIdx \in Nat /\ Len(log) \in Nat \ {0}
    BY <2>1, CurInstType, EmptySeq DEF CurInst, TypeInv, TypeOK, LogComplete
  <2>3. Len(Head(fixedbuffer).inst.dsts) \in Nat
    BY <2>2, InstsAssumption
  <2>4. Len(log[Len(log)].dst) = Len(log[Len(log)].inst.dsts)
    BY <2>1, <2>2, <2>3 DEF TypeInv, LogComplete
  <2>5. \A i \in 1..Len(log) : Len(log[i].dst) = Len(log[i].inst.dsts)
    BY <2>2, <2>4 DEF TypeInv, LogComplete
  <2> QED
    BY <2>1, <2>5 DEF LogComplete
<1> QED
  BY <1>5, <1>6 DEF TypeInv

LEMMA Type_advance == TypeInv /\ advance => TypeInv'
<1> SUFFICES ASSUME TypeInv, advance PROVE TypeInv'
  OBVIOUS
<1> USE DEF mapVars, releaseVars, bufferVars, commitVars, wireVars
<1>1. UNCHANGED <<renameMap, commitMap, freeList, numRef, history, nextHid, finalCommitSeq, releaseSeq, fixedbuffer, destIdx, nextSeq, lastCommitted, blockRename, robSquashing, log, arch, val>>
  BY DEF advance
<1>2. (phase \in {"commit", "move", "squash", "release", "check", "rename", "end"})'
  BY Zenon DEF advance
<1>3. (fromCommit \in Infos)'
  BY DEF advance, TypeInv, TypeOK, LogComplete, Infos, LogEntries
<1>4. (toRename \in Infos)'
  BY DEF advance, NoInfo, Infos
<1>5. TypeOK'
  BY <1>1, <1>2, <1>3, <1>4, Zenon DEF TypeInv, TypeOK
<1>6. LogComplete'
  BY <1>1 DEF advance, TypeInv, TypeOK, LogComplete
<1> QED
  BY <1>5, <1>6 DEF TypeInv

LEMMA TypeStep == TypeInv /\ [Next]_vars => TypeInv'
<1> SUFFICES ASSUME TypeInv, [Next]_vars PROVE TypeInv'
  OBVIOUS
<1>1. CASE UNCHANGED vars
  BY <1>1 DEF vars, mapVars, releaseVars, bufferVars, commitVars, wireVars,
              TypeInv, TypeOK, LogComplete
<1>2. CASE Next
  BY <1>2, Type_RobDoneSquashing, Type_CommitHead, Type_CommitSquash, Type_CommitDone, Type_moveInstsToBuffer, Type_doSquash, Type_checkSquashDone, Type_removeFromHistory, Type_releaseDone, Type_startRename, Type_renameSrcRegs, Type_renameDestRegs, Type_renameInstDone, Type_advance
     DEF Next, Commit, RenameTick
<1> QED
  BY <1>1, <1>2

=============================================================================
