------------------------------- MODULE Commit -------------------------------
(***************************************************************************)
(* The back end of the O3 core: the commit stage around the reorder        *)
(* buffer, the part of IEW (dispatch, execute, store queue) it talks to,   *)
(* and the rename stage as the source of instructions.                     *)
(*                                                                         *)
(* One cycle of CPU::tick() is commit.tick(), iew.tick(), rename.tick()    *)
(* and the advance of the time buffers; `phase' says which part runs next. *)
(* A stage reads what another wrote in the previous cycle (toIEW becomes   *)
(* fromCommit, toCommit becomes fromIEW, toROB becomes fromRename), except *)
(* for the stall signals, which a later stage sees in the same cycle.      *)
(*                                                                         *)
(* Execution is abstracted to its outcome: an instruction of the queue may *)
(* complete, fault, turn out mispredicted (branch) or expose a younger     *)
(* load that read too early (store).  Queue capacities other than the      *)
(* ROB's are a free choice to stall.  `dead' is a history variable: the    *)
(* instructions that a squash the commit stage has decided on removes from *)
(* the program, whether or not anybody has marked them yet.                *)
(***************************************************************************)
EXTENDS ROB

CONSTANTS
  CommitWidth,          \* params.commitWidth, in groups
  RenameWidth,          \* params.renameWidth
  AllowFaults,          \* may an instruction fault?
  AllowOrderViolations, \* may a store expose a load that ran too early?
  AllowSnoops,          \* may an invalidation mark a load for re-execution?
  AllowTCSquash,        \* may a ThreadContext write squash the thread?
  AllowDrain            \* may the simulator ask the core to drain?

ASSUME CommitAssumption ==
  /\ CommitWidth \in Nat \ {0} /\ RenameWidth \in Nat \ {0}
  /\ {AllowFaults, AllowOrderViolations, AllowSnoops, AllowTCSquash, AllowDrain}
       \subseteq BOOLEAN

VARIABLES
  phase,               \* the part of the cycle that runs next
  commitStatus,        \* Commit::commitStatus
  trapInFlight,        \* Commit::trapInFlight
  trapSquash,          \* Commit::trapSquash
  tcSquash,            \* Commit::tcSquash
  squashAfterInst,     \* Commit::squashAfterInst, 0 for NULL
  drain,               \* Commit::drainPending and drainImminent
  youngestSeqNum,      \* Commit::youngestSeqNum
  lastCommitedSeqNum,  \* Commit::lastCommitedSeqNum
  commitBuffer,        \* Commit::fixedbuffer
  commitLeft,          \* commit_width - num_committed of commitInsts
  numCommitted,        \* num_committed of commitInsts
  toIEW, fromCommit,   \* TimeStruct::CommitComm, written and read
  toCommit, fromIEW,   \* IEWStruct, written and read
  toROB, fromRename,   \* RenameStruct, written and read
  blockIEW,            \* StallSignals::blockIEW
  blockRename,         \* StallSignals::blockRename
  iewBuffer,           \* IEW::fixedbuffer
  iq,                  \* dispatched instructions that may issue
  nonSpecInsts,        \* InstructionQueue::nonSpecInsts
  serializeOnNextInst, \* IEW::serializeOnNextInst
  loadQueue,           \* LSQUnit::loadQueue
  storeQueue,          \* LSQUnit::storeQueue
  canWB,               \* the stores of storeQueue that may write memory
  dead                 \* history: removed from the program by a squash

trapVars == <<trapInFlight, trapSquash, tcSquash, squashAfterInst>>
seqVars == <<youngestSeqNum, lastCommitedSeqNum>>
loopVars == <<commitLeft, numCommitted>>
commitVars == <<commitStatus, trapVars, drain, seqVars, commitBuffer, loopVars>>
robVars == <<listVars, walkVars>>
lsqVars == <<loadQueue, storeQueue, canWB>>
issueVars == <<iq, nonSpecInsts, serializeOnNextInst>>
iewVars == <<iewBuffer, issueVars, lsqVars>>
readWires == <<fromCommit, fromIEW, fromRename>>
\* What commit.tick() does not write.
laterStages == <<toCommit, toROB, readWires, blockRename, iewVars>>
vars == <<robVars, flagVars, phase, commitVars, toIEW, blockIEW, laterStages, dead>>

NoComm == [squash |-> FALSE, robSquashing |-> FALSE, doneSeqNum |-> 0, doneMemSeqNum |-> 0,
           nonSpecSeqNum |-> 0, robheadSeqNum |-> 0]
NoIEWInfo == [squash |-> FALSE, squashedSeqNum |-> 0, includeSquashInst |-> FALSE, insts |-> {}]

Renamed == 1..Len(kind)
Members(s) == {s[p] : p \in DOMAIN s}

Init ==
  /\ ROBInit
  /\ phase = "walk" /\ commitStatus = "Running"
  /\ trapInFlight = FALSE /\ trapSquash = FALSE /\ tcSquash = FALSE
  /\ squashAfterInst = 0 /\ drain = "none"
  /\ youngestSeqNum = 0 /\ lastCommitedSeqNum = 0
  /\ commitBuffer = <<>> /\ commitLeft = 0 /\ numCommitted = 0
  /\ toIEW = NoComm /\ fromCommit = NoComm
  /\ toCommit = NoIEWInfo /\ fromIEW = NoIEWInfo
  /\ toROB = <<>> /\ fromRename = <<>>
  /\ blockIEW = FALSE /\ blockRename = FALSE
  /\ iewBuffer = <<>> /\ iq = {} /\ nonSpecInsts = {} /\ serializeOnNextInst = FALSE
  /\ loadQueue = {} /\ storeQueue = {} /\ canWB = {}
  /\ dead = {}

-----------------------------------------------------------------------------
(* Events that arrive between two ticks *)

\* processTrapEvent: the trap's latency is over.
TrapEvent ==
  /\ phase = "walk" /\ trapInFlight /\ ~trapSquash
  /\ trapSquash' = TRUE
  /\ UNCHANGED <<robVars, flagVars, phase, commitStatus, trapInFlight, tcSquash, squashAfterInst,
                 drain, seqVars, commitBuffer, loopVars, toIEW, blockIEW, laterStages, dead>>

\* generateTCEvent, called by CPU::squashFromTC.
TCEvent ==
  /\ AllowTCSquash
  /\ phase = "walk" /\ ~trapInFlight /\ ~tcSquash
  /\ tcSquash' = TRUE
  /\ UNCHANGED <<robVars, flagVars, phase, commitStatus, trapInFlight, trapSquash, squashAfterInst,
                 drain, seqVars, commitBuffer, loopVars, toIEW, blockIEW, laterStages, dead>>

\* Commit::drain: the simulator asks for an instruction boundary (once).
DrainRequest ==
  /\ AllowDrain
  /\ phase = "walk" /\ drain = "none"
  /\ drain' = "pending"
  /\ UNCHANGED <<robVars, flagVars, phase, commitStatus, trapVars, seqVars, commitBuffer, loopVars,
                 toIEW, blockIEW, laterStages, dead>>

\* Commit::drainResume, once the core is empty.
DrainResume ==
  /\ phase = "walk" /\ drain = "imminent" /\ commitStatus = "Running"
  /\ instList = <<>> /\ storeQueue = {} /\ fromRename = <<>> /\ iewBuffer = <<>>
  /\ drain' = "resumed"
  /\ UNCHANGED <<robVars, flagVars, phase, commitStatus, trapVars, seqVars, commitBuffer, loopVars,
                 toIEW, blockIEW, laterStages, dead>>

\* LSQUnit::checkSnoop: an invalidation reaches a load other than the oldest.
Snoop ==
  /\ AllowSnoops
  /\ phase = "walk"
  /\ \E l \in loadQueue \cap executed :
       /\ \E older \in loadQueue : older < l
       /\ faulted' = faulted \cup {l}
  /\ UNCHANGED <<robVars, kind, canCommit, executed, squashed, serializeBefore, phase, commitVars,
                 toIEW, blockIEW, laterStages, dead>>

-----------------------------------------------------------------------------
(* Commit::tick *)

\* Mutant of robWalk: the stage runs again after one cycle of the walk.
WalkOneCycle ==
  /\ phase = "walk"
  /\ phase' = "squash"
  /\ \/ /\ commitStatus = "ROBSquashing"
        /\ commitStatus' = "Running"
        /\ IF doneSquashing THEN UNCHANGED <<robVars, flagVars>> ELSE doSquash
     \/ /\ commitStatus # "ROBSquashing"
        /\ UNCHANGED <<robVars, flagVars, commitStatus>>
  /\ UNCHANGED <<toIEW, trapVars, drain, seqVars, commitBuffer, loopVars, blockIEW, laterStages, dead>>

\* The walk of the reorder buffer, at the start of the tick.
robWalk ==
  /\ phase = "walk"
  /\ phase' = "squash"
  /\ \/ /\ commitStatus = "ROBSquashing" /\ ~doneSquashing
        /\ doSquash
        /\ toIEW' = [toIEW EXCEPT !.robSquashing = TRUE]
        /\ UNCHANGED commitStatus
     \/ /\ commitStatus = "ROBSquashing" /\ doneSquashing
        /\ commitStatus' = "Running"
        /\ UNCHANGED <<robVars, flagVars, toIEW>>
     \/ /\ commitStatus # "ROBSquashing"
        /\ UNCHANGED <<robVars, flagVars, commitStatus, toIEW>>
  /\ UNCHANGED <<trapVars, drain, seqVars, commitBuffer, loopVars, blockIEW, laterStages, dead>>

\* Mutant of DropInflight: the group on the wire from rename is forgotten.
DropBufferOnly(s) ==
  /\ squashed' = squashed
  /\ commitBuffer' = <<>>
  /\ dead' = dead \cup {i \in Renamed : i > s}

\* squashInflightAndUpdateVersion, and the history of what s removes.
DropInflight(s) ==
  /\ squashed' = squashed \cup Members(fromRename)
  /\ commitBuffer' = <<>>
  /\ dead' = dead \cup {i \in Renamed : i > s}

SignalSquash(s) ==
  toIEW' = [toIEW EXCEPT !.squash = TRUE, !.robSquashing = TRUE,
                         !.doneSeqNum = s, !.doneMemSeqNum = s]

\* The last instruction squashAll keeps.
SquashAllPoint == IF instList = <<>> THEN lastCommitedSeqNum ELSE Head(instList) - 1

squashAll ==
  /\ squash(SquashAllPoint)
  /\ youngestSeqNum' = lastCommitedSeqNum
  /\ SignalSquash(SquashAllPoint)
  /\ DropInflight(SquashAllPoint)
  /\ commitStatus' = "ROBSquashing"

squashFromTrap ==
  /\ trapSquash
  /\ squashAll
  /\ trapSquash' = FALSE /\ trapInFlight' = FALSE
  /\ UNCHANGED <<tcSquash, squashAfterInst>>

squashFromTC ==
  /\ ~trapSquash /\ tcSquash
  /\ squashAll
  /\ tcSquash' = FALSE
  /\ UNCHANGED <<trapSquash, trapInFlight, squashAfterInst>>

squashFromSquashAfter ==
  /\ ~trapSquash /\ ~tcSquash /\ commitStatus = "SquashAfterPending"
  /\ squashAll
  /\ squashAfterInst' = 0
  /\ UNCHANGED <<trapSquash, trapInFlight, tcSquash>>

noCommitSquash ==
  /\ ~trapSquash /\ ~tcSquash /\ commitStatus # "SquashAfterPending"
  /\ UNCHANGED <<walkVars, squashed, toIEW, commitStatus, youngestSeqNum, commitBuffer, dead,
                 trapSquash, trapInFlight, tcSquash, squashAfterInst>>

\* commit(), the squashes the commit stage starts itself.
commitSquash ==
  /\ phase = "squash"
  /\ phase' = "iewSquash"
  /\ squashFromTrap \/ squashFromTC \/ squashFromSquashAfter \/ noCommitSquash
  /\ UNCHANGED <<listVars, kind, canCommit, executed, faulted, serializeBefore, drain,
                 lastCommitedSeqNum, loopVars, blockIEW, laterStages>>

IEWSquashPoint ==
  fromIEW.squashedSeqNum - (IF fromIEW.includeSquashInst THEN 1 ELSE 0)

\* Mutant of acceptIEWSquash: the request is not compared with an older squash.
AcceptAnySquash == fromIEW.squash /\ commitStatus # "TrapPending"

\* A squash from IEW counts unless a trap is pending or an older squash has
\* already removed the instruction that asks for it.
acceptIEWSquash ==
  /\ fromIEW.squash
  /\ commitStatus # "TrapPending"
  /\ fromIEW.squashedSeqNum <= youngestSeqNum

\* commit(), the squash IEW asked for in the previous cycle.
iewSquash ==
  /\ phase = "iewSquash"
  /\ phase' = "move"
  /\ \/ /\ acceptIEWSquash
        /\ commitStatus' = "ROBSquashing"
        /\ youngestSeqNum' = IEWSquashPoint
        /\ squash(IEWSquashPoint)
        /\ SignalSquash(IEWSquashPoint)
        /\ DropInflight(IEWSquashPoint)
     \/ /\ ~acceptIEWSquash
        /\ UNCHANGED <<commitStatus, youngestSeqNum, walkVars, toIEW, squashed, commitBuffer, dead>>
  /\ UNCHANGED <<listVars, kind, canCommit, executed, faulted, serializeBefore, trapVars, drain,
                 lastCommitedSeqNum, loopVars, blockIEW, laterStages>>

robblock == commitStatus \in {"ROBSquashing", "TrapPending"}

\* The instructions moveInstsToBuffer finds in its buffer.
Buffered == commitBuffer \o SelectSeq(fromRename, LAMBDA i : i \notin squashed)

\* moveInstsToBuffer, up to the test for free entries.
moveInstsToBuffer ==
  /\ phase = "move"
  /\ commitBuffer' = Buffered
  /\ blockIEW' = (RobEntries - Len(threadGroups) < Len(Buffered) \/ robblock)
  /\ phase' = IF ~blockIEW' /\ Buffered # <<>> THEN "insert" ELSE "commitInsts"
  /\ UNCHANGED <<robVars, flagVars, commitStatus, trapVars, drain, seqVars, loopVars, toIEW,
                 laterStages, dead>>

\* moveInstsToBuffer, one iteration of the loop that fills the ROB.
insertBuffered ==
  /\ phase = "insert"
  /\ IF Head(commitBuffer) \in squashed
     THEN UNCHANGED <<listVars, youngestSeqNum>>
     ELSE insertInst(Head(commitBuffer)) /\ youngestSeqNum' = Head(commitBuffer)
  /\ commitBuffer' = Tail(commitBuffer)
  /\ phase' = IF Tail(commitBuffer) = <<>> THEN "commitInsts" ELSE "insert"
  /\ UNCHANGED <<walkVars, flagVars, commitStatus, trapVars, drain, lastCommitedSeqNum, loopVars,
                 toIEW, blockIEW, laterStages, dead>>

\* commitInsts is skipped while the reorder buffer is walked.
startCommit ==
  /\ phase = "commitInsts"
  /\ phase' = IF commitStatus = "ROBSquashing" THEN "mark" ELSE "commit"
  /\ commitLeft' = IF commitStatus = "ROBSquashing" THEN 0 ELSE countInstsOfGroups(CommitWidth)
  /\ numCommitted' = 0
  /\ UNCHANGED <<robVars, flagVars, commitStatus, trapVars, drain, seqVars, commitBuffer, toIEW,
                 blockIEW, laterStages, dead>>

\* The loop of commitInsts goes on to the instruction at the head.
MayCommit ==
  /\ phase = "commit" /\ commitLeft > 0
  /\ commitStatus = "Running"
  /\ isHeadGroupReady

HeadInst == Head(instList)

\* IEW::flushStores: no store is waiting to be written.
StoresFlushed == canWB = {}

\* Mutant of commitNonSpec: the instruction keeps its CanCommit flag.
NonSpecStaysReady ==
  /\ MayCommit /\ HeadInst \notin executed
  /\ toIEW' = [toIEW EXCEPT !.nonSpecSeqNum = HeadInst]
  /\ phase' = "commitEnd"
  /\ UNCHANGED <<robVars, flagVars, commitVars, blockIEW, laterStages, dead>>

\* commitHead on a non-speculative instruction: tell IEW to execute it.
commitNonSpec ==
  /\ MayCommit /\ HeadInst \notin executed
  /\ toIEW' = [toIEW EXCEPT !.nonSpecSeqNum = HeadInst]
  /\ canCommit' = canCommit \ {HeadInst}
  /\ phase' = "commitEnd"
  /\ UNCHANGED <<robVars, kind, executed, faulted, squashed, serializeBefore, commitVars, blockIEW,
                 laterStages, dead>>

\* commitHead on a faulting instruction: it waits for older stores and for
\* the start of a cycle, then raises the trap.
commitFault ==
  /\ MayCommit /\ HeadInst \in executed /\ HeadInst \in faulted
  /\ phase' = "commitEnd"
  /\ IF StoresFlushed /\ numCommitted = 0
     THEN commitStatus' = "TrapPending" /\ trapInFlight' = TRUE
     ELSE UNCHANGED <<commitStatus, trapInFlight>>
  /\ UNCHANGED <<robVars, flagVars, trapSquash, tcSquash, squashAfterInst, drain, seqVars,
                 commitBuffer, loopVars, toIEW, blockIEW, laterStages, dead>>

\* commitHead on an instruction that is done: it leaves the ROB.
retireInst ==
  /\ MayCommit /\ HeadInst \in executed /\ HeadInst \notin faulted
  /\ retireHead

\* After a retirement: squashAfter for an instruction that "doesn't play nicely
\* with others", and for the last one before a drain.
squashAfterRetired ==
  /\ lastCommitedSeqNum' = HeadInst
  /\ IF isSquashAfter(HeadInst) \/ drain = "pending"
     THEN commitStatus' = "SquashAfterPending" /\ squashAfterInst' = HeadInst
     ELSE UNCHANGED <<commitStatus, squashAfterInst>>
  /\ drain' = IF drain = "pending" THEN "imminent" ELSE drain

\* One iteration of the loop of commitInsts that retires the head.
commitHead ==
  /\ retireInst /\ squashAfterRetired
  /\ toIEW' = [toIEW EXCEPT !.doneSeqNum = HeadInst]
  /\ commitLeft' = commitLeft - 1 /\ numCommitted' = numCommitted + 1
  /\ UNCHANGED <<insertedNow, walkVars, flagVars, phase, trapInFlight, trapSquash, tcSquash,
                 youngestSeqNum, commitBuffer, blockIEW, laterStages, dead>>

\* The end of commitInsts.
endCommit ==
  /\ phase = "commitEnd" \/ (phase = "commit" /\ ~MayCommit)
  /\ toIEW' = [toIEW EXCEPT
                 !.doneMemSeqNum = AtLeast(toIEW.doneSeqNum, getHeadGroupLastDoneSeq),
                 !.robheadSeqNum = IF instList = <<>> THEN 0 ELSE HeadInst]
  /\ commitLeft' = 0 /\ numCommitted' = 0
  /\ phase' = "mark"
  /\ UNCHANGED <<robVars, flagVars, commitStatus, trapVars, drain, seqVars, commitBuffer, blockIEW,
                 laterStages, dead>>

markCompletedInsts ==
  /\ phase = "mark"
  /\ canCommit' = canCommit \cup (fromIEW.insts \ squashed)
  /\ phase' = "iew"
  /\ UNCHANGED <<robVars, kind, executed, faulted, squashed, serializeBefore, commitVars, toIEW,
                 blockIEW, laterStages, dead>>

-----------------------------------------------------------------------------
(* IEW::tick *)

earlierStages == <<robVars, commitVars, toIEW, blockIEW, readWires, dead>>

\* IEW::squash: everything younger than s leaves IEW, but a store that may
\* write memory stops the removal of stores.
SparedStores(s) == {x \in storeQueue : x <= s \/ \E y \in canWB : x <= y}

SquashIEW(s) ==
  LET gone == {i \in iq \cup nonSpecInsts \cup loadQueue : i > s}
                \cup (storeQueue \ SparedStores(s))
  IN  /\ squashed' = squashed \cup gone
      /\ iewBuffer' = <<>>
      /\ iq' = iq \ gone /\ nonSpecInsts' = nonSpecInsts \ gone
      /\ loadQueue' = loadQueue \ gone /\ storeQueue' = storeQueue \ gone

\* moveInstsToBuffer and checkSquash.
iewReceive ==
  /\ phase = "iew"
  /\ phase' = "startDispatch"
  /\ IF fromCommit.squash THEN SquashIEW(fromCommit.doneSeqNum)
     ELSE /\ iewBuffer' = iewBuffer \o fromRename
          /\ UNCHANGED <<squashed, iq, nonSpecInsts, loadQueue, storeQueue>>
  /\ UNCHANGED <<earlierStages, kind, canCommit, executed, faulted, serializeBefore, toCommit,
                 toROB, blockRename, serializeOnNextInst, canWB>>

\* Mutant of startDispatch: the stall does not reach rename.
StallNotPassedOn ==
  /\ phase = "startDispatch"
  /\ blockRename' = FALSE
  /\ \E ldst_block \in IF iewBuffer = <<>> THEN {FALSE} ELSE BOOLEAN :
       phase' = IF ~(blockIEW \/ ldst_block) /\ iewBuffer # <<>> THEN "dispatch" ELSE "execute"
  /\ UNCHANGED <<earlierStages, flagVars, toCommit, toROB, iewVars>>

\* Mutant of startDispatch: the stage goes on while commit blocks it.
DispatchThroughBlock ==
  /\ phase = "startDispatch"
  /\ blockRename' = blockIEW
  /\ phase' = IF iewBuffer # <<>> THEN "dispatch" ELSE "execute"
  /\ UNCHANGED <<earlierStages, flagVars, toCommit, toROB, iewVars>>

\* dispatchInsts: blocked by commit or by a nearly full load/store queue (with
\* nothing to dispatch the latter only stops rename, which may stop anyway).
startDispatch ==
  /\ phase = "startDispatch"
  /\ \E ldst_block \in IF iewBuffer = <<>> THEN {FALSE} ELSE BOOLEAN :
       LET block == blockIEW \/ ldst_block
       IN  /\ blockRename' = block
           /\ phase' = IF ~block /\ iewBuffer # <<>> THEN "dispatch" ELSE "execute"
  /\ UNCHANGED <<earlierStages, flagVars, toCommit, toROB, iewVars>>

DispatchHead == Head(iewBuffer)

\* checkSerialize, on the instruction that is dispatched next.
MustSerialize ==
  /\ serializeOnNextInst \/ DispatchHead \in serializeBefore
  /\ fromCommit.robheadSeqNum < DispatchHead

AfterPop == /\ iewBuffer' = Tail(iewBuffer)
            /\ phase' = IF Tail(iewBuffer) = <<>> THEN "execute" ELSE "dispatch"

\* checkSerialize says wait, or the instruction finds its queue full.
dispatchStall ==
  /\ phase = "dispatch"
  /\ serializeBefore' = IF serializeOnNextInst THEN serializeBefore \cup {DispatchHead}
                                               ELSE serializeBefore
  /\ serializeOnNextInst' = (~MustSerialize /\ isSerializeAfter(DispatchHead))
  /\ blockRename' = TRUE
  /\ phase' = "execute"
  /\ UNCHANGED <<earlierStages, kind, canCommit, executed, faulted, squashed, toCommit, toROB,
                 iewBuffer, iq, nonSpecInsts, lsqVars>>

\* dispatchInstFromRename, one iteration.  (Its test for a squashed instruction
\* never succeeds: DispatchesOnlyLive.)
dispatchInst ==
  LET i == DispatchHead
  IN  /\ phase = "dispatch" /\ ~MustSerialize
      /\ AfterPop
      /\ serializeBefore' = IF serializeOnNextInst THEN serializeBefore \cup {i}
                                                   ELSE serializeBefore
      /\ serializeOnNextInst' = isSerializeAfter(i)
      /\ canCommit' = IF isNonSpeculative(i) \/ kind[i] = "nop" THEN canCommit \cup {i}
                                                               ELSE canCommit
      /\ executed' = IF kind[i] = "nop" THEN executed \cup {i} ELSE executed
      /\ nonSpecInsts' = IF isNonSpeculative(i) THEN nonSpecInsts \cup {i} ELSE nonSpecInsts
      /\ iq' = IF isNonSpeculative(i) \/ kind[i] = "nop" THEN iq ELSE iq \cup {i}
      /\ loadQueue' = IF kind[i] = "load" THEN loadQueue \cup {i} ELSE loadQueue
      /\ storeQueue' = IF kind[i] = "store" THEN storeQueue \cup {i} ELSE storeQueue
      /\ UNCHANGED <<earlierStages, kind, faulted, squashed, toCommit, toROB, blockRename, canWB>>

\* squashDueToBranch / squashDueToMemOrder: the oldest request of the cycle
\* wins, and a memory-order squash of the same instruction beats a branch's.
RequestSquash(i, include) ==
  IF \/ ~toCommit.squash
     \/ i < toCommit.squashedSeqNum
     \/ include /\ i = toCommit.squashedSeqNum
  THEN [toCommit EXCEPT !.squash = TRUE, !.squashedSeqNum = i, !.includeSquashInst = include]
  ELSE toCommit

\* executeInsts and the load/store pipelines: instruction i finishes.
Finish(i) ==
  /\ phase = "execute" /\ i \in iq
  /\ iq' = iq \ {i}
  /\ executed' = executed \cup {i}
  /\ UNCHANGED <<earlierStages, phase, kind, canCommit, squashed, serializeBefore, toROB, iewBuffer,
                 nonSpecInsts, serializeOnNextInst, lsqVars>>

executeInst ==
  \E i \in iq :
    /\ Finish(i)
    /\ toCommit' = [toCommit EXCEPT !.insts = @ \cup {i}]
    /\ UNCHANGED <<faulted, blockRename>>

executeFault ==
  \E i \in iq :
    /\ AllowFaults
    /\ Finish(i)
    /\ faulted' = faulted \cup {i}
    /\ toCommit' = [toCommit EXCEPT !.insts = @ \cup {i}]
    /\ UNCHANGED blockRename

executeMispredict ==
  \E i \in iq :
    /\ isControl(i)
    /\ Finish(i)
    /\ toCommit' = [RequestSquash(i, FALSE) EXCEPT !.insts = @ \cup {i}]
    /\ blockRename' = TRUE
    /\ UNCHANGED faulted

executeViolation ==
  \E i \in iq, l \in loadQueue \cap executed :
    /\ AllowOrderViolations
    /\ kind[i] = "store" /\ l > i
    /\ Finish(i)
    /\ toCommit' = [RequestSquash(l, TRUE) EXCEPT !.insts = @ \cup {i}]
    /\ blockRename' = TRUE
    /\ UNCHANGED faulted

\* offloadToStoreBuffer: the oldest store is written and leaves the queue.
writeStore ==
  /\ phase = "execute"
  /\ \E x \in canWB :
       /\ \A y \in storeQueue : x <= y
       /\ storeQueue' = storeQueue \ {x} /\ canWB' = canWB \ {x}
  /\ UNCHANGED <<earlierStages, phase, flagVars, toCommit, toROB, blockRename, iewBuffer, issueVars,
                 loadQueue>>

\* commitStores acts on doneMemSeqNum unless a squash is under way.
StoresReleased ==
  IF fromCommit.squash \/ fromCommit.robSquashing THEN {}
  ELSE {x \in storeQueue : x <= fromCommit.doneMemSeqNum}

\* The end of IEW::tick: what commit announced in the previous cycle.
iewEnd ==
  /\ phase = "execute"
  /\ phase' = "rename"
  /\ canWB' = canWB \cup StoresReleased
  /\ loadQueue' = IF fromCommit.squash \/ fromCommit.robSquashing THEN loadQueue
                  ELSE {l \in loadQueue : l > fromCommit.doneSeqNum}
  /\ nonSpecInsts' = nonSpecInsts \ {fromCommit.nonSpecSeqNum}
  /\ iq' = iq \cup (nonSpecInsts \cap {fromCommit.nonSpecSeqNum})
  /\ UNCHANGED <<earlierStages, flagVars, toCommit, toROB, blockRename, iewBuffer,
                 serializeOnNextInst, storeQueue>>

-----------------------------------------------------------------------------
(* Rename::tick, and the end of CPU::tick *)

\* Rename sends a group unless it is blocked; a squash it sees this cycle has
\* just emptied its buffer.  What it sends in the cycle in which commit decides
\* on a squash is already dead.
renameSend ==
  /\ phase = "rename" /\ toROB = <<>>
  /\ ~blockRename /\ ~fromCommit.squash
  /\ drain = "imminent" => commitStatus = "SquashAfterPending"
  /\ \E n \in 1..RenameWidth : \E new \in [1..n -> Kinds] :
       /\ Len(kind) + n <= MaxSeq
       /\ kind' = kind \o new
       /\ toROB' = [k \in 1..n |-> Len(kind) + k]
       /\ dead' = IF toIEW.squash THEN dead \cup {Len(kind) + k : k \in 1..n} ELSE dead
  /\ UNCHANGED <<robVars, phase, commitVars, toIEW, blockIEW, readWires, canCommit, executed,
                 faulted, squashed, serializeBefore, toCommit, blockRename, iewVars>>

\* The instructions some structure or wire still refers to.  A DynInst is
\* reference counted: the others are freed, and their flags with them.
Held == InROB \cup Members(commitBuffer) \cup Members(iewBuffer) \cup Members(toROB)
          \cup toCommit.insts \cup iq \cup nonSpecInsts \cup loadQueue \cup storeQueue
          \cup {squashAfterInst}

advance ==
  /\ phase = "rename"
  /\ phase' = "walk"
  /\ fromCommit' = toIEW /\ toIEW' = NoComm
  /\ fromIEW' = toCommit /\ toCommit' = NoIEWInfo
  /\ fromRename' = toROB /\ toROB' = <<>>
  /\ insertedNow' = FALSE
  /\ kind' = [i \in DOMAIN kind |-> IF i \in Held THEN kind[i] ELSE "freed"]
  /\ canCommit' = canCommit \cap Held /\ executed' = executed \cap Held
  /\ faulted' = faulted \cap Held /\ squashed' = squashed \cap Held
  /\ serializeBefore' = serializeBefore \cap Held
  /\ dead' = {i \in dead : i \in Held \/ i > lastCommitedSeqNum}
  /\ UNCHANGED <<instList, threadGroups, walkVars, commitVars, blockIEW, blockRename, iewVars>>

-----------------------------------------------------------------------------
Events == TrapEvent \/ TCEvent \/ DrainRequest \/ DrainResume \/ Snoop

CommitTick == \/ robWalk \/ commitSquash \/ iewSquash \/ moveInstsToBuffer \/ insertBuffered
              \/ startCommit \/ commitNonSpec \/ commitFault \/ commitHead \/ endCommit
              \/ markCompletedInsts

IEWTick == \/ iewReceive \/ startDispatch \/ dispatchStall \/ dispatchInst
           \/ executeInst \/ executeFault \/ executeMispredict \/ executeViolation
           \/ writeStore \/ iewEnd

RenameTick == renameSend \/ advance

Next == Events \/ CommitTick \/ IEWTick \/ RenameTick

Spec == Init /\ [][Next]_vars

\* CPU::tick runs every cycle and ends.  Memory answers: while instructions can
\* issue, one finishes in the end, and a store that may write memory does.  A
\* full queue drains, and a scheduled trap event fires.
Complete == executeInst \/ executeFault \/ executeMispredict \/ executeViolation

FairSpec ==
  /\ Spec
  /\ WF_vars(CommitTick \/ IEWTick \/ RenameTick)
  /\ SF_vars(TrapEvent)
  /\ SF_vars(startDispatch /\ phase' = "dispatch") /\ SF_vars(dispatchInst)
  /\ SF_vars(Complete) /\ SF_vars(writeStore)

-----------------------------------------------------------------------------
(* Properties *)

\* Every variable keeps the type its declaration gives it.
TypeOK ==
  /\ instList \in Seq(SeqNums) /\ threadGroups \in Seq(1..InstsPerGroup)
  /\ squashIt \in 0..Len(instList) /\ squashedSeqNum \in 0..MaxSeq
  /\ kind \in Seq(Kinds \cup {"freed"}) /\ Len(kind) <= MaxSeq
  /\ commitStatus \in {"Running", "ROBSquashing", "TrapPending", "SquashAfterPending"}
  /\ {canCommit, executed, faulted, squashed, serializeBefore, iq, nonSpecInsts, loadQueue,
      storeQueue, canWB, dead} \subseteq SUBSET SeqNums
  /\ {commitBuffer, iewBuffer, fromRename, toROB} \subseteq Seq(SeqNums)

\* The group sizes add up to the instructions of the list, whatever partial
\* retirements and partial walks have done to the first and the last group, and
\* the buffer never holds more groups than it has entries (the asserts of
\* insertInst and Commit::moveInstsToBuffer).
GroupsExact ==
  /\ countInstsOfGroups(Len(threadGroups)) = Len(instList)
  /\ Len(threadGroups) <= RobEntries
  /\ ~doneSquashing => squashIt = Len(instList)

\* A squash is recorded exactly: an instruction of the ROB is dead if and only
\* if a walk that is still going on will erase it.  No instruction of a wrong
\* path slips in behind a squash, none is forgotten by a walk that a second,
\* older squash restarts, and no walk takes a correct instruction.
WalkErasesTheDead ==
  \A i \in InROB : i \in dead <=> ~doneSquashing /\ i > squashedSeqNum

\* The instruction commitInsts is about to retire has not been squashed: the
\* assert of ROB::retireHead.
RetiresOnlyLive == MayCommit => HeadInst \notin squashed \cup dead

\* A group arrives from rename only when the stage has room for it: the asserts
\* "fixedbuffer[tid].empty()" of Commit and IEW.  Nothing but the same-cycle
\* stall signals keeps rename from sending.
BuffersEmptyOnArrival ==
  /\ phase = "move" /\ fromRename # <<>> => commitBuffer = <<>>
  /\ phase = "iew" /\ fromRename # <<>> => iewBuffer = <<>>

\* An instruction IEW reports complete is in the ROB or has been squashed: the
\* panic of markCompletedInsts.
CompletedIsInROB == phase = "mark" => fromIEW.insts \ squashed \subseteq InROB

\* The instruction IEW dispatches has not been squashed: commit marks what is on
\* the wire from rename in the cycle in which it also blocks IEW, and IEW empties
\* its buffer in the next one.
DispatchesOnlyLive == phase = "dispatch" => DispatchHead \notin squashed

\* The non-speculative instruction commit asks for is still waiting in IEW: the
\* assert of InstructionQueue::scheduleNonSpec.
NonSpecIsWaiting ==
  phase = "execute" /\ fromCommit.nonSpecSeqNum # 0 =>
    fromCommit.nonSpecSeqNum \in nonSpecInsts

\* LSQUnit::squash keeps a store that may write memory because "Instructions
\* marked as can WB are already committed": such a store is never squashed.
ReleasedStoresSurvive == canWB \cap dead = {}

\* squashAfter() is called with no other squashAfter outstanding: its assert.
OneSquashAfter ==
  MayCommit /\ HeadInst \in executed \ faulted
            /\ (isSquashAfter(HeadInst) \/ drain = "pending")
    => squashAfterInst \in {0, HeadInst}

\* The ROB does not hang: whatever enters it retires or is squashed, although a
\* serializing instruction waits in IEW for the instructions of its own group to
\* retire and a faulting one waits for the stores before it to be written.
InstsLeaveROB == \A i \in SeqNums : i \in InROB ~> i \notin InROB

\* The back end implements the program-order window: instructions retire in
\* order, none is skipped, none that a squash removed retires.
Order == INSTANCE ProgramOrder WITH
           live <- {i \in Renamed \ dead : i > lastCommitedSeqNum},
           last <- lastCommitedSeqNum
ImplementsProgramOrder == Order!OrderSpec
=============================================================================
