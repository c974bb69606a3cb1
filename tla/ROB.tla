-------------------------------- MODULE ROB --------------------------------
(***************************************************************************)
(* The reorder buffer of one hardware thread.  Instructions are named by   *)
(* their sequence numbers; the list keeps them in program order, and       *)
(* threadGroups counts, oldest group first, how many consecutive           *)
(* instructions share one ROB entry ("ROB compression").  A squash is not  *)
(* atomic: squash() records where to stop and doSquash(), called once a    *)
(* cycle, erases at most dynSquashWidth instructions from the tail.        *)
(*                                                                         *)
(* The status bits of a dynamic instruction are sets of sequence numbers.  *)
(* The operators below are the buffer's methods; the commit stage (module  *)
(* Commit) says when they are called.                                      *)
(***************************************************************************)
EXTENDS Naturals, Sequences, FiniteSets

CONSTANTS
  MaxSeq,        \* bound: dynamic instructions of a behaviour
  Kinds,         \* the kinds of instruction the program may contain
  Policy,        \* params.RobCompressPolicy
  RobEntries,    \* params.numROBEntries: groups the buffer can hold
  InstsPerGroup, \* params.CROB_instPerGroup
  WalkPolicy,    \* params.robWalkPolicy
  SquashWidth    \* params.squashWidth: rollbackWidth and replayWidth

AllKinds == {"nop", "alu", "branch", "load", "store", "csr", "satp"}

ASSUME RobAssumption ==
  /\ MaxSeq \in Nat /\ Kinds \subseteq AllKinds
  /\ Policy \in {"none", "kmhv2", "MohBoE", "kmhv3"}
  /\ WalkPolicy \in {"Rollback", "Replay"}
  /\ RobEntries \in Nat \ {0} /\ InstsPerGroup \in Nat \ {0} /\ SquashWidth \in Nat \ {0}

VARIABLES
  instList,       \* ROB::instList, oldest first
  threadGroups,   \* ROB::threadGroups
  insertedNow,    \* ROB::lastInsertCycle is the current cycle
  squashIt,       \* ROB::squashIt, as a position of instList
  squashedSeqNum, \* ROB::squashedSeqNum
  dynSquashWidth, \* ROB::dynSquashWidth
  doneSquashing,  \* ROB::doneSquashing
  kind,           \* the kind of every instruction renamed so far
  canCommit,      \* DynInst::readyToCommit
  executed,       \* DynInst::isExecuted
  faulted,        \* DynInst::faulted
  squashed,       \* DynInst::isSquashed
  serializeBefore \* DynInst::isSerializeBefore

listVars == <<instList, threadGroups, insertedNow>>
walkVars == <<squashIt, squashedSeqNum, dynSquashWidth, doneSquashing>>
flagVars == <<kind, canCommit, executed, faulted, squashed, serializeBefore>>

SeqNums == 1..MaxSeq
InROB == {instList[p] : p \in DOMAIN instList}
Back(s) == s[Len(s)]

(***************************************************************************)
(* Instruction flags, from the RISC-V decoder.  "satp" is a CSR       *)
(* instruction that names satp, "csr" one that names another register.     *)
(***************************************************************************)
isMemRef(i) == kind[i] \in {"load", "store"}
isControl(i) == kind[i] = "branch"
isNonSpeculative(i) == kind[i] \in {"csr", "satp"}
isSerializeAfter(i) == kind[i] \in {"csr", "satp"}
isSquashAfter(i) == kind[i] = "satp"

-----------------------------------------------------------------------------
(* Groups *)

Exclusive(i) == isMemRef(i) \/ isControl(i) \/ isNonSpeculative(i)

\* allocateGroup_<policy>: does instruction i open a new group?  newFtq stands
\* for the comparison of its fetch target with that of its predecessor.
allocateNewGroup(i, newFtq) ==
  \/ Policy = "none"
  \/ threadGroups = <<>>
  \/ ~insertedNow
  \/ Back(threadGroups) >= InstsPerGroup
  \/ Policy = "kmhv2" /\ (Exclusive(i) \/ Exclusive(Back(instList)) \/ newFtq)
  \/ Policy = "MohBoE" /\ (isMemRef(i) \/ isNonSpeculative(i) \/ isControl(Back(instList)))

insertInst(i) ==
  /\ \E newFtq \in BOOLEAN :
       threadGroups' = IF allocateNewGroup(i, newFtq)
                       THEN Append(threadGroups, 1)
                       ELSE [threadGroups EXCEPT ![Len(threadGroups)] = @ + 1]
  /\ instList' = Append(instList, i)
  /\ insertedNow' = TRUE

\* The first w groups' sizes added up: the instructions commit may retire.
countInstsOfGroups(w) ==
  LET sum[g \in 0..Len(threadGroups)] == IF g = 0 THEN 0 ELSE sum[g - 1] + threadGroups[g]
  IN  sum[IF w < Len(threadGroups) THEN w ELSE Len(threadGroups)]

\* Mutant of commitGroup: an emptied entry is not freed.
EmptyGroupKept == [threadGroups EXCEPT ![1] = @ - 1]

\* Mutant of commitGroup: the first retirement frees the whole entry.
GroupFreedEarly == Tail(threadGroups)

commitGroup ==
  IF Head(threadGroups) = 1 THEN Tail(threadGroups)
                            ELSE [threadGroups EXCEPT ![1] = @ - 1]

\* squashGroup called for each of the n youngest instructions.
squashGroups(n) ==
  LET after[k \in 0..n] ==
        IF k = 0 THEN threadGroups
        ELSE LET g == after[k - 1]
             IN  IF Back(g) = 1 THEN SubSeq(g, 1, Len(g) - 1)
                                ELSE [g EXCEPT ![Len(g)] = @ - 1]
  IN  after[n]

retireHead ==
  /\ instList' = Tail(instList)
  /\ threadGroups' = commitGroup

-----------------------------------------------------------------------------
(* The head group *)

HeadGroup == IF threadGroups = <<>> THEN {} ELSE 1..threadGroups[1]

Blocking(i) == i \notin canCommit

\* The instruction lets its group start to commit although later members of
\* the group may not be done.
CommitsDirectly(i) == isNonSpeculative(i) \/ i \notin executed \/ i \in faulted

\* Mutant of isHeadGroupReady: no exception for a serializing instruction.
AllOfGroupReady ==
  /\ HeadGroup # {}
  /\ \A p \in HeadGroup :
       \/ ~Blocking(instList[p])
       \/ \E q \in 1..(p - 1) : Blocking(instList[q]) \/ CommitsDirectly(instList[q])

\* isHeadGroupReady: the scan stops at the first member p that is not ready or
\* that commits directly.
isHeadGroupReady ==
  /\ HeadGroup # {}
  /\ \A p \in HeadGroup :
       /\ Blocking(instList[p])
       /\ \A q \in 1..(p - 1) : ~Blocking(instList[q]) /\ ~CommitsDirectly(instList[q])
       => p > 1 /\ instList[p] \in serializeBefore

\* Mutant of getHeadGroupLastDoneSeq: members that are not ready count as done.
LastOfHeadGroup == IF HeadGroup = {} THEN 0 ELSE instList[threadGroups[1]]

\* getHeadGroupLastDoneSeq: the last member before which, itself included,
\* every member is ready, executed and not faulted; 0 if there is none.
getHeadGroupLastDoneSeq ==
  LET done(p) == \A q \in 1..p : /\ instList[q] \in canCommit
                                 /\ instList[q] \in executed
                                 /\ instList[q] \notin faulted
      last == {p \in HeadGroup : done(p) /\ (p + 1 \in HeadGroup => ~done(p + 1))}
  IN  IF last = {} THEN 0 ELSE instList[CHOOSE p \in last : TRUE]

-----------------------------------------------------------------------------
(* Squashing *)

CeilDiv(a, b) == (a + b - 1) \div b
AtLeast(a, b) == IF a < b THEN b ELSE a

computeDynSquashWidth(kept, toSquash) ==
  IF WalkPolicy = "Rollback" THEN SquashWidth
  ELSE AtLeast(CeilDiv(toSquash * SquashWidth, AtLeast(kept, 2 * SquashWidth)), 1)

ToSquash(s) == Cardinality({i \in InROB : i > s})

\* Mutant of squash: a walk that is under way is not restarted.
SquashUnlessWalking(s) ==
  IF instList = <<>> \/ ~doneSquashing THEN UNCHANGED walkVars
  ELSE /\ doneSquashing' = FALSE
       /\ squashedSeqNum' = s
       /\ squashIt' = Len(instList)
       /\ dynSquashWidth' = computeDynSquashWidth(Len(instList) - ToSquash(s), ToSquash(s))

\* squash: nothing is erased this cycle.
squash(s) ==
  IF instList = <<>> THEN UNCHANGED walkVars
  ELSE /\ doneSquashing' = FALSE
       /\ squashedSeqNum' = s
       /\ squashIt' = Len(instList)
       /\ dynSquashWidth' = computeDynSquashWidth(Len(instList) - ToSquash(s), ToSquash(s))

\* How many instructions one call of doSquash erases, from squashIt down.
WalkLength ==
  LET run == {n \in 0..dynSquashWidth :
                 n <= squashIt /\ \A k \in 1..n : instList[squashIt + 1 - k] > squashedSeqNum}
  IN  CHOOSE n \in run : \A m \in run : m <= n

doSquash ==
  LET n == WalkLength
      kept == SubSeq(instList, 1, squashIt - n)
                \o SubSeq(instList, squashIt + 1, Len(instList))
      gone == {instList[p] : p \in (squashIt - n + 1)..squashIt}
      finished == n = squashIt \/ instList[squashIt - n] <= squashedSeqNum
  IN  /\ instList' = kept
      /\ threadGroups' = squashGroups(n)
      /\ squashed' = squashed \cup gone
      /\ canCommit' = canCommit \cup gone
      /\ doneSquashing' = finished
      /\ squashIt' = IF finished THEN 0 ELSE squashIt - n
      /\ UNCHANGED <<insertedNow, squashedSeqNum, dynSquashWidth,
                     kind, executed, faulted, serializeBefore>>

ROBInit ==
  /\ instList = <<>> /\ threadGroups = <<>> /\ insertedNow = FALSE
  /\ squashIt = 0 /\ squashedSeqNum = 0 /\ dynSquashWidth = 0 /\ doneSquashing = TRUE
  /\ kind = <<>>
  /\ canCommit = {} /\ executed = {} /\ faulted = {} /\ squashed = {} /\ serializeBefore = {}
=============================================================================
