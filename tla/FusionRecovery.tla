--------------------------- MODULE FusionRecovery ---------------------------
(***************************************************************************)
(* A fused instruction that faults is not trapped on: commit squashes it   *)
(* with a ReExec pseudo-fault and tells decode not to fuse at its PC, so   *)
(* that the instruction that really faults reaches commit on its own.      *)
(*                                                                         *)
(* A program is a loop of N instructions, known by their position; only    *)
(* the oldest instruction in flight is followed.  The fault handler makes  *)
(* the faulting access succeed.                                            *)
(***************************************************************************)
EXTENDS Naturals, FiniteSets

CONSTANTS
  N,             \* instructions of the loop
  FuseAt,        \* [1..N -> kind]: what the instruction is the first part of
  Loads,         \* the instructions that may fault
  KeepIgnore,    \* Decode::keepIgnoreFusionCycles
  InstsIn8Bytes, \* instructions in the 8 bytes that ignoreFusionPC covers
  MaxFetch       \* bound: instructions decode gets in one cycle

PCs == 1..N
Kinds == {"none", "pair", "triple", "ncsf"}
None == 0

ASSUME RecoveryAssumption ==
  /\ N \in Nat /\ KeepIgnore \in Nat /\ InstsIn8Bytes \in 2..4
  /\ FuseAt \in [PCs -> Kinds] /\ Loads \subseteq PCs
  /\ \A p \in PCs : FuseAt[p] # "none" => p + (IF FuseAt[p] = "pair" THEN 1 ELSE 2) \in PCs

VARIABLES
  pc,       \* the oldest instruction not committed
  absorbed, \* the tail of a non-consecutive pair that has committed, or None
  head,     \* the oldest instruction as decode made it: a kind, or "empty"
  faulting, \* the loads whose access faults now
  trap,     \* a trap event is scheduled (commitStatus = TrapPending)
  ignorePC, \* Decode::ignoreFusionPC, None when 0
  age,      \* cycles since lastSetIgnoreTick, capped at KeepIgnore + 1
  reexec    \* history: the fused instruction being re-executed, or None

vars == <<pc, absorbed, head, faulting, trap, ignorePC, age, reexec>>

Init ==
  /\ pc = 1 /\ absorbed = None /\ head = "empty"
  /\ faulting \in SUBSET Loads
  /\ trap = FALSE /\ ignorePC = None /\ age = KeepIgnore + 1 /\ reexec = None

-----------------------------------------------------------------------------
(* Decode *)

\* Mutants: decode runs on while a trap is pending (DecodeBlocked); the notice
\* expires before the instruction is decoded again (Ignored).
NeverBlocked == FALSE
IgnoredWhileFresh == ignorePC # None /\ pc = ignorePC /\ age <= KeepIgnore

\* A pending trap blocks IEW, and through the stall signals of the same cycle
\* rename and decode.
DecodeBlocked == trap

Ignored == ignorePC # None /\ pc \in ignorePC..ignorePC + InstsIn8Bytes - 1

\* What decode makes of the instruction at pc when n instructions arrive: the
\* triple is tried first, then the pair, then the non-consecutive pair, and
\* only the pair looks at ignoreFusionPC.
FusedAs(n) ==
  CASE FuseAt[pc] = "triple" /\ n >= 3 -> "triple"
    [] FuseAt[pc] = "pair" /\ n >= 2 /\ ~Ignored -> "pair"
    [] FuseAt[pc] = "ncsf" /\ n >= 3 -> "ncsf"
    [] OTHER -> "none"

\* While decode runs behind a trap it sees a younger iteration's copy.
decodeInsts(n) ==
  /\ ~DecodeBlocked /\ (head = "empty" \/ trap)
  /\ head' = IF trap THEN head ELSE FusedAs(n)
  /\ ignorePC' = IF n >= 2 /\ FusedAs(n) # "triple" /\ Ignored /\ age > KeepIgnore
                 THEN None ELSE ignorePC
  /\ UNCHANGED <<pc, absorbed, faulting, trap, age, reexec>>

-----------------------------------------------------------------------------
(* Commit *)

Parts ==
  CASE head = "pair" -> {pc, pc + 1}
    [] head = "triple" -> {pc, pc + 1, pc + 2}
    [] head = "ncsf" -> {pc, pc + 2}
    [] OTHER -> {pc}

AtHead == head # "empty" /\ ~trap

\* The next instruction after p, the loop's first one after its last.  A new
\* iteration may find its pages gone again.
MoveTo(p) ==
  IF p \in PCs THEN pc' = p /\ UNCHANGED faulting
  ELSE pc' = 1 /\ faulting' \in SUBSET Loads

commitInst ==
  /\ AtHead /\ Parts \cap faulting = {}
  /\ LET last == IF head \in {"pair", "triple"} THEN pc + Cardinality(Parts) - 1 ELSE pc
     IN  MoveTo(IF last + 1 = absorbed THEN last + 2 ELSE last + 1)
  /\ absorbed' = IF head = "ncsf" THEN pc + 2 ELSE IF pc + 1 = absorbed THEN None ELSE absorbed
  /\ head' = "empty"
  /\ reexec' = IF pc = reexec THEN None ELSE reexec
  /\ UNCHANGED <<trap, ignorePC, age>>

commitFusedFault ==
  /\ AtHead /\ Parts \cap faulting # {} /\ head # "none"
  /\ ignorePC' = pc /\ age' = 0
  /\ trap' = TRUE /\ reexec' = pc
  /\ UNCHANGED <<pc, absorbed, head, faulting>>

commitFault ==
  /\ AtHead /\ Parts \cap faulting # {} /\ head = "none"
  /\ faulting' = faulting \ {pc}
  /\ trap' = TRUE /\ reexec' = None
  /\ UNCHANGED <<pc, absorbed, head, ignorePC, age>>

\* The trap event squashes everything; fetch starts again at pc.
TrapEvent ==
  /\ trap
  /\ trap' = FALSE /\ head' = "empty" /\ absorbed' = None
  /\ UNCHANGED <<pc, faulting, ignorePC, age, reexec>>

\* Mutant of Tick: one cycle too many is counted.
TickOnce ==
  /\ age <= KeepIgnore + 1
  /\ age' = age + 1
  /\ UNCHANGED <<pc, absorbed, head, faulting, trap, ignorePC, reexec>>

Tick ==
  /\ age <= KeepIgnore
  /\ age' = age + 1
  /\ UNCHANGED <<pc, absorbed, head, faulting, trap, ignorePC, reexec>>

Decodes == \E n \in 1..MaxFetch : decodeInsts(n)
Commits == commitInst \/ commitFusedFault \/ commitFault

Next == Decodes \/ Commits \/ TrapEvent \/ Tick

Spec == Init /\ [][Next]_vars

\* Decode, commit and the scheduled trap each get their turn.
FairSpec == Spec /\ WF_vars(Decodes /\ ~trap) /\ WF_vars(Commits) /\ WF_vars(TrapEvent)

-----------------------------------------------------------------------------
(* Properties *)

TypeOK ==
  /\ pc \in PCs /\ absorbed \in 0..N /\ head \in Kinds \cup {"empty"}
  /\ faulting \subseteq Loads /\ trap \in BOOLEAN
  /\ ignorePC \in 0..N /\ age \in 0..KeepIgnore + 1 /\ reexec \in 0..N

\* A fused instruction that commit sent back for re-execution is not fused when
\* it reaches commit again.
NotFusedAgain == AtHead /\ pc = reexec => head = "none"

\* Whatever faults, the program goes on: every instruction that is the oldest
\* one commits eventually.
OldestCommits == \A p \in PCs : pc = p ~> pc # p
=============================================================================
