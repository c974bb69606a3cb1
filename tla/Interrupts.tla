----------------------------- MODULE Interrupts -----------------------------
(***************************************************************************)
(* How a full-system O3 core stops for an interrupt: commit sees that one  *)
(* is posted and tells fetch, fetch stops asking for cache lines, the core *)
(* empties, and commit enters the handler.  Instructions are counted, not  *)
(* named: those of CPU::instList before the reorder buffer and those in    *)
(* it.  One cycle is commit, then fetch, then the advance of the wire from *)
(* commit to fetch.                                                        *)
(***************************************************************************)
EXTENDS Naturals

CONSTANTS
  MaxFront,   \* bound: instructions fetched and not yet in the ROB
  MaxROB,     \* bound: instructions in the ROB
  CommitWidth \* params.commitWidth, in groups of one instruction

VARIABLES
  phase,            \* the stage that runs next
  line,             \* the interrupt line: "low", "posted" or "served"
  interrupt,        \* Commit::interrupt # NoFault
  trapInFlight,     \* Commit::trapInFlight
  toFetch,          \* CommitComm, as commit writes it this cycle
  fromCommit,       \* CommitComm, as fetch reads it
  interruptPending, \* Fetch::interruptPending
  front,            \* instructions of CPU::instList that are not in the ROB
  rob               \* instructions in the ROB

vars == <<phase, line, interrupt, trapInFlight, toFetch, fromCommit, interruptPending, front, rob>>

NoSignal == [interruptPending |-> FALSE, clearInterrupt |-> FALSE]

Init ==
  /\ phase = "commit" /\ line = "low" /\ interrupt = FALSE /\ trapInFlight = FALSE
  /\ toFetch = NoSignal /\ fromCommit = NoSignal /\ interruptPending = FALSE
  /\ front = 0 /\ rob = 0

\* CPU::checkInterrupts.
checkInterrupts == line = "posted"

\* A device posts one interrupt and does not withdraw it.
Post ==
  /\ line = "low"
  /\ line' = "posted"
  /\ UNCHANGED <<phase, interrupt, trapInFlight, toFetch, fromCommit, interruptPending, front, rob>>

\* The trap handler has been entered and the trap's latency is over.
TrapEvent ==
  /\ phase = "commit" /\ trapInFlight
  /\ trapInFlight' = FALSE /\ line' = "served"
  /\ toFetch' = [toFetch EXCEPT !.clearInterrupt = TRUE]
  /\ UNCHANGED <<phase, interrupt, fromCommit, interruptPending, front, rob>>

propagateInterrupt == checkInterrupts /\ ~trapInFlight /\ ~interrupt

\* rob->countInstsOfGroups: how many instructions the loop may commit.
CommitLimit(inROB) == IF inROB < CommitWidth THEN inROB ELSE CommitWidth

\* handleInterrupt runs in some iteration of the loop of commitInsts, after
\* `done' instructions of that loop have retired, and finds nothing in flight.
handlesInterrupt(inFront, inROB, retired) ==
  /\ interrupt \/ propagateInterrupt
  /\ \E done \in 0..retired : done < CommitLimit(inROB) /\ inFront + inROB - done = 0

\* Commit::tick: `arrived' instructions enter the ROB and `retired' leave it.
commitTick(arrived, retired) ==
  /\ phase = "commit"
  /\ arrived <= front /\ rob + arrived <= MaxROB
  /\ retired <= CommitLimit(rob + arrived)
  /\ front' = front - arrived
  /\ rob' = rob + arrived - retired
  /\ toFetch' = [toFetch EXCEPT !.interruptPending = propagateInterrupt]
  /\ trapInFlight' = (trapInFlight \/ handlesInterrupt(front - arrived, rob + arrived, retired))
  /\ interrupt' = /\ interrupt \/ propagateInterrupt
                  /\ ~handlesInterrupt(front - arrived, rob + arrived, retired)
  /\ phase' = "fetch"
  /\ UNCHANGED <<line, fromCommit, interruptPending>>

\* Fetch::tick: new instructions unless an interrupt is pending; then
\* handleInterrupts; then CPU::tick advances the wire.
fetchTick(new) ==
  /\ phase = "fetch"
  /\ front + new <= MaxFront
  /\ interruptPending => new = 0
  /\ front' = front + new
  /\ interruptPending' = ((interruptPending \/ fromCommit.interruptPending)
                            /\ ~fromCommit.clearInterrupt)
  /\ fromCommit' = toFetch /\ toFetch' = NoSignal
  /\ phase' = "commit"
  /\ UNCHANGED <<line, interrupt, trapInFlight, rob>>

Commits == \E arrived \in 0..MaxFront, retired \in 0..MaxROB : commitTick(arrived, retired)
Arrives == \E arrived \in 1..MaxFront, retired \in 0..MaxROB : commitTick(arrived, retired)
Retires == \E arrived \in 0..MaxFront, retired \in 1..MaxROB : commitTick(arrived, retired)
Fetches == \E new \in 0..MaxFront : fetchTick(new)

Next == Post \/ TrapEvent \/ Commits \/ Fetches

\* The clock ticks, and an instruction in flight reaches the ROB and retires.
FairSpec ==
  /\ Init /\ [][Next]_vars
  /\ WF_vars(Commits) /\ WF_vars(Fetches)
  /\ SF_vars(Arrives) /\ SF_vars(Retires) /\ SF_vars(TrapEvent)

\* handleInterrupt "wait[s] until all in flight instructions are finished before
\* enterring the interrupt": an interrupt that stays posted is entered.
InterruptIsTaken == checkInterrupts ~> trapInFlight
=============================================================================
