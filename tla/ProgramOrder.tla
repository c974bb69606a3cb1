---------------------------- MODULE ProgramOrder ----------------------------
(***************************************************************************)
(* What the reorder buffer and the commit stage promise: the instructions  *)
(* in flight form one window, they enter it in program order, only its     *)
(* oldest member retires, and a squash removes a suffix of it at once.     *)
(***************************************************************************)
EXTENDS Naturals

CONSTANT MaxSeq  \* bound: dynamic instructions of a behaviour

VARIABLES
  live, \* the sequence numbers in flight on the correct path
  last  \* the sequence number that retired last

orderVars == <<live, last>>

OrderInit == live = {} /\ last = 0

Enter == \E new \in SUBSET (1..MaxSeq) :
           /\ \A n \in new : n > last /\ \A l \in live : n > l
           /\ live' = live \cup new
           /\ last' = last

Retire == \E i \in live :
            /\ \A l \in live : i <= l
            /\ live' = live \ {i}
            /\ last' = i

SquashSuffix == \E s \in last..MaxSeq :
                  /\ live' = {l \in live : l <= s}
                  /\ last' = last

OrderNext == Enter \/ Retire \/ SquashSuffix

OrderSpec == OrderInit /\ [][OrderNext]_orderVars
=============================================================================
