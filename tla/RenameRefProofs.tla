-------------------------- MODULE RenameRefProofs --------------------------
(***************************************************************************)
(* Reference counts are exact and the free list holds exactly the unowned  *)
(* registers.  The inductive invariant adds the undo chain: to know that   *)
(* doSquash takes one owner from the register it frees, the youngest entry *)
(* of an architectural register has to be its current mapping.             *)
(***************************************************************************)
EXTENDS RenameProofs

RefInv == HistoryList /\ UndoChain /\ RefCountExact /\ FreeIffUnowned

IInv == TypeInv /\ RefInv

-----------------------------------------------------------------------------

LEMMA OwnersFinite ==
  ASSUME HistoryList, NEW p
  PROVE  /\ IsFiniteSet(MapOwners(p)) /\ Cardinality(MapOwners(p)) \in Nat
         /\ IsFiniteSet(HistoryOwners(p)) /\ Cardinality(HistoryOwners(p)) \in Nat
<1>1. MapOwners(p) \in SUBSET ArchRegs /\ HistoryOwners(p) \in SUBSET history
  BY DEF MapOwners, HistoryOwners
<1> QED
  BY <1>1, RegsAssumption, FS_Subset, FS_CardinalityType DEF HistoryList

LEMMA RemoveOne ==
  ASSUME NEW S, IsFiniteSet(S), NEW x \in S
  PROVE  Cardinality(S \ {x}) = Cardinality(S) - 1 /\ Cardinality(S) >= 1
<1>1. Cardinality(S) \in Nat /\ Cardinality(S \ {x}) \in Nat
  BY FS_CardinalityType, FS_RemoveElement
<1> QED
  BY <1>1, FS_RemoveElement

LEMMA AddOne ==
  ASSUME NEW S, IsFiniteSet(S), NEW x, x \notin S
  PROVE  Cardinality(S \cup {x}) = Cardinality(S) + 1
  BY FS_AddElement

\* tryFreePReg on a counted register takes one reference, and frees the
\* register with the last one.
LEMMA TakeReference ==
  ASSUME TypeOK, NEW q \in PhysRegs, numRef[q] >= 1
  PROVE  /\ tryFreePReg(q, numRef, freeList)[1] = [numRef EXCEPT ![q] = @ - 1]
         /\ tryFreePReg(q, numRef, freeList)[2] =
              IF numRef[q] = 1 THEN freeList \cup {q} ELSE freeList
<1>1. q # InvalidReg /\ numRef[q] # 0
  BY RegsAssumption DEF TypeOK
<1> QED
  BY <1>1 DEF tryFreePReg

\* Taking a reference from q keeps the free list the set of unowned registers.
LEMMA FreeAfterTake ==
  ASSUME TypeOK, FreeIffUnowned, NEW q \in PhysRegs, numRef[q] >= 1,
         numRef' = [numRef EXCEPT ![q] = @ - 1],
         freeList' = IF numRef[q] = 1 THEN freeList \cup {q} ELSE freeList
  PROVE  FreeIffUnowned'
  BY DEF TypeOK, FreeIffUnowned

LEMMA TryFreeInvalid ==
  ASSUME NEW refs, NEW free
  PROVE  /\ tryFreePReg(InvalidReg, refs, free)[1] = refs
         /\ tryFreePReg(InvalidReg, refs, free)[2] = free
  BY DEF tryFreePReg

LEMMA RefInit == Init => RefInv
<1> SUFFICES ASSUME Init PROVE RefInv
  OBVIOUS
<1>1. HistoryList /\ UndoChain
  BY FS_EmptySet DEF Init, HistoryList, UndoChain
<1>2. ASSUME NEW p \in PhysRegs
      PROVE  numRef[p] = Cardinality(MapOwners(p)) + Cardinality(HistoryOwners(p))
  <2>1. HistoryOwners(p) = {} /\ Cardinality(HistoryOwners(p)) = 0
    BY FS_EmptySet DEF Init, HistoryOwners
  <2>2. CASE p \in freeList
    <3>1. MapOwners(p) = {}
      BY <2>2 DEF Init, MapOwners
    <3> QED
      BY <2>1, <2>2, <3>1, FS_EmptySet DEF Init
  <2>3. CASE p \notin freeList
    <3>1. PICK a \in ArchRegs : renameMap[a].phy = p
      BY <2>3 DEF Init
    <3>2. MapOwners(p) = {a}
      BY <3>1 DEF Init, MapOwners
    <3>3. Cardinality(MapOwners(p)) = 1
      BY <3>2, FS_Singleton
    <3>4. numRef[p] = 1
      BY <2>3 DEF Init
    <3> QED
      BY <2>1, <3>3, <3>4
  <2> QED
    BY <2>2, <2>3
<1>3. FreeIffUnowned
  BY DEF Init, FreeIffUnowned
<1> QED
  BY <1>1, <1>2, <1>3 DEF RefInv, RefCountExact

\* Steps that leave the maps, the counts and the history alone.
LEMMA RefUnchanged ==
  RefInv /\ UNCHANGED <<renameMap, numRef, freeList, history, nextHid>> => RefInv'
  BY DEF RefInv, HistoryList, UndoChain, Adjacent, RefCountExact, MapOwners,
         HistoryOwners, FreeIffUnowned

\* Releasing the oldest entry takes away the owner it was.
LEMMA Ref_removeFromHistory == IInv /\ removeFromHistory => RefInv'
<1> SUFFICES ASSUME IInv, removeFromHistory PROVE RefInv'
  OBVIOUS
<1>1. PICK h \in history :
        /\ Oldest(h)
        /\ LET r == IF h.new.phy # h.prev.phy
                    THEN tryFreePReg(h.prev.phy, numRef, freeList)
                    ELSE <<numRef, freeList>>
           IN numRef' = r[1] /\ freeList' = r[2]
        /\ history' = history \ {h}
  BY DEF removeFromHistory
<1>2. renameMap' = renameMap /\ nextHid' = nextHid
  BY DEF removeFromHistory, mapVars, releaseVars, bufferVars
<1>t. /\ numRef \in [PhysRegs -> Nat] /\ HistoryList
      /\ h.prev.phy \in PhysRegs \cup {InvalidReg}
      /\ \A g \in history : g.hid \in Nat
  BY DEF IInv, RefInv, TypeInv, TypeOK, HistoryEntries, VirtRegs
<1>3. HistoryList'
  BY <1>1, <1>2, FS_RemoveElement DEF IInv, RefInv, HistoryList
<1>4. UndoChain'
  <2>1. ASSUME NEW g \in history', g.arch # Zero,
               \A k \in history' : k.arch = g.arch => k.hid <= g.hid
        PROVE  renameMap'[g.arch] = g.new
    <3>1. \A k \in history : k.arch = g.arch => k.hid <= g.hid
      BY <1>1, <2>1 DEF Oldest
    <3> QED
      BY <1>1, <1>2, <2>1, <3>1 DEF IInv, RefInv, UndoChain
  <2>2. ASSUME NEW g \in history', NEW k \in history', Adjacent(g, k)'
        PROVE  k.prev = g.new
    <3>1. Adjacent(g, k)
      BY <1>1, <2>2 DEF Oldest, Adjacent
    <3> QED
      BY <1>1, <2>2, <3>1 DEF IInv, RefInv, UndoChain
  <2> QED
    BY <2>1, <2>2 DEF UndoChain
<1>5. \A p : MapOwners(p)' = MapOwners(p)
  BY <1>2 DEF MapOwners
<1>6. CASE h.new.phy = h.prev.phy \/ h.prev.phy = InvalidReg
  <2>1. numRef' = numRef /\ freeList' = freeList
    BY <1>1, <1>6, TryFreeInvalid
  <2>2. \A p \in PhysRegs : HistoryOwners(p)' = HistoryOwners(p)
    BY <1>1, <1>6, RegsAssumption DEF HistoryOwners
  <2> QED
    BY <1>3, <1>4, <1>5, <2>1, <2>2
       DEF IInv, RefInv, RefCountExact, FreeIffUnowned
<1>7. CASE h.new.phy # h.prev.phy /\ h.prev.phy \in PhysRegs
  <2> DEFINE q == h.prev.phy
  <2>1. h \in HistoryOwners(q) /\ HistoryOwners(q)' = HistoryOwners(q) \ {h}
    BY <1>1, <1>7 DEF HistoryOwners
  <2>2. \A p \in PhysRegs : p # q => HistoryOwners(p)' = HistoryOwners(p)
    BY <1>1, <1>7 DEF HistoryOwners
  <2>3. /\ Cardinality(HistoryOwners(q)') = Cardinality(HistoryOwners(q)) - 1
        /\ Cardinality(HistoryOwners(q)) >= 1
        /\ Cardinality(HistoryOwners(q)) \in Nat /\ Cardinality(MapOwners(q)) \in Nat
    BY <1>t, <2>1, OwnersFinite, RemoveOne
  <2>4. numRef[q] = Cardinality(MapOwners(q)) + Cardinality(HistoryOwners(q))
    BY <1>7 DEF IInv, RefInv, RefCountExact
  <2>5. numRef[q] >= 1
    BY <2>3, <2>4
  <2>6. /\ numRef' = [numRef EXCEPT ![q] = @ - 1]
        /\ freeList' = IF numRef[q] = 1 THEN freeList \cup {q} ELSE freeList
    BY <1>1, <1>7, <2>5, TakeReference DEF IInv, TypeInv
  <2>7. RefCountExact'
    <3> SUFFICES ASSUME NEW p \in PhysRegs
                 PROVE  numRef'[p] = Cardinality(MapOwners(p)') + Cardinality(HistoryOwners(p)')
      BY DEF RefCountExact
    <3>1. CASE p = q
      BY <1>5, <1>7, <1>t, <2>3, <2>4, <2>6, <3>1
    <3>2. CASE p # q
      <4>1. numRef[p] = Cardinality(MapOwners(p)) + Cardinality(HistoryOwners(p))
        BY DEF IInv, RefInv, RefCountExact
      <4>2. numRef'[p] = numRef[p]
        BY <1>7, <1>t, <2>6, <3>2
      <4> QED
        BY <1>5, <2>2, <3>2, <4>1, <4>2
    <3> QED
      BY <3>1, <3>2
  <2>8. FreeIffUnowned'
    BY <1>7, <2>5, <2>6, FreeAfterTake DEF IInv, TypeInv, RefInv
  <2> QED
    BY <1>3, <1>4, <2>7, <2>8 DEF RefInv
<1> QED
  BY <1>6, <1>7, <1>t

\* Undoing the youngest entry returns its register's mapping to the previous
\* one: the history owner becomes a map owner, and the new register loses one.
LEMMA Ref_doSquash == IInv /\ doSquash => RefInv'
<1> SUFFICES ASSUME IInv, doSquash PROVE RefInv'
  OBVIOUS
<1>1. PICK h \in history :
        /\ Youngest(h)
        /\ IF h.new # h.prev
           THEN /\ renameMap' = [renameMap EXCEPT ![h.arch] = h.prev]
                /\ LET r == IF h.new.phy # h.prev.phy
                            THEN tryFreePReg(h.new.phy, numRef, freeList)
                            ELSE <<numRef, freeList>>
                   IN numRef' = r[1] /\ freeList' = r[2]
           ELSE UNCHANGED <<renameMap, numRef, freeList>>
        /\ history' = history \ {h}
  BY DEF doSquash, UndoneMap
<1>2. nextHid' = nextHid
  BY DEF doSquash
<1>t. /\ numRef \in [PhysRegs -> Nat] /\ HistoryList
      /\ h.new.phy \in PhysRegs \cup {InvalidReg}
      /\ \A g \in history : g.hid \in Nat /\ g.arch \in ArchRegs \cup {Zero}
      /\ renameMap \in [ArchRegs -> VirtRegs]
  BY DEF IInv, RefInv, TypeInv, TypeOK, HistoryEntries, VirtRegs
<1>3. HistoryList'
  BY <1>1, <1>2, FS_RemoveElement DEF IInv, RefInv, HistoryList
\* The entry is its register's current mapping; undone, the previous one is.
<1>m. h.arch # Zero => /\ h.arch \in ArchRegs /\ renameMap[h.arch] = h.new
                       /\ renameMap'[h.arch] = h.prev
  <2>1. h.arch # Zero => h.arch \in ArchRegs /\ renameMap[h.arch] = h.new
    BY <1>1, <1>t DEF Youngest, IInv, RefInv, UndoChain
  <2> QED
    BY <1>1, <1>t, <2>1
<1>z. h.arch = Zero => UNCHANGED <<renameMap, numRef, freeList>>
  BY <1>1, <1>t DEF HistoryList
<1>o. \A a \in ArchRegs : a # h.arch => renameMap'[a] = renameMap[a]
  BY <1>1, <1>t
<1>4. UndoChain'
  <2>1. ASSUME NEW g \in history', g.arch # Zero,
               \A k \in history' : k.arch = g.arch => k.hid <= g.hid
        PROVE  renameMap'[g.arch] = g.new
    <3>1. CASE g.arch # h.arch
      <4>1. \A k \in history : k.arch = g.arch => k.hid <= g.hid
        BY <1>1, <2>1, <3>1
      <4>2. renameMap[g.arch] = g.new
        BY <1>1, <2>1, <4>1 DEF IInv, RefInv, UndoChain
      <4> QED
        BY <1>1, <1>o, <1>t, <2>1, <3>1, <4>2
    <3>2. CASE g.arch = h.arch
      <4>1. g.hid # h.hid /\ g.hid <= h.hid
        BY <1>1, <1>t, <2>1 DEF HistoryList, Youngest
      <4>2. Adjacent(g, h)
        BY <1>1, <1>t, <2>1, <3>2, <4>1 DEF Adjacent
      <4>3. h.prev = g.new
        BY <1>1, <2>1, <4>2 DEF IInv, RefInv, UndoChain
      <4> QED
        BY <1>m, <2>1, <3>2, <4>3
    <3> QED
      BY <3>1, <3>2
  <2>2. ASSUME NEW g \in history', NEW k \in history', Adjacent(g, k)'
        PROVE  k.prev = g.new
    <3>1. Adjacent(g, k)
      BY <1>1, <2>2 DEF Youngest, Adjacent
    <3> QED
      BY <1>1, <2>2, <3>1 DEF IInv, RefInv, UndoChain
  <2> QED
    BY <2>1, <2>2 DEF UndoChain
<1>5. CASE h.arch = Zero
  <2>1. \A p \in PhysRegs : HistoryOwners(p)' = HistoryOwners(p)
    BY <1>1, <1>5, <1>t DEF HistoryList, HistoryOwners
  <2>2. \A p \in PhysRegs : MapOwners(p)' = MapOwners(p)
    BY <1>5, <1>z DEF MapOwners
  <2> QED
    BY <1>3, <1>4, <1>5, <1>z, <2>1, <2>2
       DEF IInv, RefInv, RefCountExact, FreeIffUnowned
<1>6. CASE h.arch # Zero /\ h.new.phy = h.prev.phy
  <2>1. \A p \in PhysRegs : HistoryOwners(p)' = HistoryOwners(p)
    BY <1>1, <1>6 DEF HistoryOwners
  <2>2. \A p \in PhysRegs : MapOwners(p)' = MapOwners(p)
    BY <1>6, <1>m, <1>o DEF MapOwners
  <2>3. numRef' = numRef /\ freeList' = freeList
    BY <1>1, <1>6
  <2> QED
    BY <1>3, <1>4, <2>1, <2>2, <2>3
       DEF IInv, RefInv, RefCountExact, FreeIffUnowned
<1>7. CASE h.arch # Zero /\ h.new.phy # h.prev.phy
  <2> DEFINE n == h.new.phy
             q == h.prev.phy
             a == h.arch
  <2>0. n # q /\ a \in ArchRegs /\ renameMap[a].phy = n /\ renameMap'[a].phy = q
    BY <1>7, <1>m
  <2>1. /\ MapOwners(n)' = MapOwners(n) \ {a} /\ a \in MapOwners(n)
        /\ MapOwners(q)' = MapOwners(q) \cup {a} /\ a \notin MapOwners(q)
        /\ \A p \in PhysRegs : p # n /\ p # q => MapOwners(p)' = MapOwners(p)
    BY <1>o, <2>0 DEF MapOwners
  <2>2. /\ HistoryOwners(q)' = HistoryOwners(q) \ {h} /\ h \in HistoryOwners(q)
        /\ \A p \in PhysRegs : p # q => HistoryOwners(p)' = HistoryOwners(p)
    BY <1>1, <2>0 DEF HistoryOwners
  <2>3. /\ Cardinality(MapOwners(n)') = Cardinality(MapOwners(n)) - 1
        /\ Cardinality(MapOwners(n)) >= 1
        /\ Cardinality(MapOwners(n)) \in Nat /\ Cardinality(HistoryOwners(n)) \in Nat
    BY <1>t, <2>1, OwnersFinite, RemoveOne
  <2>4. /\ Cardinality(MapOwners(q)') = Cardinality(MapOwners(q)) + 1
        /\ Cardinality(HistoryOwners(q)') = Cardinality(HistoryOwners(q)) - 1
        /\ Cardinality(MapOwners(q)) \in Nat /\ Cardinality(HistoryOwners(q)) \in Nat
    BY <1>t, <2>1, <2>2, OwnersFinite, RemoveOne, AddOne
  <2>r. \A p \in PhysRegs :
          numRef[p] = Cardinality(MapOwners(p)) + Cardinality(HistoryOwners(p))
    BY DEF IInv, RefInv, RefCountExact
  <2>5. n \in PhysRegs => numRef[n] >= 1
    BY <2>3, <2>r
  <2>6. n \in PhysRegs =>
          /\ numRef' = [numRef EXCEPT ![n] = @ - 1]
          /\ freeList' = IF numRef[n] = 1 THEN freeList \cup {n} ELSE freeList
    BY <1>1, <1>7, <2>5, TakeReference DEF IInv, TypeInv
  <2>7. n \notin PhysRegs => numRef' = numRef /\ freeList' = freeList
    BY <1>1, <1>7, <1>t, TryFreeInvalid
  <2>8. RefCountExact'
    <3> HIDE DEF n, q, a
    <3> SUFFICES ASSUME NEW p \in PhysRegs
                 PROVE  numRef'[p] = Cardinality(MapOwners(p)') + Cardinality(HistoryOwners(p)')
      BY DEF RefCountExact
    <3>1. CASE p = n
      <4>1. numRef'[p] = numRef[p] - 1
        BY <1>t, <2>6, <3>1
      <4> QED
        BY <2>0, <2>2, <2>3, <2>r, <3>1, <4>1
    <3>2. CASE p # n
      <4>1. numRef'[p] = numRef[p]
        BY <1>t, <2>6, <2>7, <3>2
      <4>2. CASE p = q
        BY <2>4, <2>r, <4>1, <4>2
      <4>3. CASE p # q
        BY <2>1, <2>2, <2>r, <3>2, <4>1, <4>3
      <4> QED
        BY <4>2, <4>3
    <3> QED
      BY <3>1, <3>2
  <2>9. FreeIffUnowned'
    <3> HIDE DEF n
    <3>1. CASE n \in PhysRegs
      BY <2>5, <2>6, <3>1, FreeAfterTake DEF IInv, TypeInv, RefInv
    <3>2. CASE n \notin PhysRegs
      BY <2>7, <3>2 DEF IInv, RefInv, FreeIffUnowned
    <3> QED
      BY <3>1, <3>2
  <2> QED
    BY <1>3, <1>4, <2>8, <2>9 DEF RefInv
<1> QED
  BY <1>5, <1>6, <1>7

\* The history after a push: one more entry, younger than all the others.
LEMMA PushList ==
  ASSUME IInv, renameDestRegs, NEW v \in VirtRegs, PushHistory(v),
         CurDest = Zero => v = InvalidVirt
  PROVE  HistoryList'
<1> DEFINE h == [hid |-> nextHid, sn |-> CurInst.sn, arch |-> CurDest,
                 new |-> v, prev |-> lookup(renameMap, CurDest)]
<1>1. history' = history \cup {h} /\ nextHid' = nextHid + 1
  BY DEF PushHistory, renameDestRegs
<1>2. nextHid \in Nat /\ \A g \in history : g.hid \in Nat /\ g.hid < nextHid
  BY DEF IInv, RefInv, HistoryList, TypeInv, TypeOK, HistoryEntries
<1>3. CurDest = Zero => h.new = InvalidVirt /\ h.prev = InvalidVirt
  BY DEF lookup
<1>4. IsFiniteSet(history')
  BY <1>1, FS_AddElement DEF IInv, RefInv, HistoryList
<1> QED
  BY <1>1, <1>2, <1>3, <1>4 DEF IInv, RefInv, HistoryList

\* A push extends the undo chain when it becomes its register's mapping.
LEMMA PushChain ==
  ASSUME IInv, renameDestRegs, NEW v \in VirtRegs, PushHistory(v),
         CurDest \in ArchRegs \cup {Zero},
         CurDest = Zero => v = InvalidVirt /\ renameMap' = renameMap,
         CurDest # Zero => renameMap' = [renameMap EXCEPT ![CurDest] = v]
  PROVE  UndoChain'
<1> DEFINE h == [hid |-> nextHid, sn |-> CurInst.sn, arch |-> CurDest,
                 new |-> v, prev |-> lookup(renameMap, CurDest)]
<1>1. history' = history \cup {h}
  BY DEF PushHistory
<1>2. /\ nextHid \in Nat /\ \A g \in history : g.hid \in Nat /\ g.hid < nextHid
      /\ renameMap \in [ArchRegs -> VirtRegs]
      /\ \A g \in history : g.arch \in ArchRegs \cup {Zero}
      /\ \A g \in history : g.arch = Zero => g.new = InvalidVirt
  BY DEF IInv, RefInv, HistoryList, TypeInv, TypeOK, HistoryEntries
<1>h. h.hid = nextHid /\ h.arch = CurDest /\ h.new = v /\ h.prev = lookup(renameMap, CurDest)
  OBVIOUS
<1> HIDE DEF h
<1>3. ASSUME NEW g \in history', g.arch # Zero,
             \A k \in history' : k.arch = g.arch => k.hid <= g.hid
      PROVE  renameMap'[g.arch] = g.new
  <2>1. CASE g = h
    BY <1>2, <1>3, <1>h, <2>1
  <2>2. CASE g # h
    <3>1. g \in history /\ g.arch # CurDest
      BY <1>1, <1>2, <1>3, <1>h, <2>2
    <3>2. renameMap[g.arch] = g.new
      BY <1>1, <1>3, <3>1 DEF IInv, RefInv, UndoChain
    <3> QED
      BY <1>2, <1>3, <3>1, <3>2
  <2> QED
    BY <2>1, <2>2
<1>4. ASSUME NEW g \in history', NEW k \in history', Adjacent(g, k)'
      PROVE  k.prev = g.new
  <2>0. g.arch = k.arch /\ g.hid < k.hid
    BY <1>4 DEF Adjacent
  <2>1. g \in history
    BY <1>1, <1>2, <1>h, <2>0
  <2>2. CASE k = h
    <3>1. \A j \in history : j.arch = g.arch => j.hid <= g.hid
      BY <1>1, <1>2, <1>4, <1>h, <2>2 DEF Adjacent
    <3>2. CASE g.arch = Zero
      BY <1>2, <1>h, <2>0, <2>1, <2>2, <3>2 DEF lookup
    <3>3. CASE g.arch # Zero
      <4>1. renameMap[g.arch] = g.new
        BY <2>1, <3>1, <3>3 DEF IInv, RefInv, UndoChain
      <4> QED
        BY <1>h, <2>0, <2>2, <3>3, <4>1 DEF lookup
    <3> QED
      BY <3>2, <3>3
  <2>3. CASE k # h
    <3>1. k \in history /\ Adjacent(g, k)
      BY <1>1, <1>4, <2>3 DEF Adjacent
    <3> QED
      BY <2>1, <3>1 DEF IInv, RefInv, UndoChain
  <2> QED
    BY <2>2, <2>3
<1> QED
  BY <1>3, <1>4 DEF UndoChain

\* Owners after register d of the map moves from its register q to register n
\* and an entry with previous mapping q is pushed: q trades a map owner for a
\* history owner, n gains an owner.
LEMMA PushOwners ==
  ASSUME IInv, renameDestRegs, NEW v \in VirtRegs, PushHistory(v),
         CurDest \in ArchRegs,
         renameMap' = [renameMap EXCEPT ![CurDest] = v],
         v.phy # renameMap[CurDest].phy,
         NEW p \in PhysRegs
  PROVE  /\ Cardinality(MapOwners(p)) + Cardinality(HistoryOwners(p)) \in Nat
         /\ Cardinality(MapOwners(p)') + Cardinality(HistoryOwners(p)') =
              Cardinality(MapOwners(p)) + Cardinality(HistoryOwners(p))
                + (IF p = v.phy THEN 1 ELSE 0)
<1> DEFINE h == [hid |-> nextHid, sn |-> CurInst.sn, arch |-> CurDest,
                 new |-> v, prev |-> lookup(renameMap, CurDest)]
           q == renameMap[CurDest].phy
           d == CurDest
<1>1. history' = history \cup {h}
  BY DEF PushHistory
<1>2. /\ h \notin history /\ HistoryList
      /\ renameMap \in [ArchRegs -> VirtRegs]
  BY DEF IInv, RefInv, HistoryList, TypeInv, TypeOK, HistoryEntries
<1>3. h.prev.phy = q /\ h.new.phy = v.phy /\ q # v.phy
  BY RegsAssumption DEF lookup
<1>m. renameMap'[d] = v /\ \A a \in ArchRegs : a # d => renameMap'[a] = renameMap[a]
  BY <1>2
<1>f. /\ IsFiniteSet(MapOwners(p)) /\ Cardinality(MapOwners(p)) \in Nat
      /\ IsFiniteSet(HistoryOwners(p)) /\ Cardinality(HistoryOwners(p)) \in Nat
  BY <1>2, OwnersFinite
<1> HIDE DEF h
<1>4. CASE p = v.phy
  <2>1. MapOwners(p)' = MapOwners(p) \cup {d} /\ d \notin MapOwners(p)
    BY <1>3, <1>4, <1>m DEF MapOwners
  <2>2. HistoryOwners(p)' = HistoryOwners(p)
    BY <1>1, <1>3, <1>4 DEF HistoryOwners
  <2>3. Cardinality(MapOwners(p)') = Cardinality(MapOwners(p)) + 1
    BY <1>f, <2>1, AddOne
  <2> QED
    BY <1>4, <1>f, <2>2, <2>3
<1>5. CASE p = q
  <2>1. MapOwners(p)' = MapOwners(p) \ {d} /\ d \in MapOwners(p)
    BY <1>3, <1>5, <1>m DEF MapOwners
  <2>2. HistoryOwners(p)' = HistoryOwners(p) \cup {h} /\ h \notin HistoryOwners(p)
    BY <1>1, <1>2, <1>3, <1>5 DEF HistoryOwners
  <2>3. Cardinality(MapOwners(p)') = Cardinality(MapOwners(p)) - 1
    BY <1>f, <2>1, RemoveOne
  <2>4. Cardinality(HistoryOwners(p)') = Cardinality(HistoryOwners(p)) + 1
    BY <1>f, <2>2, AddOne
  <2> QED
    BY <1>3, <1>5, <1>f, <2>3, <2>4
<1>6. CASE p # v.phy /\ p # q
  <2>1. MapOwners(p)' = MapOwners(p)
    BY <1>6, <1>m DEF MapOwners
  <2>2. HistoryOwners(p)' = HistoryOwners(p)
    BY <1>1, <1>3, <1>6 DEF HistoryOwners
  <2> QED
    BY <1>6, <1>f, <2>1, <2>2
<1> QED
  BY <1>4, <1>5, <1>6

\* A push that leaves its register's physical register alone changes no owner.
LEMMA PushNoOwner ==
  ASSUME IInv, NEW v \in VirtRegs, PushHistory(v),
         v.phy = lookup(renameMap, CurDest).phy,
         \A a \in ArchRegs : renameMap'[a].phy = renameMap[a].phy,
         NEW p
  PROVE  MapOwners(p)' = MapOwners(p) /\ HistoryOwners(p)' = HistoryOwners(p)
  BY DEF PushHistory, MapOwners, HistoryOwners

\* Renaming a destination keeps the counts exact in all three cases.
LEMMA Ref_renameDestRegs == IInv /\ renameDestRegs => RefInv'
<1> SUFFICES ASSUME IInv, renameDestRegs PROVE RefInv'
  OBVIOUS
<1>0. CurInst.inst \in Insts /\ CurDest \in ArchRegs \cup {Zero}
  BY CurInstType DEF renameDestRegs, IInv
<1>t. /\ numRef \in [PhysRegs -> Nat] /\ freeList \subseteq PhysRegs
      /\ renameMap \in [ArchRegs -> VirtRegs]
  BY DEF IInv, TypeInv, TypeOK
<1>r. \A p \in PhysRegs :
        numRef[p] = Cardinality(MapOwners(p)) + Cardinality(HistoryOwners(p))
  BY DEF IInv, RefInv, RefCountExact
<1>1. CASE SkipZero
  <2>1. /\ PushHistory(InvalidVirt) /\ InvalidVirt \in VirtRegs /\ CurDest = Zero
        /\ renameMap' = renameMap /\ numRef' = numRef /\ freeList' = freeList
    BY <1>1 DEF SkipZero, InvalidVirt, VirtRegs
  <2>2. HistoryList' /\ UndoChain'
    BY <2>1, PushList, PushChain
  <2>3. \A p \in PhysRegs : MapOwners(p)' = MapOwners(p)
                            /\ HistoryOwners(p)' = HistoryOwners(p)
    BY <2>1, PushNoOwner DEF lookup
  <2> QED
    BY <2>1, <2>2, <2>3 DEF IInv, RefInv, RefCountExact, FreeIffUnowned
<1>2. CASE ShareReg
  <2> DEFINE v == BypassReg(CurInst.inst)
  <2>1. /\ PushHistory(v) /\ CurDest # Zero /\ CurDest \in ArchRegs
        /\ renameMap' = [renameMap EXCEPT ![CurDest] = v]
        /\ numRef' = IF v.phy = renameMap[CurDest].phy \/ v.phy = InvalidReg
                     THEN numRef ELSE [numRef EXCEPT ![v.phy] = @ + 1]
        /\ freeList' = freeList
    BY <1>0, <1>2 DEF ShareReg
  <2>2. v \in VirtRegs
    BY <1>0, BypassRegType DEF IInv, TypeInv
  <2>v. v.phy \in PhysRegs \cup {InvalidReg}
    BY <2>2 DEF VirtRegs
  <2>w. v.phy \in PhysRegs => numRef[v.phy] >= 1
    \* The source register maps to v.phy, so v.phy has an owner.
    <3>1. CurInst.inst.src \in ArchRegs \cup {Zero}
      BY <1>0, InstsAssumption
    <3>2. v.phy = lookup(renameMap, CurInst.inst.src).phy
      BY <3>1, LookupType DEF BypassReg, VirtRegs, IInv, TypeInv
    <3>3. ASSUME v.phy \in PhysRegs PROVE numRef[v.phy] >= 1
      <4>1. CurInst.inst.src \in MapOwners(v.phy)
        BY <3>1, <3>2, <3>3, RegsAssumption DEF MapOwners, lookup, InvalidVirt
      <4>2. /\ IsFiniteSet(MapOwners(v.phy)) /\ Cardinality(MapOwners(v.phy)) \in Nat
            /\ Cardinality(HistoryOwners(v.phy)) \in Nat
        BY OwnersFinite DEF IInv, RefInv
      <4>3. Cardinality(MapOwners(v.phy)) >= 1
        BY <4>1, <4>2, RemoveOne
      <4>4. numRef[v.phy] = Cardinality(MapOwners(v.phy)) + Cardinality(HistoryOwners(v.phy))
        BY <1>r, <3>3
      <4> QED
        BY <4>2, <4>3, <4>4
    <3> QED
      BY <3>3
  <2> HIDE DEF v
  <2>3. HistoryList' /\ UndoChain'
    BY <2>1, <2>2, PushList, PushChain
  <2>4. CASE v.phy = renameMap[CurDest].phy
    <3>1. \A p \in PhysRegs : MapOwners(p)' = MapOwners(p)
                              /\ HistoryOwners(p)' = HistoryOwners(p)
      BY <1>t, <2>1, <2>2, <2>4, PushNoOwner DEF lookup
    <3> QED
      BY <2>1, <2>3, <2>4, <3>1 DEF IInv, RefInv, RefCountExact, FreeIffUnowned
  <2>5. CASE v.phy # renameMap[CurDest].phy
    <3>1. \A p \in PhysRegs :
            /\ Cardinality(MapOwners(p)) + Cardinality(HistoryOwners(p)) \in Nat
            /\ Cardinality(MapOwners(p)') + Cardinality(HistoryOwners(p)') =
                 Cardinality(MapOwners(p)) + Cardinality(HistoryOwners(p))
                   + (IF p = v.phy THEN 1 ELSE 0)
      BY <2>1, <2>2, <2>5, PushOwners
    <3>2. \A p \in PhysRegs : numRef'[p] = numRef[p] + (IF p = v.phy THEN 1 ELSE 0)
      BY <1>t, <2>1, <2>5, <2>v, RegsAssumption
    <3>3. RefCountExact'
      BY <1>r, <3>1, <3>2 DEF RefCountExact
    <3>4. FreeIffUnowned'
      BY <1>t, <2>1, <2>w, <3>2 DEF IInv, RefInv, FreeIffUnowned
    <3> QED
      BY <2>3, <3>3, <3>4 DEF RefInv
  <2> QED
    BY <2>4, <2>5
<1>3. CASE AllocateReg
  <2>1. PICK n \in freeList :
          /\ freeList' = freeList \ {n}
          /\ numRef' = [numRef EXCEPT ![n] = @ + 1]
          /\ renameMap' = [renameMap EXCEPT ![CurDest] = [phy |-> n, imm |-> 0]]
          /\ PushHistory([phy |-> n, imm |-> 0])
    BY <1>3 DEF AllocateReg
  <2> DEFINE v == [phy |-> n, imm |-> 0]
  <2>2. /\ v \in VirtRegs /\ v.phy = n /\ n \in PhysRegs
        /\ CurDest # Zero /\ CurDest \in ArchRegs
    BY <1>0, <1>3, <1>t, <2>1 DEF VirtRegs, AllocateReg
  <2>3. numRef[n] = 0
    BY <2>1, <2>2 DEF IInv, RefInv, FreeIffUnowned
  <2>4. renameMap[CurDest].phy # n
    <3>1. ASSUME renameMap[CurDest].phy = n PROVE FALSE
      <4>1. CurDest \in MapOwners(n)
        BY <2>2, <3>1 DEF MapOwners
      <4>2. /\ IsFiniteSet(MapOwners(n)) /\ Cardinality(MapOwners(n)) \in Nat
            /\ Cardinality(HistoryOwners(n)) \in Nat
        BY OwnersFinite DEF IInv, RefInv
      <4>3. Cardinality(MapOwners(n)) >= 1
        BY <4>1, <4>2, RemoveOne
      <4> QED
        BY <1>r, <2>2, <2>3, <4>2, <4>3
    <3> QED
      BY <3>1
  <2>5. PushHistory(v) /\ renameMap' = [renameMap EXCEPT ![CurDest] = v]
    BY <2>1
  <2> HIDE DEF v
  <2>6. HistoryList' /\ UndoChain'
    BY <2>2, <2>5, PushList, PushChain
  <2>7. \A p \in PhysRegs :
          /\ Cardinality(MapOwners(p)) + Cardinality(HistoryOwners(p)) \in Nat
          /\ Cardinality(MapOwners(p)') + Cardinality(HistoryOwners(p)') =
               Cardinality(MapOwners(p)) + Cardinality(HistoryOwners(p))
                 + (IF p = v.phy THEN 1 ELSE 0)
    BY <2>2, <2>4, <2>5, PushOwners
  <2>8. \A p \in PhysRegs : numRef'[p] = numRef[p] + (IF p = v.phy THEN 1 ELSE 0)
    BY <1>t, <2>1, <2>2
  <2>9. RefCountExact'
    BY <1>r, <2>7, <2>8 DEF RefCountExact
  <2>10. FreeIffUnowned'
    BY <1>t, <2>1, <2>2, <2>8 DEF IInv, RefInv, FreeIffUnowned
  <2> QED
    BY <2>6, <2>9, <2>10 DEF RefInv
<1> QED
  BY <1>1, <1>2, <1>3 DEF renameDestRegs

LEMMA RefStep == IInv /\ [Next]_vars => RefInv'
<1> SUFFICES ASSUME IInv, [Next]_vars PROVE RefInv'
  OBVIOUS
<1> USE DEF mapVars
<1>1. CASE doSquash \/ removeFromHistory \/ renameDestRegs
  BY <1>1, Ref_doSquash, Ref_removeFromHistory, Ref_renameDestRegs
<1>2. CASE RobDoneSquashing \/ CommitHead \/ CommitSquash \/ CommitDone
  BY <1>2, RefUnchanged
     DEF RobDoneSquashing, CommitHead, CommitSquash, CommitDone, IInv
<1>3. CASE moveInstsToBuffer \/ checkSquashDone \/ releaseDone \/ startRename
  BY <1>3, RefUnchanged
     DEF moveInstsToBuffer, checkSquashDone, releaseDone, startRename, IInv
<1>4. CASE renameSrcRegs \/ renameInstDone \/ advance
  BY <1>4, RefUnchanged DEF renameSrcRegs, renameInstDone, advance, IInv
<1>5. CASE UNCHANGED vars
  BY <1>5, RefUnchanged DEF vars, IInv
<1> QED
  BY <1>1, <1>2, <1>3, <1>4, <1>5 DEF Next, Commit, RenameTick

-----------------------------------------------------------------------------
(* The theorems.                                                           *)

\* The rename stage is type correct in every reachable state, whatever the
\* number of registers and the widths.
THEOREM TypeCorrect == Spec => []TypeOK
<1>1. TypeInv => TypeOK
  BY DEF TypeInv
<1> QED
  BY <1>1, TypeInit, TypeStep, PTL DEF Spec

LEMMA Inductive == Spec => []IInv
<1>1. Init => IInv
  BY TypeInit, RefInit DEF IInv
<1>2. IInv /\ [Next]_vars => IInv'
  BY TypeStep, RefStep DEF IInv
<1> QED
  BY <1>1, <1>2, PTL DEF Spec

\* PhysRegId::numRef is exact: renameDestRegs, doSquash and removeFromHistory
\* keep it equal to the number of owners of the register.
THEOREM CountsAreExact == Spec => []RefCountExact
<1>1. IInv => RefCountExact
  BY DEF IInv, RefInv
<1> QED
  BY <1>1, Inductive, PTL

\* No register leaks, none is freed twice, and none is freed while a mapping
\* or an unreleased history entry still names it.
THEOREM FreeListIsExact == Spec => []FreeIffUnowned
<1>1. IInv => FreeIffUnowned
  BY DEF IInv, RefInv
<1> QED
  BY <1>1, Inductive, PTL

\* The history buffer can always be undone newest first.
THEOREM HistoryUndoes == Spec => []UndoChain
<1>1. IInv => UndoChain
  BY DEF IInv, RefInv
<1> QED
  BY <1>1, Inductive, PTL

=============================================================================
