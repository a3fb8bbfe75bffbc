--------------------------- MODULE KvPages_proofs ---------------------------
(***************************************************************************)
(* Proofs about the page allocator, for every pool, every number of        *)
(* holders and every refcount width.                                       *)
(***************************************************************************)
EXTENDS KvPages, FiniteSetTheorems, TLAPS

USE DEF OnFreeList, Writable, ShareSource

-----------------------------------------------------------------------------
(* Type correctness. *)

LEMMA CardinalityOfPages ==
    ASSUME NEW S \in SUBSET Pages
    PROVE  Cardinality(S) \in Nat
BY PagesAssumption, FS_Subset, FS_CardinalityType

LEMMA SharedCountType ==
    ASSUME TypeOK, NEW S \in SUBSET Pages, NEW m \in [Pages -> Nat], NEW n \in Int
    PROVE  DistinctUp(S) \in Int /\ DistinctDown(n, m, S) \in Int
<1>1. {p \in S : sharedMaps[p] = 0} \in SUBSET Pages /\ {p \in S : m[p] = 1} \in SUBSET Pages
  OBVIOUS
<1> QED BY <1>1, CardinalityOfPages DEF DistinctUp, DistinctDown, TypeOK

LEMMA CountTypes ==
    ASSUME TypeOK, NEW S \in SUBSET Pages, NEW rc \in [Pages -> 0 .. MaxRef], NEW m \in [Pages -> Nat]
    PROVE  /\ CountedUp(S) \in [Pages -> 0 .. MaxRef]
           /\ CountedDown(rc, S) \in [Pages -> 0 .. MaxRef]
           /\ ReachedZero(rc, S) \in SUBSET Pages
           /\ Underflows(rc, S) \in BOOLEAN
           /\ MapsUp(S) \in [Pages -> Nat]
           /\ MapsDown(m, S) \in [Pages -> Nat]
BY LimitsAssumption DEF TypeOK, CountedUp, Inc, CountedDown, ReachedZero, Underflows, MapsUp, MapsDown

LEMMA TypeStep == TypeOK /\ [Next]_vars => TypeOK'
<1> SUFFICES ASSUME TypeOK, [Next]_vars PROVE TypeOK'
  OBVIOUS
<1> USE DEF poolVars, tableVars, callVars
<1>1. ASSUME NEW h \in Holders, NEW S \in SUBSET Pages, HolderCreate(h, S) PROVE TypeOK'
  BY <1>1, LimitsAssumption DEF TypeOK, HolderCreate, Ops
<1>2. ASSUME NEW h \in Holders, NEW p \in Pages, HolderMapNext(h, p) PROVE TypeOK'
  BY <1>2 DEF TypeOK, HolderMapNext
<1>3. ASSUME NEW h \in Holders, NEW p \in Pages, WriteRow(h, p) PROVE TypeOK'
  BY <1>3 DEF TypeOK, WriteRow
<1>4. ASSUME NEW h \in Holders, NEW S \in SUBSET Pages, HolderMapMaterialized(h, S) PROVE TypeOK'
  BY <1>4 DEF TypeOK, HolderMapMaterialized
<1>5. ASSUME NEW h \in Holders, NEW S \in SUBSET Pages, HolderUnmapTail(h, S) PROVE TypeOK'
  BY <1>5 DEF TypeOK, HolderUnmapTail
<1>6. ASSUME NEW h \in Holders, NEW s \in Holders, NEW S \in SUBSET Pages, HolderShareLeading(h, s, S)
      PROVE TypeOK'
  <2>1. /\ CountedUp(S) \in [Pages -> 0 .. MaxRef] /\ MapsUp(S) \in [Pages -> Nat]
        /\ DistinctUp(S) \in Int
    BY CountTypes, SharedCountType DEF TypeOK
  <2> QED BY <1>6, <2>1 DEF TypeOK, HolderShareLeading
<1>7. ASSUME NEW h \in Holders, NEW s \in Holders, NEW S \in SUBSET Pages, HolderAdoptShare(h, s, S)
      PROVE TypeOK'
  <2>1. PoolPath(h) \in SUBSET Pages /\ shared[h] \in SUBSET Pages
    BY DEF TypeOK, PoolPath
  <2>2. /\ CountedUp(S) \in [Pages -> 0 .. MaxRef] /\ MapsUp(S) \in [Pages -> Nat]
        /\ DistinctUp(S) \in Int
    BY CountTypes, SharedCountType DEF TypeOK
  <2>3. /\ CountedDown(CountedUp(S), PoolPath(h)) \in [Pages -> 0 .. MaxRef]
        /\ ReachedZero(CountedUp(S), PoolPath(h)) \in SUBSET Pages
        /\ Underflows(CountedUp(S), PoolPath(h)) \in BOOLEAN
        /\ MapsDown(MapsUp(S), shared[h]) \in [Pages -> Nat]
        /\ DistinctDown(DistinctUp(S), MapsUp(S), shared[h]) \in Int
    BY <2>1, <2>2, CountTypes, SharedCountType
  <2> QED BY <1>7, <2>3 DEF TypeOK, HolderAdoptShare, Ops, Stages
<1>8. ASSUME NEW h \in Holders, HolderUnmapAll(h) PROVE TypeOK'
  <2>1. PoolPath(h) \in SUBSET Pages /\ shared[h] \in SUBSET Pages
    BY DEF TypeOK, PoolPath
  <2>2. /\ CountedDown(refcount, PoolPath(h)) \in [Pages -> 0 .. MaxRef]
        /\ ReachedZero(refcount, PoolPath(h)) \in SUBSET Pages
        /\ Underflows(refcount, PoolPath(h)) \in BOOLEAN
        /\ MapsDown(sharedMaps, shared[h]) \in [Pages -> Nat]
        /\ DistinctDown(sharedDistinct, sharedMaps, shared[h]) \in Int
    BY <2>1, CountTypes, SharedCountType DEF TypeOK
  <2> QED BY <1>8, <2>2 DEF TypeOK, HolderUnmapAll, Ops, Stages
<1>9. ASSUME NEW h \in Holders, HolderRelease(h) PROVE TypeOK'
  <2>1. Table(h) \in SUBSET Pages /\ shared[h] \in SUBSET Pages /\ reserve[h] \in SUBSET Pages
    BY DEF TypeOK, Table
  <2>2. /\ CountedDown(refcount, Table(h)) \in [Pages -> 0 .. MaxRef]
        /\ ReachedZero(refcount, Table(h)) \in SUBSET Pages
        /\ Underflows(refcount, Table(h)) \in BOOLEAN
        /\ MapsDown(sharedMaps, shared[h]) \in [Pages -> Nat]
        /\ DistinctDown(sharedDistinct, sharedMaps, shared[h]) \in Int
    BY <2>1, CountTypes, SharedCountType DEF TypeOK
  <2> DEFINE down == CountedDown(refcount, Table(h))
             freed == {p \in reserve[h] : down[p] > 0}
  <2>3. /\ refcount' = [p \in Pages |-> IF p \in freed THEN 0 ELSE down[p]]
        /\ toFree' = [toFree EXCEPT ![h] = ReachedZero(refcount, Table(h)) \cup freed]
        /\ underflow' = (underflow \/ Underflows(refcount, Table(h)) \/ freed # reserve[h])
    BY <1>9 DEF HolderRelease
  <2>4. down \in [Pages -> 0 .. MaxRef] /\ freed \in SUBSET Pages
    BY <2>1, <2>2
  <2> HIDE DEF down, freed
  <2>5. refcount' \in [Pages -> 0 .. MaxRef]
    BY <2>3, <2>4, LimitsAssumption
  <2>6. underflow' \in BOOLEAN
    BY <2>2, <2>3 DEF TypeOK
  <2> QED BY <1>9, <2>2, <2>3, <2>4, <2>5, <2>6 DEF TypeOK, HolderRelease, Ops, Stages
<1>10. ASSUME NEW h \in Holders, HolderReturnReserve(h) PROVE TypeOK'
  BY <1>10, LimitsAssumption DEF TypeOK, HolderReturnReserve, Ops, Stages
<1>11. ASSUME NEW h \in Holders, PoisonIfDirty(h) PROVE TypeOK'
  BY <1>11 DEF TypeOK, PoisonIfDirty, Stages
<1>12. ASSUME NEW h \in Holders, PushFree(h) PROVE TypeOK'
  BY <1>12 DEF TypeOK, PushFree, Stages
<1>13. ASSUME NEW h \in Holders, Finish(h) PROVE TypeOK'
  <2>1. /\ reserve' \in [Holders -> SUBSET Pages]
        /\ private' \in [Holders -> SUBSET Pages]
    <3>1. CASE op[h] \in {"unmap", "adopt"}
      BY <1>13, <3>1 DEF TypeOK, Finish
    <3>2. CASE op[h] \notin {"unmap", "adopt"}
      BY <1>13, <3>2 DEF TypeOK, Finish
    <3> QED BY <3>1, <3>2
  <2> QED BY <1>13, <2>1 DEF TypeOK, Finish, Ops, Stages
<1>14. CASE UNCHANGED vars
  BY <1>14 DEF TypeOK, vars
<1> QED BY <1>1, <1>2, <1>3, <1>4, <1>5, <1>6, <1>7, <1>8, <1>9, <1>10, <1>11, <1>12, <1>13, <1>14 DEF Next

LEMMA TypeInit == Init => TypeOK
<1> SUFFICES ASSUME Init PROVE TypeOK
  OBVIOUS
<1>1. /\ onFree \in [Pages -> Nat] /\ refcount \in [Pages -> 0 .. MaxRef]
      /\ sharedMaps \in [Pages -> Nat] /\ sharedDistinct \in Int
  BY LimitsAssumption DEF Init
<1>2. /\ op \in [Holders -> Ops] /\ stage \in [Holders -> Stages]
      /\ frozen \in [Holders -> BOOLEAN] /\ underflow \in BOOLEAN
  BY DEF Init, Ops, Stages
<1> QED BY <1>1, <1>2 DEF Init, TypeOK

\* The pool's arrays and every holder's fields keep their types and widths; in
\* particular no refcount leaves 0 .. MaxRef.
THEOREM TypeCorrect == Spec => []TypeOK
BY TypeInit, TypeStep, PTL DEF Spec

-----------------------------------------------------------------------------
(* The refcount law: how a step that changes one holder changes a page's      *)
(* owners, and why a count that follows its owners keeps the law.             *)

LEMMA OwnersFinite ==
    ASSUME NEW p \in Pages
    PROVE  /\ IsFiniteSet(Owners(p))
           /\ Cardinality(Owners(p)) \in Nat
           /\ Cardinality(Owners(p)) = 0 <=> Owners(p) = {}
           /\ \A h : Owners(p) = {h} => Cardinality(Owners(p)) = 1
           /\ \A h \in Owners(p) : Cardinality(Owners(p)) = 1 => Owners(p) = {h}
<1>1. Owners(p) \in SUBSET Holders
  BY DEF Owners
<1>2. IsFiniteSet(Owners(p))
  BY <1>1, HoldersAssumption, FS_Subset
<1>3. Cardinality(Owners(p)) = 1 <=> \E h : Owners(p) = {h}
  BY <1>2, FS_Singleton
<1> QED BY <1>2, <1>3, FS_CardinalityType, FS_EmptySet

\* A step that leaves every other holder's pages alone adds or removes one owner.
LEMMA OwnersOfStep ==
    ASSUME NEW h \in Holders, \A g \in Holders \ {h} : Held(g)' = Held(g)
    PROVE  \A p \in Pages :
              Owners(p)' = IF p \in Held(h)' THEN Owners(p) \cup {h} ELSE Owners(p) \ {h}
BY DEF Owners

\* The count of page p follows its owners when holder h gets or loses it.
Follows(h, p) ==
    \/ Owners(p)' = Owners(p) /\ refcount'[p] = refcount[p]
    \/ h \notin Owners(p) /\ Owners(p)' = Owners(p) \cup {h} /\ refcount'[p] = refcount[p] + 1
    \/ h \in Owners(p) /\ Owners(p)' = Owners(p) \ {h} /\ refcount'[p] = refcount[p] - 1

LEMMA LawFollows ==
    ASSUME RefcountLaw, NEW h, \A p \in Pages : Follows(h, p)
    PROVE  RefcountLaw'
<1> SUFFICES ASSUME NEW p \in Pages PROVE refcount'[p] = Cardinality(Owners(p)')
  BY DEF RefcountLaw
<1>1. refcount[p] = Cardinality(Owners(p)) /\ IsFiniteSet(Owners(p))
  BY OwnersFinite DEF RefcountLaw
<1>2. CASE Owners(p)' = Owners(p) /\ refcount'[p] = refcount[p]
  BY <1>1, <1>2
<1>3. CASE h \notin Owners(p) /\ Owners(p)' = Owners(p) \cup {h} /\ refcount'[p] = refcount[p] + 1
  BY <1>1, <1>3, FS_AddElement
<1>4. CASE h \in Owners(p) /\ Owners(p)' = Owners(p) \ {h} /\ refcount'[p] = refcount[p] - 1
  BY <1>1, <1>4, FS_RemoveElement
<1> QED BY <1>2, <1>3, <1>4 DEF Follows

\* Under the law a count reads as a statement about owners.
LEMMA CountMeaning ==
    ASSUME TypeOK, RefcountLaw, NEW p \in Pages
    PROVE  /\ refcount[p] \in 0 .. MaxRef
           /\ refcount[p] = 0 <=> Owners(p) = {}
           /\ \A h : Owners(p) = {h} => refcount[p] = 1
           /\ \A h \in Owners(p) : refcount[p] = 1 => Owners(p) = {h}
<1>1. refcount[p] \in 0 .. MaxRef
  BY DEF TypeOK
<1>2. refcount[p] = Cardinality(Owners(p))
  BY DEF RefcountLaw
<1> QED BY <1>1, <1>2, OwnersFinite

\* A page a holder has is not on the free list and not in flight.
LEMMA HeldIsNotFree ==
    ASSUME TypeOK, OnePlace, NEW h \in Holders, NEW p \in Held(h)
    PROVE  p \in Pages /\ onFree[p] = 0 /\ \A g \in Holders : p \notin toFree[g]
<1>1. p \in Pages /\ h \in Owners(p)
  BY DEF Owners, Held, Table, TypeOK
<1>2. onFree[p] # 1 /\ p \notin InFlight
  BY <1>1 DEF OnePlace
<1> QED BY <1>1, <1>2 DEF OnePlace, InFlight

\* A step that moves pages only between the roles of one holder.
LEMMA SameOwners ==
    ASSUME IInv, TypeOK',
           \A g \in Holders : Held(g)' = Held(g) /\ Own(g)' \subseteq Own(g),
           refcount' = refcount, onFree' = onFree, toFree' = toFree
    PROVE  RefcountLaw' /\ OnePlace' /\ WritesExclusive'
<1>1. \A p : Owners(p)' = Owners(p)
  BY DEF Owners
<1>2. InFlight' = InFlight
  BY DEF InFlight
<1>3. RefcountLaw'
  BY <1>1 DEF IInv, RefcountLaw
<1>4. OnePlace'
  BY <1>1, <1>2 DEF IInv, OnePlace
<1>5. WritesExclusive'
  BY <1>1 DEF IInv, WritesExclusive
<1> QED BY <1>3, <1>4, <1>5

-----------------------------------------------------------------------------
(* One lemma per action: the inductive invariant is kept. *)

LEMMA MapNextKeeps ==
    ASSUME IInv, TypeOK', NEW h \in Holders, NEW p \in Pages, HolderMapNext(h, p)
    PROVE  IInv'
<1> USE DEF callVars
<1>1. /\ \A g \in Holders : Held(g)' = Held(g) /\ Own(g)' \subseteq Own(g)
      /\ refcount' = refcount /\ onFree' = onFree /\ toFree' = toFree
  BY DEF HolderMapNext, Held, Table, Own, TypeOK, IInv
<1>2. RefcountLaw' /\ OnePlace' /\ WritesExclusive'
  BY <1>1, SameOwners
<1>3. OneRole'
  BY DEF HolderMapNext, OneRole, Table, PoolPath, TypeOK, IInv
<1>4. CallShape'
  BY <1>1 DEF HolderMapNext, CallShape, PoolPath, TypeOK, IInv, Resting
<1>5. p \in Held(h) /\ h \in Owners(p)
  BY DEF HolderMapNext, Held, Owners
<1>6. onFree[p] = 0 /\ \A g \in Holders : p \notin toFree[g]
  BY <1>5 DEF IInv, OnePlace, InFlight
<1>7. DirtyUntilPoisoned'
  BY <1>6 DEF HolderMapNext, DirtyUntilPoisoned, IInv, TypeOK
<1> QED BY <1>2, <1>3, <1>4, <1>7 DEF IInv, NoUnderflow, HolderMapNext

LEMMA WriteRowKeeps ==
    ASSUME IInv, TypeOK', NEW h \in Holders, NEW p \in Pages, WriteRow(h, p)
    PROVE  IInv'
<1> USE DEF callVars, tableVars
<1>1. /\ \A g \in Holders : Held(g)' = Held(g) /\ Own(g)' \subseteq Own(g)
      /\ refcount' = refcount /\ onFree' = onFree /\ toFree' = toFree
  BY DEF WriteRow, Held, Table, Own
<1>2. RefcountLaw' /\ OnePlace' /\ WritesExclusive'
  BY <1>1, SameOwners
<1>3. OneRole' /\ CallShape'
  BY DEF WriteRow, OneRole, CallShape, Table, PoolPath, Held, IInv
<1>4. DirtyUntilPoisoned'
  BY DEF WriteRow, DirtyUntilPoisoned, IInv
<1> QED BY <1>2, <1>3, <1>4 DEF IInv, NoUnderflow, WriteRow

LEMMA MapMaterializedKeeps ==
    ASSUME IInv, TypeOK', NEW h \in Holders, NEW S \in SUBSET Pages, HolderMapMaterialized(h, S)
    PROVE  IInv'
<1> USE DEF callVars
<1>1. /\ \A g \in Holders : Held(g)' = Held(g) /\ Own(g)' \subseteq Own(g)
      /\ refcount' = refcount /\ onFree' = onFree /\ toFree' = toFree
  BY DEF HolderMapMaterialized, Held, Table, Own, TypeOK, IInv
<1>2. RefcountLaw' /\ OnePlace' /\ WritesExclusive'
  BY <1>1, SameOwners
<1>3. OneRole'
  BY DEF HolderMapMaterialized, OneRole, Table, PoolPath, TypeOK, IInv
<1>4. CallShape'
  BY <1>1, HoldersAssumption
     DEF HolderMapMaterialized, CallShape, PoolPath, TypeOK, IInv, Resting
<1>5. \A p \in S : onFree[p] = 0 /\ \A g \in Holders : p \notin toFree[g]
  BY DEF IInv, OnePlace, InFlight, HolderMapMaterialized, Held, Owners
<1>6. DirtyUntilPoisoned'
  BY <1>5 DEF HolderMapMaterialized, DirtyUntilPoisoned, IInv, TypeOK
<1> QED BY <1>2, <1>3, <1>4, <1>6 DEF IInv, NoUnderflow, HolderMapMaterialized

LEMMA UnmapTailKeeps ==
    ASSUME IInv, TypeOK', NEW h \in Holders, NEW S \in SUBSET Pages, HolderUnmapTail(h, S)
    PROVE  IInv'
<1> USE DEF callVars, poolVars
<1>0. ~frozen[h]
  BY HoldersAssumption DEF HolderUnmapTail, IInv, CallShape
<1>1. /\ \A g \in Holders : Held(g)' = Held(g) /\ Own(g)' \subseteq Own(g)
      /\ refcount' = refcount /\ onFree' = onFree /\ toFree' = toFree
  BY <1>0 DEF HolderUnmapTail, Held, Table, Own, TypeOK, IInv
<1>2. RefcountLaw' /\ OnePlace' /\ WritesExclusive'
  BY <1>1, SameOwners
<1>3. OneRole'
  BY DEF HolderUnmapTail, OneRole, Table, PoolPath, TypeOK, IInv, CallShape, Resting
<1>4. CallShape'
  BY <1>0, <1>1 DEF HolderUnmapTail, CallShape, PoolPath, TypeOK, IInv, Resting
<1>5. DirtyUntilPoisoned'
  BY DEF HolderUnmapTail, DirtyUntilPoisoned, IInv, TypeOK
<1> QED BY <1>2, <1>3, <1>4, <1>5 DEF IInv, NoUnderflow, HolderUnmapTail

LEMMA PoisonKeeps ==
    ASSUME IInv, TypeOK', NEW h \in Holders, PoisonIfDirty(h)
    PROVE  IInv'
<1> USE DEF tableVars
<1>1. /\ \A g \in Holders : Held(g)' = Held(g) /\ Own(g)' \subseteq Own(g)
      /\ refcount' = refcount /\ onFree' = onFree /\ toFree' = toFree
  BY DEF PoisonIfDirty, Held, Table, Own
<1>2. RefcountLaw' /\ OnePlace' /\ WritesExclusive'
  BY <1>1, SameOwners
<1>3. OneRole' /\ CallShape'
  BY DEF PoisonIfDirty, OneRole, CallShape, Table, PoolPath, Held, IInv, TypeOK, Stages
<1>4. \A g \in Holders : (private[g] \cup materialized[g]) \cap toFree[h] = {}
  BY HeldIsNotFree DEF IInv, Held, Table
<1>5. DirtyUntilPoisoned'
  BY <1>4 DEF PoisonIfDirty, DirtyUntilPoisoned, IInv, TypeOK
<1> QED BY <1>2, <1>3, <1>5 DEF IInv, NoUnderflow, PoisonIfDirty

LEMMA PushKeeps ==
    ASSUME IInv, TypeOK', NEW h \in Holders, PushFree(h)
    PROVE  IInv'
<1> USE DEF tableVars
<1>1. /\ \A g \in Holders : Held(g)' = Held(g) /\ Own(g)' = Own(g)
      /\ refcount' = refcount
      /\ \A p : Owners(p)' = Owners(p)
  BY DEF PushFree, Held, Table, Own, Owners
<1>2. RefcountLaw' /\ WritesExclusive'
  BY <1>1 DEF IInv, RefcountLaw, WritesExclusive
<1>3. \A g \in Holders : toFree'[g] = IF g = h THEN {} ELSE toFree[g]
  BY DEF PushFree, IInv, TypeOK
<1>4. \A p \in Pages : onFree'[p] = IF p \in toFree[h] THEN onFree[p] + 1 ELSE onFree[p]
  BY DEF PushFree
<1>5. OnePlace'
  <2> SUFFICES ASSUME NEW p \in Pages
               PROVE  /\ onFree'[p] \in {0, 1}
                      /\ onFree'[p] = 1 => Owners(p) = {} /\ p \notin InFlight'
                      /\ p \in InFlight' => Owners(p) = {}
                      /\ \A g, k \in Holders : p \in toFree'[g] \cap toFree'[k] => g = k
                      /\ Owners(p) = {} => onFree'[p] = 1 \/ p \in InFlight'
    BY <1>1 DEF OnePlace
  <2>1. /\ onFree[p] \in {0, 1}
        /\ onFree[p] = 1 => Owners(p) = {} /\ p \notin InFlight
        /\ p \in InFlight => Owners(p) = {}
        /\ \A g, k \in Holders : p \in toFree[g] \cap toFree[k] => g = k
        /\ Owners(p) = {} => onFree[p] = 1 \/ p \in InFlight
    BY DEF IInv, OnePlace
  <2>2. p \in InFlight <=> \E g \in Holders : p \in toFree[g]
    BY DEF InFlight
  <2>3. p \in InFlight' <=> \E g \in Holders : p \in toFree'[g]
    BY DEF InFlight
  <2>4. CASE p \in toFree[h]
    BY <1>3, <1>4, <2>1, <2>2, <2>3, <2>4
  <2>5. CASE p \notin toFree[h]
    BY <1>3, <1>4, <2>1, <2>2, <2>3, <2>5
  <2> QED BY <2>4, <2>5
<1>6. OneRole' /\ CallShape'
  BY <1>1, <1>3 DEF PushFree, OneRole, CallShape, Table, PoolPath, IInv, TypeOK, Stages
<1>7. DirtyUntilPoisoned'
  <2>1. \A p \in Pages : onFree'[p] > 0 => p \notin dirty
    BY <1>4 DEF PushFree, DirtyUntilPoisoned, IInv, TypeOK
  <2> QED BY <1>3, <2>1 DEF PushFree, DirtyUntilPoisoned, IInv, TypeOK
<1> QED BY <1>2, <1>5, <1>6, <1>7 DEF IInv, NoUnderflow, PushFree

LEMMA FinishKeeps ==
    ASSUME IInv, TypeOK', NEW h \in Holders, Finish(h)
    PROVE  IInv'
<1> USE DEF poolVars
<1>1. op[h] \in {"unmap", "adopt", "release", "freeze"} /\ toFree[h] = {}
  BY DEF Finish, IInv, CallShape, TypeOK, Ops
<1>2. CASE op[h] \in {"unmap", "adopt"}
  <2>1. h \in Seqs /\ PoolPath(h) = {} /\ ~frozen[h]
    BY <1>2, HoldersAssumption DEF IInv, CallShape
  <2>2. /\ shared' = [shared EXCEPT ![h] = @ \cup adopting[h]]
        /\ adopting' = [adopting EXCEPT ![h] = {}]
        /\ reserve' = [reserve EXCEPT ![h] = @ \cup private[h]]
        /\ private' = [private EXCEPT ![h] = {}]
        /\ op' = [op EXCEPT ![h] = "rest"]
        /\ stage' = [stage EXCEPT ![h] = "rest"]
        /\ frozen' = frozen
    BY <1>2, <2>1 DEF Finish, IInv, TypeOK
  <2>3. /\ \A g \in Holders : Held(g)' = Held(g) /\ Own(g)' \subseteq Own(g)
        /\ refcount' = refcount /\ onFree' = onFree /\ toFree' = toFree
    BY <2>1, <2>2 DEF Finish, Held, Table, Own, IInv, TypeOK
  <2>4. RefcountLaw' /\ OnePlace' /\ WritesExclusive'
    BY <2>3, SameOwners
  <2>5. OneRole'
    BY <2>1, <2>2 DEF Finish, OneRole, Table, PoolPath, TypeOK, IInv
  <2>6. CallShape'
    BY <1>1, <2>1, <2>2, <2>3, HoldersAssumption DEF Finish, CallShape, PoolPath, TypeOK, IInv, Stages
  <2>7. DirtyUntilPoisoned'
    BY <2>2 DEF Finish, DirtyUntilPoisoned, IInv, TypeOK
  <2> QED BY <2>4, <2>5, <2>6, <2>7 DEF IInv, NoUnderflow, Finish
<1>3. CASE op[h] \in {"release", "freeze"}
  <2>1. adopting[h] = {} /\ (op[h] = "release" => Held(h) = {})
    BY <1>3 DEF IInv, CallShape
  <2>2. shared' = shared /\ adopting' = adopting /\ reserve' = reserve /\ private' = private
    BY <1>3, <2>1 DEF Finish, IInv, TypeOK
  <2>3. /\ op' = [op EXCEPT ![h] = IF op[h] = "release" THEN "none" ELSE "rest"]
        /\ stage' = [stage EXCEPT ![h] = "rest"]
        /\ frozen' = IF op[h] = "release" THEN [frozen EXCEPT ![h] = FALSE] ELSE frozen
        /\ materialized' = materialized
    BY DEF Finish
  <2>4. \A g \in Holders : Held(g)' = Held(g) /\ Table(g)' = Table(g) /\ PoolPath(g)' = PoolPath(g)
    BY <2>2, <2>3 DEF Held, Table, PoolPath
  <2>5. \A g \in Holders : Own(g)' \subseteq Own(g)
    BY <2>1, <2>2, <2>3 DEF Own, Held, Table, IInv, TypeOK
  <2>6. RefcountLaw' /\ OnePlace' /\ WritesExclusive'
    BY <2>4, <2>5, SameOwners DEF Finish
  <2>7. OneRole'
    BY <2>2, <2>3, <2>4 DEF OneRole, IInv
  <2>8. CallShape'
    BY <1>1, <1>3, <2>1, <2>2, <2>3, <2>4 DEF Finish, CallShape, TypeOK, IInv, Stages, Ops
  <2>9. DirtyUntilPoisoned'
    BY <2>2, <2>3 DEF Finish, DirtyUntilPoisoned, IInv, TypeOK
  <2> QED BY <2>6, <2>7, <2>8, <2>9 DEF IInv, NoUnderflow, Finish
<1> QED BY <1>1, <1>2, <1>3

LEMMA CreateKeeps ==
    ASSUME IInv, TypeOK', NEW h \in Holders, NEW S \in SUBSET Pages, HolderCreate(h, S)
    PROVE  IInv'
<1>1. Held(h) = {} /\ toFree[h] = {} /\ ~frozen[h] /\ stage[h] = "rest"
  BY DEF HolderCreate, IInv, CallShape
<1>2. \A g \in Holders : /\ g # h => Held(g)' = Held(g) /\ Own(g)' = Own(g)
                         /\ Held(h)' = S /\ Own(h)' = S
  BY <1>1 DEF HolderCreate, Held, Table, Own, IInv, TypeOK
<1>3. \A p \in Pages : Owners(p)' = IF p \in S THEN Owners(p) \cup {h} ELSE Owners(p) \ {h}
  BY <1>2, OwnersOfStep
<1>4. \A p \in S : onFree[p] = 1 /\ Owners(p) = {} /\ p \notin InFlight /\ refcount[p] = 0
  BY CountMeaning DEF HolderCreate, IInv, OnePlace
<1>5. \A p \in Pages : h \notin Owners(p)
  BY <1>1 DEF Owners
<1>6. RefcountLaw'
  <2>1. ASSUME NEW p \in Pages, p \in S PROVE Follows(h, p)
    <3>1. refcount'[p] = refcount[p] + 1
      BY <1>4, <2>1 DEF HolderCreate
    <3> QED BY <1>3, <1>5, <2>1, <3>1 DEF Follows
  <2>2. ASSUME NEW p \in Pages, p \notin S PROVE Follows(h, p)
    <3>1. refcount'[p] = refcount[p] /\ Owners(p)' = Owners(p)
      BY <1>3, <1>5, <2>2 DEF HolderCreate
    <3> QED BY <3>1 DEF Follows
  <2> QED BY <2>1, <2>2, LawFollows DEF IInv
<1>7. OnePlace'
  <2>1. InFlight' = InFlight
    BY DEF InFlight, HolderCreate
  <2>2. \A p \in Pages : onFree'[p] = IF p \in S THEN 0 ELSE onFree[p]
    BY <1>4 DEF HolderCreate
  <2>3. \A p \in Pages : Owners(p)' = IF p \in S THEN {h} ELSE Owners(p)
    BY <1>3, <1>4, <1>5
  <2>4. toFree' = toFree
    BY DEF HolderCreate
  <2> QED BY <1>4, <2>1, <2>2, <2>3, <2>4 DEF OnePlace, IInv
<1>8. WritesExclusive'
  <2>1. \A p \in S : Owners(p)' = {h}
    BY <1>3, <1>4
  <2>2. \A g \in Holders : \A p \in Own(g) : g # h => p \notin S
    BY <1>4 DEF WritesExclusive, IInv
  <2>3. \A g \in Holders : \A p \in Own(g) : p \in Pages
    BY DEF IInv, TypeOK, Own
  <2> QED BY <1>2, <1>3, <1>5, <2>1, <2>2, <2>3 DEF WritesExclusive, IInv
<1>9. OneRole' /\ CallShape'
  BY <1>1, <1>2 DEF HolderCreate, OneRole, CallShape, Table, PoolPath, Held, IInv, TypeOK
<1>10. DirtyUntilPoisoned'
  <2>1. \A p \in Pages : onFree'[p] > 0 => onFree[p] > 0
    BY DEF HolderCreate, IInv, TypeOK
  <2> QED BY <2>1 DEF HolderCreate, DirtyUntilPoisoned, IInv
<1> QED BY <1>6, <1>7, <1>8, <1>9, <1>10 DEF IInv, NoUnderflow, HolderCreate

\* The pages a share reads belong to a frozen prefix, so nobody has them to itself.
LEMMA SourcePages ==
    ASSUME IInv, NEW s \in Prefixes, frozen[s], NEW S, S \subseteq Table(s)
    PROVE  \A p \in S : /\ p \in Pages /\ s \in Owners(p) /\ onFree[p] = 0
                        /\ \A g \in Holders : p \notin Own(g) /\ p \notin toFree[g]
<1> SUFFICES ASSUME NEW p \in S
             PROVE  /\ p \in Pages /\ s \in Owners(p) /\ onFree[p] = 0
                    /\ \A g \in Holders : p \notin Own(g) /\ p \notin toFree[g]
  OBVIOUS
<1>1. s \in Holders /\ p \in Held(s)
  BY DEF Holders, Held
<1>2. p \in Pages /\ s \in Owners(p) /\ onFree[p] = 0 /\ \A g \in Holders : p \notin toFree[g]
  BY <1>1, HeldIsNotFree DEF Owners, IInv
<1>3. reserve[s] = {} /\ p \notin Own(s)
  BY <1>1 DEF IInv, CallShape, Own
<1>4. \A g \in Holders : p \notin Own(g)
  BY <1>2, <1>3 DEF IInv, WritesExclusive
<1> QED BY <1>2, <1>4

LEMMA ShareLeadingKeeps ==
    ASSUME IInv, TypeOK', NEW d \in Holders, NEW s \in Holders, NEW S \in SUBSET Pages,
           HolderShareLeading(d, s, S)
    PROVE  IInv'
<1> USE DEF callVars
<1>1. /\ Held(d) = reserve[d] /\ Own(d) = reserve[d]
      /\ Held(d)' = S \cup reserve[d] /\ Own(d)' = reserve[d]
      /\ \A g \in Holders \ {d} : Held(g)' = Held(g) /\ Own(g)' = Own(g)
  BY DEF HolderShareLeading, Resting, Held, Table, Own, IInv, TypeOK, CallShape
<1>2. \A p \in S : /\ p \in Pages /\ s \in Owners(p) /\ onFree[p] = 0
                   /\ \A g \in Holders : p \notin Own(g) /\ p \notin toFree[g]
  BY SourcePages DEF HolderShareLeading
<1>3. \A p \in Pages : Owners(p)' = IF p \in S THEN Owners(p) \cup {d} ELSE Owners(p)
  <2>1. \A p \in Pages : d \in Owners(p) <=> p \in reserve[d]
    BY <1>1 DEF Owners
  <2> QED BY <1>1, <2>1, OwnersOfStep
<1>4. \A p \in S : d \notin Owners(p)
  BY <1>1, <1>2 DEF Owners
<1>5. RefcountLaw'
  <2>1. ASSUME NEW p \in Pages, p \in S PROVE Follows(d, p)
    <3>1. refcount'[p] = refcount[p] + 1
      BY <2>1 DEF HolderShareLeading, CountedUp, Shareable, Inc
    <3> QED BY <1>3, <1>4, <2>1, <3>1 DEF Follows
  <2>2. ASSUME NEW p \in Pages, p \notin S PROVE Follows(d, p)
    <3>1. refcount'[p] = refcount[p]
      BY <2>2 DEF HolderShareLeading, CountedUp
    <3> QED BY <1>3, <2>2, <3>1 DEF Follows
  <2> QED BY <2>1, <2>2, LawFollows DEF IInv
<1>6. OnePlace'
  <2>1. InFlight' = InFlight /\ onFree' = onFree /\ toFree' = toFree
    BY DEF InFlight, HolderShareLeading
  <2>2. \A p \in S : p \notin InFlight
    BY <1>2 DEF InFlight
  <2> QED BY <1>2, <1>3, <2>1, <2>2 DEF OnePlace, IInv
<1>7. WritesExclusive'
  <2>1. \A g \in Holders : \A p \in Own(g) : p \in Pages /\ p \notin S
    BY <1>2 DEF IInv, TypeOK, Own
  <2> QED BY <1>1, <1>3, <2>1 DEF WritesExclusive, IInv
<1>8. OneRole' /\ CallShape'
  <2>1. S \cap reserve[d] = {}
    BY <1>1, <1>2
  <2> QED BY <1>1, <2>1 DEF HolderShareLeading, Resting, OneRole, CallShape, Table, PoolPath, Held, IInv, TypeOK
<1>9. DirtyUntilPoisoned'
  BY DEF HolderShareLeading, DirtyUntilPoisoned, IInv
<1> QED BY <1>5, <1>6, <1>7, <1>8, <1>9 DEF IInv, NoUnderflow, HolderShareLeading

\* A first section keeps every page at one place: a page that loses its last owner
\* goes in flight, and no other page does.
LEMMA GiveUpPlace ==
    ASSUME IInv, NEW h \in Holders, toFree[h] = {}, onFree' = onFree,
           \A g \in Holders : g # h => toFree'[g] = toFree[g],
           \A p \in Pages :
              \/ p \notin toFree'[h] /\ (Owners(p)' = {} <=> Owners(p) = {})
              \/ p \in toFree'[h] /\ Owners(p) # {} /\ Owners(p)' = {}
    PROVE  OnePlace'
<1> SUFFICES ASSUME NEW p \in Pages
             PROVE  /\ onFree[p] \in {0, 1}
                    /\ onFree[p] = 1 => Owners(p)' = {} /\ p \notin InFlight'
                    /\ p \in InFlight' => Owners(p)' = {}
                    /\ \A g, k \in Holders : p \in toFree'[g] \cap toFree'[k] => g = k
                    /\ Owners(p)' = {} => onFree[p] = 1 \/ p \in InFlight'
  BY DEF OnePlace
<1>1. /\ onFree[p] \in {0, 1}
      /\ onFree[p] = 1 => Owners(p) = {} /\ p \notin InFlight
      /\ p \in InFlight => Owners(p) = {}
      /\ \A g, k \in Holders : p \in toFree[g] \cap toFree[k] => g = k
      /\ Owners(p) = {} => onFree[p] = 1 \/ p \in InFlight
  BY DEF IInv, OnePlace
<1>2. p \in InFlight <=> \E g \in Holders : p \in toFree[g]
  BY DEF InFlight
<1>3. p \in InFlight' <=> \E g \in Holders : p \in toFree'[g]
  BY DEF InFlight
<1>4. CASE p \notin toFree'[h] /\ (Owners(p)' = {} <=> Owners(p) = {})
  <2>1. p \in InFlight' <=> p \in InFlight
    BY <1>2, <1>3, <1>4
  <2> QED BY <1>1, <1>4, <2>1
<1>5. CASE p \in toFree'[h] /\ Owners(p) # {} /\ Owners(p)' = {}
  <2>1. p \notin InFlight /\ onFree[p] = 0 /\ p \in InFlight'
    BY <1>1, <1>3, <1>5
  <2>2. \A g \in Holders : p \in toFree'[g] => g = h
    BY <1>2, <2>1
  <2> QED BY <1>1, <1>5, <2>1, <2>2
<1> QED BY <1>4, <1>5

\* Taking one reference off a page its holder has: the last one is seen as such.
LEMMA TakeOne ==
    ASSUME IInv, NEW h \in Holders, NEW p \in Held(h)
    PROVE  /\ p \in Pages /\ h \in Owners(p) /\ refcount[p] \in 1 .. MaxRef
           /\ refcount[p] = 1 <=> Owners(p) = {h}
<1>1. p \in Pages /\ h \in Owners(p)
  BY HeldIsNotFree DEF IInv, Owners
<1> QED BY <1>1, CountMeaning DEF IInv

LEMMA UnmapAllKeeps ==
    ASSUME IInv, TypeOK', NEW h \in Holders, HolderUnmapAll(h)
    PROVE  IInv'
<1> DEFINE D == PoolPath(h)
<1>1. ~frozen[h] /\ adopting[h] = {} /\ toFree[h] = {} /\ D \subseteq Held(h)
  BY HoldersAssumption DEF HolderUnmapAll, Resting, IInv, CallShape, PoolPath, Held, Table
<1>2. /\ \A g \in Holders \ {h} : Held(g)' = Held(g) /\ Own(g)' = Own(g)
      /\ Held(h)' = Held(h) \ D /\ Own(h)' \subseteq Own(h)
  BY <1>1 DEF HolderUnmapAll, Held, Table, Own, IInv, TypeOK, OneRole, PoolPath
<1>3. \A p \in Pages : Owners(p)' = IF p \in D THEN Owners(p) \ {h} ELSE Owners(p)
  <2>1. \A p \in Pages : h \in Owners(p) <=> p \in Held(h)
    BY DEF Owners
  <2> QED BY <1>2, <2>1, OwnersOfStep
<1>4. \A p \in D : /\ p \in Pages /\ h \in Owners(p) /\ refcount[p] \in 1 .. MaxRef
                   /\ refcount[p] = 1 <=> Owners(p) = {h}
  BY <1>1, TakeOne
<1>5. RefcountLaw'
  <2>1. ASSUME NEW p \in Pages, p \in D PROVE Follows(h, p)
    <3>1. refcount'[p] = refcount[p] - 1
      BY <1>4, <2>1 DEF HolderUnmapAll, CountedDown
    <3> QED BY <1>3, <1>4, <2>1, <3>1 DEF Follows
  <2>2. ASSUME NEW p \in Pages, p \notin D PROVE Follows(h, p)
    <3>1. refcount'[p] = refcount[p]
      BY <2>2 DEF HolderUnmapAll, CountedDown
    <3> QED BY <1>3, <2>2, <3>1 DEF Follows
  <2> QED BY <2>1, <2>2, LawFollows DEF IInv
<1>6. toFree'[h] = {p \in D : refcount[p] = 1} /\ \A g \in Holders : g # h => toFree'[g] = toFree[g]
  BY DEF HolderUnmapAll, ReachedZero, IInv, TypeOK
<1>7. OnePlace'
  <2>1. ASSUME NEW p \in Pages
        PROVE  \/ p \notin toFree'[h] /\ (Owners(p)' = {} <=> Owners(p) = {})
               \/ p \in toFree'[h] /\ Owners(p) # {} /\ Owners(p)' = {}
    BY <1>3, <1>4, <1>6
  <2>2. onFree' = onFree
    BY DEF HolderUnmapAll
  <2> HIDE DEF D
  <2> QED BY <1>1, <1>6, <2>1, <2>2, GiveUpPlace
<1>8. WritesExclusive'
  <2>1. \A g \in Holders : \A p \in Own(g)' : p \in Pages /\ Owners(p) = {g} /\ (g # h => p \notin D)
    BY <1>2, <1>4 DEF IInv, TypeOK, Own, WritesExclusive
  <2>2. \A p \in Own(h)' : p \notin D
    BY <1>1 DEF HolderUnmapAll, Own, IInv, TypeOK, OneRole, PoolPath, Table
  <2> HIDE DEF D
  <2>3. \A g \in Holders : \A p \in Own(g)' : Owners(p)' = {g}
    BY <1>3, <2>1, <2>2
  <2> QED BY <2>3 DEF WritesExclusive
<1>9. OneRole'
  BY DEF HolderUnmapAll, OneRole, IInv, TypeOK, Table, PoolPath
<1>10. CallShape'
  <2>1. ASSUME NEW g \in Holders \ {h}
        PROVE  /\ Held(g)' = Held(g) /\ PoolPath(g)' = PoolPath(g)
               /\ stage'[g] = stage[g] /\ op'[g] = op[g] /\ toFree'[g] = toFree[g]
               /\ adopting'[g] = adopting[g] /\ frozen'[g] = frozen[g] /\ reserve'[g] = reserve[g]
               /\ materialized'[g] = materialized[g]
    BY <1>2, <1>6 DEF HolderUnmapAll, IInv, TypeOK, PoolPath
  <2>2. /\ op'[h] = "unmap" /\ stage'[h] = (IF toFree'[h] = {} THEN "finish" ELSE "poison")
        /\ adopting'[h] = {} /\ frozen'[h] = FALSE /\ materialized'[h] = {} /\ PoolPath(h)' = {}
        /\ h \in Seqs
    BY <1>1 DEF HolderUnmapAll, IInv, TypeOK, PoolPath
  <2>3. CallShape
    BY DEF IInv
  <2> HIDE DEF D
  <2> SUFFICES ASSUME NEW g \in Holders
               PROVE  /\ stage'[g] \in {"rest", "finish"} => toFree'[g] = {}
                      /\ stage'[g] = "rest" <=> op'[g] \in {"none", "rest"}
                      /\ op'[g] = "none" => Held(g)' = {} /\ ~frozen'[g]
                      /\ op'[g] # "adopt" => adopting'[g] = {}
                      /\ op'[g] \in {"unmap", "adopt"} => g \in Seqs /\ PoolPath(g)' = {}
                      /\ op'[g] = "release" => Held(g)' = {}
                      /\ op'[g] = "freeze" => g \in Prefixes /\ frozen'[g]
                      /\ frozen'[g] => g \in Prefixes /\ reserve'[g] = {}
                      /\ g \in Prefixes => materialized'[g] = {}
    BY DEF CallShape
  <2>4. CASE g = h
    BY <2>2, <2>4
  <2>5. CASE g # h
    BY <2>1, <2>3, <2>5 DEF CallShape
  <2> QED BY <2>4, <2>5
<1>11. DirtyUntilPoisoned'
  BY DEF HolderUnmapAll, DirtyUntilPoisoned, IInv, TypeOK
<1>12. NoUnderflow'
  <2>1. ~Underflows(refcount, D)
    BY <1>4 DEF Underflows
  <2> QED BY <2>1 DEF HolderUnmapAll, NoUnderflow, IInv
<1> QED BY <1>5, <1>7, <1>8, <1>9, <1>10, <1>11, <1>12 DEF IInv

LEMMA AdoptShareKeeps ==
    ASSUME IInv, TypeOK', NEW d \in Holders, NEW s \in Holders, NEW S \in SUBSET Pages,
           HolderAdoptShare(d, s, S)
    PROVE  IInv'
<1> DEFINE D == PoolPath(d)
<1>1. ~frozen[d] /\ adopting[d] = {} /\ toFree[d] = {} /\ D \subseteq Held(d)
  BY HoldersAssumption DEF HolderAdoptShare, Resting, IInv, CallShape, PoolPath, Held, Table
<1>2. /\ \A g \in Holders \ {d} : Held(g)' = Held(g) /\ Own(g)' = Own(g)
      /\ Held(d)' = (Held(d) \ D) \cup S /\ Own(d)' \subseteq Own(d)
  BY <1>1 DEF HolderAdoptShare, Held, Table, Own, IInv, TypeOK, OneRole, PoolPath
<1>3. \A p \in S : /\ p \in Pages /\ s \in Owners(p) /\ onFree[p] = 0
                   /\ \A g \in Holders : p \notin Own(g) /\ p \notin toFree[g]
  BY SourcePages DEF HolderAdoptShare
<1>4. \A p \in D : /\ p \in Pages /\ d \in Owners(p) /\ refcount[p] \in 1 .. MaxRef
                   /\ refcount[p] = 1 <=> Owners(p) = {d}
  BY <1>1, TakeOne
<1>5. \A p \in S : p \notin D => d \notin Owners(p)
  BY <1>1, <1>3 DEF Owners, Held, Table, Own, PoolPath
<1>6. \A p \in Pages : Owners(p)' = IF p \in S THEN Owners(p) \cup {d}
                                   ELSE IF p \in D THEN Owners(p) \ {d} ELSE Owners(p)
  <2>1. \A p \in Pages : d \in Owners(p) <=> p \in Held(d)
    BY DEF Owners
  <2>2. \A p \in Pages :
           Owners(p)' = IF p \in Held(d)' THEN Owners(p) \cup {d} ELSE Owners(p) \ {d}
    BY <1>2, OwnersOfStep
  <2>3. \A p \in Pages : p \in Held(d)' <=> p \in S \/ (d \in Owners(p) /\ p \notin D)
    BY <1>2, <2>1
  <2> HIDE DEF D
  <2>4. ASSUME NEW p \in Pages, d \notin Owners(p) PROVE Owners(p) \ {d} = Owners(p)
    BY <2>4
  <2>5. ASSUME NEW p \in Pages, d \in Owners(p) PROVE Owners(p) \cup {d} = Owners(p)
    BY <2>5
  <2> QED BY <1>4, <2>2, <2>3, <2>4, <2>5
<1> DEFINE up == CountedUp(S)
<1>7. \A p \in Pages : up[p] = IF p \in S THEN refcount[p] + 1 ELSE refcount[p]
  BY DEF HolderAdoptShare, Shareable, CountedUp, Inc
<1>8. \A p \in S : refcount[p] \in 1 .. MaxRef
  BY <1>3 DEF HolderAdoptShare, Shareable, IInv, TypeOK
<1>9. /\ refcount' = CountedDown(up, D)
      /\ toFree' = [toFree EXCEPT ![d] = ReachedZero(up, D)]
      /\ underflow' = (underflow \/ Underflows(up, D))
      /\ onFree' = onFree
  BY DEF HolderAdoptShare
<1>10. \A p \in D : up[p] \in Int /\ up[p] > 0 /\ (up[p] = 1 <=> p \notin S /\ Owners(p) = {d})
  <2> HIDE DEF D, up
  <2> QED BY <1>4, <1>7, <1>8
<1>11. \A p \in Pages : refcount'[p] = IF p \in D THEN up[p] - 1 ELSE up[p]
  <2> HIDE DEF D, up
  <2> QED BY <1>9, <1>10 DEF CountedDown
<1>12. /\ toFree'[d] = {p \in D : up[p] = 1}
       /\ \A g \in Holders : g # d => toFree'[g] = toFree[g]
  <2> HIDE DEF D, up
  <2> QED BY <1>9 DEF ReachedZero, IInv, TypeOK
<1>13. RefcountLaw'
  <2> HIDE DEF D, up
  <2>1. ASSUME NEW p \in Pages, p \in S, p \in D PROVE Follows(d, p)
    <3>1. refcount'[p] = refcount[p] /\ Owners(p)' = Owners(p)
      BY <1>4, <1>6, <1>7, <1>11, <2>1
    <3> QED BY <3>1 DEF Follows
  <2>2. ASSUME NEW p \in Pages, p \in S, p \notin D PROVE Follows(d, p)
    BY <1>5, <1>6, <1>7, <1>11, <2>2 DEF Follows
  <2>3. ASSUME NEW p \in Pages, p \notin S, p \in D PROVE Follows(d, p)
    BY <1>4, <1>6, <1>7, <1>11, <2>3 DEF Follows
  <2>4. ASSUME NEW p \in Pages, p \notin S, p \notin D PROVE Follows(d, p)
    BY <1>6, <1>7, <1>11, <2>4 DEF Follows
  <2> QED BY <2>1, <2>2, <2>3, <2>4, LawFollows DEF IInv
<1>14. OnePlace'
  <2> HIDE DEF D, up
  <2>1. ASSUME NEW p \in Pages
        PROVE  \/ p \notin toFree'[d] /\ (Owners(p)' = {} <=> Owners(p) = {})
               \/ p \in toFree'[d] /\ Owners(p) # {} /\ Owners(p)' = {}
    <3>1. CASE p \in S
      BY <1>3, <1>6, <1>10, <1>12, <3>1
    <3>2. CASE p \notin S /\ p \in D
      BY <1>4, <1>6, <1>10, <1>12, <3>2
    <3>3. CASE p \notin S /\ p \notin D
      BY <1>6, <1>12, <3>3
    <3> QED BY <3>1, <3>2, <3>3
  <2> QED BY <1>1, <1>9, <1>12, <2>1, GiveUpPlace
<1>15. WritesExclusive'
  <2>1. \A g \in Holders : \A p \in Own(g)' : p \in Own(g) /\ p \in Pages /\ Owners(p) = {g}
    BY <1>2 DEF IInv, TypeOK, Own, WritesExclusive
  <2>2. \A p \in Own(d)' : p \notin D
    BY <1>1 DEF HolderAdoptShare, Own, IInv, TypeOK, OneRole, PoolPath, Table
  <2> HIDE DEF D, up
  <2>3. \A g \in Holders : \A p \in Own(g)' : p \notin S /\ p \notin D
    BY <1>3, <1>4, <2>1, <2>2
  <2>4. \A g \in Holders : \A p \in Own(g)' : Owners(p)' = {g}
    BY <1>6, <2>1, <2>3
  <2> QED BY <2>4 DEF WritesExclusive
<1>16. OneRole'
  <2>1. S \cap (private[d] \cup reserve[d]) = {}
    BY <1>1, <1>3 DEF Own
  <2> QED BY <2>1 DEF HolderAdoptShare, OneRole, IInv, TypeOK, Table, PoolPath
<1>17. CallShape'
  <2>1. /\ op' = [op EXCEPT ![d] = "adopt"] /\ frozen' = frozen /\ reserve' = reserve
        /\ stage' = [stage EXCEPT ![d] = IF toFree'[d] = {} THEN "finish" ELSE "poison"]
        /\ adopting' = [adopting EXCEPT ![d] = S] /\ d \in Seqs /\ op[d] = "rest"
        /\ shared' = [shared EXCEPT ![d] = {}] /\ materialized' = [materialized EXCEPT ![d] = {}]
    BY DEF HolderAdoptShare, Resting
  <2> HIDE DEF D, up
  <2> QED BY <1>1, <1>2, <1>12, <2>1, HoldersAssumption DEF CallShape, IInv, TypeOK, PoolPath
<1>18. DirtyUntilPoisoned'
  BY DEF HolderAdoptShare, DirtyUntilPoisoned, IInv, TypeOK
<1>19. NoUnderflow'
  <2> HIDE DEF D, up
  <2>1. ~Underflows(up, D)
    BY <1>10 DEF Underflows
  <2> QED BY <1>9, <2>1 DEF NoUnderflow, IInv
<1> QED BY <1>13, <1>14, <1>15, <1>16, <1>17, <1>18, <1>19 DEF IInv

LEMMA ReleaseKeeps ==
    ASSUME IInv, TypeOK', NEW h \in Holders, HolderRelease(h)
    PROVE  IInv'
<1> DEFINE T == Table(h)
           R == reserve[h]
<1>1. adopting[h] = {} /\ toFree[h] = {} /\ Held(h) = T \cup R /\ T \cap R = {}
  BY DEF HolderRelease, Resting, IInv, CallShape, OneRole, Held
<1>2. /\ \A g \in Holders \ {h} : Held(g)' = Held(g) /\ Own(g)' = Own(g)
      /\ Held(h)' = {} /\ Own(h)' = {}
  BY <1>1 DEF HolderRelease, Held, Table, Own, IInv, TypeOK
<1>3. \A p \in Pages : h \in Owners(p) <=> p \in T \cup R
  BY <1>1 DEF Owners
<1>4. \A p \in Pages : Owners(p)' = Owners(p) \ {h}
  BY <1>2, OwnersOfStep
<1>5. \A p \in T \cup R : /\ p \in Pages /\ h \in Owners(p) /\ refcount[p] \in 1 .. MaxRef
                         /\ refcount[p] = 1 <=> Owners(p) = {h}
  BY <1>1, TakeOne
<1>6. \A p \in R : Owners(p) = {h} /\ refcount[p] = 1
  <2>1. \A p \in R : Owners(p) = {h}
    BY DEF IInv, WritesExclusive, Own
  <2> QED BY <1>5, <2>1
<1>19. \A p \in T : refcount[p] > 0 /\ refcount[p] # 0 /\ refcount[p] \in Nat
  <2>1. \A p \in T : p \in Held(h)
    BY DEF Held
  <2> QED BY <2>1, TakeOne
<1> DEFINE down == CountedDown(refcount, T)
           freed == {p \in R : down[p] > 0}
<1>7. \A p \in Pages : down[p] = IF p \in T THEN refcount[p] - 1 ELSE refcount[p]
  <2> HIDE DEF T, R
  <2> QED BY <1>19 DEF CountedDown
<1>8. freed = R
  <2> HIDE DEF T, R, down
  <2> QED BY <1>1, <1>5, <1>6, <1>7
<1>9. /\ refcount' = [p \in Pages |-> IF p \in freed THEN 0 ELSE down[p]]
      /\ toFree' = [toFree EXCEPT ![h] = ReachedZero(refcount, T) \cup freed]
      /\ underflow' = (underflow \/ Underflows(refcount, T) \/ freed # R)
      /\ onFree' = onFree
  BY DEF HolderRelease
<1> HIDE DEF T, R, down, freed
<1>10. \A p \in Pages : refcount'[p] = IF p \in T \cup R THEN refcount[p] - 1 ELSE refcount[p]
  <2>1. ASSUME NEW p \in Pages, p \in R PROVE refcount'[p] = refcount[p] - 1
    BY <1>6, <1>8, <1>9, <2>1
  <2>2. ASSUME NEW p \in Pages, p \notin R
        PROVE  refcount'[p] = IF p \in T THEN refcount[p] - 1 ELSE refcount[p]
    BY <1>7, <1>8, <1>9, <2>2
  <2> QED BY <2>1, <2>2
<1>11. /\ toFree'[h] = {p \in T \cup R : refcount[p] = 1}
       /\ \A g \in Holders : g # h => toFree'[g] = toFree[g]
  <2>1. toFree'[h] = ReachedZero(refcount, T) \cup R
    BY <1>8, <1>9 DEF IInv, TypeOK
  <2>2. toFree'[h] = {p \in T \cup R : refcount[p] = 1}
    BY <1>6, <2>1 DEF ReachedZero
  <2> QED BY <1>9, <2>2 DEF IInv, TypeOK
<1>12. RefcountLaw'
  <2>1. ASSUME NEW p \in Pages, p \in T \cup R PROVE Follows(h, p)
    BY <1>3, <1>4, <1>10, <2>1 DEF Follows
  <2>2. ASSUME NEW p \in Pages, p \notin T \cup R PROVE Follows(h, p)
    <3>1. Owners(p)' = Owners(p) /\ refcount'[p] = refcount[p]
      BY <1>3, <1>4, <1>10, <2>2
    <3> QED BY <3>1 DEF Follows
  <2> QED BY <2>1, <2>2, LawFollows DEF IInv
<1>13. OnePlace'
  <2>1. ASSUME NEW p \in Pages
        PROVE  \/ p \notin toFree'[h] /\ (Owners(p)' = {} <=> Owners(p) = {})
               \/ p \in toFree'[h] /\ Owners(p) # {} /\ Owners(p)' = {}
    <3>1. CASE p \in T \cup R
      <4>1. h \in Owners(p) /\ (refcount[p] = 1 <=> Owners(p) = {h})
        <5>1. p \in Held(h)
          BY <1>1, <3>1
        <5> QED BY <5>1, TakeOne
      <4>2. p \in toFree'[h] <=> Owners(p) = {h}
        BY <1>11, <3>1, <4>1
      <4> QED BY <1>4, <4>1, <4>2
    <3>2. CASE p \notin T \cup R
      BY <1>3, <1>4, <1>11, <3>2
    <3> QED BY <3>1, <3>2
  <2> QED BY <1>1, <1>9, <1>11, <2>1, GiveUpPlace
<1>14. WritesExclusive'
  <2>1. \A g \in Holders : \A p \in Own(g)' : g # h /\ p \in Pages /\ Owners(p) = {g}
    BY <1>2 DEF IInv, TypeOK, Own, WritesExclusive
  <2>2. \A g \in Holders : \A p \in Own(g)' : Owners(p)' = {g}
    BY <1>4, <2>1
  <2> QED BY <2>2 DEF WritesExclusive
<1>15. OneRole'
  BY DEF HolderRelease, OneRole, IInv, TypeOK, Table, PoolPath
<1>16. CallShape'
  <2>1. /\ op' = [op EXCEPT ![h] = "release"] /\ stage' = [stage EXCEPT ![h] = "poison"]
        /\ frozen' = frozen /\ adopting' = adopting /\ op[h] = "rest"
        /\ shared' = [shared EXCEPT ![h] = {}] /\ materialized' = [materialized EXCEPT ![h] = {}]
        /\ reserve' = [reserve EXCEPT ![h] = {}]
    BY DEF HolderRelease, Resting
  <2> QED BY <1>1, <1>2, <1>11, <2>1 DEF CallShape, IInv, TypeOK, PoolPath
<1>17. DirtyUntilPoisoned'
  BY DEF HolderRelease, DirtyUntilPoisoned, IInv, TypeOK
<1>18. NoUnderflow'
  <2>1. ~Underflows(refcount, T)
    BY <1>19 DEF Underflows
  <2> QED BY <1>8, <1>9, <2>1 DEF NoUnderflow, IInv
<1> QED BY <1>12, <1>13, <1>14, <1>15, <1>16, <1>17, <1>18 DEF IInv

LEMMA ReturnReserveKeeps ==
    ASSUME IInv, TypeOK', NEW h \in Holders, HolderReturnReserve(h)
    PROVE  IInv'
<1> DEFINE R == reserve[h]
           freed == {p \in R : refcount[p] > 0}
<1>1. /\ adopting[h] = {} /\ toFree[h] = {} /\ R \subseteq Held(h) /\ materialized[h] = {}
      /\ h \in Prefixes /\ h \notin Seqs
  BY HoldersAssumption DEF HolderReturnReserve, Resting, IInv, CallShape, Held
<1>2. /\ \A g \in Holders \ {h} : Held(g)' = Held(g) /\ Own(g)' = Own(g)
      /\ Held(h)' = Held(h) \ R /\ Own(h)' = {}
  BY <1>1 DEF HolderReturnReserve, Held, Table, Own, IInv, TypeOK, OneRole
<1>3. \A p \in R : p \in Pages /\ Owners(p) = {h} /\ refcount[p] = 1
  <2>1. \A p \in R : Owners(p) = {h} /\ p \in Pages
    BY DEF IInv, WritesExclusive, Own, TypeOK
  <2> QED BY <1>1, <2>1, TakeOne
<1>4. freed = R
  BY <1>3
<1>5. \A p \in Pages : refcount'[p] = IF p \in R THEN 0 ELSE refcount[p]
  BY <1>4 DEF HolderReturnReserve
<1>6. toFree'[h] = R /\ \A g \in Holders : g # h => toFree'[g] = toFree[g]
  BY <1>4 DEF HolderReturnReserve, IInv, TypeOK
<1> HIDE DEF R, freed
<1>7. \A p \in Pages : Owners(p)' = IF p \in R THEN {} ELSE Owners(p)
  <2>1. \A p \in Pages : h \in Owners(p) <=> p \in Held(h)
    BY DEF Owners
  <2>2. \A p \in Pages :
           Owners(p)' = IF p \in Held(h)' THEN Owners(p) \cup {h} ELSE Owners(p) \ {h}
    BY <1>2, OwnersOfStep
  <2>3. ASSUME NEW p \in Pages, p \in R PROVE Owners(p)' = {}
    BY <1>2, <1>3, <2>2, <2>3
  <2>4. ASSUME NEW p \in Pages, p \notin R PROVE Owners(p)' = Owners(p)
    BY <1>2, <2>1, <2>2, <2>4
  <2> QED BY <2>3, <2>4
<1>8. RefcountLaw'
  <2>1. ASSUME NEW p \in Pages, p \in R PROVE Follows(h, p)
    BY <1>3, <1>5, <1>7, <2>1 DEF Follows
  <2>2. ASSUME NEW p \in Pages, p \notin R PROVE Follows(h, p)
    BY <1>5, <1>7, <2>2 DEF Follows
  <2> QED BY <2>1, <2>2, LawFollows DEF IInv
<1>9. OnePlace'
  <2>1. ASSUME NEW p \in Pages
        PROVE  \/ p \notin toFree'[h] /\ (Owners(p)' = {} <=> Owners(p) = {})
               \/ p \in toFree'[h] /\ Owners(p) # {} /\ Owners(p)' = {}
    BY <1>3, <1>6, <1>7
  <2>2. onFree' = onFree
    BY DEF HolderReturnReserve
  <2> QED BY <1>1, <1>6, <2>1, <2>2, GiveUpPlace
<1>10. WritesExclusive'
  <2>1. \A g \in Holders : \A p \in Own(g)' : g # h /\ p \in Pages /\ Owners(p) = {g}
    BY <1>2 DEF IInv, TypeOK, Own, WritesExclusive
  <2>2. \A g \in Holders : \A p \in Own(g)' : Owners(p)' = {g}
    BY <1>3, <1>7, <2>1
  <2> QED BY <2>2 DEF WritesExclusive
<1>11. OneRole'
  BY DEF HolderReturnReserve, OneRole, IInv, TypeOK, Table, PoolPath
<1>12. CallShape'
  <2>1. /\ op' = [op EXCEPT ![h] = IF R = {} THEN "rest" ELSE "freeze"]
        /\ stage' = [stage EXCEPT ![h] = IF R = {} THEN "rest" ELSE "poison"]
        /\ frozen' = [frozen EXCEPT ![h] = TRUE]
        /\ adopting' = adopting /\ op[h] = "rest"
        /\ shared' = shared /\ materialized' = materialized
        /\ reserve' = [reserve EXCEPT ![h] = {}]
    BY DEF HolderReturnReserve, Resting, R
  <2> QED BY <1>1, <1>2, <1>6, <2>1 DEF CallShape, IInv, TypeOK, PoolPath
<1>13. DirtyUntilPoisoned'
  BY DEF HolderReturnReserve, DirtyUntilPoisoned, IInv, TypeOK
<1>14. NoUnderflow'
  BY <1>4 DEF HolderReturnReserve, NoUnderflow, IInv, R, freed
<1> QED BY <1>8, <1>9, <1>10, <1>11, <1>12, <1>13, <1>14 DEF IInv

-----------------------------------------------------------------------------
(* The invariant of the specification and what follows from it. *)

LEMMA InitIInv == Init => IInv
<1> SUFFICES ASSUME Init PROVE IInv
  OBVIOUS
<1>1. TypeOK
  BY TypeInit
<1>2. \A h \in Holders : /\ Held(h) = {} /\ Table(h) = {} /\ PoolPath(h) = {} /\ Own(h) = {}
                         /\ toFree[h] = {}
  BY DEF Init, Held, Table, PoolPath, Own
<1>3. (\A p \in Pages : Owners(p) = {}) /\ InFlight = {}
  BY <1>2 DEF Owners, InFlight
<1>4. RefcountLaw
  BY <1>3, FS_EmptySet DEF RefcountLaw, Init
<1>5. OnePlace
  BY <1>2, <1>3 DEF OnePlace, Init
<1>6. WritesExclusive
  BY <1>2 DEF WritesExclusive
<1>7. OneRole
  BY <1>2 DEF OneRole, Init
<1>8. CallShape
  BY <1>2 DEF CallShape, Init
<1>9. DirtyUntilPoisoned
  BY DEF DirtyUntilPoisoned, Init
<1>10. NoUnderflow
  BY DEF NoUnderflow, Init
<1> QED BY <1>1, <1>4, <1>5, <1>6, <1>7, <1>8, <1>9, <1>10 DEF IInv

LEMMA IInvStep == IInv /\ [Next]_vars => IInv'
<1> SUFFICES ASSUME IInv, [Next]_vars PROVE IInv'
  OBVIOUS
<1>1. TypeOK'
  BY TypeStep DEF IInv
<1>2. CASE UNCHANGED vars
  <2>1. UNCHANGED <<onFree, refcount, dirty, rows, sharedMaps, sharedDistinct, shared, materialized, private,
                    reserve, op, stage, adopting, source, toFree, frozen, underflow>>
    BY <1>2 DEF vars, poolVars, tableVars, callVars
  <2>2. /\ \A h \in Holders : Held(h)' = Held(h) /\ Table(h)' = Table(h) /\ PoolPath(h)' = PoolPath(h)
        /\ InFlight' = InFlight /\ OnFreeList' = OnFreeList
    BY <2>1 DEF Held, Table, PoolPath, InFlight, OnFreeList
  <2>3. \A p : Owners(p)' = Owners(p)
    BY <2>2 DEF Owners
  <2>4. RefcountLaw' /\ OnePlace'
    <3>1. RefcountLaw'
      BY <2>1, <2>3 DEF IInv, RefcountLaw
    <3>2. OnePlace'
      BY <2>1, <2>2, <2>3 DEF IInv, OnePlace
    <3> QED BY <3>1, <3>2
  <2>5. WritesExclusive'
    <3>1. \A h \in Holders : Own(h)' = Own(h)
      BY <2>1 DEF Own
    <3> QED BY <2>3, <3>1 DEF IInv, WritesExclusive
  <2>6. OneRole'
    BY <2>1, <2>2 DEF IInv, OneRole
  <2>7. CallShape'
    BY <2>1, <2>2 DEF IInv, CallShape
  <2>8. DirtyUntilPoisoned' /\ NoUnderflow'
    BY <2>1, <2>2 DEF IInv, DirtyUntilPoisoned, NoUnderflow
  <2> QED BY <1>1, <2>4, <2>5, <2>6, <2>7, <2>8 DEF IInv
<1>3. CASE Next
  BY <1>1, <1>3, CreateKeeps, MapNextKeeps, WriteRowKeeps, MapMaterializedKeeps, UnmapTailKeeps,
     ShareLeadingKeeps, AdoptShareKeeps, UnmapAllKeeps, ReleaseKeeps, ReturnReserveKeeps,
     PoisonKeeps, PushKeeps, FinishKeeps
     DEF Next
<1> QED BY <1>2, <1>3

\* Every conjunct of the inductive invariant holds in every reachable state.
THEOREM Invariance == Spec => []IInv
BY InitIInv, IInvStep, PTL DEF Spec

\* A page's refcount is the number of holders that have it, whatever the calls in
\* progress (the refcount law of src/src/kv_pages.h).
THEOREM RefcountLawHolds == Spec => []RefcountLaw
<1>1. IInv => RefcountLaw
  BY DEF IInv
<1> QED BY <1>1, Invariance, PTL

\* No page is lost, freed twice, or free while some table names it.
THEOREM OnePlaceHolds == Spec => []OnePlace
<1>1. IInv => OnePlace
  BY DEF IInv
<1> QED BY <1>1, Invariance, PTL

\* A page that can be drawn has been poisoned since it was last written.
THEOREM NoStaleRowsHolds == Spec => []NoStaleRows
<1>1. IInv => NoStaleRows
  BY DEF IInv, NoStaleRows, DirtyUntilPoisoned
<1> QED BY <1>1, Invariance, PTL

\* The release-build underflow report of the decrement is unreachable.
THEOREM NoUnderflowHolds == Spec => []NoUnderflow
<1>1. IInv => NoUnderflow
  BY DEF IInv
<1> QED BY <1>1, Invariance, PTL

\* A page its holder may still write is nobody else's.
THEOREM WritesExclusiveHolds == Spec => []WritesExclusive
<1>1. IInv => WritesExclusive
  BY DEF IInv
<1> QED BY <1>1, Invariance, PTL

\* Rows that two holders see do not change: only a page its writer has to itself is
\* written, and only a page nobody has is poisoned.
LEMMA SharedBytesStep ==
    ASSUME IInv, [Next]_vars, NEW p \in Pages, Cardinality(Owners(p)) > 1
    PROVE  p \in rows <=> p \in rows'
<1>1. \A h : Owners(p) # {h} /\ Owners(p) # {}
  <2>1. Owners(p) # {}
    BY OwnersFinite
  <2>2. ASSUME NEW h, Owners(p) = {h} PROVE FALSE
    BY <2>2, OwnersFinite
  <2> QED BY <2>1, <2>2
<1>2. ASSUME NEW h \in Holders, NEW q \in Pages, WriteRow(h, q)
      PROVE  p \in rows <=> p \in rows'
  <2>1. q \in Own(h)
    BY <1>2 DEF WriteRow, Own
  <2>2. q # p
    BY <1>1, <2>1 DEF IInv, WritesExclusive
  <2> QED BY <1>2, <2>2 DEF WriteRow
<1>3. ASSUME NEW h \in Holders, PoisonIfDirty(h)
      PROVE  p \in rows <=> p \in rows'
  <2>1. p \notin toFree[h]
    BY <1>1 DEF IInv, OnePlace, InFlight
  <2> QED BY <1>3, <2>1 DEF PoisonIfDirty
<1>4. CASE rows' = rows
  BY <1>4
<1> QED BY <1>2, <1>3, <1>4 DEF Next, vars, poolVars, HolderCreate, HolderMapNext,
        HolderMapMaterialized, HolderUnmapTail, HolderShareLeading, HolderAdoptShare,
        HolderUnmapAll, HolderRelease, HolderReturnReserve, PushFree, Finish

\* The bytes of a page that two holders have never change under them.
THEOREM SharedBytesFixedHolds == Spec => SharedBytesFixed
<1>1. IInv /\ [Next]_vars => [\A p \in Pages : Cardinality(Owners(p)) > 1 => (p \in rows <=> p \in rows')]_vars
  BY SharedBytesStep
<1> QED BY <1>1, Invariance, PTL DEF Spec, SharedBytesFixed

-----------------------------------------------------------------------------
(* What the pool reports as shared (SharedStats).  Entering a page and leaving *)
(* it are separate updates of two counters; they add up because a call enters  *)
(* or leaves the entries of one holder, each of them once.                     *)

\* The pages a holder maps by sharing, or is about to, and who so maps a page.
Sharing(h) == shared[h] \cup adopting[h]
Sharers(p) == {h \in Holders : p \in Sharing(h)}

LEMMA SharersFinite ==
    ASSUME NEW p
    PROVE  /\ IsFiniteSet(Sharers(p)) /\ Cardinality(Sharers(p)) \in Nat
           /\ Cardinality(Sharers(p)) = 0 <=> Sharers(p) = {}
           /\ Cardinality(Sharers(p)) = 1 <=> \E h : Sharers(p) = {h}
<1>1. Sharers(p) \in SUBSET Holders
  BY DEF Sharers
<1>2. IsFiniteSet(Sharers(p))
  BY <1>1, HoldersAssumption, FS_Subset
<1> QED BY <1>2, FS_CardinalityType, FS_EmptySet, FS_Singleton

LEMMA StatsSame ==
    ASSUME SharedStats, \A h \in Holders : Sharing(h)' = Sharing(h),
           sharedMaps' = sharedMaps, sharedDistinct' = sharedDistinct
    PROVE  SharedStats'
BY DEF SharedStats, Sharing

\* Holder h enters the pages of In and leaves those of Out: the maps of a page it
\* enters go up before those of a page it leaves go down.
LEMMA StatsExchange ==
    ASSUME TypeOK, SharedStats, NEW h \in Holders, NEW In \in SUBSET Pages, NEW Out \in SUBSET Pages,
           Sharing(h) = Out, Sharing(h)' = In,
           \A g \in Holders \ {h} : Sharing(g)' = Sharing(g),
           sharedMaps' = MapsDown(MapsUp(In), Out),
           sharedDistinct' = DistinctDown(DistinctUp(In), MapsUp(In), Out)
    PROVE  SharedStats'
<1> DEFINE Mapped == {p \in Pages : Sharers(p) # {}}
           First  == {p \in In : sharedMaps[p] = 0}
           Last   == {p \in Out : MapsUp(In)[p] = 1}
<1>1. \A p \in Pages : sharedMaps[p] = Cardinality(Sharers(p)) /\ sharedMaps[p] \in Nat
  BY DEF SharedStats, Sharers, Sharing, TypeOK
<1>2. sharedDistinct = Cardinality(Mapped)
  <2>1. Mapped = {p \in Pages : \E g \in Holders : p \in shared[g] \cup adopting[g]}
    BY DEF Sharers, Sharing
  <2> QED BY <2>1 DEF SharedStats
<1>3. \A p \in Pages : Sharers(p)' = IF p \in In THEN Sharers(p) \cup {h} ELSE Sharers(p) \ {h}
  BY DEF Sharers
<1>4. \A p \in Pages : h \in Sharers(p) <=> p \in Out
  BY DEF Sharers
<1>5. \A p \in Pages : MapsUp(In)[p] = IF p \in In THEN sharedMaps[p] + 1 ELSE sharedMaps[p]
  BY DEF MapsUp
<1>6. \A p \in Pages : sharedMaps'[p] = IF p \in Out /\ MapsUp(In)[p] > 0
                                          THEN MapsUp(In)[p] - 1 ELSE MapsUp(In)[p]
  BY DEF MapsDown
<1>7. \A p \in Pages : p \in Out => sharedMaps[p] > 0
  BY <1>1, <1>4, SharersFinite
<1>8. ASSUME NEW p \in Pages PROVE sharedMaps'[p] = Cardinality(Sharers(p)')
  <2>0. IsFiniteSet(Sharers(p))
    BY SharersFinite
  <2>1. CASE p \in In /\ p \in Out
    <3>1. Sharers(p)' = Sharers(p)
      BY <1>3, <1>4, <2>1
    <3> QED BY <1>1, <1>5, <1>6, <1>7, <2>1, <3>1
  <2>2. CASE p \in In /\ p \notin Out
    <3>1. Sharers(p)' = Sharers(p) \cup {h} /\ h \notin Sharers(p)
      BY <1>3, <1>4, <2>2
    <3>2. Cardinality(Sharers(p)') = Cardinality(Sharers(p)) + 1
      BY <2>0, <3>1, FS_AddElement
    <3> QED BY <1>1, <1>5, <1>6, <2>2, <3>2
  <2>3. CASE p \notin In /\ p \in Out
    <3>1. Sharers(p)' = Sharers(p) \ {h} /\ h \in Sharers(p)
      BY <1>3, <1>4, <2>3
    <3>2. Cardinality(Sharers(p)') = Cardinality(Sharers(p)) - 1
      BY <2>0, <3>1, FS_RemoveElement
    <3> QED BY <1>1, <1>5, <1>6, <1>7, <2>3, <3>2
  <2>4. CASE p \notin In /\ p \notin Out
    <3>1. Sharers(p)' = Sharers(p)
      BY <1>3, <1>4, <2>4
    <3> QED BY <1>1, <1>5, <1>6, <2>4, <3>1
  <2> QED BY <2>1, <2>2, <2>3, <2>4
<1>9. Mapped \in SUBSET Pages /\ First \in SUBSET Pages /\ Last \in SUBSET Pages
  OBVIOUS
<1>10. \A S \in SUBSET Pages : IsFiniteSet(S) /\ Cardinality(S) \in Nat
  BY PagesAssumption, FS_Subset, FS_CardinalityType
<1>11. Mapped \cap First = {}
  BY <1>1, SharersFinite
<1>12. \A p \in Pages : p \in Last <=> p \in Out /\ p \notin In /\ Sharers(p) = {h}
  <2>1. ASSUME NEW p \in Pages, p \in Out
        PROVE  MapsUp(In)[p] = 1 <=> p \notin In /\ Sharers(p) = {h}
    <3>1. sharedMaps[p] = 1 <=> \E g : Sharers(p) = {g}
      BY <1>1, SharersFinite
    <3>2. sharedMaps[p] = 1 <=> Sharers(p) = {h}
      BY <1>4, <2>1, <3>1
    <3> QED BY <1>1, <1>5, <1>7, <2>1, <3>2
  <2> QED BY <2>1
<1>13. Last \subseteq Mapped \cup First
  BY <1>9, <1>12
<1>14. {p \in Pages : Sharers(p)' # {}} = (Mapped \cup First) \ Last
  <2>1. ASSUME NEW p \in Pages
        PROVE  Sharers(p)' # {} <=> (Sharers(p) # {} \/ p \in First) /\ p \notin Last
    <3>1. p \in First <=> p \in In /\ Sharers(p) = {}
      BY <1>1, SharersFinite
    <3>2. CASE p \in In
      BY <1>3, <1>12, <3>1, <3>2
    <3>3. CASE p \notin In
      BY <1>3, <1>4, <1>12, <3>1, <3>3
    <3> QED BY <3>2, <3>3
  <2> QED BY <1>9, <2>1
<1>15. Cardinality(Mapped \cup First) = Cardinality(Mapped) + Cardinality(First)
  <2>1. IsFiniteSet(Mapped) /\ IsFiniteSet(First)
    BY <1>9, <1>10
  <2>2. Cardinality(Mapped \cap First) = 0
    BY <1>11, FS_EmptySet
  <2>3. Cardinality(Mapped) \in Nat /\ Cardinality(First) \in Nat
    BY <1>9, <1>10
  <2> HIDE DEF Mapped, First
  <2>4. Cardinality(Mapped \cup First) =
           Cardinality(Mapped) + Cardinality(First) - Cardinality(Mapped \cap First)
    BY <2>1, FS_Union, Zenon
  <2> QED BY <2>2, <2>3, <2>4
<1>16. Cardinality((Mapped \cup First) \ Last) = Cardinality(Mapped \cup First) - Cardinality(Last)
  <2>1. (Mapped \cup First) \cap Last = Last
    BY <1>13
  <2>2. IsFiniteSet(Mapped \cup First)
    BY <1>9, <1>10
  <2> HIDE DEF Mapped, First, Last
  <2> QED BY <2>1, <2>2, FS_Difference
<1>17. sharedDistinct' = (sharedDistinct + Cardinality(First)) - Cardinality(Last)
  BY DEF DistinctUp, DistinctDown
<1>18. sharedDistinct' = Cardinality({p \in Pages : Sharers(p)' # {}})
  <2>1. Cardinality({p \in Pages : Sharers(p)' # {}}) = Cardinality((Mapped \cup First) \ Last)
    BY <1>14, Zenon
  <2>2. Cardinality(Mapped) \in Nat /\ Cardinality(First) \in Nat /\ Cardinality(Last) \in Nat
    BY <1>9, <1>10
  <2> HIDE DEF Mapped, First, Last
  <2> QED BY <1>2, <1>15, <1>16, <1>17, <2>1, <2>2
<1>19. {p \in Pages : Sharers(p)' # {}} = {p \in Pages : \E g \in Holders : p \in shared'[g] \cup adopting'[g]}
  BY DEF Sharers, Sharing
<1>20. \A p \in Pages : Sharers(p)' = {g \in Holders : p \in shared'[g] \cup adopting'[g]}
  BY DEF Sharers, Sharing
<1>21. sharedDistinct' = Cardinality({p \in Pages : \E g \in Holders : p \in shared'[g] \cup adopting'[g]})
  BY <1>18, <1>19, Zenon
<1>22. \A p \in Pages : sharedMaps'[p] = Cardinality({g \in Holders : p \in shared'[g] \cup adopting'[g]})
  BY <1>8, <1>20, Zenon
<1> QED BY <1>21, <1>22 DEF SharedStats

\* Nothing entered, nothing left.
LEMMA NoneEntered ==
    ASSUME TypeOK
    PROVE  MapsUp({}) = sharedMaps /\ DistinctUp({}) = sharedDistinct
<1>1. {p \in {} : sharedMaps[p] = 0} = {}
  OBVIOUS
<1>2. Cardinality({p \in {} : sharedMaps[p] = 0}) = 0
  BY <1>1, FS_EmptySet, Zenon
<1> QED BY <1>2 DEF MapsUp, DistinctUp, TypeOK

LEMMA NoneLeft ==
    ASSUME NEW m \in [Pages -> Nat], NEW n \in Int
    PROVE  MapsDown(m, {}) = m /\ DistinctDown(n, m, {}) = n
<1>1. {p \in {} : m[p] = 1} = {}
  OBVIOUS
<1>2. Cardinality({p \in {} : m[p] = 1}) = 0
  BY <1>1, FS_EmptySet, Zenon
<1> QED BY <1>2 DEF MapsDown, DistinctDown

\* Only a share, an adopt, an unmap and a release touch the counters; each at once
\* with the entries of its own holder, whose call before was at rest.
LEMMA StatsStep == IInv /\ SharedStats /\ [Next]_vars => SharedStats'
<1> SUFFICES ASSUME IInv, SharedStats, [Next]_vars PROVE SharedStats'
  OBVIOUS
<1> USE DEF poolVars, tableVars, callVars
<1>0. TypeOK /\ \A h \in Holders : /\ Resting(h) => adopting[h] = {} /\ Sharing(h) = shared[h]
                                   /\ Sharing(h) \in SUBSET Pages /\ shared[h] \in SUBSET Pages
  BY DEF IInv, CallShape, Resting, Sharing, TypeOK
<1>1. ASSUME NEW h \in Holders, NEW s \in Holders, NEW S \in SUBSET Pages, HolderShareLeading(h, s, S)
      PROVE  SharedStats'
  <2>1. /\ sharedMaps' = MapsUp(S) /\ sharedDistinct' = DistinctUp(S)
        /\ shared' = [shared EXCEPT ![h] = S] /\ adopting' = adopting
        /\ Resting(h) /\ Table(h) = {}
    BY <1>1 DEF HolderShareLeading
  <2>2. Sharing(h) = {} /\ Sharing(h)' = S
    BY <1>0, <2>1 DEF Table, Sharing, TypeOK
  <2>3. \A g \in Holders \ {h} : Sharing(g)' = Sharing(g)
    BY <1>0, <2>1 DEF Sharing, TypeOK
  <2>4. MapsUp(S) \in [Pages -> Nat] /\ DistinctUp(S) \in Int
    <3>1. refcount \in [Pages -> 0 .. MaxRef] /\ sharedMaps \in [Pages -> Nat] /\ sharedDistinct \in Int
      BY <1>0 DEF TypeOK
    <3> QED BY <1>0, <3>1, CountTypes, SharedCountType
  <2>5. sharedMaps' = MapsDown(MapsUp(S), {})
    BY <2>1, <2>4, NoneLeft
  <2>6. sharedDistinct' = DistinctDown(DistinctUp(S), MapsUp(S), {})
    BY <2>1, <2>4, NoneLeft
  <2> QED BY <1>0, <2>2, <2>3, <2>5, <2>6, StatsExchange
<1>2. ASSUME NEW h \in Holders, NEW s \in Holders, NEW S \in SUBSET Pages, HolderAdoptShare(h, s, S)
      PROVE  SharedStats'
  <2>1. /\ sharedMaps' = MapsDown(MapsUp(S), shared[h])
        /\ sharedDistinct' = DistinctDown(DistinctUp(S), MapsUp(S), shared[h])
        /\ shared' = [shared EXCEPT ![h] = {}] /\ adopting' = [adopting EXCEPT ![h] = S]
        /\ Resting(h)
    BY <1>2 DEF HolderAdoptShare
  <2>2. Sharing(h) = shared[h] /\ Sharing(h)' = S
    BY <1>0, <2>1 DEF Sharing, TypeOK
  <2>3. \A g \in Holders \ {h} : Sharing(g)' = Sharing(g)
    BY <1>0, <2>1 DEF Sharing, TypeOK
  <2> QED BY <1>0, <2>1, <2>2, <2>3, StatsExchange
<1>3. ASSUME NEW h \in Holders, HolderUnmapAll(h) \/ HolderRelease(h) PROVE SharedStats'
  <2>1. /\ sharedMaps' = MapsDown(sharedMaps, shared[h])
        /\ sharedDistinct' = DistinctDown(sharedDistinct, sharedMaps, shared[h])
        /\ shared' = [shared EXCEPT ![h] = {}] /\ adopting' = adopting
        /\ Resting(h)
    BY <1>3 DEF HolderUnmapAll, HolderRelease
  <2>2. Sharing(h) = shared[h] /\ Sharing(h)' = {}
    BY <1>0, <2>1 DEF Sharing, TypeOK
  <2>3. \A g \in Holders \ {h} : Sharing(g)' = Sharing(g)
    BY <1>0, <2>1 DEF Sharing, TypeOK
  <2>4. MapsUp({}) = sharedMaps /\ DistinctUp({}) = sharedDistinct
    BY <1>0, NoneEntered
  <2>5. sharedMaps' = MapsDown(MapsUp({}), shared[h])
    BY <2>1, <2>4
  <2>6. sharedDistinct' = DistinctDown(DistinctUp({}), MapsUp({}), shared[h])
    BY <2>1, <2>4
  <2> QED BY <1>0, <2>2, <2>3, <2>5, <2>6, StatsExchange
<1>4. ASSUME NEW h \in Holders, Finish(h) PROVE SharedStats'
  <2>1. \A g \in Holders : Sharing(g)' = Sharing(g)
    BY <1>0, <1>4 DEF Finish, Sharing, TypeOK
  <2> QED BY <1>4, <2>1, StatsSame DEF Finish
<1>5. ASSUME NEW h \in Holders,
             \/ \E S \in SUBSET Pages : \/ HolderCreate(h, S) \/ HolderMapMaterialized(h, S)
                                        \/ HolderUnmapTail(h, S)
             \/ \E p \in Pages : HolderMapNext(h, p) \/ WriteRow(h, p)
             \/ HolderReturnReserve(h) \/ PoisonIfDirty(h) \/ PushFree(h)
      PROVE  SharedStats'
  <2>1. shared' = shared /\ adopting' = adopting /\ sharedMaps' = sharedMaps /\ sharedDistinct' = sharedDistinct
    BY <1>5 DEF HolderCreate, HolderMapMaterialized, HolderUnmapTail, HolderMapNext, WriteRow,
                HolderReturnReserve, PoisonIfDirty, PushFree
  <2> QED BY <2>1, StatsSame DEF Sharing
<1>6. CASE UNCHANGED vars
  BY <1>6, StatsSame DEF Sharing, vars
<1> QED BY <1>1, <1>2, <1>3, <1>4, <1>5, <1>6 DEF Next

LEMMA StatsInit == Init => SharedStats
<1> SUFFICES ASSUME Init PROVE SharedStats
  OBVIOUS
<1>1. \A p \in Pages : {h \in Holders : p \in shared[h] \cup adopting[h]} = {}
  BY DEF Init
<1>2. {p \in Pages : \E h \in Holders : p \in shared[h] \cup adopting[h]} = {}
  BY DEF Init
<1>3. Cardinality({p \in Pages : \E h \in Holders : p \in shared[h] \cup adopting[h]}) = 0
  BY <1>2, FS_EmptySet, Zenon
<1>4. \A p \in Pages : Cardinality({h \in Holders : p \in shared[h] \cup adopting[h]}) = 0
  BY <1>1, FS_EmptySet, Zenon
<1> QED BY <1>3, <1>4 DEF Init, SharedStats

\* What sslm_kv_pool_stats reports as shared is exact at every release of the pool
\* mutex, though an adopt counts its pages before it has them in its table.
THEOREM SharedStatsHolds == Spec => []SharedStats
<1>1. Init => IInv /\ SharedStats
  BY InitIInv, StatsInit
<1>2. IInv /\ SharedStats /\ [Next]_vars => (IInv /\ SharedStats)'
  BY IInvStep, StatsStep
<1> QED BY <1>1, <1>2, PTL DEF Spec

-----------------------------------------------------------------------------
(* The allocator implements PageLease. *)

LEMMA LeaseUnchanged ==
    ASSUME \A g \in Holders : Held(g)' = Held(g), onFree' = onFree, rows' = rows
    PROVE  UNCHANGED Lease!leaseVars
<1>1. \A p : Owners(p)' = Owners(p)
  BY DEF Owners
<1> QED BY <1>1 DEF Lease!leaseVars

\* The first section of a call that gives pages up or shares them.
LEMMA GiveUpExchanges ==
    ASSUME IInv, IInv', NEW h \in Holders,
           onFree' = onFree, rows' = rows, toFree[h] = {},
           \A g \in Holders \ {h} : Held(g)' = Held(g) /\ toFree'[g] = toFree[g]
    PROVE  Lease!Exchange(h)
<1>1. \A p \in Pages : Owners(p)' \ {h} = Owners(p) \ {h}
  BY DEF Owners
<1>2. InFlight \subseteq InFlight'
  BY DEF InFlight
<1>3. \A p \in Pages : Owners(p) = {} => Owners(p)' = {}
  BY <1>2 DEF IInv, OnePlace
<1> QED BY <1>1, <1>3 DEF Lease!Exchange

LEMMA LeaseStep == IInv /\ IInv' /\ [Next]_vars => [Lease!Next]_(Lease!leaseVars)
<1> SUFFICES ASSUME IInv, IInv', [Next]_vars
             PROVE  Lease!Next \/ UNCHANGED Lease!leaseVars
  OBVIOUS
<1> USE DEF poolVars, tableVars, callVars
<1>1. ASSUME NEW h \in Holders, NEW S \in SUBSET Pages, HolderCreate(h, S)
      PROVE  Lease!Exchange(h)
  <2>1. \A p \in Pages : Owners(p)' \ {h} = Owners(p) \ {h}
    BY <1>1 DEF Owners, HolderCreate, Held, Table, IInv, TypeOK
  <2>2. Held(h)' = S
    BY <1>1 DEF HolderCreate, IInv, CallShape, Held, Table, TypeOK
  <2>3. \A p \in Pages : p \in S => Owners(p) = {} /\ Owners(p)' # {}
    BY <1>1, <2>2 DEF Owners, HolderCreate, IInv, OnePlace
  <2>4. \A p \in Pages : p \notin S => (Owners(p) = {} => Owners(p)' = {})
    BY <2>1, <2>2 DEF Owners
  <2>5. \A p \in Pages : onFree'[p] > 0 <=> onFree[p] > 0 /\ p \notin S
    BY <1>1 DEF HolderCreate, IInv, OnePlace
  <2>6. \A p \in S : p \in Pages /\ onFree[p] > 0
    BY <1>1 DEF HolderCreate
  <2>7. {p \in Pages : Owners(p) = {} /\ Owners(p)' # {}} = S
    BY <2>3, <2>4
  <2>8. {p \in Pages : onFree'[p] > 0} = {p \in Pages : onFree[p] > 0} \ S
    BY <2>5
  <2>9. rows' = rows
    BY <1>1 DEF HolderCreate
  <2> QED BY <2>1, <2>6, <2>7, <2>8, <2>9 DEF Lease!Exchange
<1>2. ASSUME NEW h \in Holders, NEW p \in Pages, HolderMapNext(h, p)
      PROVE  UNCHANGED Lease!leaseVars
  BY <1>2, LeaseUnchanged DEF HolderMapNext, Held, Table, IInv, TypeOK
<1>3. ASSUME NEW h \in Holders, NEW p \in Pages, WriteRow(h, p)
      PROVE  Lease!Write(h)
  <2>1. Owners(p) = {h}
    BY <1>3 DEF WriteRow, IInv, WritesExclusive, Own
  <2>2. \A q : Owners(q)' = Owners(q)
    BY <1>3 DEF WriteRow, Owners, Held, Table
  <2> QED BY <1>3, <2>1, <2>2 DEF WriteRow, Lease!Write
<1>4. ASSUME NEW h \in Holders, NEW S \in SUBSET Pages, HolderMapMaterialized(h, S)
      PROVE  UNCHANGED Lease!leaseVars
  BY <1>4, LeaseUnchanged DEF HolderMapMaterialized, Held, Table, IInv, TypeOK
<1>5. ASSUME NEW h \in Holders, NEW S \in SUBSET Pages, HolderUnmapTail(h, S)
      PROVE  UNCHANGED Lease!leaseVars
  BY <1>5, LeaseUnchanged DEF HolderUnmapTail, Held, Table, IInv, TypeOK
<1>6. ASSUME NEW h \in Holders, NEW s \in Holders, NEW S \in SUBSET Pages, HolderShareLeading(h, s, S)
      PROVE  Lease!Exchange(h)
  BY <1>6, GiveUpExchanges DEF HolderShareLeading, Resting, Held, Table, IInv, TypeOK, CallShape
<1>7. ASSUME NEW h \in Holders, NEW s \in Holders, NEW S \in SUBSET Pages, HolderAdoptShare(h, s, S)
      PROVE  Lease!Exchange(h)
  BY <1>7, GiveUpExchanges DEF HolderAdoptShare, Resting, Held, Table, IInv, TypeOK, CallShape
<1>8. ASSUME NEW h \in Holders, HolderUnmapAll(h)
      PROVE  Lease!Exchange(h)
  BY <1>8, GiveUpExchanges DEF HolderUnmapAll, Resting, Held, Table, IInv, TypeOK, CallShape
<1>9. ASSUME NEW h \in Holders, HolderRelease(h)
      PROVE  Lease!Exchange(h)
  BY <1>9, GiveUpExchanges DEF HolderRelease, Resting, Held, Table, IInv, TypeOK, CallShape
<1>10. ASSUME NEW h \in Holders, HolderReturnReserve(h)
       PROVE  Lease!Exchange(h)
  BY <1>10, GiveUpExchanges DEF HolderReturnReserve, Resting, Held, Table, IInv, TypeOK, CallShape
<1>11. ASSUME NEW h \in Holders, PoisonIfDirty(h)
       PROVE  Lease!Wipe
  <2>1. \A p \in toFree[h] : Owners(p) = {} /\ onFree[p] = 0
    <3>1. \A p \in toFree[h] : p \in Pages /\ p \in InFlight
      BY DEF InFlight, IInv, TypeOK
    <3> QED BY <3>1 DEF IInv, OnePlace
  <2>2. \A q : Owners(q)' = Owners(q)
    BY <1>11 DEF PoisonIfDirty, Owners, Held, Table
  <2>3. rows \ rows' \subseteq toFree[h] /\ rows' \subseteq rows /\ onFree' = onFree
    BY <1>11 DEF PoisonIfDirty
  <2>4. rows \subseteq Pages
    BY DEF IInv, TypeOK
  <2> QED BY <2>1, <2>2, <2>3, <2>4 DEF Lease!Wipe
<1>12. ASSUME NEW h \in Holders, PushFree(h)
       PROVE  Lease!Return
  <2>1. \A p \in toFree[h] : Owners(p) = {} /\ p \notin rows
    <3> TAKE p \in toFree[h]
    <3>1. /\ stage[h] = "push" /\ p \in Pages /\ p \in InFlight
      BY <1>12 DEF PushFree, IInv, TypeOK, InFlight
    <3>2. Owners(p) = {}
      BY <3>1 DEF IInv, OnePlace
    <3>3. p \notin dirty /\ rows \subseteq dirty
      BY <3>1 DEF IInv, DirtyUntilPoisoned
    <3> QED BY <3>2, <3>3
  <2>2. \A q : Owners(q)' = Owners(q)
    BY <1>12 DEF PushFree, Owners, Held, Table
  <2>3. \A p \in Pages : /\ onFree[p] > 0 => onFree'[p] > 0
                         /\ onFree'[p] > 0 /\ ~(onFree[p] > 0) => p \in toFree[h]
    BY <1>12 DEF PushFree, IInv, TypeOK
  <2>4. rows' = rows
    BY <1>12 DEF PushFree
  <2> QED BY <2>1, <2>2, <2>3, <2>4 DEF Lease!Return
<1>13. ASSUME NEW h \in Holders, Finish(h)
       PROVE  UNCHANGED Lease!leaseVars
  <2>1. \A g \in Holders : Held(g)' = Held(g)
    <3>1. CASE op[h] \in {"unmap", "adopt"}
      BY <1>13, <3>1 DEF Finish, Held, Table, IInv, TypeOK
    <3>2. CASE op[h] \notin {"unmap", "adopt"}
      BY <1>13, <3>2 DEF Finish, Held, Table, IInv, TypeOK
    <3> QED BY <3>1, <3>2
  <2> QED BY <1>13, <2>1, LeaseUnchanged DEF Finish
<1>14. CASE UNCHANGED vars
  BY <1>14, LeaseUnchanged DEF vars, Held, Table
<1> QED BY <1>1, <1>2, <1>3, <1>4, <1>5, <1>6, <1>7, <1>8, <1>9, <1>10, <1>11, <1>12, <1>13,
        <1>14 DEF Next, Lease!Next

LEMMA LeaseInit == Init => Lease!Init
<1> SUFFICES ASSUME Init PROVE Lease!Init
  OBVIOUS
<1>1. \A p \in Pages : Owners(p) = {}
  BY DEF Init, Owners, Held, Table
<1> QED BY <1>1 DEF Init, Lease!Init

\* Every behaviour of the allocator, with its split sections and interleaved calls,
\* is one in which pages are lent, taken back, wiped and lent again as PageLease says.
THEOREM LeasesHolds == Spec => Leases
BY LeaseInit, LeaseStep, Invariance, PTL DEF Spec, Leases, Lease!Spec
=============================================================================
