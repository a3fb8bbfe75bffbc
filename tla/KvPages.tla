------------------------------ MODULE KvPages ------------------------------
(***************************************************************************)
(* The page allocator of the paged K/V cache (src/src/kv_pages.{h,cpp}),   *)
(* at the granularity of its critical sections.                            *)
(*                                                                         *)
(* A pool lends pages to holders (sequences and prefixes).  Each holder    *)
(* has one caller at a time; different holders are driven by different     *)
(* threads.  Refcounts and the free list change only under the pool        *)
(* mutex, but freeing a page takes two sections: the first takes the last  *)
(* reference away, the poison fill runs with no lock held, and the second  *)
(* pushes the page on the free list.  Between them the page is "in         *)
(* flight": nobody owns it and nobody may draw it.                         *)
(*                                                                         *)
(* A table and a reserve are sets here: the order of their entries, and    *)
(* which positions a page covers, belong to PagedKv.  The calls enumerated *)
(* are those src/src/sslm_abi.cpp makes: only a frozen prefix is a share   *)
(* source, a fresh holder is a share's destination, and only a sequence    *)
(* adopts, materializes or rolls back.                                     *)
(***************************************************************************)
EXTENDS Integers, FiniteSets

CONSTANTS
    Pages,         \* the pool's page indices
    Seqs,          \* the holders behind an sslm_seq
    Prefixes,      \* the holders behind an sslm_prefix
    TableEntries,  \* entries of a holder's page table
    MaxRef         \* the largest value a refcount holds (UINT32_MAX in the code)

Holders == Seqs \cup Prefixes

ASSUME PagesAssumption   == IsFiniteSet(Pages)
ASSUME HoldersAssumption == IsFiniteSet(Holders) /\ Seqs \cap Prefixes = {}
ASSUME LimitsAssumption  == TableEntries \in Nat \ {0} /\ MaxRef \in Nat \ {0}

VARIABLES
    onFree,          \* how many times each page is on the free list
    refcount,        \* PagePool::refcount
    dirty,           \* pages whose dirty flag is set
    rows,            \* pages whose bytes hold rows somebody wrote
    sharedMaps,      \* PagePool::shared_maps
    sharedDistinct,  \* PagePool::shared_distinct
    op,              \* what the holder's caller is inside ("none": no such holder)
    stage,           \* how far that call has come
    shared,          \* table entries that entered by sharing
    materialized,    \* table entries of a restore without sharing
    private,         \* table entries that came from the holder's own reserve
    reserve,         \* the holder's own stack of pages
    adopting,        \* pages an adopt has counted and not yet entered in its table
    source,          \* the prefix an adopt is reading, if any
    toFree,          \* pages whose last reference this call took away
    frozen,          \* sslm_prefix_s::frozen
    underflow        \* some call reported kRefcountUnderflow

poolVars   == <<onFree, refcount, dirty, rows, sharedMaps, sharedDistinct>>
tableVars  == <<shared, materialized, private, reserve>>
callVars   == <<op, stage, adopting, source, toFree>>
vars       == <<poolVars, tableVars, callVars, frozen, underflow>>

Ops    == {"none", "rest", "unmap", "adopt", "release", "freeze"}
Stages == {"rest", "poison", "push", "finish"}

-----------------------------------------------------------------------------
(* What a holder has. *)

Table(h) == shared[h] \cup materialized[h] \cup private[h]

\* Faults: the materialized entries forgotten; the private ones given back as well.
PoolPathSharedOnly(h) == shared[h]
PoolPathWholeTable(h) == Table(h)

\* Entries an unmap gives back to the pool.
PoolPath(h) == shared[h] \cup materialized[h]
Held(h)  == Table(h) \cup reserve[h] \cup adopting[h]
Owners(p) == {h \in Holders : p \in Held(h)}

\* A holder whose caller is between two calls, and that no adopt is reading.
Resting(h) == op[h] = "rest"
Unread(h)  == \A d \in Holders : h \notin source[d]

InFlight == UNION {toFree[h] : h \in Holders}

\* The pages of PagePool::free_list.
OnFreeList == {p \in Pages : onFree[p] > 0}

\* Fault: rows are written from the holder's first page on.
WritableWholeTable(h) == shared[h] \cup private[h] \cup materialized[h]

\* The pages at or after a holder's origin: those that did not enter by sharing.
Writable(h) == private[h] \cup materialized[h]

\* Fault: a prefix still being filled is shared.
SourceUnfrozen(s) == s \in Prefixes /\ Resting(s)

\* What a share may read: a frozen prefix whose caller is between two calls.
ShareSource(s) == s \in Prefixes /\ Resting(s) /\ frozen[s]

-----------------------------------------------------------------------------
(* The operators every critical section is built from. *)

\* u32 increment.
Inc(n) == IF n = MaxRef THEN 0 ELSE n + 1

\* Fault: the width of a count is not checked.
ShareableIfOwned(S) == \A p \in S : refcount[p] # 0

\* CheckShareableLocked: no page of S is at 0 or at the maximum.
Shareable(S) == \A p \in S : refcount[p] \notin {0, MaxRef}

\* One reference more on every page of S, then one less on every page of D.
CountedUp(S) == [p \in Pages |-> IF p \in S THEN Inc(refcount[p]) ELSE refcount[p]]

\* DecrementLocked over D: a count already at 0 stays there.
CountedDown(rc, D) == [p \in Pages |-> IF p \in D /\ rc[p] > 0 THEN rc[p] - 1 ELSE rc[p]]

\* Fault: a page is taken for free one reference early.
ReachedZeroEarly(rc, D) == {p \in D : rc[p] \in {1, 2}}

ReachedZero(rc, D) == {p \in D : rc[p] = 1}
Underflows(rc, D)  == \E p \in D : rc[p] = 0

\* SharedMapEnterLocked over S and SharedMapLeaveLocked over D.
MapsUp(S) == [p \in Pages |-> IF p \in S THEN sharedMaps[p] + 1 ELSE sharedMaps[p]]
MapsDown(m, D) == [p \in Pages |-> IF p \in D /\ m[p] > 0 THEN m[p] - 1 ELSE m[p]]
DistinctUp(S) == sharedDistinct + Cardinality({p \in S : sharedMaps[p] = 0})

\* Fault: the count of the page is looked at after it went down.
DistinctDownLate(n, m, D) == n - Cardinality({p \in D : m[p] = 0})

DistinctDown(n, m, D) == n - Cardinality({p \in D : m[p] = 1})

-----------------------------------------------------------------------------
Init ==
    /\ onFree = [p \in Pages |-> 1]
    /\ refcount = [p \in Pages |-> 0]
    /\ dirty = {}
    /\ rows = {}
    /\ sharedMaps = [p \in Pages |-> 0]
    /\ sharedDistinct = 0
    /\ op = [h \in Holders |-> "none"]
    /\ stage = [h \in Holders |-> "rest"]
    /\ shared = [h \in Holders |-> {}]
    /\ materialized = [h \in Holders |-> {}]
    /\ private = [h \in Holders |-> {}]
    /\ reserve = [h \in Holders |-> {}]
    /\ adopting = [h \in Holders |-> {}]
    /\ source = [h \in Holders |-> {}]
    /\ toFree = [h \in Holders |-> {}]
    /\ frozen = [h \in Holders |-> FALSE]
    /\ underflow = FALSE

\* HolderCreate: `draw` pages pool -> reserve in one section.  A pool with fewer
\* pages than asked for refuses and draws nothing (no such `draw`, no step).
HolderCreate(h, draw) ==
    /\ op[h] = "none"
    /\ draw \subseteq OnFreeList
    /\ onFree' = [p \in Pages |-> IF p \in draw THEN onFree[p] - 1 ELSE onFree[p]]
    /\ refcount' = [p \in Pages |-> IF p \in draw THEN 1 ELSE refcount[p]]
    /\ reserve' = [reserve EXCEPT ![h] = draw]
    /\ op' = [op EXCEPT ![h] = "rest"]
    /\ UNCHANGED <<dirty, rows, sharedMaps, sharedDistinct, shared, materialized, private,
                   stage, adopting, source, toFree, frozen, underflow>>

\* HolderMapNext, the hot path: reserve -> table with no lock; sets dirty.
HolderMapNext(h, p) ==
    /\ Resting(h) /\ ~frozen[h]
    /\ Cardinality(Table(h)) < TableEntries
    /\ p \in reserve[h]
    /\ reserve' = [reserve EXCEPT ![h] = @ \ {p}]
    /\ private' = [private EXCEPT ![h] = @ \cup {p}]
    /\ dirty' = dirty \cup {p}
    /\ UNCHANGED <<onFree, refcount, rows, sharedMaps, sharedDistinct, shared, materialized,
                   callVars, frozen, underflow>>

\* The engine, the copies and the restores write rows at or after the holder's origin.
WriteRow(h, p) ==
    /\ Resting(h) /\ ~frozen[h]
    /\ p \in Writable(h)
    /\ rows' = rows \cup {p}
    /\ UNCHANGED <<onFree, refcount, dirty, sharedMaps, sharedDistinct, tableVars, callVars,
                   frozen, underflow>>

\* HolderMapMaterialized: a restore without sharing maps its first pages so.
HolderMapMaterialized(h, S) ==
    /\ Resting(h) /\ h \in Seqs
    /\ Table(h) = {} /\ S # {}
    /\ S \subseteq reserve[h] /\ Cardinality(S) <= TableEntries
    /\ reserve' = [reserve EXCEPT ![h] = @ \ S]
    /\ materialized' = [materialized EXCEPT ![h] = S]
    /\ dirty' = dirty \cup S
    /\ UNCHANGED <<onFree, refcount, rows, sharedMaps, sharedDistinct, shared, private,
                   callVars, frozen, underflow>>

\* Fault: a page goes back to the reserve as if it had never been mapped.
UnmapTailCleaned(h, S) ==
    /\ Resting(h) /\ h \in Seqs
    /\ S # {} /\ S \subseteq private[h]
    /\ reserve' = [reserve EXCEPT ![h] = @ \cup S]
    /\ private' = [private EXCEPT ![h] = @ \ S]
    /\ dirty' = dirty \ S
    /\ UNCHANGED <<onFree, refcount, rows, sharedMaps, sharedDistinct, shared, materialized,
                   callVars, frozen, underflow>>

\* HolderUnmapTail: private pages back to the reserve, dirty kept, no lock.
HolderUnmapTail(h, S) ==
    /\ Resting(h) /\ h \in Seqs
    /\ S # {} /\ S \subseteq private[h]
    /\ reserve' = [reserve EXCEPT ![h] = @ \cup S]
    /\ private' = [private EXCEPT ![h] = @ \ S]
    /\ UNCHANGED <<poolVars, shared, materialized, callVars, frozen, underflow>>

\* HolderShareLeading: the leading pages of a frozen prefix into an empty table,
\* checked before any change, all in one section.
HolderShareLeading(d, s, S) ==
    /\ Resting(d) /\ ~frozen[d] /\ Table(d) = {}
    /\ d # s /\ ShareSource(s)
    /\ S # {} /\ S \subseteq Table(s) /\ Cardinality(S) <= TableEntries
    /\ Shareable(S)
    /\ refcount' = CountedUp(S)
    /\ sharedMaps' = MapsUp(S)
    /\ sharedDistinct' = DistinctUp(S)
    /\ shared' = [shared EXCEPT ![d] = S]
    /\ UNCHANGED <<onFree, dirty, rows, materialized, private, reserve, callVars, frozen, underflow>>

\* HolderAdoptShare's first section: the source's pages are counted, then the
\* holder's own shared and materialized entries are given up.
HolderAdoptShare(d, s, S) ==
    /\ Resting(d) /\ d \in Seqs
    /\ ShareSource(s)
    /\ S \subseteq Table(s) /\ Cardinality(S) <= TableEntries
    /\ Shareable(S)
    /\ LET up == CountedUp(S)
           maps == MapsUp(S)
       IN /\ refcount' = CountedDown(up, PoolPath(d))
          /\ toFree' = [toFree EXCEPT ![d] = ReachedZero(up, PoolPath(d))]
          /\ underflow' = (underflow \/ Underflows(up, PoolPath(d)))
          /\ sharedMaps' = MapsDown(maps, shared[d])
          /\ sharedDistinct' = DistinctDown(DistinctUp(S), maps, shared[d])
    /\ adopting' = [adopting EXCEPT ![d] = S]
    /\ source' = [source EXCEPT ![d] = {s}]
    /\ shared' = [shared EXCEPT ![d] = {}]
    /\ materialized' = [materialized EXCEPT ![d] = {}]
    /\ op' = [op EXCEPT ![d] = "adopt"]
    /\ stage' = [stage EXCEPT ![d] = IF toFree'[d] = {} THEN "finish" ELSE "poison"]
    /\ UNCHANGED <<onFree, dirty, rows, private, reserve, frozen>>

\* HolderUnmapAll's first section (a reset, or the copying adopt's unmap); with no
\* shared or materialized entry it takes no lock and frees nothing.
HolderUnmapAll(h) ==
    /\ Resting(h) /\ h \in Seqs
    /\ refcount' = CountedDown(refcount, PoolPath(h))
    /\ toFree' = [toFree EXCEPT ![h] = ReachedZero(refcount, PoolPath(h))]
    /\ underflow' = (underflow \/ Underflows(refcount, PoolPath(h)))
    /\ sharedMaps' = MapsDown(sharedMaps, shared[h])
    /\ sharedDistinct' = DistinctDown(sharedDistinct, sharedMaps, shared[h])
    /\ shared' = [shared EXCEPT ![h] = {}]
    /\ materialized' = [materialized EXCEPT ![h] = {}]
    /\ op' = [op EXCEPT ![h] = "unmap"]
    /\ stage' = [stage EXCEPT ![h] = IF toFree'[h] = {} THEN "finish" ELSE "poison"]
    /\ UNCHANGED <<onFree, dirty, rows, private, reserve, adopting, source, frozen>>

\* HolderRelease's first section: one reference off every mapped page, and the
\* reserve's pages to 0.  A reserve page already at 0 is reported and kept off
\* the list of pages to free.
HolderRelease(h) ==
    /\ Resting(h) /\ Unread(h)
    /\ LET down == CountedDown(refcount, Table(h))
           freed == {p \in reserve[h] : down[p] > 0}
       IN /\ refcount' = [p \in Pages |-> IF p \in freed THEN 0 ELSE down[p]]
          /\ toFree' = [toFree EXCEPT ![h] = ReachedZero(refcount, Table(h)) \cup freed]
          /\ underflow' = (underflow \/ Underflows(refcount, Table(h)) \/ freed # reserve[h])
    /\ sharedMaps' = MapsDown(sharedMaps, shared[h])
    /\ sharedDistinct' = DistinctDown(sharedDistinct, sharedMaps, shared[h])
    /\ shared' = [shared EXCEPT ![h] = {}]
    /\ materialized' = [materialized EXCEPT ![h] = {}]
    /\ private' = [private EXCEPT ![h] = {}]
    /\ reserve' = [reserve EXCEPT ![h] = {}]
    /\ op' = [op EXCEPT ![h] = "release"]
    /\ stage' = [stage EXCEPT ![h] = "poison"]
    /\ UNCHANGED <<onFree, dirty, rows, adopting, source, frozen>>

\* sslm_prefix_freeze: the flag is set, then HolderReturnReserve's first section.
\* An empty reserve ends the call there, as a second freeze does.
HolderReturnReserve(h) ==
    /\ Resting(h) /\ h \in Prefixes /\ ~frozen[h]
    /\ frozen' = [frozen EXCEPT ![h] = TRUE]
    /\ LET freed == {p \in reserve[h] : refcount[p] > 0}
       IN /\ refcount' = [p \in Pages |-> IF p \in freed THEN 0 ELSE refcount[p]]
          /\ toFree' = [toFree EXCEPT ![h] = freed]
          /\ underflow' = (underflow \/ freed # reserve[h])
    /\ reserve' = [reserve EXCEPT ![h] = {}]
    /\ op' = [op EXCEPT ![h] = IF reserve[h] = {} THEN "rest" ELSE "freeze"]
    /\ stage' = [stage EXCEPT ![h] = IF reserve[h] = {} THEN "rest" ELSE "poison"]
    /\ UNCHANGED <<onFree, dirty, rows, sharedMaps, sharedDistinct, shared, materialized, private,
                   adopting, source>>

\* PoisonIfDirty, with no lock held: a dirty page is filled, a clean one left.
PoisonIfDirty(h) ==
    /\ stage[h] = "poison"
    /\ rows' = rows \ (toFree[h] \cap dirty)
    /\ dirty' = dirty \ toFree[h]
    /\ stage' = [stage EXCEPT ![h] = "push"]
    /\ UNCHANGED <<onFree, refcount, sharedMaps, sharedDistinct, tableVars, op, adopting, source,
                   toFree, frozen, underflow>>

\* Fault: the second section is left out.
PushNothing(h) ==
    /\ stage[h] = "push"
    /\ toFree' = [toFree EXCEPT ![h] = {}]
    /\ stage' = [stage EXCEPT ![h] = "finish"]
    /\ UNCHANGED <<poolVars, tableVars, op, adopting, source, frozen, underflow>>

\* PushFreeLocked: the second section.
PushFree(h) ==
    /\ stage[h] = "push"
    /\ onFree' = [p \in Pages |-> IF p \in toFree[h] THEN onFree[p] + 1 ELSE onFree[p]]
    /\ toFree' = [toFree EXCEPT ![h] = {}]
    /\ stage' = [stage EXCEPT ![h] = "finish"]
    /\ UNCHANGED <<refcount, dirty, rows, sharedMaps, sharedDistinct, tableVars, op, adopting,
                   source, frozen, underflow>>

\* The rest of the call, on the holder's own fields: an unmap and an adopt put the
\* private pages back in the reserve, an adopt enters the shared ones in its table,
\* a release deletes the holder.
Finish(h) ==
    /\ stage[h] = "finish"
    /\ shared' = [shared EXCEPT ![h] = @ \cup adopting[h]]
    /\ adopting' = [adopting EXCEPT ![h] = {}]
    /\ source' = [source EXCEPT ![h] = {}]
    /\ IF op[h] \in {"unmap", "adopt"}
         THEN /\ reserve' = [reserve EXCEPT ![h] = @ \cup private[h]]
              /\ private' = [private EXCEPT ![h] = {}]
         ELSE UNCHANGED <<reserve, private>>
    /\ op' = [op EXCEPT ![h] = IF @ = "release" THEN "none" ELSE "rest"]
    /\ frozen' = IF op[h] = "release" THEN [frozen EXCEPT ![h] = FALSE] ELSE frozen
    /\ stage' = [stage EXCEPT ![h] = "rest"]
    /\ UNCHANGED <<poolVars, materialized, toFree, underflow>>

-----------------------------------------------------------------------------
Next ==
    \E h \in Holders :
        \/ \E S \in SUBSET Pages : HolderCreate(h, S)
        \/ \E p \in Pages : HolderMapNext(h, p)
        \/ \E p \in Pages : WriteRow(h, p)
        \/ \E S \in SUBSET Pages : HolderMapMaterialized(h, S)
        \/ \E S \in SUBSET Pages : HolderUnmapTail(h, S)
        \/ \E s \in Holders, S \in SUBSET Pages : HolderShareLeading(h, s, S)
        \/ \E s \in Holders, S \in SUBSET Pages : HolderAdoptShare(h, s, S)
        \/ HolderUnmapAll(h)
        \/ HolderRelease(h)
        \/ HolderReturnReserve(h)
        \/ PoisonIfDirty(h)
        \/ PushFree(h)
        \/ Finish(h)

\* A call once begun runs to its end.
Fairness == \A h \in Holders : WF_vars(PoisonIfDirty(h) \/ PushFree(h) \/ Finish(h))

Spec == Init /\ [][Next]_vars
FairSpec == Spec /\ Fairness

-----------------------------------------------------------------------------
TypeOK ==
    /\ onFree \in [Pages -> Nat]
    /\ refcount \in [Pages -> 0 .. MaxRef]
    /\ dirty \subseteq Pages
    /\ rows \subseteq Pages
    /\ sharedMaps \in [Pages -> Nat]
    /\ sharedDistinct \in Int
    /\ op \in [Holders -> Ops]
    /\ stage \in [Holders -> Stages]
    /\ shared \in [Holders -> SUBSET Pages]
    /\ materialized \in [Holders -> SUBSET Pages]
    /\ private \in [Holders -> SUBSET Pages]
    /\ reserve \in [Holders -> SUBSET Pages]
    /\ adopting \in [Holders -> SUBSET Pages]
    /\ source \in [Holders -> SUBSET Holders]
    /\ toFree \in [Holders -> SUBSET Pages]
    /\ frozen \in [Holders -> BOOLEAN]
    /\ underflow \in BOOLEAN

\* The refcount law: a page's count is the number of holders that have it, in a
\* table, in a reserve or in an adopt still under way.  It crosses every section
\* of every concurrent call.
RefcountLaw == \A p \in Pages : refcount[p] = Cardinality(Owners(p))

\* A page is at one place: on the free list once and unowned, or in flight in one
\* call and unowned, or owned.  No page is pushed twice, freed while a table still
\* names it, or lost.
OnePlace ==
    \A p \in Pages :
        /\ onFree[p] \in {0, 1}
        /\ onFree[p] = 1 => Owners(p) = {} /\ p \notin InFlight
        /\ p \in InFlight => Owners(p) = {}
        /\ \A g, h \in Holders : p \in toFree[g] \cap toFree[h] => g = h
        /\ Owners(p) = {} => onFree[p] = 1 \/ p \in InFlight

\* A page a holder can draw carries no rows of whoever had it before.
NoStaleRows == \A p \in Pages : onFree[p] > 0 => p \notin rows

\* The release-build underflow check never fires ("unreachable by construction",
\* MapPageStatus in src/src/sslm_abi.cpp).
NoUnderflow == ~underflow

\* What sslm_kv_pool_stats reports as shared is the number of pages that some live
\* table maps as a shared entry, by provenance, at every release of the pool mutex.
SharedStats ==
    /\ \A p \in Pages : sharedMaps[p] = Cardinality({h \in Holders : p \in shared[h] \cup adopting[h]})
    /\ sharedDistinct = Cardinality({p \in Pages : \E h \in Holders : p \in shared[h] \cup adopting[h]})

\* What a holder has to itself: its reserve, and, until it is frozen, the table
\* entries that did not enter by sharing.
Own(h) == reserve[h] \cup (IF frozen[h] THEN {} ELSE private[h] \cup materialized[h])

\* No page that a holder may still write, or map and then write, is in anybody
\* else's table, reserve or adopt.
WritesExclusive == \A h \in Holders : \A p \in Own(h) : Owners(p) = {h}

\* Bytes somebody else still maps never change under them: no step changes the rows
\* of a page that two holders have.
SharedBytesFixed ==
    [][\A p \in Pages : Cardinality(Owners(p)) > 1 => (p \in rows <=> p \in rows')]_vars

\* The allocator keeps the promise of PageLease: a page is lent by its owners and
\* its place on the free list, through every section of every call.
Lease == INSTANCE PageLease WITH
            owners  <- [p \in Pages |-> Owners(p)],
            ready   <- {p \in Pages : onFree[p] > 0},
            tainted <- rows
Leases == Lease!Spec

\* A page in flight reaches the free list: a poison fill is never the end of it.
InFlightReturns == \A p \in Pages : p \in InFlight ~> onFree[p] > 0

-----------------------------------------------------------------------------
(* The rest of what makes RefcountLaw and OnePlace inductive. *)

\* A page is in one role of a holder at a time.
OneRole ==
    \A h \in Holders :
        /\ shared[h] \cap materialized[h] = {}
        /\ PoolPath(h) \cap private[h] = {}
        /\ Table(h) \cap reserve[h] = {}
        /\ adopting[h] \cap (private[h] \cup reserve[h]) = {}

\* What a call has left behind at each of its stages.
CallShape ==
    \A h \in Holders :
        /\ stage[h] \in {"rest", "finish"} => toFree[h] = {}
        /\ stage[h] = "rest" <=> op[h] \in {"none", "rest"}
        /\ op[h] = "none" => Held(h) = {} /\ ~frozen[h]
        /\ op[h] # "adopt" => adopting[h] = {}
        /\ op[h] \in {"unmap", "adopt"} => h \in Seqs /\ PoolPath(h) = {}
        /\ op[h] = "release" => Held(h) = {}
        /\ op[h] = "freeze" => h \in Prefixes /\ frozen[h]
        /\ frozen[h] => h \in Prefixes /\ reserve[h] = {}
        /\ h \in Prefixes => materialized[h] = {}

\* A page that a table maps, or that has rows, is dirty until it is poisoned, and it
\* is poisoned before it is pushed.
DirtyUntilPoisoned ==
    /\ \A h \in Holders : private[h] \cup materialized[h] \subseteq dirty
    /\ rows \subseteq dirty
    /\ \A p \in OnFreeList : p \notin dirty
    /\ \A h \in Holders : stage[h] = "push" => toFree[h] \cap dirty = {}

IInv ==
    /\ TypeOK
    /\ RefcountLaw
    /\ OnePlace
    /\ WritesExclusive
    /\ OneRole
    /\ CallShape
    /\ DirtyUntilPoisoned
    /\ NoUnderflow
=============================================================================
