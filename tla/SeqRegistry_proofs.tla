------------------------- MODULE SeqRegistry_proofs -------------------------
(***************************************************************************)
(* Proofs about SeqRegistry, for any set of threads, of addresses and of   *)
(* adapters: a call's sequences stay allocated, nobody who holds a mutex   *)
(* waits in a circle, the bodies of calls exclude each other, and adapters *)
(* count their bindings.  LockInv is kept by every action; with it, so are *)
(* the types and what the adapters count.  The properties follow.          *)
(***************************************************************************)
EXTENDS SeqRegistry, FiniteSetTheorems, TLAPS

USE DEF LockStages, BodyStages, ReleaseStages

LEMMA InitLockInv == Init => LockInv
BY DEF Init, LockInv, CallTypes, LocksOfCalls, ReleasesAlone, FoundExist, Stages

-----------------------------------------------------------------------------
(* A step of LockInv that changes none of the variables it is about. *)

iVars == <<exists, live, registry, holder, at, named, todo, found>>

LEMMA Unchanged == LockInv /\ UNCHANGED iVars => LockInv'
BY DEF LockInv, CallTypes, LocksOfCalls, ReleasesAlone, FoundExist, iVars

LEMMA RegisterStep == ASSUME NEW p \in Handles, LockInv, Register(p) PROVE LockInv'
BY DEF Register, LockInv, CallTypes, LocksOfCalls, ReleasesAlone, FoundExist, lockVars, callVars

-----------------------------------------------------------------------------
(* Calls begin. *)

LEMMA DecodeCallStep ==
    ASSUME NEW t \in Threads, NEW P \in SUBSET Handles, LockInv, DecodeCall(t, P) PROVE LockInv'
BY DEF DecodeCall, Call, Idle, Goes, LockInv, CallTypes, LocksOfCalls, ReleasesAlone, FoundExist,
       lockVars, Stages, DecodeStages

LEMMA JumpCallStep ==
    ASSUME NEW t \in Threads, NEW q \in Handles, LockInv, JumpCall(t, q) PROVE LockInv'
BY DEF JumpCall, Call, Idle, Goes, LockInv, CallTypes, LocksOfCalls, ReleasesAlone, FoundExist,
       lockVars, Stages, JumpStages

LEMMA OneCallStep ==
    ASSUME NEW t \in Threads, NEW q \in Handles, LockInv, OneCall(t, q) PROVE LockInv'
BY DEF OneCall, Releasing, Call, Idle, Goes, LockInv, CallTypes, LocksOfCalls, ReleasesAlone, FoundExist,
       lockVars, Stages

LEMMA ReleaseCallStep ==
    ASSUME NEW t \in Threads, NEW q \in Handles, LockInv, ReleaseCall(t, q) PROVE LockInv'
BY DEF ReleaseCall, Releasing, Call, Idle, Goes, LockInv, CallTypes, LocksOfCalls, ReleasesAlone, FoundExist,
       lockVars, Stages

-----------------------------------------------------------------------------
(* The registry's section. *)

LEMMA EnterRegistryStep == ASSUME NEW t \in Threads, LockInv, EnterRegistry(t) PROVE LockInv'
BY DEF EnterRegistry, Goes, LockInv, CallTypes, LocksOfCalls, ReleasesAlone, FoundExist,
       Stages, DecodeStages, JumpStages

LEMMA LockNextStep == ASSUME NEW t \in Threads, LockInv, LockNext(t) PROVE LockInv'
<1> DEFINE p == Lowest(todo[t])
<1> HIDE DEF p
<1>0. /\ at[t] \in {"decode:lock", "jump:lock"} /\ todo' = [todo EXCEPT ![t] = @ \ {p}]
      /\ exists' = exists /\ live' = live /\ registry' = registry /\ at' = at /\ named' = named
  BY DEF LockNext, p
<1>1. CASE p \notin live
  <2>1. holder' = holder /\ found' = found
    BY <1>1 DEF LockNext, p
  <2>2. CallTypes' /\ FoundExist'
    BY <1>0, <2>1 DEF LockInv, CallTypes, FoundExist
  <2>3. LocksOfCalls'
    BY <1>0, <2>1 DEF LockInv, CallTypes, LocksOfCalls
  <2>4. ReleasesAlone'
    BY <1>0, <2>1 DEF LockInv, ReleasesAlone
  <2> QED BY <2>2, <2>3, <2>4 DEF LockInv
<1>2. CASE p \in live
  <2>1. /\ holder[p] = {} /\ holder' = [holder EXCEPT ![p] = {t}]
        /\ found' = [found EXCEPT ![t] = @ \cup {p}]
    BY <1>2 DEF LockNext, p
  <2>2. CallTypes' /\ FoundExist'
    BY <1>0, <1>2, <2>1 DEF LockInv, CallTypes, FoundExist
  <2>3. LocksOfCalls'
    BY <1>0, <1>2, <2>1 DEF LockInv, CallTypes, LocksOfCalls
  <2>4. ReleasesAlone'
    BY <1>0, <1>2, <2>1 DEF LockInv, CallTypes, ReleasesAlone
  <2> QED BY <2>2, <2>3, <2>4 DEF LockInv
<1> QED BY <1>1, <1>2

LEMMA LeaveRegistryStep == ASSUME NEW t \in Threads, LockInv, LeaveRegistry(t) PROVE LockInv'
BY DEF LeaveRegistry, Goes, LockInv, CallTypes, LocksOfCalls, ReleasesAlone, FoundExist,
       Stages, DecodeStages, JumpStages

-----------------------------------------------------------------------------
(* A call ends: its locks are free again, whatever else it changed. *)

LEMMA ReturnStep ==
    ASSUME NEW t \in Threads, LockInv, at[t] \in BodyStages, Return(t),
           UNCHANGED <<exists, live, registry>>
    PROVE  LockInv'
BY DEF Return, Unlocked, Goes, LockInv, CallTypes, LocksOfCalls, ReleasesAlone, FoundExist, Stages

LEMMA DecodeCheckStep == ASSUME NEW t \in Threads, LockInv, DecodeCheck(t) PROVE LockInv'
<1>1. CASE Malformed(t)
  BY <1>1, ReturnStep DEF DecodeCheck
<1>2. CASE ~Malformed(t)
  BY <1>2 DEF DecodeCheck, Goes, LockInv, CallTypes, LocksOfCalls, ReleasesAlone, FoundExist,
              Stages, DecodeStages
<1> QED BY <1>1, <1>2

-----------------------------------------------------------------------------
(* The calls that take the mutex alone, and release. *)

LEMMA OneLockStep == ASSUME NEW t \in Threads, LockInv, OneLock(t) PROVE LockInv'
BY DEF OneLock, Goes, LockInv, CallTypes, LocksOfCalls, ReleasesAlone, FoundExist, Stages

LEMMA ReleaseDropStep == ASSUME NEW t \in Threads, LockInv, ReleaseDrop(t) PROVE LockInv'
BY DEF ReleaseDrop, Goes, LockInv, CallTypes, LocksOfCalls, ReleasesAlone, FoundExist, lockVars, Stages

LEMMA ReleaseEraseStep == ASSUME NEW t \in Threads, LockInv, ReleaseErase(t) PROVE LockInv'
BY DEF ReleaseErase, Goes, LockInv, CallTypes, LocksOfCalls, ReleasesAlone, FoundExist, lockVars, Stages

LEMMA ReleaseBarrierStep == ASSUME NEW t \in Threads, LockInv, ReleaseBarrier(t) PROVE LockInv'
BY DEF ReleaseBarrier, Goes, LockInv, CallTypes, LocksOfCalls, ReleasesAlone, FoundExist, lockVars, Stages

LEMMA ReleaseDeleteStep == ASSUME NEW t \in Threads, LockInv, ReleaseDelete(t) PROVE LockInv'
BY DEF ReleaseDelete, Goes, LockInv, CallTypes, LocksOfCalls, ReleasesAlone, FoundExist, lockVars, Stages

-----------------------------------------------------------------------------
LEMMA ThreadKeepsLockInv == ASSUME NEW t \in Threads, LockInv, ThreadStep(t) PROVE LockInv'
<1>1. CASE EnterRegistry(t)  BY <1>1, EnterRegistryStep
<1>2. CASE LockNext(t)       BY <1>2, LockNextStep
<1>3. CASE LeaveRegistry(t)  BY <1>3, LeaveRegistryStep
<1>4. CASE DecodeCheck(t)    BY <1>4, DecodeCheckStep
<1>5. CASE \E P \in SUBSET Handles : DecodeRun(t, P)
  BY <1>5, ReturnStep DEF DecodeRun
<1>6. CASE JumpRun(t)        BY <1>6, ReturnStep DEF JumpRun
<1>7. CASE OneLock(t)      BY <1>7, OneLockStep
<1>8. CASE ResetRun(t) \/ AdoptRun(t) \/ ReadRun(t)
  BY <1>8, ReturnStep DEF ResetRun, AdoptRun, ReadRun, BodyStages
<1>9. CASE ReleaseDrop(t)    BY <1>9, ReleaseDropStep
<1>10. CASE ReleaseErase(t)   BY <1>10, ReleaseEraseStep
<1>11. CASE ReleaseBarrier(t) BY <1>11, ReleaseBarrierStep
<1>12. CASE ReleaseDelete(t)  BY <1>12, ReleaseDeleteStep
<1> QED
  BY <1>1, <1>2, <1>3, <1>4, <1>5, <1>6, <1>7, <1>8, <1>9, <1>10, <1>11, <1>12 DEF ThreadStep

LEMMA LockInvStep == LockInv /\ [Next]_vars => LockInv'
<1> SUFFICES ASSUME LockInv, [Next]_vars PROVE LockInv'
  OBVIOUS
<1>1. CASE \E t \in Threads : ThreadStep(t)
  BY <1>1, ThreadKeepsLockInv
<1>2. CASE \E t \in Threads, P \in SUBSET Handles : DecodeCall(t, P)
  BY <1>2, DecodeCallStep
<1>3. CASE \E t \in Threads, p \in Handles : JumpCall(t, p) \/ OneCall(t, p) \/ ReleaseCall(t, p)
  BY <1>3, JumpCallStep, OneCallStep, ReleaseCallStep
<1>4. CASE \E p \in Handles : Create(p) \/ Restore(p) \/ Prefill(p)
  <2>1. ASSUME NEW p \in Handles, Create(p) \/ Restore(p) PROVE LockInv'
    BY <2>1, RegisterStep DEF Create, Restore
  <2> QED BY <1>4, <2>1, Unchanged DEF Prefill, iVars, lockVars, callVars
<1>5. CASE \E p \in Handles, A \in SUBSET Adapters : Cardinality(A) <= 1 /\ SetAdapter(p, A)
  BY <1>5, Unchanged DEF SetAdapter, iVars, lockVars, callVars
<1>6. CASE \E a \in Adapters : AdapterMap(a) \/ AdapterRelease(a)
  BY <1>6, Unchanged DEF AdapterMap, AdapterRelease, iVars, lockVars, callVars
<1>7. CASE UNCHANGED vars
  BY <1>7, Unchanged DEF vars, iVars, lockVars, callVars
<1> QED BY <1>1, <1>2, <1>3, <1>4, <1>5, <1>6, <1>7 DEF Next

-----------------------------------------------------------------------------
(* Types.  LockInv has those of the calls; these are the others. *)

RestTypes ==
    /\ fed \subseteq Handles /\ mid \subseteq Handles /\ eligible \subseteq Handles
    /\ bound \in [Handles -> SUBSET Adapters]
    /\ refs \in [Adapters -> Int]
    /\ mapped \subseteq Adapters
    /\ created \in 0 .. MaxCreates

LEMMA AtMostOne ==
    ASSUME NEW S, NEW T, S = {} \/ \E t \in T : S = {t}
    PROVE  Cardinality(S) <= 1
<1>1. CASE S = {}
  BY <1>1, FS_EmptySet
<1>2. ASSUME NEW t \in T, S = {t} PROVE Cardinality(S) <= 1
  BY <1>2, FS_Singleton
<1> QED BY <1>1, <1>2

LEMMA TypesOfParts == LockInv /\ RestTypes => TypeOK
<1> SUFFICES ASSUME LockInv, RestTypes PROVE TypeOK
  OBVIOUS
<1>1. registry = {} \/ \E t \in Threads : registry = {t}
  BY DEF LockInv, CallTypes, LocksOfCalls
<1>2. Cardinality(registry) <= 1
  BY <1>1, AtMostOne
<1> QED BY <1>2 DEF LockInv, CallTypes, RestTypes, TypeOK

LEMMA BindingsFinite ==
    ASSUME TypeOK, NEW t \in Threads, NEW a \in Adapters
    PROVE  /\ IsFiniteSet({p \in named[t] : a \in bound[p]})
           /\ Cardinality({p \in named[t] : a \in bound[p]}) \in Nat
<1>1. {p \in named[t] : a \in bound[p]} \in SUBSET Handles
  BY DEF TypeOK
<1> QED BY <1>1, HandlesAssumption, FS_Subset, FS_CardinalityType

LEMMA InitRestTypes == Init => RestTypes
BY BoundAssumption DEF Init, RestTypes

LEMMA RestTypesStep == TypeOK /\ [Next]_vars => RestTypes'
<1> SUFFICES ASSUME TypeOK, [Next]_vars PROVE RestTypes'
  OBVIOUS
<1> USE DEF TypeOK, RestTypes
<1>1. ASSUME NEW t \in Threads, ThreadStep(t) PROVE RestTypes'
  <2>2. CASE EnterRegistry(t) \/ LockNext(t) \/ LeaveRegistry(t)
    BY <2>2 DEF EnterRegistry, LockNext, LeaveRegistry, seqVars, adapterVars
  <2>3. CASE DecodeCheck(t)
    BY <2>3 DEF DecodeCheck, adapterVars
  <2>4. CASE \E P \in SUBSET Handles : DecodeRun(t, P)
    BY <2>4 DEF DecodeRun, adapterVars
  <2>5. CASE JumpRun(t) \/ OneLock(t) \/ ResetRun(t) \/ AdoptRun(t) \/ ReadRun(t)
    BY <2>5 DEF JumpRun, OneLock, ResetRun, AdoptRun, ReadRun, seqVars, adapterVars
  <2>6. CASE ReleaseDrop(t)
    <3>1. ASSUME NEW a \in Adapters
          PROVE  refs[a] - Cardinality({p \in named[t] : a \in bound[p]}) \in Int
      <4>1. Cardinality({p \in named[t] : a \in bound[p]}) \in Nat
        BY BindingsFinite
      <4> QED BY <4>1
    <3>2. refs' \in [Adapters -> Int]
      BY <2>6, <3>1 DEF ReleaseDrop
    <3> QED BY <2>6, <3>2 DEF ReleaseDrop, seqVars
  <2>7. CASE ReleaseErase(t) \/ ReleaseBarrier(t) \/ ReleaseDelete(t)
    BY <2>7 DEF ReleaseErase, ReleaseBarrier, ReleaseDelete, seqVars, adapterVars
  <2> QED BY <1>1, <2>2, <2>3, <2>4, <2>5, <2>6, <2>7 DEF ThreadStep
<1>2. ASSUME NEW t \in Threads, NEW P \in SUBSET Handles, DecodeCall(t, P) PROVE RestTypes'
  BY <1>2 DEF DecodeCall, seqVars, adapterVars
<1>3. ASSUME NEW t \in Threads, NEW p \in Handles,
             JumpCall(t, p) \/ OneCall(t, p) \/ ReleaseCall(t, p)
      PROVE  RestTypes'
  BY <1>3 DEF JumpCall, OneCall, ReleaseCall, seqVars, adapterVars
<1>4. ASSUME NEW p \in Handles, Create(p) \/ Restore(p) \/ Prefill(p) PROVE RestTypes'
  BY <1>4, BoundAssumption DEF Create, Restore, Register, Prefill, adapterVars
<1>5. ASSUME NEW p \in Handles, NEW A \in SUBSET Adapters, SetAdapter(p, A) PROVE RestTypes'
  BY <1>5 DEF SetAdapter
<1>6. ASSUME NEW a \in Adapters, AdapterMap(a) \/ AdapterRelease(a) PROVE RestTypes'
  BY <1>6 DEF AdapterMap, AdapterRelease, seqVars
<1>7. CASE UNCHANGED vars
  BY <1>7 DEF vars, seqVars, adapterVars
<1> QED BY <1>1, <1>2, <1>3, <1>4, <1>5, <1>6, <1>7 DEF Next

-----------------------------------------------------------------------------
(* What the adapters count. *)

AdapterInv == AdapterRefs /\ UsersMapped

DropStages == ReleaseStages \ {"release:drop"}

\* A step that leaves counts, mapped adapters and who uses them alone.
LEMMA SameUsers ==
    ASSUME AdapterInv, UNCHANGED <<refs, mapped>>, \A a \in Adapters : Users(a)' = Users(a),
           mapped \subseteq Adapters
    PROVE  AdapterInv'
<1>1. AdapterRefs'
  BY DEF AdapterInv, AdapterRefs
<1>2. UsersMapped'
  BY DEF AdapterInv, UsersMapped
<1> QED BY <1>1, <1>2 DEF AdapterInv

\* A call that moves between stages in which no release has dropped anything.
LEMMA NothingDropped ==
    ASSUME NEW t \in Threads, NEW s \in Stages, TypeOK, AdapterInv, UNCHANGED <<exists, bound, refs, mapped>>,
           at[t] \notin DropStages, s \notin DropStages,
           at' = [at EXCEPT ![t] = s],
           \A u \in Threads : u # t => named'[u] = named[u]
    PROVE  AdapterInv'
<1>1. \A p \in Handles : Dropped(p)' <=> Dropped(p)
  BY DEF Dropped, DropStages, TypeOK
<1>2. \A a \in Adapters : Users(a)' = Users(a)
  BY <1>1 DEF Users, TypeOK
<1> QED BY <1>2, SameUsers DEF TypeOK

LEMMA UsersFinite ==
    ASSUME TypeOK, NEW a \in Adapters
    PROVE  IsFiniteSet(Users(a)) /\ Cardinality(Users(a)) \in Nat
<1>1. Users(a) \in SUBSET Handles
  BY DEF TypeOK, Users
<1> QED BY <1>1, HandlesAssumption, FS_Subset, FS_CardinalityType

\* The drop takes the sequence out of every count it is in.
LEMMA DropKeepsCounts ==
    ASSUME NEW t \in Threads, TypeOK, LockInv, AdapterInv, ReleaseDrop(t)
    PROVE  AdapterInv'
<1> USE DEF DropStages, ReleaseDrop, Goes
<1>1. \A p \in Handles : Dropped(p)' <=> Dropped(p) \/ p \in named[t]
  BY DEF Dropped, TypeOK
<1>2. \A p \in named[t] : p \in exists /\ ~Dropped(p)
  BY DEF Dropped, LockInv, CallTypes, ReleasesAlone
<1>3. ASSUME NEW a \in Adapters PROVE Users(a)' = Users(a) \ {p \in named[t] : a \in bound[p]}
  BY <1>1 DEF Users, TypeOK, seqVars
<1>4. ASSUME NEW a \in Adapters
      PROVE  Cardinality(Users(a)') = Cardinality(Users(a)) - Cardinality({p \in named[t] : a \in bound[p]})
  <2> DEFINE D == {p \in named[t] : a \in bound[p]}
  <2>1. D \subseteq Users(a)
    BY <1>2 DEF Users
  <2>2. Users(a) \cap D = D
    BY <2>1
  <2>3. Cardinality(Users(a) \ D) = Cardinality(Users(a)) - Cardinality(D)
    BY <2>2, UsersFinite, FS_Difference
  <2> QED BY <1>3, <2>3
<1>5. AdapterRefs'
  <2> SUFFICES ASSUME NEW a \in mapped PROVE refs'[a] = Cardinality(Users(a)')
    BY DEF AdapterRefs
  <2>1. a \in Adapters /\ refs[a] = Cardinality(Users(a))
    BY DEF AdapterInv, AdapterRefs, TypeOK
  <2> QED BY <2>1, <1>4 DEF TypeOK
<1>6. UsersMapped'
  BY <1>3 DEF AdapterInv, UsersMapped
<1> QED BY <1>5, <1>6 DEF AdapterInv

\* Behind the drop, the release changes no count; what it deletes is in none.
LEMMA ReleaseKeepsCounts ==
    ASSUME NEW t \in Threads, TypeOK, AdapterInv,
           ReleaseErase(t) \/ ReleaseBarrier(t) \/ ReleaseDelete(t)
    PROVE  AdapterInv'
<1> USE DEF Goes, DropStages
<1>1. CASE ReleaseErase(t) \/ ReleaseBarrier(t)
  <2>1. \A p \in Handles : Dropped(p)' <=> Dropped(p)
    BY <1>1 DEF Dropped, TypeOK, ReleaseErase, ReleaseBarrier
  <2>2. \A a \in Adapters : Users(a)' = Users(a)
    BY <1>1, <2>1 DEF Users, TypeOK, ReleaseErase, ReleaseBarrier, seqVars
  <2> QED BY <1>1, <2>2, SameUsers DEF TypeOK, ReleaseErase, ReleaseBarrier, adapterVars
<1>2. CASE ReleaseDelete(t)
  <2>1. \A p \in Handles : p \in named[t] => Dropped(p)
    BY <1>2 DEF Dropped, ReleaseDelete
  <2>2. \A p \in Handles : p \notin named[t] => (Dropped(p)' <=> Dropped(p))
    BY <1>2 DEF Dropped, TypeOK, ReleaseDelete
  <2>3. \A a \in Adapters : Users(a)' = Users(a)
    BY <1>2, <2>1, <2>2 DEF Users, TypeOK, ReleaseDelete, seqVars
  <2> QED BY <1>2, <2>3, SameUsers DEF TypeOK, ReleaseDelete, adapterVars
<1> QED BY <1>1, <1>2

\* A new sequence has nothing bound.
LEMMA RegisterKeepsCounts ==
    ASSUME NEW q \in Handles, TypeOK, AdapterInv, Register(q)
    PROVE  AdapterInv'
<1>1. \A p \in Handles : Dropped(p)' <=> Dropped(p)
  BY DEF Register, callVars, Dropped
<1>2. \A a \in Adapters : Users(a)' = Users(a)
  BY <1>1 DEF Register, Users, TypeOK
<1> QED BY <1>2, SameUsers DEF Register, TypeOK, adapterVars

\* A new binding counts one up and its old one down; the sequence is in no call.
LEMMA SetAdapterKeepsCounts ==
    ASSUME NEW q \in Handles, NEW A \in SUBSET Adapters, TypeOK, AdapterInv, SetAdapter(q, A)
    PROVE  AdapterInv'
<1> USE DEF SetAdapter
<1>1. \A p \in Handles : Dropped(p)' <=> Dropped(p)
  BY DEF callVars, Dropped
<1>2. ~Dropped(q)
  BY DEF Dropped, Alone, Idle, TypeOK
<1>3. ASSUME NEW a \in Adapters
      PROVE  Users(a)' = IF a \in A THEN Users(a) \cup {q} ELSE Users(a) \ {q}
  BY <1>1, <1>2 DEF Users, TypeOK
<1>4. ASSUME NEW a \in Adapters PROVE q \in Users(a) <=> a \in bound[q]
  BY <1>2 DEF Users
<1>5. AdapterRefs'
  <2> SUFFICES ASSUME NEW a \in mapped PROVE refs'[a] = Cardinality(Users(a)')
    BY DEF AdapterRefs
  <2>1. a \in Adapters /\ refs[a] = Cardinality(Users(a)) /\ Cardinality(Users(a)) \in Nat
    BY UsersFinite DEF AdapterInv, AdapterRefs, TypeOK
  <2>4. refs'[a] = refs[a] - (IF a \in bound[q] THEN 1 ELSE 0) + (IF a \in A THEN 1 ELSE 0)
    BY <2>1
  <2>5. refs[a] \in Int /\ (q \in Users(a) <=> a \in bound[q])
    BY <2>1, <1>4 DEF TypeOK
  <2>2. CASE a \in A
    <3>1. Cardinality(Users(a) \cup {q}) = IF q \in Users(a) THEN Cardinality(Users(a))
                                           ELSE Cardinality(Users(a)) + 1
      BY <2>1, UsersFinite, FS_AddElement
    <3>2. Users(a)' = Users(a) \cup {q}
      BY <2>1, <2>2, <1>3
    <3>3. refs'[a] = IF q \in Users(a) THEN Cardinality(Users(a)) ELSE Cardinality(Users(a)) + 1
      BY <2>1, <2>2, <2>4, <2>5
    <3> QED BY <3>1, <3>2, <3>3
  <2>3. CASE a \notin A
    <3>1. Cardinality(Users(a) \ {q}) = IF q \in Users(a) THEN Cardinality(Users(a)) - 1
                                        ELSE Cardinality(Users(a))
      BY <2>1, UsersFinite, FS_RemoveElement
    <3>2. Users(a)' = Users(a) \ {q}
      BY <2>1, <2>3, <1>3
    <3>3. refs'[a] = IF q \in Users(a) THEN Cardinality(Users(a)) - 1 ELSE Cardinality(Users(a))
      BY <2>1, <2>3, <2>4, <2>5
    <3> QED BY <3>1, <3>2, <3>3
  <2> QED BY <2>2, <2>3
<1>6. UsersMapped'
  BY <1>3 DEF AdapterInv, UsersMapped
<1> QED BY <1>5, <1>6 DEF AdapterInv

\* An adapter is mapped with nobody counted, and unmapped with nobody counted.
LEMMA AdaptersKeepCounts ==
    ASSUME NEW b \in Adapters, TypeOK, AdapterInv, AdapterMap(b) \/ AdapterRelease(b)
    PROVE  AdapterInv'
<1>1. \A a \in Adapters : Users(a)' = Users(a)
  BY DEF AdapterMap, AdapterRelease, callVars, seqVars, Users, Dropped
<1>2. Users(b) = {}
  <2>1. CASE AdapterMap(b)
    BY <2>1 DEF AdapterMap, AdapterInv, UsersMapped
  <2>2. CASE AdapterRelease(b)
    BY <2>2, UsersFinite, FS_EmptySet DEF AdapterRelease, AdapterInv, AdapterRefs
  <2> QED BY <2>1, <2>2
<1>3. AdapterRefs'
  <2>1. refs \in [Adapters -> Int] /\ \A a \in mapped : refs[a] = Cardinality(Users(a))
    BY DEF TypeOK, AdapterInv, AdapterRefs
  <2>2. mapped \subseteq Adapters
    BY DEF TypeOK
  <2>3. CASE AdapterMap(b)
    <3>1. mapped' = mapped \cup {b} /\ refs' = [refs EXCEPT ![b] = 0]
      BY <2>3 DEF AdapterMap
    <3>2. Cardinality(Users(b)') = 0
      BY <1>1, <1>2, FS_EmptySet
    <3>3. \A a \in mapped' : refs'[a] = Cardinality(Users(a)')
      BY <1>1, <2>1, <2>2, <3>1, <3>2
    <3> QED BY <3>3 DEF AdapterRefs
  <2>4. CASE AdapterRelease(b)
    <3>1. mapped' \subseteq mapped /\ refs' = refs
      BY <2>4 DEF AdapterRelease
    <3>2. \A a \in mapped' : refs'[a] = Cardinality(Users(a)')
      BY <1>1, <2>1, <2>2, <3>1
    <3> QED BY <3>2 DEF AdapterRefs
  <2> QED BY <2>3, <2>4
<1>4. UsersMapped'
  BY <1>1, <1>2 DEF AdapterMap, AdapterRelease, AdapterInv, UsersMapped
<1> QED BY <1>3, <1>4 DEF AdapterInv

LEMMA InitAdapterInv == Init => AdapterInv
BY DEF Init, AdapterInv, AdapterRefs, UsersMapped, Users

\* A call moves between stages without dropping a binding.
LEMMA CallsKeepCounts ==
    ASSUME NEW t \in Threads, TypeOK, LockInv, AdapterInv,
           \/ EnterRegistry(t) \/ LockNext(t) \/ LeaveRegistry(t) \/ DecodeCheck(t)
           \/ (\E P \in SUBSET Handles : DecodeRun(t, P))
           \/ JumpRun(t) \/ OneLock(t) \/ ResetRun(t) \/ AdoptRun(t) \/ ReadRun(t)
    PROVE  AdapterInv'
<1>1. PICK s \in Stages : /\ at' = [at EXCEPT ![t] = s]
                          /\ at[t] \notin DropStages /\ s \notin DropStages
  <2> USE DEF Goes, Stages, DecodeStages, JumpStages, DropStages, TypeOK
  <2>1. CASE EnterRegistry(t)
    <3>1. CASE at[t] = "decode:registry"
      BY <2>1, <3>1, "decode:lock" \in Stages DEF EnterRegistry
    <3>2. CASE at[t] = "jump:registry"
      BY <2>1, <3>2, "jump:lock" \in Stages DEF EnterRegistry
    <3> QED BY <2>1, <3>1, <3>2 DEF EnterRegistry
  <2>2. CASE LockNext(t)
    <3>1. at' = [at EXCEPT ![t] = at[t]]
      BY <2>2 DEF LockNext
    <3> QED BY <2>2, <3>1 DEF LockNext
  <2>3. CASE LeaveRegistry(t)
    <3>1. CASE at[t] = "decode:lock"
      BY <2>3, <3>1, "decode:check" \in Stages DEF LeaveRegistry
    <3>2. CASE at[t] = "jump:lock"
      BY <2>3, <3>2, "jump:run" \in Stages DEF LeaveRegistry
    <3> QED BY <2>3, <3>1, <3>2 DEF LeaveRegistry
  <2>4. CASE DecodeCheck(t)
    BY <2>4 DEF DecodeCheck, Return
  <2>5. CASE \E P \in SUBSET Handles : DecodeRun(t, P)
    BY <2>5 DEF DecodeRun, Return
  <2>6. CASE JumpRun(t) \/ OneLock(t) \/ ResetRun(t) \/ AdoptRun(t) \/ ReadRun(t)
    BY <2>6 DEF JumpRun, OneLock, ResetRun, AdoptRun, ReadRun, Return
  <2> QED BY <2>1, <2>2, <2>3, <2>4, <2>5, <2>6
<1>2. /\ UNCHANGED <<exists, bound, refs, mapped>>
      /\ \A u \in Threads : u # t => named'[u] = named[u]
  BY DEF EnterRegistry, LockNext, LeaveRegistry, DecodeCheck, DecodeRun, JumpRun, OneLock, ResetRun,
         AdoptRun, ReadRun, Return, seqVars, adapterVars, TypeOK
<1> QED BY <1>1, <1>2, NothingDropped

\* A call begins.
LEMMA BeginningsKeepCounts ==
    ASSUME NEW t \in Threads, NEW s \in Stages \ DropStages, NEW P \in SUBSET Handles,
           TypeOK, AdapterInv, Call(t, s, P), UNCHANGED <<exists, bound, refs, mapped>>
    PROVE  AdapterInv'
<1>1. at[t] \notin DropStages /\ at' = [at EXCEPT ![t] = s]
  BY DEF Call, Idle, Goes, DropStages
<1>2. \A u \in Threads : u # t => named'[u] = named[u]
  BY DEF Call, TypeOK
<1> QED BY <1>1, <1>2, NothingDropped

LEMMA AdapterInvStep == TypeOK /\ LockInv /\ AdapterInv /\ [Next]_vars => AdapterInv'
<1> SUFFICES ASSUME TypeOK, LockInv, AdapterInv, [Next]_vars PROVE AdapterInv'
  OBVIOUS
<1> USE DEF seqVars, adapterVars
<1>1. ASSUME NEW t \in Threads, ThreadStep(t) PROVE AdapterInv'
  BY <1>1, CallsKeepCounts, DropKeepsCounts, ReleaseKeepsCounts DEF ThreadStep
<1>2. ASSUME NEW t \in Threads, NEW P \in SUBSET Handles, DecodeCall(t, P) PROVE AdapterInv'
  BY <1>2, BeginningsKeepCounts DEF DecodeCall, Stages, DecodeStages, DropStages
<1>3. ASSUME NEW t \in Threads, NEW p \in Handles,
             JumpCall(t, p) \/ OneCall(t, p) \/ ReleaseCall(t, p)
      PROVE  AdapterInv'
  <2>1. {p} \in SUBSET Handles
    OBVIOUS
  <2>2. {"jump:registry", "one:lock", "release:drop"} \subseteq Stages \ DropStages
    BY DEF Stages, JumpStages, DropStages
  <2> QED BY <1>3, <2>1, <2>2, BeginningsKeepCounts DEF JumpCall, OneCall, ReleaseCall
<1>4. ASSUME NEW p \in Handles, Create(p) \/ Restore(p) PROVE AdapterInv'
  BY <1>4, RegisterKeepsCounts DEF Create, Restore
<1>5. ASSUME NEW p \in Handles, NEW A \in SUBSET Adapters, SetAdapter(p, A) PROVE AdapterInv'
  BY <1>5, SetAdapterKeepsCounts
<1>6. ASSUME NEW a \in Adapters, AdapterMap(a) \/ AdapterRelease(a) PROVE AdapterInv'
  BY <1>6, AdaptersKeepCounts
<1>7. CASE (\E p \in Handles : Prefill(p)) \/ UNCHANGED vars
  <2>1. UNCHANGED <<exists, at, named, bound, refs, mapped>>
    BY <1>7 DEF Prefill, vars, callVars
  <2>2. \A a \in Adapters : Users(a)' = Users(a)
    BY <2>1 DEF Users, Dropped
  <2> QED BY <2>1, <2>2, SameUsers DEF TypeOK
<1> QED BY <1>1, <1>2, <1>3, <1>4, <1>5, <1>6, <1>7 DEF Next

-----------------------------------------------------------------------------
(* The theorems. *)

LEMMA InitIInv == Init => IInv
BY InitLockInv, InitRestTypes, InitAdapterInv, TypesOfParts DEF IInv, AdapterInv

LEMMA IInvStep == IInv /\ [Next]_vars => IInv'
<1> SUFFICES ASSUME IInv, [Next]_vars PROVE IInv'
  OBVIOUS
<1>1. LockInv' /\ RestTypes' /\ AdapterInv'
  BY LockInvStep, RestTypesStep, AdapterInvStep DEF IInv, AdapterInv
<1>2. TypeOK'
  <2>1. registry' = {} \/ \E t \in Threads : registry' = {t}
    BY <1>1 DEF LockInv, CallTypes, LocksOfCalls
  <2>2. Cardinality(registry') <= 1
    BY <2>1, AtMostOne
  <2> QED BY <1>1, <2>2 DEF LockInv, CallTypes, RestTypes, TypeOK
<1> QED BY <1>1, <1>2 DEF IInv, AdapterInv

\* What a thread has, by how far its call has come, and what the adapters count, at
\* all times: the inductive invariant of the registry's protocol.
THEOREM Invariance == Spec => []IInv
<1>1. IInv /\ [Next]_vars => IInv'
  BY IInvStep
<1> QED BY <1>1, InitIInv, PTL DEF Spec

\* The registry, its mutexes and the adapters' counts stay within their types.
THEOREM TypeCorrect == Spec => []TypeOK
<1>1. IInv => TypeOK
  BY DEF IInv
<1> QED BY <1>1, Invariance, PTL

\* The object of a sequence that a call has locked is not deleted under it: the barrier
\* of sslm_seq_release waits for it, and the registry keeps later calls away.
THEOREM NoUseAfterFreeHolds == Spec => []NoUseAfterFree
<1>1. IInv => NoUseAfterFree
  BY DEF IInv, LockInv, CallTypes, LocksOfCalls, FoundExist, NoUseAfterFree
<1> QED BY <1>1, Invariance, PTL

\* No calls wait for each other in a circle: only the thread in the registry's section
\* waits while it holds a mutex, and for mutexes of others.
THEOREM HoldersNeverWaitHolds == Spec => []HoldersNeverWait
<1>1. IInv => HoldersNeverWait
  BY DEF IInv, LockInv, CallTypes, LocksOfCalls, HoldersNeverWait
<1> QED BY <1>1, Invariance, PTL

\* Of two calls in their bodies, neither works on a sequence of the other.
THEOREM BodiesExclusiveHolds == Spec => []BodiesExclusive
<1>1. IInv => BodiesExclusive
  BY DEF IInv, LockInv, CallTypes, LocksOfCalls, BodiesExclusive
<1> QED BY <1>1, Invariance, PTL

\* An adapter's count is the number of sequences that have it bound and whose release
\* has not dropped theirs: rebinding, releasing and mapping again keep it exact.
THEOREM AdapterRefsHolds == Spec => []AdapterRefs
<1>1. IInv => AdapterRefs
  BY DEF IInv
<1> QED BY <1>1, Invariance, PTL

\* sslm_adapter_release cannot unmap the adapter of a sequence nobody is releasing.
THEOREM BoundIsMappedHolds == Spec => []BoundIsMapped
<1>1. IInv => BoundIsMapped
  <2> SUFFICES ASSUME IInv, NEW p \in exists, ~Releasing(p), NEW a \in bound[p] PROVE a \in mapped
    BY DEF BoundIsMapped
  <2>1. p \in Handles /\ a \in Adapters
    BY DEF IInv, TypeOK
  <2>2. ~Dropped(p)
    BY DEF Releasing, Dropped
  <2>3. p \in Users(a)
    BY <2>2 DEF Users
  <2> QED BY <2>1, <2>3 DEF IInv, UsersMapped
<1> QED BY <1>1, Invariance, PTL

=============================================================================
