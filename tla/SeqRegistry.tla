---------------------------- MODULE SeqRegistry ----------------------------
(***************************************************************************)
(* Which thread may touch which sequence: the registry of live sequences,  *)
(* the per-sequence lifecycle mutex and the adapter's reference count of   *)
(* src/src/sslm_abi.cpp.                                                   *)
(*                                                                         *)
(* A batched sslm_decode_step may race an sslm_seq_release of a sequence   *)
(* it names.  It proves each sequence live under g_seq_registry_mutex,     *)
(* locks the live ones in address order while it still holds the registry, *)
(* and keeps them locked for the whole call.  The release erases the       *)
(* sequence from the registry, passes its mutex once as a barrier, and     *)
(* only then deletes it.                                                   *)
(*                                                                         *)
(* A handle is an address: a new sequence may get the address of a deleted *)
(* one.  What the source leaves to its caller is a guard here: one release *)
(* per handle, none beside a call that does not look the sequence up, and  *)
(* prefill and set_adapter only by a caller that has it to itself.         *)
(***************************************************************************)
EXTENDS Integers, FiniteSets

CONSTANTS
    Threads,
    Handles,     \* addresses, ordered as the pointers are
    Adapters,
    MaxCreates   \* bound: sequences created in a behaviour

ASSUME HandlesAssumption == Handles \subseteq Nat /\ IsFiniteSet(Handles)
ASSUME BoundAssumption == MaxCreates \in Nat

VARIABLES
    exists,    \* handles whose object is allocated
    live,      \* g_live_seqs
    registry,  \* the thread that holds g_seq_registry_mutex, if any
    holder,    \* the thread that holds each lifecycle_mutex, if any
    at,        \* where each thread is
    named,     \* the handles its call names
    todo,      \* of these, the ones a decode has not looked up yet
    found,     \* of these, the ones it proved live and locked
    fed,       \* sequences with something to resume: a prompt, or a token
    mid,       \* sequences with layer_index # 0
    eligible,  \* sequences with bind_eligible set
    bound,     \* adapter_handle of each sequence, if any
    refs,      \* sslm_adapter_s::live_refs
    mapped,    \* adapters mapped and not released
    created    \* sequences created so far

seqVars     == <<fed, mid, eligible, bound>>
adapterVars == <<refs, mapped>>
callVars    == <<at, named, todo, found>>
lockVars    == <<registry, holder>>
vars == <<exists, live, lockVars, callVars, seqVars, adapterVars, created>>

DecodeStages  == {"decode:registry", "decode:lock", "decode:check", "decode:run"}
JumpStages    == {"jump:registry", "jump:lock", "jump:run"}
ReleaseStages == {"release:drop", "release:erase", "release:barrier", "release:delete"}
Stages        == {"idle", "one:lock", "one:run"} \cup DecodeStages \cup JumpStages \cup ReleaseStages

Goes(t, s) == at' = [at EXCEPT ![t] = s]
Idle(t) == at[t] = "idle"
Releasing(p) == \E t \in Threads : at[t] \in ReleaseStages /\ p \in named[t]

\* The single-caller contract: nobody else has a call on sequence p.  The source
\* states it for the prefill; sslm_seq_set_adapter, which locks nothing either, is
\* taken to be called under the same.
Alone(p) == \A t \in Threads : ~Idle(t) => p \notin named[t]

\* Begins a call of thread t on the handles P.
Call(t, s, P) ==
    /\ Idle(t) /\ P # {} /\ P \subseteq exists
    /\ Goes(t, s)
    /\ named' = [named EXCEPT ![t] = P]
    /\ todo' = [todo EXCEPT ![t] = P]
    /\ UNCHANGED found

\* Fault: an early return that leaves the locks held.
UnlockedNever(t) == holder

\* Ends it: what the call's locks held is free again.
Unlocked(t) == [p \in Handles |-> holder[p] \ {t}]
Return(t) ==
    /\ Goes(t, "idle")
    /\ holder' = Unlocked(t)
    /\ named' = [named EXCEPT ![t] = {}]
    /\ todo' = [todo EXCEPT ![t] = {}]
    /\ found' = [found EXCEPT ![t] = {}]

Lowest(P) == CHOOSE p \in P : \A q \in P : p <= q

-----------------------------------------------------------------------------
Init ==
    /\ exists = {} /\ live = {} /\ registry = {}
    /\ holder = [p \in Handles |-> {}]
    /\ at = [t \in Threads |-> "idle"]
    /\ named = [t \in Threads |-> {}]
    /\ todo = [t \in Threads |-> {}]
    /\ found = [t \in Threads |-> {}]
    /\ fed = {} /\ mid = {} /\ eligible = {}
    /\ bound = [p \in Handles |-> {}]
    /\ refs = [a \in Adapters |-> 0]
    /\ mapped = {}
    /\ created = 0

\* The object is built and registered before anybody has its handle.
Register(p) ==
    /\ created < MaxCreates /\ created' = created + 1
    /\ p \notin exists /\ registry = {}
    /\ exists' = exists \cup {p}
    /\ live' = live \cup {p}
    /\ bound' = [bound EXCEPT ![p] = {}]
    /\ UNCHANGED <<lockVars, callVars, adapterVars>>

\* sslm_seq_create.
Create(p) ==
    /\ Register(p)
    /\ eligible' = eligible \cup {p}
    /\ fed' = fed \ {p}
    /\ mid' = mid \ {p}

\* sslm_seq_restore: a blob of a sequence at any point, and no longer eligible.
Restore(p) ==
    /\ Register(p)
    /\ eligible' = eligible \ {p}
    /\ fed' \in {fed \cup {p}, fed \ {p}}
    /\ mid' \in {mid \cup {p}, mid \ {p}}

\* sslm_prefill by a caller that has the sequence to itself.
Prefill(p) ==
    /\ p \in exists /\ Alone(p)
    /\ fed' = fed \cup {p}
    /\ eligible' = eligible \ {p}
    /\ UNCHANGED <<exists, live, lockVars, callVars, mid, bound, adapterVars, created>>

-----------------------------------------------------------------------------
(* sslm_decode_step and the two verbs of LockLiveSeq. *)

DecodeCall(t, P) ==
    /\ Call(t, "decode:registry", P)
    /\ UNCHANGED <<exists, live, lockVars, seqVars, adapterVars, created>>

\* sslm_seq_jump_forward, and sslm_seq_forced_tokens, which locks alike.
JumpCall(t, p) ==
    /\ Call(t, "jump:registry", {p})
    /\ UNCHANGED <<exists, live, lockVars, seqVars, adapterVars, created>>

EnterRegistry(t) ==
    /\ at[t] \in {"decode:registry", "jump:registry"} /\ registry = {}
    /\ registry' = {t}
    /\ Goes(t, IF at[t] = "decode:registry" THEN "decode:lock" ELSE "jump:lock")
    /\ UNCHANGED <<exists, live, holder, named, todo, found, seqVars, adapterVars, created>>

\* Fault: the registry is given up at every lock.
LockReleasing(t) ==
    /\ at[t] \in {"decode:lock", "jump:lock"} /\ todo[t] # {}
    /\ LET p == Lowest(todo[t])
       IN /\ todo' = [todo EXCEPT ![t] = @ \ {p}]
          /\ IF p \in live
               THEN /\ holder[p] = {}
                    /\ holder' = [holder EXCEPT ![p] = {t}]
                    /\ found' = [found EXCEPT ![t] = @ \cup {p}]
               ELSE UNCHANGED <<holder, found>>
    /\ registry' = {}
    /\ UNCHANGED <<exists, live, at, named, seqVars, adapterVars, created>>

\* Fault: the sequence is found live and not locked.
LockNothing(t) ==
    /\ at[t] \in {"decode:lock", "jump:lock"} /\ todo[t] # {}
    /\ LET p == Lowest(todo[t])
       IN /\ todo' = [todo EXCEPT ![t] = @ \ {p}]
          /\ found' = [found EXCEPT ![t] = @ \cup ({p} \cap live)]
    /\ UNCHANGED <<exists, live, lockVars, at, named, seqVars, adapterVars, created>>

\* One sequence of the batch, in address order: a live one is locked, waiting for
\* its mutex with the registry held; a dead one is passed over untouched.
LockNext(t) ==
    /\ at[t] \in {"decode:lock", "jump:lock"} /\ todo[t] # {}
    /\ LET p == Lowest(todo[t])
       IN /\ todo' = [todo EXCEPT ![t] = @ \ {p}]
          /\ IF p \in live
               THEN /\ holder[p] = {}
                    /\ holder' = [holder EXCEPT ![p] = {t}]
                    /\ found' = [found EXCEPT ![t] = @ \cup {p}]
               ELSE UNCHANGED <<holder, found>>
    /\ UNCHANGED <<exists, live, registry, at, named, seqVars, adapterVars, created>>

LeaveRegistry(t) ==
    /\ at[t] \in {"decode:lock", "jump:lock"} /\ todo[t] = {}
    /\ registry' = {}
    /\ Goes(t, IF at[t] = "decode:lock" THEN "decode:check" ELSE "jump:run")
    /\ UNCHANGED <<exists, live, holder, named, todo, found, seqVars, adapterVars, created>>

\* A sequence with no prompt and no token has nothing to resume from.
Malformed(t) == found[t] \ (fed \cup mid) # {}

\* Bind eligibility goes first, then every live sequence of the batch is validated.
DecodeCheck(t) ==
    /\ at[t] = "decode:check"
    /\ eligible' = eligible \ found[t]
    /\ IF Malformed(t)
         THEN Return(t)
         ELSE Goes(t, "decode:run") /\ UNCHANGED <<holder, named, todo, found>>
    /\ UNCHANGED <<exists, live, registry, fed, mid, bound, adapterVars, created>>

\* The batch's layers and finishes: each live sequence ends between two tokens or
\* within one, as the layer budget has it.
DecodeRun(t, pending) ==
    /\ at[t] = "decode:run"
    /\ pending \subseteq found[t]
    /\ mid' = (mid \ found[t]) \cup pending
    /\ Return(t)
    /\ UNCHANGED <<exists, live, registry, fed, eligible, bound, adapterVars, created>>

\* Dead, or mid-token: refused.  Otherwise the call commits whole tokens or none.
JumpRun(t) ==
    /\ at[t] = "jump:run"
    /\ eligible' = eligible \ (found[t] \ mid)
    /\ Return(t)
    /\ UNCHANGED <<exists, live, registry, fed, mid, bound, adapterVars, created>>

-----------------------------------------------------------------------------
(* The lifecycle mutex alone: reset, adopt, save and the page accounts. *)

OneCall(t, p) ==
    /\ ~Releasing(p)
    /\ Call(t, "one:lock", {p})
    /\ UNCHANGED <<exists, live, lockVars, seqVars, adapterVars, created>>

OneLock(t) ==
    /\ at[t] = "one:lock"
    /\ \A p \in named[t] : holder[p] = {}
    /\ holder' = [p \in Handles |-> IF p \in named[t] THEN {t} ELSE holder[p]]
    /\ found' = [found EXCEPT ![t] = named[t]]
    /\ Goes(t, "one:run")
    /\ UNCHANGED <<exists, live, registry, named, todo, seqVars, adapterVars, created>>

ResetRun(t) ==
    /\ at[t] = "one:run"
    /\ fed' = fed \ found[t]
    /\ mid' = mid \ found[t]
    /\ eligible' = eligible \cup found[t]
    /\ Return(t)
    /\ UNCHANGED <<exists, live, registry, bound, adapterVars, created>>

\* sslm_seq_adopt_prefix: what there is to resume is the prefix's, which rests between
\* tokens.  Refused late, it has taken the eligibility alone.
AdoptRun(t) ==
    /\ at[t] = "one:run"
    /\ eligible' = eligible \ found[t]
    /\ \/ fed' \in {fed \cup found[t], fed \ found[t]} /\ mid' = mid \ found[t]
       \/ UNCHANGED <<fed, mid>>
    /\ Return(t)
    /\ UNCHANGED <<exists, live, registry, bound, adapterVars, created>>

\* sslm_seq_save, sslm_seq_kv_stats, sslm_seq_forced_tokens, and what is refused at once.
ReadRun(t) ==
    /\ at[t] \in {"one:run", "jump:run"}
    /\ Return(t)
    /\ UNCHANGED <<exists, live, registry, seqVars, adapterVars, created>>

-----------------------------------------------------------------------------
(* sslm_seq_release. *)

ReleaseCall(t, p) ==
    /\ ~Releasing(p)
    /\ \A u \in Threads : at[u] \in {"one:lock", "one:run"} => p \notin named[u]
    /\ Call(t, "release:drop", {p})
    /\ UNCHANGED <<exists, live, lockVars, seqVars, adapterVars, created>>

\* A bound adapter's count drops first ...
ReleaseDrop(t) ==
    /\ at[t] = "release:drop"
    /\ refs' = [a \in Adapters |-> refs[a] - Cardinality({p \in named[t] : a \in bound[p]})]
    /\ Goes(t, "release:erase")
    /\ UNCHANGED <<exists, live, lockVars, named, todo, found, seqVars, mapped, created>>

\* ... then the sequence leaves the registry ...
ReleaseErase(t) ==
    /\ at[t] = "release:erase" /\ registry = {}
    /\ live' = live \ named[t]
    /\ Goes(t, "release:barrier")
    /\ UNCHANGED <<exists, lockVars, named, todo, found, seqVars, adapterVars, created>>

\* Fault: the barrier left out.
ReleaseNoBarrier(t) ==
    /\ at[t] = "release:barrier"
    /\ Goes(t, "release:delete")
    /\ UNCHANGED <<exists, live, lockVars, named, todo, found, seqVars, adapterVars, created>>

\* ... the mutex is taken and given back, which waits for a call in its body ...
ReleaseBarrier(t) ==
    /\ at[t] = "release:barrier"
    /\ \A p \in named[t] : holder[p] = {}
    /\ Goes(t, "release:delete")
    /\ UNCHANGED <<exists, live, lockVars, named, todo, found, seqVars, adapterVars, created>>

\* ... and the object goes.
ReleaseDelete(t) ==
    /\ at[t] = "release:delete"
    /\ exists' = exists \ named[t]
    /\ named' = [named EXCEPT ![t] = {}]
    /\ todo' = [todo EXCEPT ![t] = {}]
    /\ Goes(t, "idle")
    /\ UNCHANGED <<live, lockVars, found, seqVars, adapterVars, created>>

-----------------------------------------------------------------------------
(* Adapters. *)

AdapterMap(a) ==
    /\ a \notin mapped
    /\ mapped' = mapped \cup {a}
    /\ refs' = [refs EXCEPT ![a] = 0]
    /\ UNCHANGED <<exists, live, lockVars, callVars, seqVars, created>>

\* Fault: a rebind that forgets the adapter it replaces.
SetAdapterKeepsOld(p, A) ==
    /\ p \in exists /\ Alone(p) /\ p \notin mid /\ A \subseteq mapped /\ A # bound[p]
    /\ refs' = [a \in Adapters |-> IF a \in A THEN refs[a] + 1 ELSE refs[a]]
    /\ bound' = [bound EXCEPT ![p] = A]
    /\ UNCHANGED <<exists, live, lockVars, callVars, fed, mid, eligible, mapped, created>>

\* sslm_seq_set_adapter (A has at most one member): never within a token.
SetAdapter(p, A) ==
    /\ p \in exists /\ Alone(p) /\ p \notin mid /\ A \subseteq mapped /\ A # bound[p]
    /\ refs' = [a \in Adapters |-> refs[a] - (IF a \in bound[p] THEN 1 ELSE 0)
                                           + (IF a \in A THEN 1 ELSE 0)]
    /\ bound' = [bound EXCEPT ![p] = A]
    /\ UNCHANGED <<exists, live, lockVars, callVars, fed, mid, eligible, mapped, created>>

\* Fault: the count is not looked at.
AdapterReleaseAnyway(a) ==
    /\ a \in mapped
    /\ mapped' = mapped \ {a}
    /\ UNCHANGED <<exists, live, lockVars, callVars, seqVars, refs, created>>

\* sslm_adapter_release: refused while a reference is counted.
AdapterRelease(a) ==
    /\ a \in mapped /\ refs[a] = 0
    /\ mapped' = mapped \ {a}
    /\ UNCHANGED <<exists, live, lockVars, callVars, seqVars, refs, created>>

-----------------------------------------------------------------------------
ThreadStep(t) ==
    \/ EnterRegistry(t) \/ LockNext(t) \/ LeaveRegistry(t) \/ DecodeCheck(t)
    \/ \E P \in SUBSET Handles : DecodeRun(t, P)
    \/ JumpRun(t)
    \/ OneLock(t) \/ ResetRun(t) \/ AdoptRun(t) \/ ReadRun(t)
    \/ ReleaseDrop(t) \/ ReleaseErase(t) \/ ReleaseBarrier(t) \/ ReleaseDelete(t)

Next ==
    \/ \E t \in Threads : ThreadStep(t)
    \/ \E t \in Threads, P \in SUBSET Handles : DecodeCall(t, P)
    \/ \E t \in Threads, p \in Handles : JumpCall(t, p) \/ OneCall(t, p) \/ ReleaseCall(t, p)
    \/ \E p \in Handles : Create(p) \/ Restore(p) \/ Prefill(p)
    \/ \E p \in Handles, A \in SUBSET Adapters : Cardinality(A) <= 1 /\ SetAdapter(p, A)
    \/ \E a \in Adapters : AdapterMap(a) \/ AdapterRelease(a)

\* A thread inside a call goes on whenever it can.
Fairness == \A t \in Threads : WF_vars(ThreadStep(t))

Spec == Init /\ [][Next]_vars
FairSpec == Spec /\ Fairness

-----------------------------------------------------------------------------
TypeOK ==
    /\ exists \subseteq Handles /\ live \subseteq Handles
    /\ registry \subseteq Threads /\ Cardinality(registry) <= 1
    /\ holder \in [Handles -> SUBSET Threads]
    /\ at \in [Threads -> Stages]
    /\ named \in [Threads -> SUBSET Handles]
    /\ todo \in [Threads -> SUBSET Handles]
    /\ found \in [Threads -> SUBSET Handles]
    /\ fed \subseteq Handles /\ mid \subseteq Handles /\ eligible \subseteq Handles
    /\ bound \in [Handles -> SUBSET Adapters]
    /\ refs \in [Adapters -> Int]
    /\ mapped \subseteq Adapters
    /\ created \in 0 .. MaxCreates

\* A sequence that a call has locked, or whose mutex somebody holds, is allocated: a
\* release that races it deletes the object only after the call is through.
NoUseAfterFree ==
    /\ \A t \in Threads : found[t] \subseteq exists
    /\ \A p \in Handles : holder[p] # {} => p \in exists
    /\ live \subseteq exists

\* Nobody who holds a lifecycle mutex waits, except the one thread that holds the
\* registry, and that one waits for others only: no calls wait in a circle, whatever
\* sequences their batches name.
HoldersNeverWait ==
    /\ \A p \in Handles : \A u \in holder[p] :
          u \in registry \/ at[u] \in {"decode:check", "decode:run", "jump:run", "one:run"}
    /\ \A u \in registry : \A p \in todo[u] : u \notin holder[p]

\* A call's body is alone on every sequence it found.
BodiesExclusive ==
    \A t, u \in Threads : t # u => found[t] \cap found[u] = {}

\* The sequences whose binding an adapter counts: those no release has dropped.
Dropped(p) == \E t \in Threads : p \in named[t] /\ at[t] \in ReleaseStages \ {"release:drop"}
Users(a)   == {p \in exists : a \in bound[p] /\ ~Dropped(p)}

\* An adapter's count is the number of sequences that have it bound, less those
\* whose release has dropped theirs.
AdapterRefs == \A a \in mapped : refs[a] = Cardinality(Users(a))

\* The adapter of a sequence nobody is releasing is mapped.
BoundIsMapped == \A p \in exists : ~Releasing(p) => bound[p] \subseteq mapped

\* A sequence that left the registry is deleted: the barrier does not wait for ever,
\* as nobody can lock the sequence any more.
ErasedIsDeleted == \A p \in Handles : p \in exists \ live ~> p \notin exists

-----------------------------------------------------------------------------
(* The inductive invariant: what a thread has, by how far its call has come, what a *)
(* release in progress rules out, and what the adapters' counts are.               *)

LockStages == {"decode:lock", "jump:lock"}
BodyStages == {"decode:check", "decode:run", "jump:run", "one:run"}

\* The types of what a call has.
CallTypes ==
    /\ live \subseteq exists /\ exists \subseteq Handles
    /\ registry \subseteq Threads
    /\ holder \in [Handles -> SUBSET Threads]
    /\ at \in [Threads -> Stages]
    /\ named \in [Threads -> SUBSET Handles]
    /\ todo \in [Threads -> SUBSET Handles]
    /\ found \in [Threads -> SUBSET Handles]

\* A mutex is held by one thread, by the one that found its sequence, in a section or
\* a body; and of two threads only one is in the registry's section.
LocksOfCalls ==
    /\ \A t \in Threads, p \in Handles : t \in holder[p] <=> p \in found[t]
    /\ \A t, u \in Threads, p \in Handles : t \in holder[p] /\ u \in holder[p] => t = u
    /\ \A t \in Threads : found[t] # {} => at[t] \in LockStages \cup BodyStages
    /\ \A t \in Threads : at[t] \in LockStages => registry = {t}
    /\ \A t \in Threads : t \in registry => at[t] \in LockStages
    /\ \A t \in Threads : at[t] \in LockStages => todo[t] \cap found[t] = {}

\* A release has its sequence to itself among releases and the calls that do not look it
\* up; behind the erase the sequence is not live, and behind the barrier nobody has it
\* locked.
ReleasesAlone ==
    /\ \A t \in Threads, p \in Handles :
          p \in named[t] =>
            /\ at[t] \in ReleaseStages \cup {"one:lock", "one:run"} => p \in exists
            /\ at[t] \in {"release:barrier", "release:delete"} => p \notin live
            /\ at[t] = "release:delete" => holder[p] = {}
    /\ \A t, u \in Threads, p \in Handles :
          /\ t # u /\ at[t] \in ReleaseStages
          /\ at[u] \in ReleaseStages \cup {"one:lock", "one:run"}
          => ~(p \in named[t] /\ p \in named[u])

\* A sequence a call has found is allocated.
FoundExist == \A t \in Threads : found[t] \subseteq exists

\* The four together are kept by every step, whatever threads and sequences there are:
\* what is locked is allocated because a release deletes only what is neither live nor
\* locked, and nothing that is not live gets locked.
LockInv == CallTypes /\ LocksOfCalls /\ ReleasesAlone /\ FoundExist

\* What an adapter counts keeps it mapped, so that no count is of an adapter unmapped
\* and mapped again.
UsersMapped == \A a \in Adapters : Users(a) # {} => a \in mapped

IInv == TypeOK /\ LockInv /\ AdapterRefs /\ UsersMapped

\* While a decode runs its layers over a sequence, the adapter it composes in is there.
AdapterOutlivesDecode ==
    \A t \in Threads : at[t] = "decode:run" =>
        \A p \in found[t] : bound[p] \subseteq mapped
=============================================================================
