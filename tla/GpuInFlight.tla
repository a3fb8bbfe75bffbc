---------------------------- MODULE GpuInFlight ----------------------------
(***************************************************************************)
(* The GPU backend's work in flight: the submission ledger of the one      *)
(* device every decode submits to (src/src/gpu/submission_ledger.h), the   *)
(* tokens that hold what the GPU may still read and write                  *)
(* (gpu_inflight_token.h), the handles' Submitted states with the counts   *)
(* that admit the next submission (gpu_1p0.cpp), and the prefill, decode,  *)
(* ready and drain calls that move them.                                   *)
(*                                                                         *)
(* The device is a queue: work runs in order and a signal raises the       *)
(* fence's completed value.  A signal may fail, a wait may fail to be      *)
(* armed, a recording or an allocation may fail.  What the work computes   *)
(* is left out.                                                            *)
(*                                                                         *)
(* The host keeps P1's precondition (include/superslm/gpu_1p0.h): one      *)
(* thread at a time in a call that submits or blocks, any number polling   *)
(* beside it, and one call at a time on a handle, except that decode calls *)
(* may race on one handle.                                                 *)
(***************************************************************************)
EXTENDS Integers, Sequences, FiniteSets

CONSTANTS
    Threads,     \* host threads
    Dedicated,   \* sequences with K/V buffers of their own
    Pooled,      \* sequences in the one pool
    Batches,     \* the batches decoded: sequences of handles
    NoWork,      \* no work, no handle
    Parts,       \* the numbers of sub-chunks a prefill is split into
    MaxFence     \* bound: fence values a model run attempts

Handles == Dedicated \cup Pooled

ASSUME HandlesAssumption == /\ Dedicated \cap Pooled = {}
                            /\ NoWork \notin Handles \cup [id : Nat, v : Nat]
ASSUME BatchAssumption   == Batches \subseteq Seq(Handles) \ {<<>>}
ASSUME BoundAssumption   == Parts \subseteq Nat \ {0} /\ MaxFence \in Nat

VARIABLES
    submitted, observed, unsignaled, lost,  \* the ledger
    fence,      \* fence_val_: the last value a signal was attempted at
    queue,      \* what the device has yet to run
    completed,  \* the fence's completed value
    state,      \* handles in state Submitted
    token,      \* each handle's in_flight: the work it holds
    graveyard,  \* work kept alive for ever, by name
    process,    \* GpuSubmittedCounts::process_
    pooled,     \* GpuSubmittedCounts::pooled_
    seat,       \* the pool's submitted_ pointer
    claims,     \* handles whose decode_claimed is set
    th          \* what each thread is doing

ledger == <<submitted, observed, unsignaled, lost>>
device == <<fence, queue, completed>>
counts == <<process, pooled, seat>>
vars   == <<ledger, device, state, token, graveyard, counts, claims, th>>

\* Out of every call.  "rest" are the slots of a batch not begun, "parts" the
\* sub-chunks of a prefill not done, "work" the work a local of the call holds, "then" what a wait for the value "v" is for,
\* "cur" the value of observed_ that RaiseObserved loaded, "down" how much of the
\* lowering is done, "gone" that the wait could not be confirmed.
Out == [at |-> "out", verb |-> "none", h |-> NoWork, rest |-> <<>>, parts |-> 0,
        work |-> NoWork, v |-> 0, cur |-> 0, then |-> "none", down |-> 0, gone |-> FALSE]

Init ==
    /\ submitted = 0 /\ observed = 0 /\ unsignaled = FALSE /\ lost = FALSE
    /\ fence = 0 /\ queue = <<>> /\ completed = 0
    /\ state = {} /\ token = [h \in Handles |-> NoWork] /\ graveyard = {}
    /\ process = 0 /\ pooled = 0 /\ seat = NoWork
    /\ claims = {} /\ th = [t \in Threads |-> Out]

-----------------------------------------------------------------------------
(* The ledger, the guard and the host's duty. *)

\* Fault: a failed signal does not strand the device.
StrandedIfLost == lost

Stranded   == unsignaled \/ lost
Unobserved == observed < submitted

At(t, p)     == th[t].at = p
Goes(t, r)   == th' = [th EXCEPT ![t] = r]
In(t)        == ~At(t, "out")
OnHandle(t)  == IF th[t].h = NoWork THEN {} ELSE {th[t].h}
Names(t)     == OnHandle(t) \cup {th[t].rest[i] : i \in DOMAIN th[t].rest}
Decodes(t)   == th[t].verb \in {"step", "batch"}
Others(t)    == {u \in Threads \ {t} : In(u)}

\* P1's precondition for a decode of the handles hs: no other thread submits or
\* blocks, but for decodes of the same one handle, and none is in a call on hs.
MayDecode(t, hs) ==
    \A u \in Others(t) : \/ th[u].verb = "poll" /\ Names(u) \cap hs = {}
                         \/ Decodes(u) /\ Names(u) = hs /\ Cardinality(hs) = 1
MayBlock(t, hs) == \A u \in Others(t) : th[u].verb = "poll" /\ Names(u) \cap hs = {}
MayPoll(t, h)   == \A u \in Others(t) : h \notin Names(u)

\* EntrySubmitGuard: the ledger's term, then the count of the scope: any sequence
\* for a pooled holder, a pooled one for a dedicated.
Guard(anyPooled) ==
    /\ ~Stranded /\ ~Unobserved
    /\ IF anyPooled THEN process = 0 ELSE pooled = 0

\* The fence values that n submissions may attempt are within the bound.
Within(n) == fence + 2 * n <= MaxFence

\* SubmittedWindowScopeGuard: a prefill lowers its handle on every exit.
Lowers(t) == th[t].verb = "prefill" /\ ~At(t, "lower")

\* What a call does once its submission is given up or its handle lowered: a batch
\* goes on to its next slot unless this one answers SSLM_DEVICE_LOST.
After(t, isLost) ==
    IF Lowers(t) THEN [th[t] EXCEPT !.at = "lower", !.work = NoWork]
    ELSE IF th[t].rest = <<>> \/ isLost THEN Out
    ELSE [Out EXCEPT !.at = "slots", !.verb = "batch", !.rest = th[t].rest]

\* SetGpuSeqState into Submitted: the state, the counts and the pool's pointer.
Raise(h) ==
    /\ state' = state \cup {h}
    /\ process' = process + 1
    /\ pooled' = pooled + (IF h \in Pooled THEN 1 ELSE 0)
    /\ seat' = IF h \in Pooled THEN h ELSE seat

\* SeqDecodeClaim's end.
Unclaimed(t) == IF Decodes(t) THEN claims \ {th[t].h} ELSE claims

-----------------------------------------------------------------------------
(* Decode and prefill: sslm_decode_step_gpu, sslm_decode_step_batch_gpu,
   SubmitAdmittedChunkForG5Bridge. *)

\* The claim, the handle's state, the guard.  Refused, the call changes nothing.
Step(t, h) ==
    /\ ~In(t) /\ MayDecode(t, {h}) /\ Within(1)
    /\ h \notin claims /\ h \notin state
    /\ Guard(h \in Pooled)
    /\ claims' = claims \cup {h}
    /\ Goes(t, [Out EXCEPT !.at = "guarded", !.verb = "step", !.h = h])
    /\ UNCHANGED <<ledger, device, state, token, graveyard, counts>>

\* A batch asks the guard once, before any slot's claim.
Batch(t, hs) ==
    LET names == {hs[i] : i \in DOMAIN hs}
    IN  /\ ~In(t) /\ MayDecode(t, names) /\ Within(Len(hs))
        /\ Guard(names \cap Pooled # {})
        /\ Goes(t, [Out EXCEPT !.at = "slots", !.verb = "batch", !.rest = hs])
        /\ UNCHANGED <<ledger, device, state, token, graveyard, counts, claims>>

\* A slot whose handle is claimed or Submitted is Busy and left alone.
Slot(t) ==
    /\ At(t, "slots")
    /\ LET h    == Head(th[t].rest)
           rest == Tail(th[t].rest)
           free == h \notin claims /\ h \notin state
       IN  /\ claims' = IF free THEN claims \cup {h} ELSE claims
           /\ Goes(t, IF free
                      THEN [th[t] EXCEPT !.at = "guarded", !.h = h, !.rest = rest]
                      ELSE IF rest = <<>> THEN Out ELSE [th[t] EXCEPT !.rest = rest])
    /\ UNCHANGED <<ledger, device, state, token, graveyard, counts>>

\* A prefill of n sub-chunks takes no claim; it raises the handle's state and counts
\* before its first submission.
Prefill(t, h, n) ==
    /\ ~In(t) /\ MayBlock(t, {h}) /\ Within(n)
    /\ h \notin state
    /\ Guard(h \in Pooled)
    /\ Raise(h)
    /\ Goes(t, [Out EXCEPT !.at = "guarded", !.verb = "prefill", !.h = h, !.parts = n])
    /\ UNCHANGED <<ledger, device, token, graveyard, claims>>

\* The reset is refused: PoolSubmitAssert throws before it is made, and the exception
\* ends the whole call.
BeginRefused(t) ==
    /\ At(t, "guarded")
    /\ Stranded \/ Unobserved
    /\ claims' = Unclaimed(t)
    /\ Goes(t, After(t, TRUE))
    /\ UNCHANGED <<ledger, device, state, token, graveyard, counts>>

\* BeginRecording: the reset.
BeginRecording(t) ==
    /\ At(t, "guarded")
    /\ ~Stranded /\ ~Unobserved
    /\ Goes(t, [th[t] EXCEPT !.at = "recording"])
    /\ UNCHANGED <<ledger, device, state, token, graveyard, counts, claims>>

\* The recording fails: the list is closed, nothing was submitted.  Whether that is
\* SSLM_DEVICE_LOST, which ends a batch, or another status depends on the fault.
AbandonRecording(t) ==
    /\ At(t, "recording")
    /\ claims' = Unclaimed(t)
    /\ \E deviceLost \in BOOLEAN : Goes(t, After(t, deviceLost))
    /\ UNCHANGED <<ledger, device, state, token, graveyard, counts>>

\* Submit: ExecuteCommandLists and MarkUnsignaled.  Work is named by the value its
\* first signal is attempted at.
Execute(t) ==
    /\ At(t, "recording")
    /\ queue' = Append(queue, [sort |-> "work", id |-> fence + 1])
    /\ unsignaled' = TRUE
    /\ Goes(t, [th[t] EXCEPT !.at = "signal", !.work = [id |-> fence + 1, v |-> 0]])
    /\ UNCHANGED <<submitted, observed, lost, fence, completed, state, token, graveyard, counts, claims>>

\* A signal at a fresh value succeeds.  A retry's work is waited for, and its
\* first failure then reported.
Signal(t) ==
    /\ th[t].at \in {"signal", "retry"}
    /\ fence' = fence + 1
    /\ queue' = Append(queue, [sort |-> "signal", id |-> fence'])
    /\ submitted' = fence' /\ unsignaled' = FALSE
    /\ Goes(t, [th[t] EXCEPT !.at = IF @ = "retry" THEN "wait" ELSE "hand", !.then = "drop",
                             !.work = [@ EXCEPT !.v = fence'], !.v = fence'])
    /\ UNCHANGED <<observed, lost, completed, state, token, graveyard, counts, claims>>

\* Fault: what the GPU may still touch is freed.
Freed(w) == graveyard

\* KeepAliveStranded, and StrandedTailKeepAlive for work no token held yet.
Kept(w) == IF w = NoWork THEN graveyard ELSE graveyard \cup {w.id}

\* A signal fails.  The first is retried; the second strands the device: its work
\* is kept alive, and unsignaled_ stays.
SignalFails(t) ==
    /\ th[t].at \in {"signal", "retry"}
    /\ fence' = fence + 1
    /\ IF At(t, "signal")
       THEN /\ Goes(t, [th[t] EXCEPT !.at = "retry"])
            /\ UNCHANGED <<graveyard, claims>>
       ELSE /\ graveyard' = Kept(th[t].work)
            /\ claims' = Unclaimed(t)
            /\ Goes(t, After(t, TRUE))
    /\ UNCHANGED <<ledger, queue, completed, state, token, counts>>

\* The token is made and moved into the handle, and SetGpuSeqState raises.  A step
\* returns; a batch drains at once.
HandOver(t) ==
    LET h == th[t].h IN
    /\ At(t, "hand") /\ Decodes(t)
    /\ token' = [token EXCEPT ![h] = th[t].work]
    /\ Raise(h)
    /\ IF th[t].verb = "step"
       THEN claims' = Unclaimed(t) /\ Goes(t, Out)
       ELSE UNCHANGED claims /\ Goes(t, [th[t] EXCEPT !.at = "take", !.work = NoWork])
    /\ UNCHANGED <<ledger, device, graveyard>>

\* A prefill finishes each sub-chunk at once, the last through the handle's token.
PartSubmitted(t) ==
    /\ At(t, "hand") /\ th[t].verb = "prefill"
    /\ Goes(t, [th[t] EXCEPT !.at = "wait", !.then = "finish"])
    /\ UNCHANGED <<ledger, device, state, token, graveyard, counts, claims>>

\* The token cannot be allocated: the submission drains as it is destroyed.
HandFails(t) ==
    /\ At(t, "hand")
    /\ Goes(t, [th[t] EXCEPT !.at = "wait"])
    /\ UNCHANGED <<ledger, device, state, token, graveyard, counts, claims>>

-----------------------------------------------------------------------------
(* Ready, drain and the wait. *)

\* sslm_gpu_ready(block = 0) once the fence has reached the value: Poll loads
\* observed_.  A poll of a fence not yet there changes nothing.
Poll(t, h) ==
    /\ ~In(t) /\ MayPoll(t, h)
    /\ h \in state /\ completed >= token[h].v
    /\ Goes(t, [Out EXCEPT !.at = "land", !.verb = "poll", !.h = h, !.then = "take",
                            !.v = token[h].v, !.cur = observed])
    /\ UNCHANGED <<ledger, device, state, token, graveyard, counts, claims>>

\* sslm_gpu_ready(block = 1).
Ready(t, h) ==
    /\ ~In(t) /\ MayBlock(t, {h})
    /\ h \in state
    /\ Goes(t, [Out EXCEPT !.at = "take", !.verb = "ready", !.h = h])
    /\ UNCHANGED <<ledger, device, state, token, graveyard, counts, claims>>

\* DrainSubmissionsGpu: a wait for the last submission, whoever holds it.
Drain(t) ==
    /\ ~In(t) /\ MayBlock(t, {})
    /\ ~Stranded
    /\ Goes(t, [Out EXCEPT !.at = "wait", !.verb = "drain", !.then = "return", !.v = submitted])
    /\ UNCHANGED <<ledger, device, state, token, graveyard, counts, claims>>

\* RunLayerLoopGpuFinish moves the work out of the handle's token into a local.
Take(t) ==
    /\ At(t, "take")
    /\ token' = [token EXCEPT ![th[t].h] = NoWork]
    /\ Goes(t, [th[t] EXCEPT !.at = "wait", !.then = "finish",
                             !.work = token[th[t].h], !.v = token[th[t].h].v])
    /\ UNCHANGED <<ledger, device, state, graveyard, counts, claims>>

\* WaitNoThrow: the fence has reached the value, at once or by its event.
Waited(t) ==
    /\ At(t, "wait") /\ completed >= th[t].v
    /\ Goes(t, [th[t] EXCEPT !.at = "land", !.cur = observed])
    /\ UNCHANGED <<ledger, device, state, token, graveyard, counts, claims>>

\* Fault: a finish whose wait fails leaves the handle Submitted.
Thrown(t) == "drop"

\* What the call does of its wait's failure: a finish still lowers its handle.
Caught(t) == th[t].then

\* The wait cannot be armed: the device is lost, and what the call held is kept alive.
WaitFails(t) ==
    /\ At(t, "wait") /\ completed < th[t].v
    /\ lost' = TRUE
    /\ graveyard' = Kept(th[t].work)
    /\ IF Caught(t) = "finish"
       THEN /\ Goes(t, [th[t] EXCEPT !.at = "lower", !.work = NoWork, !.gone = TRUE])
            /\ UNCHANGED claims
       ELSE /\ Goes(t, After(t, TRUE))
            /\ claims' = Unclaimed(t)
    /\ UNCHANGED <<submitted, observed, unsignaled, device, state, token, counts>>

\* Fault: a plain store for the compare-and-swap.
Stored(v, cur) == TRUE

\* The exchange succeeds only on the value that was loaded.
Exchanged(v, cur) == observed = cur

\* Fault: a failed exchange is tried again on the value it failed on.
LoadedOnce(cur) == cur

\* What the next exchange is tried on.
Reloaded(cur) == observed

\* RaiseObserved, from the load on: a failed exchange loads again.  Then a poll's
\* finish takes the work; a finish frees it and lowers its handle, or goes on to the
\* prefill's next sub-chunk; any other wait ends its call with the fault it stood for.
Land(t) ==
    /\ At(t, "land")
    /\ LET me    == th[t]
           again == me.v > me.cur /\ ~Exchanged(me.v, me.cur)
       IN  /\ observed' = IF me.v > me.cur /\ ~again THEN me.v ELSE observed
           /\ CASE again -> Goes(t, [me EXCEPT !.cur = Reloaded(@)])
                [] ~again /\ me.then = "take"   -> Goes(t, [me EXCEPT !.at = "take"])
                [] ~again /\ me.then = "finish" ->
                    Goes(t, [me EXCEPT !.at = IF me.parts > 1 THEN "guarded" ELSE "lower",
                                       !.parts = IF @ > 1 THEN @ - 1 ELSE @, !.work = NoWork])
                [] OTHER -> \E deviceLost \in BOOLEAN : Goes(t, After(t, deviceLost))
           /\ claims' = IF ~again /\ me.then = "drop" THEN Unclaimed(t) ELSE claims
    /\ UNCHANGED <<submitted, unsignaled, lost, device, state, token, graveyard, counts>>

\* Fault: the counts drop while the pool's pointer is still held.
CountsFirst == <<"state", "counts", "seat">>

\* SetGpuSeqState out of Submitted, in the order it stores.
Lowering == <<"state", "seat", "counts">>

\* A finish lowers its handle.  A read-back that fails loses the device, too.
Lower(t) ==
    LET h    == th[t].h
        i    == th[t].down + 1
        is(p) == Lowering[i] = p
        drop == IF h \in Pooled /\ is("counts") THEN 1 ELSE 0
        over == i = Len(Lowering)
    IN
    /\ At(t, "lower")
    /\ state' = IF is("state") THEN state \ {h} ELSE state
    /\ seat' = IF is("seat") /\ seat = h THEN NoWork ELSE seat
    /\ process' = IF is("counts") THEN process - 1 ELSE process
    /\ pooled' = pooled - drop
    /\ claims' = IF over THEN Unclaimed(t) ELSE claims
    /\ IF over THEN \E failed \in BOOLEAN : Goes(t, After(t, th[t].gone \/ failed))
               ELSE Goes(t, [th[t] EXCEPT !.down = i])
    /\ UNCHANGED <<ledger, device, token, graveyard>>

-----------------------------------------------------------------------------
\* The device: work ends, a signal raises the completed value.
Device ==
    /\ queue # <<>>
    /\ queue' = Tail(queue)
    /\ completed' = IF Head(queue).sort = "signal" THEN Head(queue).id ELSE completed
    /\ UNCHANGED <<ledger, fence, state, token, graveyard, counts, claims, th>>

Call(t) ==
    \/ \E h \in Handles : Step(t, h) \/ Poll(t, h) \/ Ready(t, h)
    \/ \E hs \in Batches : Batch(t, hs)
    \/ \E h \in Handles, n \in Parts : Prefill(t, h, n)
    \/ Drain(t)
InCall(t) ==
    \/ Slot(t) \/ BeginRefused(t) \/ BeginRecording(t) \/ AbandonRecording(t) \/ Execute(t)
    \/ Signal(t) \/ SignalFails(t) \/ HandOver(t) \/ PartSubmitted(t) \/ HandFails(t)
    \/ Take(t) \/ Waited(t) \/ Land(t) \/ Lower(t)

Next == Device \/ \E t \in Threads : Call(t) \/ InCall(t) \/ WaitFails(t)
Spec == Init /\ [][Next]_vars

\* The device ends its work, and a call begun goes on without its waits failing.
FairSpec == Spec /\ WF_vars(Device) /\ \A t \in Threads : WF_vars(InCall(t))

-----------------------------------------------------------------------------
(* Properties. *)

Executing == {queue[i].id : i \in {j \in DOMAIN queue : queue[j].sort = "work"}}

\* While a thread records (its reset made, its list not yet executed) no other
\* thread records or submits and the device runs nothing, so no allocator is reset
\* under work, whatever polls run beside it and whatever signal or wait failed
\* before (P1 of gpu_1p0.h).
RecordingAlone ==
    \A t \in Threads : At(t, "recording") =>
        /\ Executing = {}
        /\ \A u \in Threads \ {t} : th[u].at \notin {"recording", "signal", "retry"}

\* What the device may still run is held by a call's local, by a handle's token or
\* by the graveyard: nothing it reads or writes is freed.
ExecutingIsKept ==
    Executing \subseteq graveyard
        \cup {token[h].id : h \in {g \in Handles : token[g] # NoWork}}
        \cup {th[t].work.id : t \in {u \in Threads : th[u].work # NoWork}}

\* Between calls a handle is Submitted exactly when its token holds work: no ready
\* finds a Submitted handle it can never bring back, and the walk at a call's return
\* finds no work off a Submitted handle.
SubmittedHolds ==
    \A h \in Handles : (\A t \in Threads : h \notin Names(t)) =>
        (h \in state <=> token[h] # NoWork)

\* With no call under way and nothing Submitted, a device not stranded admits the
\* next submission of any handle: no lost count, pointer, claim or observation makes
\* a host that retries on SSLM_BUSY retry for ever (P2 of gpu_1p0.h).
QuietAdmits ==
    (state = {} /\ (\A t \in Threads : ~In(t)) /\ ~Stranded) =>
        /\ observed = submitted /\ observed = completed
        /\ process = 0 /\ pooled = 0 /\ seat = NoWork /\ claims = {}

\* A pooled handle becomes Submitted only when the pool's pointer is free, as
\* SetGpuSeqState asserts, and with no other handle Submitted; any other only when
\* no pooled one is.
SeatIsFree ==
    [][\A h \in state' \ state :
          IF h \in Pooled THEN seat = NoWork /\ state = {} ELSE state \cap Pooled = {}]_vars

\* Every call returns, whatever failed before it: no wait is for a value no signal
\* will bring, and no poller spins on an observation another has raised.
CallsReturn == \A t \in Threads : In(t) ~> ~In(t)
=============================================================================
