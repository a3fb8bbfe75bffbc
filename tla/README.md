# SuperSLM: a verification project

SuperSLM is an inference engine for small language models. Its arithmetic is
integer and deterministic; what is hard to get right is the bookkeeping around it:
pages of keys and values that several sequences share, tokens read a few layers at
a time, several tokens read at once and some of them taken back, sequences released
while another thread decodes them, work a device has not finished with, saved and
restored sequences that must go on as if nothing had happened. This project states
what that bookkeeping promises, in TLA+, checks it with TLC on small instances and
proves part of it with TLAPS for every instance. Paths below are in the repository.

## The system

| Component | State | Operations | Interacts through | Modelled in |
|---|---|---|---|---|
| K/V page allocator, `src/kv_pages.{h,cpp}` | per pool: `refcount`, `free_list`, `dirty`, `shared_maps`, `shared_distinct`; per holder: `table`, `shared`, `materialized`, `reserve` | create, map, share, adopt, unmap, roll back, release | one mutex per pool, held for short sections; poisoning outside it | `KvPages` |
| Sequence and prefix verbs, `src/sslm_abi.cpp` | `context_length`, `layer_index`, residual, `current_token`, `ready_for_logits`, `frozen`, origin, budget | create, prefill, decode, jump, adopt, begin_from, reset, freeze, release | the allocator; a prefix's pages | `PagedKv` (partly) |
| Save and restore, same file | the blob | save, restore, restore_shared | allocator, sharing hint | `PagedKv` (partly) |
| Sequence registry, same file | `g_live_seqs`, `g_seq_registry_mutex`, `lifecycle_mutex` | create, restore, decode batch, jump, forced tokens, reset, adopt, save, page accounts, release | threads of the host | `SeqRegistry` |
| Adapters, same file | `live_refs`, `adapter_handle` | map, set, release | sequences, decode in flight | `SeqRegistry` (partly) |
| Layer loop, `src/forward/forward_sites.cpp` | `layer_index`, rows | one pass, sliced by a layer budget | page view | its control in `PagedKv`, `SeqDecode` |
| Decode batch, finish, schema walk, `src/sslm_abi.cpp`, `schema_masks.h` | `dfa_walk_state`, `bind_eligible`, `out_tokens`, history | batch loop, finish transaction, dead end, exact jump | the verbs above | `SeqDecode` |
| Damped-greedy anti-LM, `src/damped_greedy_*.cpp` | token history, order | reserve, install, extend, clear, save | finish, save | its history in `SeqDecode` |
| Parallel split, `src/forward/parallel_split.cpp` | task states, violation flag | `SplitColumns`, `RunExactlyOnce` | the host's job system, registry bindings | `ParallelSplit` |
| GPU submission ledger, `src/gpu/submission_ledger.h`, `gpu_inflight_token.h` | fence values, `submitted_`, `observed_`, stranded flags | record, submit, poll, wait, drain | device, calls | `GpuInFlight` |
| GPU in-flight registry, `src/gpu/gpu_inflight_registry.*` | a thread's list, call and depth | open, capture, install, restore; the walk at a call's end | tasks, calls | its bindings in `ParallelSplit` |
| GPU backend, `src/gpu/gpu_1p0.cpp`, `superslm_gpu.cpp`, `multirow_wide.h` | handle states, submitted counts, claims; `rows_chunk`, host mirror, device rows, the holder's table | decode step, batch, prefill, ready; embed_rows, slices, close, abandon; jump, one-row decode, finish, reset | ledger, pool of pages | `GpuInFlight`, `GpuRows` (partly) |
| Arithmetic, loader, tokenizer, hooks, tools | | | | not modelled |

What makes each of the modelled parts correct:

* **Allocator.** Refcounts are the owners; each page is in one place; nothing an
  earlier owner wrote comes back with a page; nobody writes what somebody else reads;
  the pages between a release's two sections come back.
* **Verbs.** Whatever is shared, copied, rolled back, saved or released, a sequence
  reads its own text; below its limit it is never refused for want of a page.
* **Registry.** No object is deleted under a call; no calls wait in a circle; a
  release ends; an adapter's count is the number of its bindings.
* **Decode.** The context is what the caller fed and was told, the walk is that of the
  schema content in it, the history fits it, and a jump is a number of decodes.
* **Split.** Ok means every row was computed, once; a thread's bindings are its own.
* **Device work.** No command list is reset under work; nothing the device reads is
  freed; every call returns; a quiet device admits the next submission.
* **Rows.** A sequence read several rows at a time is the sequence read one by one.

The hard behaviours are the sections of the allocator interleaved between threads,
batches against releases, tokens read part of the way, passes that fail after they
have written, restores that share on a hint, hosts that run a task twice, signals and
waits that fail, and rows kept or taken back. `PROJECT.json` lists each at its line.

## Modules

**`KvPages`** (`src/kv_pages.{h,cpp}`). A holder's `table` is three sets: `shared`,
`private` and `materialized`; the source keeps these as ranges of the table, and
which of them an entry is in is all that its unmap depends on. `reserve`, `refcount`,
`sharedMaps` and `sharedDistinct` are the source's; `onFree` counts how often a page is
on the free list, so that a double push shows; `rows` are the pages with somebody's
rows and `dirty` the flags. A verb that takes the mutex twice is several actions: its
first section (`HolderAdoptShare`, `HolderUnmapAll`, `HolderRelease`,
`HolderReturnReserve`), `PoisonIfDirty`, `PushFree`, and `Finish`; `toFree` holds the
pages in between. Calls on one holder are serial, as the API requires. `WriteRow` is
the one write to pages, from `ScatterRows` and the layer loop: at or after the origin.
`MaxRef` stands for the largest `uint32_t`.

**`PageLease`** is what the allocator promises, without counts, tables or lists:
pages are lent, wiped and lent again. `KvPages` implements it (`Leases`).

**`SeqRegistry`** (`src/sslm_abi.cpp`, the verbs that lock). Each thread is at a stage
of its call: a decode takes the registry, then the mutexes of its live sequences in
address order, gives the registry up, clears bind eligibility and validates, and runs;
a release drops the adapter's count, erases, passes the barrier, and deletes. Handles
are numbers because the locks are taken in the order of their addresses; a new
sequence may get a deleted one's address. What the source asks of its caller is a
guard: one release per handle with no other single-sequence call behind it, and prefill
and `set_adapter`, which lock nothing, by a caller that has the sequence to itself (stated
for prefill at `sslm_abi.cpp:391-393`, and taken to hold for `set_adapter`). Reset, adopt,
save and the page accounts lock the sequence they are given without asking the registry
(`OneCall`, `OneLock`); jump and forced tokens ask it first, as a decode does. Create and
restore register under the mutex and are one step each. The seams for tests that take
the same mutex are left out.

**`PagedKv`** (`src/sslm_abi.cpp` and the layer loop). A row's value is the text it was
computed from and how many layers of it are there. So a row computed over a page that
somebody else has written, or behind a row that is not the text's, is `Garbage`, and so
is all that follows from it. `hidden` is the text the residual was computed from. A text
is a sequence of tokens, and a token is named by the handle it was given to: which
word it is makes no difference to the pages, whose text it is does. A verb is one step:
the sections within it are `KvPages`'. A page is free when no table has it, which is
what `KvPages` proves of the counts; it gets a name when it is mapped, after the handle
that maps it, the place in the table and a number, so that states differing only in
names of free pages are one. Rows nobody has a use for are `Junk`. `FailWithinToken`
says whether a prefill called on a sequence within a token may fail; it is FALSE in the
passing runs, because of the finding below, and TRUE in `MCHalfReadKept`.
The jump-forward commits any number of the rows it read: which it confirms is
`SeqDecode`'s subject.

**`Generation`** is the verbs with no pages: each handle has a text, the token half
read, a pending token and two flags. `PagedKv` implements it (`TextsKept`): paging,
sharing, copying, rollback, slicing by layer budget, save and restore cannot be seen.

**`SeqDecode`** (`src/sslm_abi.cpp`). What a sequence says: its rows are token ids; `told`,
what the caller fed and was told, and `walked`, what of it the schema walk took, are in no
field of the program. The walk is a recursive function over a list of tokens. A batch is one
step per entry, because the finish of one entry may fail, or its layers may end inside
a token, while those before it keep what they did and those behind it are untouched.
The finish is a transaction: `Legal` is the mask, `Argmax` any function of rows, legal tokens
and history, `Emit` the commit, `FinishFails` what `FinishGuard` leaves. The damped-greedy
history is re-keyed, extended, installed and cleared as in the code. `JumpForward` is the
exact jump in its passes: it drafts, checks each row by the history as it would stand
there, and commits. Pages and locks are left to `PagedKv` and `SeqRegistry`.

**`ParallelSplit`** (`src/forward/parallel_split.cpp`, the trampoline of
`gpu_inflight_registry.h`). `SplitColumns` is the arithmetic of the split, `GroupSplit` a
matvec group's use of it; a batched product is a group of one part with other values of
`Align`, `K` and `MinWork`, and that it is not split at all for few tokens is left out. The host may
invoke any index on any free thread up to `MaxInvocations` times, one of no task
included, and only has to return after all its invocations have: `BeginTask` is the
compare-exchange that admits one of them, `WritePart` the body, one part of the group at
a time, so that two invocations of a task can overlap. A thread that waits in its own
`run` may be given a task of another's call; `binding` is its `t_bound_list`, `t_call` and
`t_depth`.

**`GpuInFlight`** (`submission_ledger.h`, `gpu_inflight_token.h`, `gpu_1p0.cpp`,
`superslm_gpu.cpp`). The device is a queue of work and signals. A thread's call goes through
the guard at entry, the recording, the execution, the signal (which may fail, be retried
and strand the device), the hand-over to the handle's token or to a local, and, in
ready, drain and prefill, the wait, which may fail to be armed. `RaiseObserved` is a load
and a compare-exchange, `SetGpuSeqState` three stores, because a poll or a guard of
another thread may fall between them. The host keeps P1's precondition of
`include/superslm/gpu_1p0.h`; `MayDecode`, `MayBlock` and `MayPoll` are that precondition.

**`GpuRows`** (`gpu_1p0.cpp`, `multirow_wide.h`). A pooled sequence of the GPU. `mirror` and
`device` are the host's and the device's rows; a row's value, at a layer, is the text it
was computed over, or `Junk`. `chunk` is `rows_chunk`: `EmbedRows` opens it, `Slice` is a
submission and the `sslm_gpu_ready` that finishes it, `CommitPrompt`, `CommitDraft` and
`Refuse` are the close, `Rollback` what every fault and `Abandon` end in, `CloseWaits` and
`CloseAgain` the close whose guard refused. A draft's first slice keeps the device's rows,
a single row's the mirror's, and both are put back as the code puts them back. `jump` is a
jump under way: each pass is one action, as the passes of one call run with the handle
claimed. `Decode`, `DecodeReady` and `FinishToken` are the one-row bridges. A page given up
keeps nothing: its rows are `Junk` when it is mapped again. A refused row's mirror is
copied at every layer, where the code stops at the slice that refused it
(`gpu_1p0.cpp:8468-8478`): the row is above the text, where nothing reads the mirror. The model's token preference
and schema are constants.

**`GpuOneRow`** is a sequence read one row at a time: text, walk, the token in hand, and
whether the last row's finish is still to come. `GpuRows` implements it
(`OneRowAtATime`), where a chunk or a jump is its entry until it ends. Its `Lose` lets any
held row go, so `OneRowAtATime` alone does not show that a jump keeps the row it rests
on: `JumpRestsAtDepth` asks that, and is violated.

**`MC*`** give the constants their values for TLC; the modules `*_proofs`, one for each of
`KvPages`, `SeqRegistry`, `SeqDecode`, `ParallelSplit`, `GpuInFlight` and `GpuRows` and two for
`PagedKv`, have the proofs. An operator whose comment begins with "Fault"
is a plausible mistake in the definition after it; no specification uses it.

## Runs

| Run | What it shows | Bounds |
|---|---|---|
| `pages` | every allocator property, `Leases`, and that pages in flight come back | 2 pages, a sequence and two prefixes, one sharing from the other, refcounts to 3; fair |
| `registry` | no use after free, no circle, exclusive bodies, adapter counts; an erased sequence is deleted | 2 threads, 2 addresses, 2 creates (an address may be used again), an adapter; fair |
| `kv` | reserve, limit and residual invariants, and `TextsKept` | 2 sequences, 1 prefix, 2-row pages, cap 5, 2 layers, budgets 1 and 2: odd lengths have a tail page, even ones do not, and both budgets end within the cap and at it |
| `kv_save` | saves within a token, restores with and without a hint, of both reserve modes; adopts that copy | 1 sequence, 1 prefix, 2 layers, cap 5 |
| `kv_prefix_save` | prefixes begun from a prefix, saved and restored, a hint of another text | 1 sequence, 2 prefixes, cap 3 |
| `split` | rows once, bindings, Ok | 2 threads, products of 3+2 and 3 rows in 2 tasks, an invented index, 2 invocations of each |
| `decode` | told text, walk, history, jump | a sequence with every verb and one before it in a batch; 2 tokens, 3 walk states of which one is dead, 2 layers, cap 4, orders 1 and 2 |
| `gpu` | recordings, ownership, counts, quiet admission, returns | 3 threads, 2 dedicated and 2 pooled sequences, 4 fence values, prefills of 1 and 2 sub-chunks |
| `rows` | rows, pages, restored drafts, one row at a time | 2 layers, 2-row pages, limit 6, chunks of 3 rows, drafts of 4 tokens: passes of 3+2 and of 3 and a lone last row |
| `adapter_outlives_decode`, `half_read`, `jump_rest` | findings, below | |

Why these suffice: every section of the allocator looks at one or two holders and the
counts, so three holders show what a third party sees; two rows to a page separate the
aligned from the unaligned case; two layers separate a token not begun, half read, and
complete; two threads make every pair of sections overlap, and in `gpu` a third polls
beside two; a limit of six holds two passes of a jump behind a prompt.

Bounds that are only the model's: `MaxCreates`, the sequences of a behaviour; `MaxFeed`,
`MaxChunk` and `PrefixMax`, tokens of one call; `MaxInvocations`, invocations of a task;
`MaxFence`, fence values; `MaxDraft`, tokens of a draft. `MaxRef`, `MaxRows`, `Limit`, `ContextCap`
and `MaxTasks` are limits of the code at a small value.

Deadlock is not checked where the system may stop: `kv*` (the one pool full and nothing
to call) and `gpu` (the fence's bound reached, or a stranded device, which admits nothing).

**Fairness.** `registry`: weak fairness of each thread's steps inside a call only, so no call
need ever be made; a thread inside SuperSLM is scheduled and never waits but for a mutex.
`pages`: the same of a holder's sections. `gpu`: the device ends the work on its queue, and
a thread goes on inside its call; a wait that fails is never required to, and a signal
may fail always.

## Findings

* **An adapter can be released under a decode** (`MCAdapterOutlivesDecode`).
  `sslm_seq_release` drops the adapter's `live_refs` before it waits for the decode in
  flight, which still composes the adapter's weights.
* **A failed prefill spoils a token half read** (`MCHalfReadKept`). `sslm_prefill` is not
  refused within a token; when its pass fails it has written over the row the decode is
  in the middle of, while `layer_index` stays. `parallel_for.h:40-41` says a failure never
  corrupts the row.
* **A jump returns OK and loses the next token** (`MCJumpRest`). When the draft's last row is
  left alone in a later pass it goes through `SubmitAdmittedChunkForG5Bridge`, which
  sets `layer_index` to 0 first; if the submission fails, nothing puts the handle back, the
  jump marks it ready and returns `SSLM_OK`, and the next decode is refused. The header
  (`gpu_1p0.h:1294-1299`) promises a sequence ready on the last kept row.

Other disagreements met on the way, which no run states:

* A decode call refused for a malformed entry has cleared `bind_eligible` of every live
  sequence in it (`sslm_abi.cpp:4000-4002`, before the validation), where the comment at
  4004-4006 and `README.md:241-242` say it leaves every sequence as it was. `DecodeCheck` of
  `SeqRegistry` and `DecodeStep` of `SeqDecode` have it as the code does.
* The finish bridge of the GPU never clears `ready_for_logits`. Called on a ready handle it
  leaves it ready at layer 0, where `gpu_1p0.h:1329` says the next decode finishes the held
  row; the next decode is refused once and clears the flag. Nothing is lost:
  `OneRowAtATime` holds with it (`FinishToken`, `DecodeReady`).
* A GPU batch reads its guard before it claims its members, so one raced with a step on
  the same handle may answer `SSLM_DEVICE_LOST` where `gpu_1p0.h:588-592` says `SSLM_BUSY`.

## Proofs

`KvPages_proofs` proves, for any finite sets of pages and holders and any `MaxRef`, from
the assumptions `KvPages` names about its constants: `TypeOK`, `RefcountLaw`, `OnePlace`,
`NoStaleRows`, `NoUnderflow`, `WritesExclusive`, `SharedBytesFixed`, `SharedStats`, and that
`KvPages` implements `PageLease` (`Leases`).

None of these is inductive alone. That a decrement frees only what nobody has needs the
refcount law; that the law survives a release needs that a page enters a holder in one
role only (`OneRole`); that sections may be interleaved needs to know what a call between
them holds (`CallShape`); and that a page comes back clean needs that a page with rows is
dirty until it is poisoned (`DirtyUntilPoisoned`). Their conjunction with the properties
is `IInv`. The proof first shows how each action changes one holder's pages and so each
page's `Owners`, then that a count which moves with its owners keeps the law (a lemma on
cardinalities), then one step per action for each part of `IInv`. `LeaseStep` maps every
section to a step of `PageLease` or to a stutter. `SharedStats` counts the holders that
map a page by sharing, an adopt under way among them; the same lemma on cardinalities
says that its count and its set move together.

`SeqRegistry_proofs` proves `TypeOK`, `NoUseAfterFree`, `HoldersNeverWait`, `BodiesExclusive`,
`AdapterRefs` and `BoundIsMapped` for any threads, addresses and adapters. Its invariant
`IInv` is the types; `LockInv`, which says that a mutex is held exactly by the call that
found its sequence, that only one thread is in the registry's section, and what a release
rules out at each of its stages (another release, or a reset, adopt or save of it, that
it is live behind the erase, that it is locked behind the barrier); `AdapterRefs`; and
`UsersMapped`, that an adapter somebody counts on is mapped. The steps that give a call's
locks back share one lemma (`ReturnStep`).

`ParallelSplit_proofs` proves `TypeOK`, `RowsOnce`, `BindingsKept` and `OkIsExactlyOnce` for any
finite set of threads, any groups of parts, any sizes and any number of invocations. Two
arguments meet. The first is arithmetic: `BeforeNext` and `PartWithin` say that the parts lie
one after the other within the group, `OneTask` that no row is of two tasks and `SomeTask`
that every row is of one. The sums of `Before` are recursive; the induction is by the least
number for which a fact fails (`LeastOf`, from the library's `WFMin`, which takes a set
where the induction theorems take an operator). The second is the invariant `Inv`: an
invocation counts as begun once it is no longer pending (`BegunInv`), one thread at most is in
a task's body (`BodyInv`), and the rows written are exactly those of the parts some body
is past (`RowsInv`). `OkIsExactlyOnce` follows at the return, when nothing is pending:
`CompleteIsAsAsked`. `BindingInv` is on its own: what an invocation has put aside is what its
thread had, and nests no deeper, because a thread in an invocation starts no call.

`PagedKv_proofs` proves `ReservationWhole`, `WithinLimit` and `ReserveCovers` for any handles,
pool, page size, cap, layers and budgets. The page counts are arithmetic with a division by the
page size, so its lemmas come first (what a text's pages are as it grows by a row, is cut,
is shared as far as its full pages, and its tail copied). The invariant says of every
handle and of the blob: the table covers the rows of use and the entries that came from the
pool (`Covers`); the text, with the token half read, lies between origin and limit (`Within`);
reserve and pool entries make up the reservation (`Whole`); and the head up to the origin
is shared or materialized in its place, as far as the cap leaves room (`HeadKept`).
`HeadKept` is what makes `ReserveCovers` hold: a whole reservation covers only the text
behind the origin. That a prefix is never within a token, and that a frozen one was open
(`KindOf`), is what a begin from it, a freeze and a save rest on. What the rows contain is the
next module's.

`PagedTexts_proofs` goes on from there: it proves `HiddenMatches`, and that `PagedKv` implements
`Generation` (`TextsKept`), for any finite set of handles and any values of the other constants
but one, which is a hypothesis of its theorems: `~FailWithinToken`. That is the premise of the
passing runs, and the theorems are false without it: `MCHalfReadKept` shows what a failed
prefill does to a token half read. That the handles are finitely many is
`HandlesAssumption`; a page's name carries a number below their count, and `NewPageIs` shows that one
is always left.

The invariant `TInv` adds three things to the page counts. `PagesApart`: what two tables have in
common, in its place, both of them share, or have frozen; and shared pages are full of text.
`Texts`: of each handle there is one text whose rows are its live rows, the row half read with
them, and whose residual is the one held (`Tells`, `Leads`, `HalfRead`). `BlobTold`: the
same of what was saved. A handle writes only to pages that it mapped itself, behind what it
shares; so each verb `Spares` all others, that is, whatever another handle found at a live
position it still finds there, and only the verb's own handle has to be looked at again.
The verbs are then sorted by what they make of it: it goes on behind its text (`GoesOnTexts`:
prefill, decode, jump), it follows another over shared or copied pages (`FollowTexts`: begin
from, adopt), it has no rows (`CleanTexts`: create, reset, release), it is restored
(`RestoredTexts`), or only the blob changes (`SavesTexts`). Each of these gives the invariant and what is seen of
the handle before and after, and so the step of `Generation`; what a failed prefill, a rolled back jump
and a decode cut short by its budget do is not seen at all. Views are
compared field by field (`SameView`), texts by their prefixes, which needs no induction.

`SeqDecode_proofs` proves `TextIsTold`, `WalkIsOfContent`, `HistoryFits` and the action property
`JumpIsDecode` for any sequences,
batches, vocabulary, schema, layers, budgets, orders and lengths of prompts and drafts. Of the
preference it assumes only that it names a token (`ArgmaxAssumption`), and of an adopted
prefix that it is no longer than the cap. `Sound` is the invariant of one sequence. Its rows,
and the token half read or still to be read, agree with what was told row by row, up to rows
that a failed prefill tore (`Agrees`): to say only that they are equal where nothing is torn
would be lost as soon as a row is. `Walks` adds to `WalkIsOfContent` that nothing is walked while a schema may
still be bound, since a bind starts the walk anew. `Fits` keeps the length within the limit, and strictly
while a token is in its layers, because a resumed token is not asked about the limit again.
That the history is no longer than the context is not inductive either, as a finish feeds
the history a token and adds no row: a sequence resting ready has one row beyond its history.
The finish starts from `AtRow`, and each way it ends, committed, at a dead end or given back
by `FinishGuard`, is `Sound` again. The entries of a batch were validated before the first of them
moved; they stay decodable to their turn because what is done to another sequence, or to the
same one earlier in the batch, leaves a token, a layer or a finish behind (`Able`). The walk of two
lists joined is the walk of the second from the end of the first (`WalkJoined`), by the least
length for which it fails. `JumpIsDecode` goes row by row: `Foreseen` says where i decodes lead, in terms
of the draft's first i tokens, and `ForeseenNext` that a check which found the draft's next token is
the finish that the next decode would make, with the history and the walk it would have.

`GpuInFlight_proofs` proves `RecordingAlone`, `ExecutingIsKept`, `SubmittedHolds`, `QuietAdmits` and
the action property `SeatIsFree`, for any threads, handles, batches and numbers of parts. It
assumes what the module names: dedicated and pooled handles are different ones, "no work"
is neither a handle nor a work record, and a batch is a sequence of handles, not empty. The
invariant has sixteen parts. `Shapes` says which fields a thread's call has at each stage;
`OneBusy`, `Hosts` and `Claimed` who may be in the recording section and which handles a call
has for itself; `Ordered` and `Times` that the fence values of the queue, the marks and
`observed_` are in order, so that an answer behind a value ends everything up to it;
`Recordings`, `Follows` and `Keeps` that each submission not yet known to be over is held
by the call that made it, by a handle's token or by the graveyard; `Tokens`, `Counts`, `Seats`
and `Admitted` that the handle states, the two counts and the pool's seat say the same of
what is submitted, through the three stores of `SetGpuSeqState`; `Owed` what a failed signal leaves
to be retried; `Observers` what a poll, a wait or a guard read before it acts. `SeatIsFree` needs
`Admitted`: the guard was read long before the hand-over, and nobody else can have taken
the seat since.

`GpuRows_proofs` proves `RowsAgree`, `PagesFit`, the action property `DraftRowsRestored` and the
refinement `OneRowAtATime`, for any vocabulary, schema, preference, layers, limit, page size and
chunk rows. `Texts` says that there is one text whose rows the mirror and the device both hold,
and whose head a jump's copy of the mirror holds. `Chunked` keeps what an open chunk found: its entry, its
snapshot, and that at full depth the device is what the slices wrote over what they found,
so that a close retried after a refused guard computes the same (`ComputedAgain`). `Jumping` ties
the length to the rows kept and, once there are any, the table to just their pages; this is
what `PagesFit` needs when the jump ends. Each close is one lemma (`PrefixCommitted`,
`RolledBack`, `Lands`). Texts are compared by their prefixes, which needs no induction.

`OneRowAtATime`, that all this implements `GpuOneRow`, needs more than texts, and `RInv` adds it
to the invariant: `HeldTells` (a row held between calls has the text as its residual, and nobody
has its token in hand), `ChunkTells` (an open chunk's walk is its entry's, its tokens are of the
vocabulary, and a draft's first is the one in hand) and `JumpTells` (a jump's rows so far are the
draft's head, its walk the walk over them, and the finish of each but the last is the next one).
`Moves` is the abstract step written over `Seen`, what a caller sees of the detailed state. One
lemma per action (`SliceMoves`, `DecodeMoves`, `JumpReturnMoves`, ...) proves `RInv'` and `Moves`
together, since both rest on the text after the step. That a kept draft is so many turns of the
loop is `LoopGoes`: the loop's states exist as a function of the number of turns
(`LoopedExists`), and a path of single turns ends in one of them (`PathLoops`); both go by the
least number that would fail. The walk over several tokens is a recursive function for it.

From the refinement's steps follows `RowsNeverLost`, which is stated about the detailed module:
between one reset and the next the caller's text only grows, whatever fails, is refused,
abandoned or rolled back (`LoopExtends`, the same argument by turns of the loop).

Where a value is chosen as the least or the most of its kind, as the longest admitted run or
the longest accepted draft, it exists by the same least-number argument as in `ParallelSplit_proofs`.

With TLC only:

* liveness (`InFlightReturns`, `ErasedIsDeleted`, `CallsReturn`), which with `ENABLED` is beyond
  the prover. Every other property of a passing run is a theorem;
* inductions over data, where a theorem needs one, go by the least number that would fail (the
  sums of `ParallelSplit_proofs`, the walk and the decodes of `SeqDecode_proofs`): the library's induction
  theorems take an operator, which the provers cannot instantiate.

## Not modelled

* **Arithmetic** (`intmath.cpp`, `matmul.cpp`, `silu_lut.cpp`, the funnel, the kernels): vectors of
  8- to 64-bit integers, which the repository's golden tests cover.
* **Loading and hashing** (`model.cpp`, `artifact.cpp`, `spx1_format.cpp`, `sha256.cpp`): sequential
  parsing of a read-only file. **Tokenizer**: pure functions over fixed tables. **Trace and
  digest hooks**: observation. **Tools and tests.**
* **Of the GPU backend**: prefix, adopt, save and restore verbs, schema prefill, adapters
  fixed for a chunk, saturation counters, `rows_produced` and its queries. A submission
  and its finish are one step in `GpuRows`: in between the handle is Submitted and every
  other verb refuses it, which `GpuInFlight` has. A handle a one-row guard has refused
  must be reset, says the header; decoding it further is not modelled.
* **Of the in-flight registry**: the walk at the end of a call in batches of sixteen. No verb
  of the library leaves a record for it (`SubmittedHolds`).
* **Of save and restore**: the byte layout, digests, and the refusals of malformed blobs.
* **Of the allocator**: `std::bad_alloc` and the capacity of a page.

## Plan

1. GPU prefixes, save and restore over the pool of pages, as `PagedKv` has them for the CPU.
2. The integer helpers of the funnel as functions against a reference, where rounding and
   saturation meet.
