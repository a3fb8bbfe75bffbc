------------------------------ MODULE PagedKv ------------------------------
(***************************************************************************)
(* The sequence and prefix verbs of src/src/sslm_abi.cpp over paged K/V:   *)
(* how a handle's text comes to be in the pages of a shared pool, and      *)
(* stays there while other handles share, copy, roll back, save, restore   *)
(* and release.                                                            *)
(*                                                                         *)
(* A row stands for the K and V vectors at one position; its value is the  *)
(* text it was computed from and how many layers of it are there.  A text  *)
(* is the tokens read, and of a token no more is kept than the handle it   *)
(* was given to.  A row computed over a history that is not one text is    *)
(* Garbage, and so is what is computed from it.  Reads go through the page *)
(* table, as in the code, so a page that somebody else wrote shows as a    *)
(* wrong text.                                                             *)
(*                                                                         *)
(* One verb is one step.  The sections inside a verb, and the refcounts    *)
(* that decide when a page is free, are KvPages'; here a page is free when *)
(* no table has it, which KvPages proves of the counts.                    *)
(***************************************************************************)
EXTENDS Integers, Sequences, FiniteSets, Functions, Folds

CONSTANTS
    Seqs, Prefixes,  \* sslm_seq and sslm_prefix handles
    PageCount,       \* pages of the pool
    PagePositions,   \* B, positions of a page
    ContextCap,      \* config.context_cap
    NumLayers,
    Budgets,         \* budgets the budget verbs are called with
    WholeReserve,    \* may the legacy verbs be called
    Saving,          \* handles that may be saved
    FailWithinToken, \* may a prefill fail that is called on a sequence within a token
    MaxFeed,         \* bound: tokens of one prefill or one jump
    NoToken

SX == INSTANCE SequencesExt
Handles == Seqs \cup Prefixes
Tokens  == Handles
Slots   == 0 .. PagePositions - 1

ASSUME HandlesAssumption == Seqs \cap Prefixes = {} /\ IsFiniteSet(Handles)
ASSUME SizesAssumption ==
    /\ {PageCount, PagePositions, ContextCap, NumLayers, MaxFeed} \subseteq Nat \ {0}
    /\ Budgets \subseteq 1 .. ContextCap
    /\ {WholeReserve, FailWithinToken} \subseteq BOOLEAN /\ Saving \subseteq Handles
    /\ NoToken \notin Handles

VARIABLES
    hd,        \* hd[h]: the handle's fields and its page holder's
    mem,       \* the pages in the tables: mem[p][slot]
    blob       \* what was saved last, of a sequence or of a prefix

vars == <<hd, mem, blob>>

-----------------------------------------------------------------------------
(* Sizes. *)

Least(a, b) == IF a <= b THEN a ELSE b
Most(a, b)  == IF a <= b THEN b ELSE a
PagesOf(n)  == (n + PagePositions - 1) \div PagePositions
CapPages    == PagesOf(ContextCap)

\* Fault: no page for the copied tail.
ReservationPagesExact(mode, budget) ==
    IF mode = "whole" THEN CapPages ELSE Least(PagesOf(budget), CapPages)

ReservationPages(mode, budget) ==
    IF mode = "whole" THEN CapPages ELSE Least(PagesOf(budget) + 1, CapPages)

HolderLimit(x) == IF x.mode = "whole" THEN ContextCap ELSE Least(x.origin + x.budget, ContextCap)

Modes == (IF WholeReserve THEN {<<"whole", ContextCap>>} ELSE {})
             \cup {<<"budget", b>> : b \in Budgets}

-----------------------------------------------------------------------------
(* Texts and rows. *)

Garbage == <<NoToken>>
Row(text, depth) == [text |-> text, depth |-> depth]
Junk == Row(Garbage, 0)
Grown(text, ts) == IF text = Garbage THEN Garbage ELSE text \o ts

\* HolderRow: the row at a position, through the holder's table.
RowAt(m, x, pos) == m[x.table[(pos \div PagePositions) + 1]][pos % PagePositions]

\* The text the rows [0, n) of a handle hold, when it is one.
History(m, x, n) ==
    IF n = 0 THEN <<>>
    ELSE LET text == RowAt(m, x, n - 1).text
         IN IF Len(text) = n /\ \A i \in 0 .. n - 1 : RowAt(m, x, i) = Row(SubSeq(text, 1, i + 1), NumLayers)
              THEN text ELSE Garbage

\* What a page has at a slot; one mapped just now, whatever is left in it.
At(m, p, i) == IF p \in DOMAIN m THEN m[p][i] ELSE Junk

\* The memory once rows[pos] is written at its position, for every pos it is given for.
Position(k, i) == (k - 1) * PagePositions + i
Written(m, table, rows) ==
    [p \in DOMAIN m \cup Range(table) |-> [i \in Slots |->
        LET at == {k \in DOMAIN table : table[k] = p /\ Position(k, i) \in DOMAIN rows}
        IN IF at # {} THEN rows[Position(CHOOSE k \in at : TRUE, i)]
           ELSE At(m, p, i)]]

\* Whole pages copied, to[i] from from[i].
Copied(m, to, from) ==
    [p \in DOMAIN m \cup Range(to) |->
        LET at == {i \in DOMAIN to : to[i] = p}
        IN IF at # {} THEN m[from[CHOOSE i \in at : TRUE]] ELSE m[p]]

\* The rows of the tokens ts, read one after another behind a history.
RowsOf(past, start, ts) ==
    [pos \in start .. start + Len(ts) - 1 |->
        Row(Grown(past, SubSeq(ts, 1, pos - start + 1)), NumLayers)]

-----------------------------------------------------------------------------
(* The page holder: its table, and how many pages its reserve has.  Which pages these *)
(* are is KvPages'; here a page gets a name when it is mapped, after the handle that  *)
(* maps it, the place in its table, and a number that sets it apart.                  *)

Others(h) == UNION {Range(hd[g].table) : g \in Handles \ {h}}
NewPage(h, k, taken) ==
    LET names == {<<h, k, n>> : n \in 1 .. Cardinality(Handles)} \ taken
    IN CHOOSE p \in names : \A q \in names : p[3] <= q[3]
Free(h) ==
    PageCount - Cardinality(Others(h) \cup Range(hd[h].table))
              - MapThenFoldSet(+, 0, LAMBDA g : hd[g].reserve, LAMBDA S : CHOOSE g \in S : TRUE, Handles)

\* Entries whose unmap goes to the pool; the others go back to the reserve.
PoolPath(x) == x.shared + x.materialized
Private(x)  == Len(x.table) - PoolPath(x)

\* HolderUnmapAll.
UnmapAll(x) ==
    [x EXCEPT !.table = <<>>, !.shared = 0, !.materialized = 0, !.reserve = @ + Private(x)]

\* Fault: the pages of a rollback do not go back to the reserve.
UnmapTailLoses(x, keep) == [x EXCEPT !.table = SubSeq(@, 1, Least(Most(PoolPath(x), keep), Len(@)))]

\* HolderUnmapTail: entries from `keep` on, never a shared or a materialized one.
UnmapTail(x, keep) ==
    LET floor == Least(Most(PoolPath(x), keep), Len(x.table))
    IN [x EXCEPT !.table = SubSeq(@, 1, floor), !.reserve = @ + Len(x.table) - floor]

\* MapPagesFor: the table covers n positions; refused when the reserve is short.
Lacks(x, n)  == Most(PagesOf(n) - Len(x.table), 0)
CanMap(x, n) == Lacks(x, n) <= x.reserve /\ PagesOf(n) <= CapPages
MapPagesFor(h, x, n) ==
    LET taken == Others(h) \cup Range(x.table)
        new == [i \in 1 .. Lacks(x, n) |-> NewPage(h, Len(x.table) + i, taken)]
    IN [x EXCEPT !.table = @ \o new, !.reserve = @ - Lacks(x, n)]

\* Fault: the row half read is not counted.
LiveRowsWhole(x) == x.length

\* Positions whose rows are of use: those of the text, and the one half read.
LiveRows(x) == x.length + (IF x.layer > 0 THEN 1 ELSE 0)

\* Handle h becomes x over memory m.  Rows that no handle has any use for are junk: in the
\* pool they are zero or poisoned, in a table's page they are what was there.
InUse(hs, p, i) ==
    \E h \in Handles : \E k \in DOMAIN hs[h].table :
        hs[h].table[k] = p /\ Position(k, i) < LiveRows(hs[h])
Step(h, x, m) ==
    /\ hd' = [hd EXCEPT ![h] = x]
    /\ mem' = [p \in Others(h) \cup Range(x.table) |->
                  [i \in Slots |-> IF InUse(hd', p, i) THEN At(m, p, i) ELSE Junk]]

\* hidden: the text the residual was computed from, while it is of use.
Handle(mode, budget, reserve) ==
    [mode |-> mode, budget |-> budget, origin |-> 0,
     table |-> <<>>, shared |-> 0, materialized |-> 0, reserve |-> reserve,
     length |-> 0, layer |-> 0, hidden |-> <<>>, token |-> NoToken, ready |-> FALSE, frozen |-> FALSE]
NoHandle == Handle("none", 0, 0)

Live(h) == hd[h].mode # "none"
Filling(h) == Live(h) /\ ~hd[h].frozen

-----------------------------------------------------------------------------
NoBlob == [of |-> "none"]

Init ==
    /\ hd = [h \in Handles |-> NoHandle]
    /\ mem = <<>>
    /\ blob = NoBlob

\* sslm_seq_create(_budgeted) and sslm_prefix_begin(_budgeted).
Create(h, mode, budget) ==
    /\ ~Live(h)
    /\ ReservationPages(mode, budget) <= Free(h)
    /\ Step(h, Handle(mode, budget, ReservationPages(mode, budget)), mem)
    /\ UNCHANGED blob

\* Fault: the partial page is shared as well.
FullPagesUp(n) == PagesOf(n)

\* Full pages of a text, which a share takes.
FullPages(n) == n \div PagePositions

\* A holder over a prefix's full pages, and over its tail page copied.
Sharing(x, q) == [x EXCEPT !.table = SubSeq(hd[q].table, 1, FullPages(hd[q].length)),
                           !.shared = FullPages(hd[q].length)]
WithTail(h, x, q) == MapPagesFor(h, x, hd[q].length)
TailCopied(x, q) ==
    IF hd[q].length % PagePositions = 0 THEN mem
    ELSE Copied(mem, <<SX!Last(x.table)>>, <<hd[q].table[PagesOf(hd[q].length)]>>)

\* What a handle takes over from a prefix with its rows.
Follows(x, q) ==
    [x EXCEPT !.origin = hd[q].length, !.length = hd[q].length, !.layer = hd[q].layer,
              !.hidden = hd[q].hidden, !.token = hd[q].token]

\* sslm_prefix_begin_from.
BeginFrom(q, parent, budget) ==
    /\ ~Live(q) /\ hd[parent].frozen
    /\ ReservationPages("budget", budget) <= Free(q)
    /\ LET drawn == Handle("budget", budget, ReservationPages("budget", budget))
           x == WithTail(q, Sharing(drawn, parent), parent)
       IN Step(q, Follows(x, parent), TailCopied(x, parent))
    /\ UNCHANGED blob

\* Fault: the reserve is all that counts.
FitsReserve(x, n) == CanMap(x, n)

\* n positions are below the limit, and the reserve has the pages.
Fits(x, n) == n <= HolderLimit(x) /\ CanMap(x, n)

\* The admitted tokens of sslm_prefill and sslm_prefix_prefill.
Prefill(h, ts) ==
    LET x == hd[h]
        n == x.length + Len(ts)
        y == MapPagesFor(h, x, n)
        past == History(mem, y, x.length)
    IN /\ Filling(h) /\ Fits(x, n)
       /\ Step(h, [y EXCEPT !.length = n, !.layer = 0, !.hidden = Grown(past, ts),
                            !.token = SX!Last(ts), !.ready = h \in Seqs],
               Written(mem, y.table, RowsOf(past, x.length, ts)))
       /\ UNCHANGED blob

\* The pass over n tokens fails somewhere in its layers: nothing is admitted, but the
\* pages stay mapped and the rows are written over.
PrefillFails(h, n) ==
    LET x == hd[h]
        y == MapPagesFor(h, x, x.length + n)
    IN /\ Filling(h) /\ Fits(x, x.length + n)
       /\ x.layer > 0 => FailWithinToken
       /\ Step(h, y, Written(mem, y.table, [pos \in x.length .. x.length + n - 1 |-> Junk]))
       /\ UNCHANGED blob

\* sslm_decode_step on a sequence whose next token can be produced: no layer runs.  A
\* finish that fails, or finds no legal token, leaves it as it was.
DecodeReady(s, k) ==
    /\ Live(s) /\ hd[s].ready
    /\ Step(s, [hd[s] EXCEPT !.token = k, !.ready = FALSE, !.hidden = <<>>], mem)
    /\ UNCHANGED blob

\* The text a decode's residual stands for: the pending token behind the history, or
\* the one begun by an earlier call if it still fits the rows.
DecodeText(x, past) ==
    IF x.layer = 0 THEN Grown(past, <<x.token>>)
    ELSE IF Len(x.hidden) = x.length + 1 /\ SubSeq(x.hidden, 1, x.length) = past
           THEN x.hidden ELSE Garbage

\* RunLayerLoop: the layers that are there after a call with this layer budget.
Depth(layer, budget) == Least(layer + budget, NumLayers)

\* sslm_decode_step with a layer budget: the pending token's row, some layers of it.
\* When they are all there the token is finished: k is produced, or, for NoToken, the
\* finish rests with its residual kept.  A layer that fails is one the call does not get
\* past, the first one included.
DecodeLayers(s, layers, k) ==
    LET x == hd[s]
        y == MapPagesFor(s, x, x.length + 1)
        past == History(mem, y, x.length)
        text == DecodeText(x, past)
        deep == Depth(x.layer, layers)
        whole == x.layer = 0 \/ RowAt(mem, y, x.length) = Row(text, x.layer)
        rows == [pos \in {x.length} |-> IF whole THEN Row(text, deep) ELSE Row(Garbage, deep)]
        run == [y EXCEPT !.hidden = IF deep = 0 THEN @ ELSE text, !.layer = deep]
        rest == [y EXCEPT !.length = @ + 1, !.layer = 0, !.hidden = text, !.ready = TRUE]
        done == IF k = NoToken THEN rest
                ELSE [rest EXCEPT !.hidden = <<>>, !.token = k, !.ready = FALSE]
    IN /\ Live(s) /\ ~x.ready
       /\ x.layer > 0 \/ x.token # NoToken
       /\ x.layer = 0 => x.length < HolderLimit(x)
       /\ CanMap(x, x.length + 1)
       /\ Step(s, IF deep < NumLayers THEN run ELSE done, Written(mem, y.table, rows))
       /\ UNCHANGED blob

\* sslm_seq_jump_forward: the pending token and a draft are read in one pass, the first
\* `kept` rows are committed, and the pages above them go back to the reserve.  None is
\* kept when the pass fails.
JumpForward(s, draft, kept) ==
    LET x == hd[s]
        ts == <<x.token>> \o draft
        n == x.length + Len(ts)
        y == MapPagesFor(s, x, n)
        past == History(mem, y, x.length)
        read == SubSeq(ts, 1, kept)
        cover == Most(Len(x.table), PagesOf(x.length + kept))
        done == [y EXCEPT !.length = @ + kept, !.hidden = Grown(past, read),
                          !.token = SX!Last(read), !.ready = TRUE]
    IN /\ Live(s) /\ ~x.ready /\ x.layer = 0 /\ x.token # NoToken
       /\ Fits(x, n)
       /\ Step(s, UnmapTail(IF kept = 0 THEN y ELSE done, cover),
               Written(mem, y.table, RowsOf(past, x.length, ts)))
       /\ UNCHANGED blob

\* Fault: the ready flag survives a reset.
ResetStaysReady(s) ==
    /\ Live(s)
    /\ Step(s, [UnmapAll(hd[s]) EXCEPT !.origin = 0, !.length = 0, !.layer = 0, !.hidden = <<>>,
                                       !.token = NoToken], mem)
    /\ UNCHANGED blob

\* sslm_seq_reset.
Reset(s) ==
    /\ Live(s)
    /\ Step(s, [UnmapAll(hd[s]) EXCEPT !.origin = 0, !.length = 0, !.layer = 0, !.hidden = <<>>,
                                       !.token = NoToken, !.ready = FALSE], mem)
    /\ UNCHANGED blob

\* Pages an adopt needs from the adopter's own reserve after its unmap.
AdoptNeeds(s, q) ==
    PagesOf(hd[q].length) - (IF hd[s].mode = "budget" THEN FullPages(hd[q].length) ELSE 0)
CopiedPages(q) == PagesOf(hd[q].length)

CanAdopt(s, q) == AdoptNeeds(s, q) <= UnmapAll(hd[s]).reserve

\* sslm_seq_adopt_prefix: a budget adopter shares the full pages and copies the tail, a
\* whole_reserve one copies every occupied page.
AdoptPrefix(s, q) ==
    LET empty == UnmapAll(hd[s])
        shares == hd[s].mode = "budget"
        x == IF shares THEN WithTail(s, Sharing(empty, q), q) ELSE MapPagesFor(s, empty, hd[q].length)
        m == IF shares THEN TailCopied(x, q) ELSE Copied(mem, SubSeq(x.table, 1, CopiedPages(q)), hd[q].table)
    IN /\ Live(s) /\ hd[q].frozen /\ CanAdopt(s, q)
       /\ Step(s, [Follows(x, q) EXCEPT !.ready = hd[q].token # NoToken], m)
       /\ UNCHANGED blob

\* sslm_prefix_freeze, the first time.
Freeze(q) ==
    /\ Filling(q)
    /\ Step(q, [hd[q] EXCEPT !.frozen = TRUE, !.reserve = 0], mem)
    /\ UNCHANGED blob

\* sslm_seq_release and sslm_prefix_release, whoever shares the pages.
Release(h) ==
    /\ Live(h)
    /\ Step(h, NoHandle, mem)
    /\ UNCHANGED blob

-----------------------------------------------------------------------------
(* Blobs. *)

Rows(x, n) == [pos \in 0 .. n - 1 |-> RowAt(mem, x, pos)]

\* sslm_seq_save.  A whole_reserve sequence's format has no origin.
Save(s) ==
    LET x == hd[s]
    IN /\ s \in Saving /\ Live(s)
       /\ blob' = [of |-> "seq", mode |-> x.mode, budget |-> x.budget,
                   origin |-> IF x.mode = "whole" THEN 0 ELSE x.origin,
                   length |-> x.length, layer |-> x.layer, hidden |-> x.hidden,
                   token |-> IF x.layer = 0 /\ ~x.ready THEN x.token ELSE NoToken,
                   ready |-> x.ready, frozen |-> FALSE, rows |-> Rows(x, LiveRows(x))]
       /\ UNCHANGED <<hd, mem>>

\* sslm_prefix_save.
SavePrefix(q) ==
    LET x == hd[q]
    IN /\ q \in Saving /\ x.frozen
       /\ blob' = [of |-> "prefix", mode |-> "budget", budget |-> ContextCap, origin |-> x.origin,
                         length |-> x.length, layer |-> 0, hidden |-> x.hidden,
                         token |-> x.token, ready |-> FALSE, frozen |-> TRUE, rows |-> Rows(x, x.length)]
       /\ UNCHANGED <<hd, mem>>

\* Fault: any prefix of the right length.
MatchesByLength(q, b) == hd[q].frozen /\ hd[q].length = b.origin

\* SharingHandleMatches, for a hint q.
Matches(q, b) ==
    /\ hd[q].frozen /\ hd[q].length = b.origin
    /\ \A pos \in 0 .. FullPages(b.origin) * PagePositions - 1 : RowAt(mem, hd[q], pos) = b.rows[pos]
SharedBy(hint, b) == IF \E q \in hint : Matches(q, b) THEN FullPages(b.origin) ELSE 0

\* A blob's fields over a holder that shares or owns its first pages, mapped to its rows.
Restored(h, x, b, from) ==
    LET y == MapPagesFor(h, x, LiveRows(b))
    IN Step(h, [y EXCEPT !.origin = b.origin, !.length = b.length, !.layer = b.layer,
                         !.hidden = b.hidden, !.token = b.token, !.ready = b.ready, !.frozen = b.frozen],
            Written(mem, y.table, [pos \in from .. LiveRows(b) - 1 |-> b.rows[pos]]))

SharedHead(x, hint, n) ==
    IF n = 0 THEN x
    ELSE [x EXCEPT !.table = SubSeq(hd[CHOOSE q \in hint : TRUE].table, 1, n), !.shared = n]

\* Fault: the reservation alone, though no page is shared.
OwnPagesNone(b, share) == 0

\* Pages drawn over the reservation in place of those that are not shared.
OwnPages(b, share) ==
    IF share > 0 \/ b.mode = "whole" THEN 0
    ELSE Least(FullPages(b.origin), CapPages - ReservationPages(b.mode, b.budget))

\* HolderMapMaterialized.
MaterializedHead(h, x, n) == [MapPagesFor(h, x, n * PagePositions) EXCEPT !.materialized = n]

\* sslm_seq_restore and sslm_seq_restore_shared (hint: at most one prefix).
Restore(s, hint) ==
    LET b == blob
        reserve == ReservationPages(b.mode, b.budget)
        share == IF b.mode = "budget" THEN SharedBy(hint, b) ELSE 0
        own == OwnPages(b, share)
        drawn == Handle(b.mode, b.budget, reserve + own)
        head == IF share > 0 THEN SharedHead(drawn, hint, share) ELSE MaterializedHead(s, drawn, own)
    IN /\ b.of = "seq" /\ ~Live(s)
       /\ reserve + own <= Free(s)
       /\ CanMap(head, LiveRows(b))
       /\ Restored(s, head, b, share * PagePositions)
       /\ UNCHANGED blob

\* sslm_prefix_restore: only the pages the text needs, and none in reserve.
RestorePrefix(q, hint) ==
    LET b == blob
        share == IF b.origin > 0 THEN SharedBy(hint, b) ELSE 0
        drawn == Handle(b.mode, b.budget, PagesOf(b.length) - share)
    IN /\ b.of = "prefix" /\ ~Live(q)
       /\ PagesOf(b.length) - share <= Free(q)
       /\ Restored(q, SharedHead(drawn, hint, share), b, share * PagePositions)
       /\ UNCHANGED blob

-----------------------------------------------------------------------------
Feeds(h) == {[i \in 1 .. n |-> h] : n \in 1 .. MaxFeed}
Hints    == {{}} \cup {{q} : q \in Prefixes}

Next ==
    \/ \E h \in Handles :
          \/ \E m \in Modes : Create(h, m[1], m[2])
          \/ \E ts \in Feeds(h) : Prefill(h, ts)
          \/ \E n \in 1 .. MaxFeed : PrefillFails(h, n)
          \/ Release(h)
    \/ \E s \in Seqs :
          \/ DecodeReady(s, s)
          \/ \E n \in 0 .. NumLayers, k \in {s, NoToken} : DecodeLayers(s, n, k)
          \/ \E draft \in Feeds(s) : \E kept \in 0 .. Len(draft) + 1 : JumpForward(s, draft, kept)
          \/ Reset(s) \/ Save(s)
          \/ \E q \in Prefixes : AdoptPrefix(s, q)
          \/ \E hint \in Hints : Restore(s, hint)
    \/ \E q \in Prefixes :
          \/ Freeze(q) \/ SavePrefix(q)
          \/ \E p \in Prefixes, b \in Budgets : BeginFrom(q, p, b)
          \/ \E hint \in Hints : RestorePrefix(q, hint)

Spec == Init /\ [][Next]_vars

-----------------------------------------------------------------------------
\* Whatever a holder may still be asked to write, its table and its reserve have a page
\* for: no verb below the limit is refused for want of a page, and none can be refused
\* by the pool.
ReserveCovers ==
    \A h \in Handles : Filling(h) =>
        PagesOf(HolderLimit(hd[h])) <= Len(hd[h].table) + hd[h].reserve

\* A sequence keeps its reservation whole through every share, copy, rollback, reset and
\* restore, so that any frozen prefix can be adopted and a reset needs no page.
ReservationWhole ==
    \A h \in Handles : Filling(h) =>
        hd[h].reserve + Private(hd[h]) = ReservationPages(hd[h].mode, hd[h].budget)

\* The text, with the token half read, ends within the limit, and the origin within it.
WithinLimit ==
    \A h \in Handles : Live(h) =>
        hd[h].origin <= hd[h].length /\ LiveRows(hd[h]) <= HolderLimit(hd[h])

\* The residual a handle would go on from is the residual of its own text: of all of it
\* when a token can be produced, of it and the token half read within one.
HiddenMatches ==
    \A h \in Handles : Live(h) =>
        LET x == hd[h]
            text == History(mem, x, x.length)
        IN /\ x.ready => x.hidden = text /\ text # <<>> /\ x.layer = 0
           /\ x.layer > 0 => Len(x.hidden) = x.length + 1 /\ SubSeq(x.hidden, 1, x.length) = text
           /\ x.frozen => x.hidden = text

\* What a decode has of the token it is within is there for the call that resumes it.
HalfReadKept ==
    \A s \in Seqs : hd[s].layer > 0 =>
        RowAt(mem, hd[s], hd[s].length) = Row(hd[s].hidden, hd[s].layer)

\* The pages are not to be seen: through every sharing, copy, rollback and restore, each
\* handle has the text that its own calls gave it, and goes on from it.
TextOf(x, m) == History(m, x, x.length)
ViewOf(x, text) ==
    [text |-> text, doing |-> IF x.layer > 0 THEN x.hidden ELSE <<>>, token |-> x.token,
     ready |-> x.ready, frozen |-> x.frozen, open |-> x.mode # "none"]
BlobText(b) ==
    IF b.length = 0 THEN <<>>
    ELSE LET text == b.rows[b.length - 1].text
         IN IF \A i \in 0 .. b.length - 1 : b.rows[i] = Row(SubSeq(text, 1, i + 1), NumLayers)
              THEN text ELSE Garbage
BlobView(b) == IF b = NoBlob THEN ViewOf(NoHandle, <<>>) ELSE ViewOf(b, BlobText(b))

Gen == INSTANCE Generation
         WITH view <- [h \in Handles |-> ViewOf(hd[h], TextOf(hd[h], mem))],
              kept <- BlobView(blob)
TextsKept == Gen!Spec
=============================================================================
