----------------------------- MODULE SeqDecode -----------------------------
(***************************************************************************)
(* What a sequence of the CPU backend says (src/src/sslm_abi.cpp): the     *)
(* batched, resumable decode step, its finish, the schema walk, the        *)
(* damped-greedy history, prefill, adoption, the exact jump-forward, reset *)
(* and a save followed by a restore.                                       *)
(*                                                                         *)
(* Who holds which lock is SeqRegistry's subject and where rows are stored *)
(* is PagedKv's.  Here every call but the batched decode is one step (it   *)
(* runs under the sequence's lock, or under the one-caller rule), and a    *)
(* batch is one step per entry, with the locks of all its entries held:    *)
(* calls on other sequences commute with it.                               *)
(*                                                                         *)
(* A token is its id.  A row of K/V is the token it was computed from.     *)
(* Which token the finish prefers is any function of the rows, the legal   *)
(* tokens and, damped, the history.  Every finish, pass and allocation     *)
(* that can fail may fail.                                                 *)
(***************************************************************************)
EXTENDS Integers, Sequences, FiniteSets, SequencesExt

CONSTANTS
    Seqs,           \* the sequences
    Full,           \* those every verb is called on: the others are given one token
                    \* of prompt, decoded and reset
    Batches,        \* the batches callers decode: sequences of Seqs, repeats allowed
    Vocab,          \* vocab_size
    Schema,         \* the schema's transitions: a function on some <<state, token>>
    NumLayers,      \* num_hidden_layers
    ContextCap,     \* context_cap
    Budget,         \* each sequence's K/V budget
    Orders,         \* the anti-LM orders that callers ask for
    MaxChunk,       \* most tokens in one prefill call or one draft
    PrefixMax,      \* most tokens in an adopted prefix
    Argmax(_, _, _) \* the token preferred among some, after some rows, given a history

Tokens     == 0 .. Vocab - 1
NoToken    == -1       \* current_token's "none"
Torn       == -2       \* a row whose layers come from two tokens
WalkUnused == -1       \* kDfaWalkStateUnused
Greedy     == 0        \* SSLM_DECODE_MODE_GREEDY; an order n >= 1 is damped greedy

ASSUME SizesAssumption  == /\ Vocab \in Nat \ {0} /\ NumLayers \in Nat \ {0}
                           /\ ContextCap \in Nat \ {0}
                           /\ MaxChunk \in Nat /\ PrefixMax \in 0 .. ContextCap
ASSUME FullAssumption   == Full \subseteq Seqs
ASSUME OrdersAssumption == Orders \subseteq Nat \ {0}
ASSUME BatchAssumption  == Batches \subseteq Seq(Seqs) \ {<<>>}
ASSUME BudgetAssumption == Budget \in [Seqs -> Nat \ {0}]

\* Rows of a context, and what can be said in one.
Written == UNION {[1 .. n -> Tokens \cup {Torn}] : n \in 0 .. ContextCap}
Sayings == UNION {[1 .. n -> Tokens] : n \in 0 .. ContextCap}

ASSUME ArgmaxAssumption ==
    \A rows \in Written, legal \in (SUBSET Tokens) \ {{}}, hist \in Sayings :
        Argmax(rows, legal, hist) \in Tokens

VARIABLES
    seq,    \* each sequence's state
    batch   \* the decode call under way: the entries left, and its parameters

vars == <<seq, batch>>

Fresh == [
    text     |-> <<>>,        \* the rows [0, context_length)
    layer    |-> 0,           \* state.layer_index
    row      |-> NoToken,     \* the token whose row the layers below "layer" have run
    token    |-> NoToken,     \* current_token
    ready    |-> FALSE,       \* ready_for_logits
    bound    |-> FALSE,       \* bound_schema # nullptr
    walk     |-> WalkUnused,  \* dfa_walk_state
    eligible |-> TRUE,        \* bind_eligible
    history  |-> <<>>,        \* the damped-greedy history
    order    |-> 0,           \* damped_greedy_antilm_order (0: none)
    origin   |-> 0,           \* kv_origin
    told     |-> <<>>,        \* what the caller fed and was told, of which the row is or
                              \* will be in the context (in no C++ field)
    walked   |-> <<>> ]       \* what of it the walk took (in no C++ field)

Idle == [left |-> <<>>, params |-> Greedy, budget |-> 1]
Init == seq = [s \in Seqs |-> Fresh] /\ batch = Idle

-----------------------------------------------------------------------------
(* The schema, the limit, the finish. *)

CanStep(w, t) == <<w, t>> \in DOMAIN Schema
Step(w, t)    == IF CanStep(w, t) THEN Schema[<<w, t>>] ELSE w
Legal(w)      == {t \in Tokens : CanStep(w, t)}
WalkOver(w, ts) ==
    LET at[i \in 0 .. Len(ts)] == IF i = 0 THEN w ELSE Step(at[i - 1], ts[i])
    IN  at[Len(ts)]
CanWalk(w, ts)  == \A i \in 1 .. Len(ts) : CanStep(WalkOver(w, SubSeq(ts, 1, i - 1)), ts[i])
StartWalk(b)    == IF b THEN 0 ELSE WalkUnused

\* HolderLimit: the cap, or the budget past the adopted prefix.
HolderLimit(s, q) == LET own == q.origin + Budget[s] IN IF own < ContextCap THEN own ELSE ContextCap
Headroom(s, q)    == HolderLimit(s, q) - Len(q.text)

\* FinishRow: mask first, then the argmax, damped by a history or not.  With
\* nothing legal every logit is INT32_MIN and the lowest id wins.
FinishRow(q, rows, w, hist) ==
    LET legal == IF q.bound THEN Legal(w) ELSE Tokens
    IN  IF legal = {} THEN 0 ELSE Argmax(rows, legal, hist)

\* PrepareAntiLm: a call that names another order starts a history of its own.
Prepared(q, p) == IF p # Greedy /\ q.order = p THEN q.history ELSE <<>>

InstallAntiLm(q, p) ==
    IF p = Greedy THEN q ELSE [q EXCEPT !.order = p, !.history = Prepared(q, p)]

\* Fault: a failed finish leaves the ready flag taken.
RestedNot(q) == [q EXCEPT !.layer = 0]

\* FinishGuard: a finish that does not commit rests the sequence to be finished again.
Rested(q) == [q EXCEPT !.layer = 0, !.ready = TRUE]

\* The finish that succeeds: a dead end (-2) keeps token, walk and history and
\* rests; a token is fed to the history, walked, told and held to be read next.
Emit(q, p) ==
    LET t == FinishRow(q, q.text, q.walk, Prepared(q, p))
        r == InstallAntiLm(q, p)
    IN  IF q.bound /\ ~CanStep(q.walk, t)
        THEN Rested(r)
        ELSE [r EXCEPT !.history = IF p = Greedy THEN @ ELSE Append(@, t),
                       !.walk = IF q.bound THEN Step(@, t) ELSE @,
                       !.token = t, !.layer = 0, !.ready = FALSE,
                       !.told = Append(@, t), !.walked = IF q.bound THEN Append(@, t) ELSE @]

\* The token whose row the layer loop runs, and the row once every layer has run.
RowToken(q) == IF q.layer = 0 THEN q.token ELSE q.row
RowRun(q)   == [q EXCEPT !.text = Append(@, RowToken(q)), !.row = NoToken]

-----------------------------------------------------------------------------
(* sslm_decode_step over a batch. *)

Quiet == batch = Idle
Returned == batch' = Idle

\* Neither a token to read, nor a layer to resume, nor a finish to do.
Unresumable(q) == q.layer = 0 /\ q.token = NoToken /\ ~q.ready

\* Every entry loses its bind permission, then all are validated before any moves.
DecodeStep(b, p, n) ==
    /\ Quiet
    /\ seq' = [s \in Seqs |-> IF s \in Range(b) THEN [seq[s] EXCEPT !.eligible = FALSE] ELSE seq[s]]
    /\ batch' = IF \E s \in Range(b) : Unresumable(seq[s]) THEN Idle
                ELSE [left |-> b, params |-> p, budget |-> n]

Entry == Head(batch.left)
Now   == seq[Entry]
Decoding == batch.left # <<>>

Move(q) == seq' = [seq EXCEPT ![Entry] = q]
GoOn == batch' = IF Len(batch.left) = 1 THEN Idle ELSE [batch EXCEPT !.left = Tail(@)]

AtLimit == ~Now.ready /\ Now.layer = 0 /\ Headroom(Entry, Now) <= 0
InLayers == Decoding /\ ~Now.ready /\ ~AtLimit

\* The cap and budget refusals end the call: later entries are not looked at.
RefuseLimit == Decoding /\ AtLimit /\ UNCHANGED seq /\ Returned

\* A layer fails: the layers below it are kept, and the call ends.
LayersFail ==
    /\ InLayers
    /\ \E m \in Now.layer .. NumLayers - 1 :
          /\ m < Now.layer + batch.budget
          /\ Move([Now EXCEPT !.layer = m, !.row = IF m = 0 THEN NoToken ELSE RowToken(Now)])
    /\ Returned

Reaches(q) == q.ready \/ q.layer + batch.budget >= NumLayers

\* The layer budget ends inside the token: -1, and the next entry.
LayersPending ==
    /\ InLayers /\ ~Reaches(Now)
    /\ Move([Now EXCEPT !.layer = @ + batch.budget, !.row = RowToken(Now)])
    /\ GoOn

\* The state the finish starts from: the ready flag taken, or the row just run.
AtFinish == IF Now.ready THEN [Now EXCEPT !.ready = FALSE] ELSE RowRun(Now)
Finishing == Decoding /\ Reaches(Now) /\ ~AtLimit

\* A norm, logits, prepare, scorer or allocation failure ends the call.
FinishFails == Finishing /\ Move(Rested(AtFinish)) /\ Returned

FinishRowCommits == Finishing /\ Move(Emit(AtFinish, batch.params)) /\ GoOn

-----------------------------------------------------------------------------
(* The other verbs. *)

HasPending(q) == q.layer > 0 \/ (~q.ready /\ q.token # NoToken)

\* A token told but never read leaves the context when other rows follow.
WithoutPending(q) == IF HasPending(q) THEN Front(q.told) ELSE q.told

\* PrefillWholeTokens' pre-scan: the longest run that fits and that the walk admits.
Admitted(s, q, ts, walked) ==
    CHOOSE n \in 0 .. Len(ts) :
        LET ok(m) == /\ m = 0 \/ m <= Headroom(s, q)
                     /\ walked => q.bound /\ CanWalk(q.walk, SubSeq(ts, 1, m))
        IN  (n = 0 \/ ok(n)) /\ \A m \in 1 .. Len(ts) : ok(m) => m <= n

\* Every generation call past its argument checks clears bind_eligible.
Revoked(q) == [q EXCEPT !.eligible = FALSE]

\* sslm_prefill: a span of the prompt, or of schema content when walked.
Prefill(s, ts, walked) ==
    LET q == Revoked(seq[s])
        n == Admitted(s, q, ts, walked)
        in == SubSeq(ts, 1, n)
        prefilled == [q EXCEPT
            !.text = @ \o in, !.layer = 0, !.row = NoToken, !.token = in[n], !.ready = TRUE,
            !.walk = IF walked THEN WalkOver(@, in) ELSE @,
            !.told = WithoutPending(q) \o in,
            !.walked = IF walked THEN @ \o in ELSE @]
    IN  /\ Quiet
        /\ seq' = [seq EXCEPT ![s] = IF n = 0 THEN q ELSE prefilled]
        /\ UNCHANGED batch

\* A batched pass fails and admits nothing.  It is not refused in the middle of a
\* token, and then it may have written over the rows that the layers below wrote.
PrefillFails(s) ==
    /\ Quiet
    /\ Headroom(s, seq[s]) > 0
    /\ \E r \in {seq[s].row, Torn} :
          /\ seq[s].layer = 0 => r = seq[s].row
          /\ seq' = [seq EXCEPT ![s] = [Revoked(@) EXCEPT !.row = r]]
    /\ UNCHANGED batch

\* What the prefix verbs can have frozen: a text, and of it, in order, the schema content,
\* which a schema is bound before.
Within(part, ts) ==
    \E at \in [1 .. Len(part) -> 1 .. Len(ts)] :
        /\ \A i, j \in 1 .. Len(part) : i < j => at[i] < at[j]
        /\ \A i \in 1 .. Len(part) : part[i] = ts[at[i]]

PrefixTexts == UNION {[1 .. n -> Tokens] : n \in 0 .. PrefixMax}

FrozenPrefixes ==
    {f \in [bound : BOOLEAN, text : PrefixTexts, walked : PrefixTexts] :
        /\ Within(f.walked, f.text) /\ CanWalk(0, f.walked)
        /\ f.walked # <<>> => f.bound}

PrefixWalk(f) == IF f.bound THEN WalkOver(0, f.walked) ELSE WalkUnused
Progressed(f) == f.bound /\ PrefixWalk(f) # 0

\* Fault: a prompt-only prefix leaves the walk of the content it replaces.
AdoptedWalkKept(q, f) == IF Progressed(f) THEN PrefixWalk(f) ELSE q.walk

AdoptedWalk(q, f) == IF Progressed(f) THEN PrefixWalk(f) ELSE StartWalk(q.bound)

\* sslm_seq_adopt_prefix: refused (but the bind permission is gone) when the prefix
\* has walked a schema the sequence is not bound to.
AdoptPrefix(s, f) ==
    LET q == Revoked(seq[s]) IN
    /\ Quiet
    /\ seq' = [seq EXCEPT ![s] =
          IF Progressed(f) /\ ~q.bound THEN q
          ELSE [q EXCEPT !.text = f.text, !.layer = 0, !.row = NoToken,
                         !.token = IF f.text = <<>> THEN NoToken ELSE Last(f.text),
                         !.ready = f.text # <<>>, !.walk = AdoptedWalk(q, f),
                         !.history = <<>>, !.order = 0, !.origin = Len(f.text),
                         !.told = f.text, !.walked = f.walked]]
    /\ UNCHANGED batch

\* Fault: the damped-greedy state outlives the content it was fed from.
ResetKeeping(q) == [Fresh EXCEPT !.bound = q.bound, !.walk = StartWalk(q.bound),
                                 !.history = q.history, !.order = q.order]

ResetOf(q) == [Fresh EXCEPT !.bound = q.bound, !.walk = StartWalk(q.bound)]

SeqReset(s) == Quiet /\ seq' = [seq EXCEPT ![s] = ResetOf(@)] /\ UNCHANGED batch

SetSchema(s, b) ==
    /\ Quiet /\ seq[s].eligible
    /\ seq' = [seq EXCEPT ![s].bound = b, ![s].walk = StartWalk(b)]
    /\ UNCHANGED batch

\* current_token is saved where it is still to be read; elsewhere the residual is.
SavedToken(q) == IF q.layer = 0 /\ ~q.ready THEN q.token ELSE NoToken

\* sslm_seq_save (refused when the history outgrew the context), then a release
\* and sslm_seq_restore of the blob: the sequence as the blob has it.
SaveRestore(s) ==
    /\ Quiet
    /\ Len(seq[s].history) <= Len(seq[s].text)
    /\ seq' = [seq EXCEPT ![s] = [Revoked(@) EXCEPT !.token = SavedToken(seq[s])]]
    /\ UNCHANGED batch

-----------------------------------------------------------------------------
(* sslm_seq_jump_forward, exact mode: a draft, checked row by row. *)

\* Fault: a row is checked against the history before its own token was fed.
HistoryAtStale(q, p, d, r) ==
    IF p = Greedy THEN <<>> ELSE Prepared(q, p) \o SubSeq(d, 1, r - 1)

\* What the check of row r scores against: the drafted tokens 1 .. r are fed.
HistoryAt(q, p, d, r) ==
    IF p = Greedy THEN <<>> ELSE Prepared(q, p) \o SubSeq(d, 1, r)

\* Row r, the pending token and r drafted ones read, chooses the draft's next token.
CheckRow(q, p, d, r) ==
    FinishRow(q, (q.text \o <<q.token>>) \o SubSeq(d, 1, r), WalkOver(q.walk, SubSeq(d, 1, r)),
              HistoryAt(q, p, d, r)) = d[r + 1]

\* The draft walk: as much of the draft as fits the limit and the schema admits.
DraftLength(s, q, draft) ==
    CHOOSE n \in 0 .. Len(draft) :
        LET ok(m) == (m = 0 \/ m <= Headroom(s, q) - 1) /\ CanWalk(q.walk, SubSeq(draft, 1, m))
        IN  ok(n) /\ \A m \in 0 .. Len(draft) : ok(m) => m <= n

\* The pass over k + 1 rows keeps the pending token's and j confirmed ones.  The
\* check stops at the first mismatch, or anywhere when a finish, a row's pass or a
\* feed fails; the prepared history is installed once row 0's finish has answered.
Confirmed(q, p, d, j, installed) ==
    /\ \A r \in 0 .. j - 1 : CheckRow(q, p, d, r)
    /\ j > 0 => installed

Jumped(q, p, d, j, installed) ==
    LET kept == SubSeq(d, 1, j)
        r == IF installed THEN InstallAntiLm(q, p) ELSE q
    IN  [r EXCEPT !.text = (@ \o <<q.token>>) \o kept,
                  !.history = IF p = Greedy THEN @ ELSE @ \o kept,
                  !.walk = WalkOver(@, kept),
                  !.token = IF j = 0 THEN @ ELSE d[j],
                  !.ready = TRUE,
                  !.told = @ \o kept, !.walked = @ \o kept]

JumpForward(s, draft, p) ==
    LET q == Revoked(seq[s])
        k == DraftLength(s, q, draft)
        still == ~q.bound \/ q.ready \/ q.token = NoToken \/ Headroom(s, q) <= 0 \/ k = 0
    IN  /\ Quiet
        /\ q.layer = 0
        /\ \/ seq' = [seq EXCEPT ![s] = q]            \* a no-op, or no row kept
           \/ /\ ~still
              /\ \E j \in 0 .. k, installed \in BOOLEAN :
                    /\ Confirmed(q, p, draft, j, installed)
                    /\ seq' = [seq EXCEPT ![s] = Jumped(q, p, draft, j, installed)]
        /\ UNCHANGED batch

-----------------------------------------------------------------------------
Params == {Greedy} \cup Orders
Spans  == UNION {[1 .. n -> Tokens] : n \in 0 .. MaxChunk}

Next ==
    \/ \E b \in Batches, p \in Params, n \in 1 .. NumLayers : DecodeStep(b, p, n)
    \/ RefuseLimit
    \/ LayersFail
    \/ LayersPending
    \/ FinishFails
    \/ FinishRowCommits
    \/ \E s \in Full, ts \in Spans, w \in BOOLEAN : Prefill(s, ts, w)
    \/ \E s \in Seqs : Prefill(s, <<0>>, FALSE)
    \/ \E s \in Full : PrefillFails(s)
    \/ \E s \in Full, f \in FrozenPrefixes : AdoptPrefix(s, f)
    \/ \E s \in Seqs : SeqReset(s)
    \/ \E s \in Full, b \in BOOLEAN : SetSchema(s, b)
    \/ \E s \in Full : SaveRestore(s)
    \/ \E s \in Full, d \in Spans, p \in Params : JumpForward(s, d, p)

Spec == Init /\ [][Next]_vars

-----------------------------------------------------------------------------
(* Properties. *)

\* Rows, and the token still to be read: what a next decode would go on from.
Pending(q) == IF q.layer > 0 THEN <<q.row>>
              ELSE IF q.ready \/ q.token = NoToken THEN <<>> ELSE <<q.token>>
Content(q) == q.text \o Pending(q)

\* No token is lost, repeated or out of order: through budgets that end inside a
\* token, batches that end early, finishes that fail and are retried, dead ends,
\* jumps, saves and restores, the context is exactly what the caller fed and was
\* told.  (Only a batched prefill that failed in the middle of a token spoils it.)
TextIsTold ==
    \A s \in Seqs : Torn \in Range(Content(seq[s])) \/ Content(seq[s]) = seq[s].told

\* The walk is at the state that the schema content of this generation leads to:
\* none of it is walked twice, left out, or left over from content that a reset or
\* an adopt replaced, and a schema is bound only before any of it.
WalkIsOfContent ==
    \A s \in Seqs : seq[s].bound => seq[s].walk = WalkOver(0, seq[s].walked)

\* The damped-greedy history never outgrows the context, so a save is never
\* refused for it: every token fed is a row, or is about to be.
HistoryFits == \A s \in Seqs : Len(seq[s].history) <= Len(seq[s].text)

\* j tokens decoded one at a time, with nothing failing, from a pending token.
Decodes(q, p) ==
    LET decoded[j \in 0 .. MaxChunk] == IF j = 0 THEN q ELSE Emit(RowRun(decoded[j - 1]), p)
    IN  decoded

AsDecoded(q, after, p) ==
    \E j \in 0 .. MaxChunk :
        LET d == Decodes(q, p)[j] IN
        /\ after.text = Append(d.text, d.token)
        /\ after.token = d.token /\ after.walk = d.walk
        /\ after.told = d.told /\ after.walked = d.walked
        /\ <<after.history, after.order>> \in
              {<<d.history, d.order>>} \cup
              IF j = 0 THEN {<<InstallAntiLm(q, p).history, InstallAntiLm(q, p).order>>} ELSE {}

\* A jump is some number of decodes and the next token's layers: the tokens, the
\* walk and the history are those that decoding one token at a time would give.
JumpIsDecode ==
    [][\A s \in Full : ~seq[s].ready /\ seq'[s].ready /\ Quiet =>
          \A d \in Spans, p \in Params :
              JumpForward(s, d, p) => AsDecoded(Revoked(seq[s]), seq'[s], p)]_vars
=============================================================================
