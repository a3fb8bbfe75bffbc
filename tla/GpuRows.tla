------------------------------ MODULE GpuRows ------------------------------
(***************************************************************************)
(* The multi-row chunk of a pooled GPU sequence and the exact jump built   *)
(* on it (src/src/gpu/gpu_1p0.cpp): several tokens are read as rows of one *)
(* submission, sliced by a dispatch budget, and the close decides how many *)
(* of them the plain one-row loop would have read.                         *)
(*                                                                         *)
(* A row's K/V, at a layer, is the text it was computed over; Junk is K/V  *)
(* of nobody's text.  A submission and the sslm_gpu_ready that finishes it *)
(* are one step: in between the handle is Submitted and every other verb   *)
(* refuses it.  Every refusal that changes nothing (a full pool, the       *)
(* submission guard) is a stutter.                                         *)
(***************************************************************************)
EXTENDS Integers, Sequences

CONSTANTS
    Vocab,          \* vocab_size
    Schema,         \* the bound schema: a function on some <<state, token>>
    NumLayers,      \* num_hidden_layers
    Limit,          \* the limit of the pooled holder
    PageRows,       \* page_positions
    MaxRows,        \* SSLM_GPU_MAX_ROWS
    MaxDraft,       \* most tokens in a draft
    Pick(_, _)      \* the token preferred after a text, among some

Tokens  == 0 .. Vocab - 1
NoToken == -1
DeadEnd == -2          \* what a finish answers when no token is legal
Junk    == <<NoToken>>
NoRows  == <<>>        \* a snapshot not taken

ASSUME SizesAssumption ==
    /\ {Vocab, NumLayers, Limit, PageRows} \subseteq Nat \ {0}
    /\ MaxRows \in Nat \ {0, 1} /\ MaxDraft \in Nat

VARIABLES
    seq,     \* the handle: length, layer_index, ready_for_logits, residual, walk
    mirror,  \* the host's K/V rows
    device,  \* the device's K/V rows
    mapped,  \* the pages of the holder's table
    chunk,   \* rows_chunk, or NoChunk
    jump,    \* the jump under way, or NoJump
    hand     \* the token the caller was given and has not yet had read

vars == <<seq, mirror, device, mapped, chunk, jump, hand>>

Rows  == (0 .. Limit - 1) \X (0 .. NumLayers - 1)
Top   == NumLayers - 1
Fresh == [len |-> 0, layer |-> 0, ready |-> FALSE, res |-> <<>>, walk |-> 0]

NoChunk == [toks |-> <<>>]
NoJump  == [toks |-> <<>>]

Init ==
    /\ seq = Fresh /\ mapped = 0 /\ hand = NoToken
    /\ mirror = [x \in Rows |-> Junk] /\ device = [x \in Rows |-> Junk]
    /\ chunk = NoChunk /\ jump = NoJump

Min2(a, b) == IF a < b THEN a ELSE b
Max2(a, b) == IF a > b THEN a ELSE b

-----------------------------------------------------------------------------
(* Rows and pages. *)

Cover(n) == (n + PageRows - 1) \div PageRows

\* A page given up keeps no row that anybody may count on.
OnPages(kv, n) == [x \in Rows |-> IF x[1] < n * PageRows THEN kv[x] ELSE Junk]

\* Rows lo .. hi - 1 of one, the rest of the other.
Splice(lo, hi, new, old) == [x \in Rows |-> IF lo <= x[1] /\ x[1] < hi THEN new[x] ELSE old[x]]

Behind(kv, l) == IF seq.len = 0 THEN <<>> ELSE kv[<<seq.len - 1, l>>]

\* The rows of ts, behind the text, through the layers below n; at[r] is the layer
\* that refused row r.  Behind a refused row nothing is of the text.
Computed(kv, ts, at, n) ==
    [x \in Rows |->
        LET r == x[1] - seq.len + 1
            l == x[2]
            before == Behind(kv, l)
        IN  IF r \in 1 .. Len(ts) /\ l < n
            THEN IF before = Junk \/ \E q \in 1 .. r : at[q] <= l THEN Junk
                 ELSE before \o SubSeq(ts, 1, r)
            ELSE kv[x]]

Unrefused(ts) == [r \in 1 .. Len(ts) |-> NumLayers]

\* A submission that failed may have written any of the rows behind the text.
Below(kv, n) == [x \in Rows |-> IF x[1] < n THEN kv[x] ELSE Junk]
Spoiled(kv)  == Below(kv, seq.len)

\* The residual of position p when n layers have run.
Residual(kv, p, n) == IF n = 0 THEN <<>> ELSE kv[<<p, n - 1>>]

-----------------------------------------------------------------------------
(* The schema's walk and the finish. *)

CanStep(w, t)   == <<w, t>> \in DOMAIN Schema
Step(w, t)      == Schema[<<w, t>>]
LegalFrom(w)    == {t \in Tokens : CanStep(w, t)}
WalkOver(w, ts) ==
    LET at[i \in 0 .. Len(ts)] == IF i = 0 THEN w ELSE Step(at[i - 1], ts[i])
    IN  at[Len(ts)]
CanWalk(w, ts)  == \A i \in 1 .. Len(ts) : CanStep(WalkOver(w, SubSeq(ts, 1, i - 1)), ts[i])

\* GpuFinishFromNorm: the mask, the argmax, the transition.
Finish(text, w) == IF LegalFrom(w) = {} THEN DeadEnd ELSE Pick(text, LegalFrom(w))

\* The finish of the row a handle holds at full depth: what the handle and the
\* caller's hand are then.  A dead end re-arms the ready flag, and so do some failures.
Answered(x) ==
    LET t == Finish(x.res, x.walk)
    IN  IF t = DeadEnd THEN [seq |-> [x EXCEPT !.ready = TRUE], hand |-> NoToken]
        ELSE [seq |-> [x EXCEPT !.walk = Step(@, t), !.layer = 0], hand |-> t]

FinishFailed(x) ==
    {[seq |-> [x EXCEPT !.ready = @ \/ rearm], hand |-> NoToken] : rearm \in BOOLEAN}

Finished(x) == {Answered(x)} \cup FinishFailed(x)

Rests(o) == seq' = o.seq /\ hand' = o.hand

\* The walk past rows 2 .. r of a draft: row 1 was walked by the finish that gave it.
WalkAfter(ts, r) == WalkOver(seq.walk, SubSeq(ts, 2, r))

\* The plain loop, having read row r, would go on with the draft's next row.
Agrees(kv, ts, r) ==
    Finish(Residual(kv, seq.len + r - 1, NumLayers), WalkAfter(ts, r)) = ts[r + 1]

-----------------------------------------------------------------------------
(* A chunk opens. *)

Idle   == chunk = NoChunk /\ jump = NoJump
InHand == seq.layer = 0 /\ ~seq.ready /\ seq.len > 0 /\ hand # NoToken

\* The draft's rows that the walk admits, then what the limit has room for.
LegalPrefix(ts) ==
    CHOOSE n \in 1 .. Len(ts) :
        /\ CanWalk(seq.walk, SubSeq(ts, 2, n))
        /\ \A m \in 1 .. Len(ts) : CanWalk(seq.walk, SubSeq(ts, 2, m)) => m <= n

Admitted(kind, ts) ==
    Min2(IF kind = "exact" THEN LegalPrefix(ts) ELSE Len(ts), Limit - seq.len)

Entry == [seq |-> seq, mapped |-> mapped]

\* RowsOpenChunk.  A single row enters the handle at once.
Opened(kind, ts) ==
    /\ chunk' = [kind |-> kind, toks |-> ts, done |-> 0, at |-> Unrefused(ts), snap |-> NoRows,
                 mrow |-> NoRows, entry |-> Entry, was |-> device]
    /\ seq' = IF Len(ts) = 1 THEN [seq EXCEPT !.ready = FALSE, !.layer = 0, !.res = <<>>]
              ELSE [seq EXCEPT !.ready = FALSE]

\* sslm_gpu_seq_embed_rows.
EmbedRows(kind, ts) ==
    LET n == Admitted(kind, ts) IN
    /\ Idle /\ n > 0
    /\ seq.layer \in {0, NumLayers}
    /\ kind = "exact" => InHand /\ ts[1] = hand
    /\ Opened(kind, SubSeq(ts, 1, n))
    /\ UNCHANGED <<mirror, device, mapped, jump, hand>>

-----------------------------------------------------------------------------
(* A chunk rolls back, or commits a prefix. *)

Single(c) == Len(c.toks) = 1

\* Fault: a draft's rows are put back from a snapshot that its first row is not in.
RestoredPastFirst(c, dev, first) ==
    IF c.snap = NoRows THEN dev ELSE Splice(seq.len + Max2(first, 2), Limit, c.snap, dev)

\* RowsRestoreDeviceKvAbove: rows "first" and up, as the first slice found them.
Restored(c, dev, first) ==
    IF c.snap = NoRows THEN dev ELSE Splice(seq.len + first, Limit, c.snap, dev)

\* RowsRollbackAndClose: the handle as it was at entry, and for one row its mirror row
\* too.  A draft's rows are copied back to the device, and that may fail.
Rollback(c, dev) ==
    /\ seq' = c.entry.seq
    /\ mapped' = c.entry.mapped
    /\ mirror' = OnPages(IF c.mrow = NoRows THEN mirror ELSE Splice(seq.len, seq.len + 1, c.mrow, mirror),
                         mapped')
    /\ device' \in {OnPages(d, mapped') :
                      d \in {Restored(c, dev, 0)} \cup IF c.snap = NoRows THEN {} ELSE {Spoiled(dev)}}
    /\ chunk' = NoChunk
    /\ UNCHANGED <<jump, hand>>

Mapped(c) == Max2(mapped, Cover(seq.len + Len(c.toks)))

\* Fault: the tail goes back to what was mapped when the chunk opened.
PagesKeptAtEntry(c, n) == c.entry.mapped

\* Pages with no row up to n are unmapped, never below what was mapped at entry.
PagesKept(c, n) == Min2(Mapped(c), Max2(Cover(n), c.entry.mapped))

\* Fault: the rows are read back into the mirror up to the last one, and not with it.
MirroredBelow(dev, f) == Splice(seq.len, seq.len + f, dev, mirror)

Mirrored(dev, f) == Splice(seq.len, seq.len + f + 1, dev, mirror)

\* RowsCommitPrefix, for the footprint of rows 0 .. f: those kept, and a refused one.  The
\* mirror gets a refused row whole, where the code stops at the end of the slice that refused
\* it: that row is above the text, and the mirror above the text is nobody's.
CommitPrefix(c, dev, f) ==
    /\ mapped' = PagesKept(c, seq.len + f + 1)
    /\ mirror' = OnPages(Mirrored(dev, f), mapped')
    /\ device' = OnPages(Restored(c, dev, f + 1), mapped')
    /\ chunk' = NoChunk
    /\ UNCHANGED jump

\* The handle behind k rows, the last at full depth.
Behold(dev, k, w) ==
    [len |-> seq.len + k, layer |-> NumLayers, ready |-> FALSE,
     res |-> Residual(dev, seq.len + k - 1, NumLayers), walk |-> w]

Clean(c) == c.at = Unrefused(c.toks)

CommitPrompt(c, dev) ==
    /\ c.kind = "prompt" /\ Clean(c)
    /\ CommitPrefix(c, dev, Len(c.toks) - 1)
    /\ seq' = Behold(dev, Len(c.toks), seq.walk) /\ hand' = NoToken

\* Fault: the last row kept is one whose token the draft does not go on with.
FirstAway(c, dev, a) == \A r \in 2 .. a - 1 : Agrees(dev, c.toks, r)

\* Row a is the first that may end the draft: the rows before it agree with it.
MayEnd(c, dev, a) == \A r \in 1 .. a - 1 : Agrees(dev, c.toks, r)

\* RowsExactClose: row a is the first whose finish disagrees with the draft, fails or
\* dead-ends, and that finish is the handle's.
CommitDraft(c, dev) ==
    /\ c.kind = "exact"
    /\ \E a \in 1 .. Len(c.toks) :
          LET x == Behold(dev, a, WalkAfter(c.toks, a)) IN
          /\ \A r \in 1 .. a : c.at[r] = NumLayers
          /\ MayEnd(c, dev, a)
          /\ \E o \in Finished(x) :
                /\ a < Len(c.toks) => o.hand # c.toks[a + 1]
                /\ Rests(o)
          /\ CommitPrefix(c, dev, a - 1)

\* A guard refused row j: the rows before it stay, of a draft if they all agree.  The
\* plain loop then has row j in hand.
Refuse(c, dev) ==
    \E j \in 1 .. Len(c.toks) :
        /\ c.at[j] < NumLayers /\ \A r \in 1 .. j - 1 : c.at[r] = NumLayers
        /\ c.kind = "exact" => \A r \in 1 .. j - 1 : Agrees(dev, c.toks, r)
        /\ CommitPrefix(c, dev, j - 1)
        /\ seq' = [len |-> seq.len + j - 1, layer |-> c.at[j], ready |-> FALSE, res |-> Junk,
                   walk |-> IF c.kind = "exact" THEN WalkAfter(c.toks, j) ELSE seq.walk]
        /\ hand' = IF c.kind = "exact" THEN c.toks[j] ELSE NoToken

\* The guard refuses a draft's close: the chunk stays, with what it read back.
CloseWaits(c, dev) ==
    /\ c.kind = "exact" /\ ~Single(c)
    /\ chunk' = c /\ device' = dev /\ mapped' = Mapped(c)
    /\ UNCHANGED <<seq, mirror, jump, hand>>

\* The copy back to the device fails, and with it the close.
CloseFails(c, dev) == c.snap # NoRows /\ Rollback(c, dev)

Close(c, dev) ==
    CommitPrompt(c, dev) \/ CommitDraft(c, dev) \/ Refuse(c, dev) \/ CloseFails(c, dev)

-----------------------------------------------------------------------------
(* Slices. *)

\* The first slice of a draft keeps the device's rows, of a single row the mirror's.
Snapped ==
    IF chunk.done > 0 THEN chunk
    ELSE [chunk EXCEPT !.snap = IF chunk.kind = "exact" /\ ~Single(chunk) THEN device ELSE @,
                       !.mrow = IF Single(chunk) THEN mirror ELSE @]

\* The chunk when n more layers have run, any of which may refuse a row not refused yet.
Advanced(n) ==
    LET upto  == chunk.done + n
        outcomes(r) == IF chunk.at[r] < NumLayers THEN {chunk.at[r]}
                       ELSE (chunk.done .. upto - 1) \cup {NumLayers}
        refusals == {f \in [1 .. Len(chunk.toks) -> 0 .. NumLayers] : \A r \in DOMAIN f : f[r] \in outcomes(r)}
    IN  {[Snapped EXCEPT !.done = upto, !.at = at] : at \in refusals}

Written(c) == Computed(device, c.toks, c.at, c.done)

\* A single row is closed by a refusal, several only after the last layer.
Closes(c) == c.done = NumLayers \/ (Single(c) /\ ~Clean(c))

\* The one-row body keeps layer, residual and mirror up to date after every slice.
MidChunk(c, dev) ==
    /\ chunk' = c /\ device' = dev /\ mapped' = Mapped(c)
    /\ IF Single(c)
       THEN /\ seq' = [seq EXCEPT !.layer = c.done, !.res = Residual(dev, seq.len, c.done)]
            /\ mirror' = Splice(seq.len, seq.len + 1, dev, mirror)
       ELSE UNCHANGED <<seq, mirror>>
    /\ UNCHANGED <<jump, hand>>

\* sslm_decode_step_gpu on an open chunk and the sslm_gpu_ready that finishes it.
Slice(n) ==
    /\ chunk # NoChunk /\ chunk.done + n <= NumLayers
    /\ \E c \in Advanced(n) :
          IF Closes(c) THEN Close(c, Written(c)) \/ CloseWaits(c, Written(c)) ELSE MidChunk(c, Written(c))

\* A submission or its read-back fails.
SliceFails == chunk # NoChunk /\ chunk.done < NumLayers /\ Rollback(Snapped, Spoiled(device))

\* sslm_gpu_ready again, after the guard refused the close.
CloseAgain == chunk # NoChunk /\ chunk.done = NumLayers /\ Close(chunk, device)

\* sslm_gpu_seq_rows_abandon.
Abandon == chunk # NoChunk /\ Rollback(chunk, device)

\* sslm_gpu_seq_reset.
Reset ==
    /\ jump = NoJump
    /\ seq' = Fresh /\ mapped' = 0 /\ chunk' = NoChunk /\ hand' = NoToken
    /\ mirror' = OnPages(mirror, 0) /\ device' = OnPages(device, 0)
    /\ UNCHANGED jump

-----------------------------------------------------------------------------
(* One row. *)

\* The row at the end of the text, in mirror and device.
RowRuns(dev) ==
    /\ mapped' = Max2(mapped, Cover(seq.len + 1))
    /\ device' = dev
    /\ mirror' = Splice(seq.len, seq.len + 1, dev, mirror)

ReadsRow == Idle /\ ~seq.ready /\ hand # NoToken /\ seq.len < Limit

\* SslmGpuSeqDecodeStepForG5Bridge with a token: embed, drive, finish.
Decode ==
    /\ ReadsRow
    /\ RowRuns(Computed(device, <<hand>>, <<NumLayers>>, NumLayers))
    /\ \E o \in Finished([Behold(device', 1, seq.walk) EXCEPT !.ready = FALSE]) : Rests(o)
    /\ UNCHANGED <<chunk, jump>>

\* The drive stops at layer n: the length stays, and the caller still has the token.
DecodeFails(n) ==
    /\ ReadsRow
    /\ RowRuns(Spoiled(device))
    /\ seq' = [seq EXCEPT !.layer = n, !.res = Junk]
    /\ UNCHANGED <<chunk, jump, hand>>

\* The same verb on a ready handle finishes the held row, if there is one.
DecodeReady ==
    /\ Idle /\ seq.ready
    /\ LET x == [seq EXCEPT !.ready = FALSE]
       IN  IF seq.layer = NumLayers THEN \E o \in Finished(x) : Rests(o)
           ELSE seq' = x /\ UNCHANGED hand
    /\ UNCHANGED <<mirror, device, mapped, chunk, jump>>

\* SslmGpuSeqFinishTokenForG5Bridge, which leaves the ready flag as it is.
FinishToken ==
    /\ Idle /\ seq.layer = NumLayers
    /\ \E o \in Finished(seq) : Rests(o)
    /\ UNCHANGED <<mirror, device, mapped, chunk, jump>>

-----------------------------------------------------------------------------
(* sslm_gpu_seq_jump_forward: one call, in passes. *)

Rest(j) == SubSeq(j.toks, j.off + 1, Len(j.toks))
Height  == Min2(MaxRows, Len(Rest(jump)))
Pass    == SubSeq(Rest(jump), 1, Height)
LastPass == Height = Len(Rest(jump))

Passing == jump # NoJump /\ ~jump.stop

\* The pages of all the draft's rows are mapped before the first pass.
JumpForward(draft) ==
    LET room == Min2(Len(draft), Limit - seq.len - 1)
        ts == <<hand>> \o SubSeq(draft, 1, room)
        n == LegalPrefix(ts)
    IN  /\ Idle /\ InHand /\ room > 0 /\ n > 1
        /\ jump' = [toks |-> SubSeq(ts, 1, n), off |-> 0, kept |-> 0, stop |-> FALSE,
                    walk |-> seq.walk, entry |-> Entry, mirror |-> mirror]
        /\ mapped' = Max2(mapped, Cover(seq.len + n))
        /\ UNCHANGED <<seq, mirror, device, chunk, hand>>

\* The walk past the first r rows of the draft, the hand's one walked before.
JumpWalk(r) == WalkOver(jump.walk, SubSeq(jump.toks, 2, r))

\* Row r of the pass, finished, agrees with the draft's next row.
PassAgrees(dev, r) ==
    Finish(Residual(dev, seq.len + r - 1, NumLayers), JumpWalk(jump.off + r)) = jump.toks[jump.off + r + 1]

\* A pass maps its rows' pages (the pass before it gave them back); those above the rows
\* committed are unmapped again, never below the jump's entry.
UnmapAbove(n) == Min2(Max2(mapped, Cover(seq.len + Height)), Max2(Cover(n), jump.entry.mapped))

PassEnds(dev, a, stop) ==
    /\ mapped' = UnmapAbove(seq.len + a)
    /\ device' = OnPages(Splice(0, seq.len + a, dev, device), mapped')
    /\ mirror' = OnPages(Splice(seq.len, seq.len + a, dev, mirror), mapped')
    /\ seq' = Behold(dev, a, JumpWalk(jump.off + a))
    /\ jump' = [jump EXCEPT !.off = @ + Height, !.kept = @ + a, !.stop = stop]
    /\ UNCHANGED <<chunk, hand>>

\* A pass of several rows, submitted and closed: the rows up to the first that does not
\* agree, or whose finish fails, stay; the draft's last row is not finished.
JumpPass ==
    /\ Passing /\ Height > 1
    /\ LET dev == Computed(device, Pass, Unrefused(Pass), NumLayers)
       IN  \E a \in 1 .. Height, stop \in BOOLEAN :
              /\ \A r \in 1 .. a - 1 : PassAgrees(dev, r)
              /\ ~stop => a = Height /\ ~LastPass /\ PassAgrees(dev, a)
              /\ PassEnds(dev, a, stop)

\* A later pass fails: the rows of those before it stay.
JumpPassFails ==
    /\ Passing /\ Height > 1 /\ jump.off > 0
    /\ mapped' = UnmapAbove(seq.len)
    /\ \E dev \in {device, Spoiled(device)} : device' = OnPages(dev, mapped')
    /\ mirror' = OnPages(mirror, mapped')
    /\ jump' = [jump EXCEPT !.stop = TRUE]
    /\ UNCHANGED <<seq, chunk, hand>>

\* The first pass fails, or a host allocation anywhere in the call: the entry is restored,
\* in the mirror.  The device's rows behind it are as the passes left them: nobody's.
JumpAborts ==
    /\ jump # NoJump
    /\ seq' = jump.entry.seq /\ mapped' = jump.entry.mapped
    /\ device' = OnPages(Below(device, jump.entry.seq.len), mapped')
    /\ mirror' = OnPages(jump.mirror, mapped')
    /\ jump' = NoJump
    /\ UNCHANGED <<chunk, hand>>

\* The draft's last row left alone goes as a prompt chunk of one row does, which starts
\* by setting the layer to 0.
JumpLastRow ==
    /\ Passing /\ Height = 1
    /\ PassEnds(Computed(device, Pass, Unrefused(Pass), NumLayers), 1, TRUE)

JumpLastRowFails(n) ==
    /\ Passing /\ Height = 1
    /\ seq' = [seq EXCEPT !.layer = n, !.res = Junk]
    /\ mapped' = UnmapAbove(seq.len)
    /\ device' = OnPages(Spoiled(device), mapped')
    /\ mirror' = OnPages(mirror, mapped')
    /\ jump' = [jump EXCEPT !.stop = TRUE]
    /\ UNCHANGED <<chunk, hand>>

\* At least one row was kept: the handle is told ready on the last of them.
JumpReturn ==
    /\ jump # NoJump /\ jump.stop
    /\ seq' = [seq EXCEPT !.ready = TRUE]
    /\ hand' = NoToken /\ jump' = NoJump
    /\ UNCHANGED <<mirror, device, mapped, chunk>>

-----------------------------------------------------------------------------
Chunks == UNION {[1 .. n -> Tokens] : n \in 1 .. MaxRows}
Drafts == UNION {[1 .. n -> Tokens] : n \in 1 .. MaxDraft}

Next ==
    \/ \E kind \in {"prompt", "exact"}, ts \in Chunks : EmbedRows(kind, ts)
    \/ \E n \in 1 .. NumLayers : Slice(n)
    \/ SliceFails
    \/ CloseAgain
    \/ Abandon
    \/ Reset
    \/ Decode
    \/ \E n \in 0 .. Top : DecodeFails(n)
    \/ DecodeReady
    \/ FinishToken
    \/ \E draft \in Drafts : JumpForward(draft)
    \/ JumpPass
    \/ JumpPassFails
    \/ JumpAborts
    \/ JumpLastRow
    \/ \E n \in 0 .. Top : JumpLastRowFails(n)
    \/ JumpReturn

Spec == Init /\ [][Next]_vars

-----------------------------------------------------------------------------
(* Properties. *)

\* Every row of the text, at every layer, is the row of that text, on the device as in
\* the host's mirror: what is saved is what attention reads, through slices, rollbacks,
\* partial commits, failed passes and pages given back and mapped again.
RowsAgree ==
    \A x \in Rows : x[1] < seq.len =>
        /\ device[x] = SubSeq(device[<<seq.len - 1, Top>>], 1, x[1] + 1)
        /\ mirror[x] = device[x]

\* Between calls the table covers the text, and nothing beyond the row after it: a chunk
\* or a jump gives back what its dropped rows had mapped.
PagesFit ==
    Idle => Cover(seq.len) <= mapped /\ mapped <= Cover(seq.len + 1)

\* A draft that keeps some of its rows leaves the device, above them, as the draft found
\* it (but for a refused row's own footprint), as the plain loop would.
DraftRowsRestored ==
    [][/\ chunk # NoChunk /\ chunk' = NoChunk /\ chunk.kind = "exact" /\ ~Single(chunk)
       /\ seq'.len > seq.len
       => \A x \in Rows :
             x[1] > seq'.len \/ (x[1] = seq'.len /\ seq'.res # Junk)
             => device'[x] = OnPages(chunk.was, mapped')[x]]_vars

\* Outside a call's chunk and jump the handle is what it is; inside, what it was.
AtRest == IF jump # NoJump THEN jump.entry.seq ELSE IF chunk # NoChunk THEN chunk.entry.seq ELSE seq

Plain == INSTANCE GpuOneRow WITH
    Most <- Max2(MaxRows, MaxDraft + 1),
    seq <- [text |-> IF AtRest.len = 0 THEN <<>> ELSE device[<<AtRest.len - 1, Top>>],
            walk |-> AtRest.walk, hand |-> hand, held |-> AtRest.layer = NumLayers]

\* Chunks and jumps cannot be seen: whatever the slices, refusals, failures, rollbacks
\* and abandons, text, walk, the token in hand and the row held are those of a loop that
\* reads and finishes one row at a time.
OneRowAtATime == Plain!Spec

\* A jump that returns rests at full depth on the last row it kept, as the header says.
JumpRestsAtDepth ==
    [][jump # NoJump /\ jump' = NoJump /\ seq'.ready => seq'.layer = NumLayers]_vars
=============================================================================
