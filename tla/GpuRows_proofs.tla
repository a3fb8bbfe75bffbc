--------------------------- MODULE GpuRows_proofs ---------------------------
(***************************************************************************)
(* Proofs about the chunks, slices and jumps of a pooled GPU sequence, for *)
(* any vocabulary, schema, preference, layers, limit, page size and number *)
(* of rows: device and mirror hold one text, a draft's rows are put back,  *)
(* the pages are the text's, and chunks and jumps implement the loop that  *)
(* reads one row at a time.                                                *)
(***************************************************************************)
EXTENDS GpuRows, Functions, WellFoundedInduction, TLAPS

-----------------------------------------------------------------------------
(* Page counts. *)

LEMMA Sizes ==
    /\ PageRows \in Nat /\ PageRows > 0
    /\ Limit \in Nat /\ Limit > 0
    /\ NumLayers \in Nat /\ NumLayers > 0
    /\ MaxRows \in Nat /\ MaxRows > 1
    /\ MaxDraft \in Nat
BY SizesAssumption

LEMMA NoMorePages ==
    ASSUME NEW p \in Int, NEW q \in Int, p * PageRows < q * PageRows + PageRows
    PROVE  p <= q
<1>1. ASSUME p >= q + 1 PROVE FALSE
  <2>1. PICK d \in Nat : p = q + 1 + d
    <3>1. p - q - 1 \in Nat /\ p = q + 1 + (p - q - 1)
      BY <1>1
    <3> QED BY <3>1
  <2>2. p * PageRows = q * PageRows + PageRows + d * PageRows
    BY Sizes, <2>1
  <2>3. d * PageRows >= 0
    BY Sizes
  <2> QED BY Sizes, <2>2, <2>3
<1> QED BY <1>1

LEMMA CoverIs ==
    ASSUME NEW n \in Nat
    PROVE  /\ Cover(n) \in Nat
           /\ n <= Cover(n) * PageRows
           /\ Cover(n) * PageRows < n + PageRows
<1>1. n + PageRows - 1 \in Nat
  BY Sizes
<1>2. \A a \in Nat : /\ a \div PageRows \in Nat
                     /\ (a \div PageRows) * PageRows <= a
                     /\ a < (a \div PageRows) * PageRows + PageRows
  BY Sizes
<1> QED BY <1>1, <1>2, Sizes DEF Cover

LEMMA MoreCover ==
    ASSUME NEW m \in Nat, NEW n \in Nat, m <= n
    PROVE  Cover(m) <= Cover(n)
<1>1. Cover(m) * PageRows < Cover(n) * PageRows + PageRows
  BY CoverIs, Sizes
<1>2. Cover(m) \in Int /\ Cover(n) \in Int
  BY CoverIs
<1> QED BY <1>1, <1>2, NoMorePages

\* So many pages have so many rows at least.
LEMMA Covered ==
    ASSUME NEW n \in Nat, NEW pages \in Nat, Cover(n) <= pages
    PROVE  n <= pages * PageRows
<1>1. PICK d \in Nat : pages = Cover(n) + d
  <2>1. pages - Cover(n) \in Nat /\ pages = Cover(n) + (pages - Cover(n))
    BY CoverIs
  <2> QED BY <2>1
<1>2. pages * PageRows = Cover(n) * PageRows + d * PageRows
  BY <1>1, CoverIs, Sizes
<1>3. d * PageRows \in Nat /\ Cover(n) * PageRows \in Nat
  BY CoverIs, Sizes
<1> QED BY <1>2, <1>3, CoverIs

-----------------------------------------------------------------------------
(* Lists, and the most of some numbers. *)

LEMMA MostOf ==
    ASSUME NEW N \in Nat, NEW S, S \subseteq 0 .. N, S # {}
    PROVE  \E n \in S : \A m \in S : m <= n
<1> DEFINE T == {N - m : m \in S}
<1>1. T \subseteq Nat /\ T # {}
  <2>1. \A m \in S : N - m \in Nat
    OBVIOUS
  <2>2. PICK m \in S : TRUE
    OBVIOUS
  <2>3. N - m \in T
    OBVIOUS
  <2> QED BY <2>1, <2>3
<1> DEFINE R == OpToRel(<, Nat)
<1>2. IsWellFoundedOn(R, Nat) /\ \A x, y \in Nat : y < x => <<y, x>> \in R
  BY NatLessThanWellFounded DEF OpToRel
<1> HIDE DEF T, R
<1>3. PICK x \in T : \A y \in T : ~(y < x)
  <2>1. PICK x \in T : \A y \in T : ~(<<y, x>> \in R)
    BY <1>1, <1>2, WFMin
  <2> QED BY <1>1, <1>2, <2>1
<1> USE DEF T
<1>4. PICK n \in S : x = N - n
  OBVIOUS
<1> SUFFICES ASSUME NEW m \in S PROVE m <= n
  OBVIOUS
<1>5. N - m \in T
  OBVIOUS
<1> HIDE DEF T
<1>6. ~(N - m < N - n)
  BY <1>3, <1>4, <1>5
<1>7. m \in Nat /\ n \in Nat
  OBVIOUS
<1> QED BY <1>6, <1>7

\* A sequence, of whatever tokens.
Listed(ts) == ts \in Seq(Range(ts))

LEMMA ListedIs ==
    ASSUME NEW S, NEW ts \in Seq(S)
    PROVE  Listed(ts) /\ Len(ts) \in Nat
BY DEF Listed, Range

LEMMA Empty == Listed(<<>>) /\ Len(<<>>) = 0
BY DEF Listed, Range

LEMMA Lengths ==
    ASSUME NEW ts, Listed(ts)
    PROVE  Len(ts) \in Nat /\ (ts # <<>> <=> Len(ts) >= 1)
BY DEF Listed

LEMMA Headed ==
    ASSUME NEW ts, Listed(ts), NEW n \in Nat, n <= Len(ts)
    PROVE  /\ Listed(SubSeq(ts, 1, n)) /\ Len(SubSeq(ts, 1, n)) = n
           /\ \A i \in 1 .. n : SubSeq(ts, 1, n)[i] = ts[i]
<1>1. ts \in Seq(Range(ts))
  BY DEF Listed
<1>2. /\ SubSeq(ts, 1, n) \in Seq(Range(ts)) /\ Len(SubSeq(ts, 1, n)) = n
      /\ \A i \in 1 .. n : SubSeq(ts, 1, n)[i] = ts[i]
  BY <1>1
<1> QED BY <1>2, ListedIs

LEMMA Between ==
    ASSUME NEW ts, Listed(ts), NEW m \in Nat, NEW n \in Nat, m >= 1, n <= Len(ts), m <= n + 1
    PROVE  Listed(SubSeq(ts, m, n)) /\ Len(SubSeq(ts, m, n)) = n - m + 1
<1>1. ts \in Seq(Range(ts))
  BY DEF Listed
<1>2. SubSeq(ts, m, n) \in Seq(Range(ts)) /\ Len(SubSeq(ts, m, n)) = n - m + 1
  BY <1>1
<1> QED BY <1>2, ListedIs

LEMMA Joined ==
    ASSUME NEW ss, NEW ts, Listed(ss), Listed(ts)
    PROVE  /\ Listed(ss \o ts) /\ Len(ss \o ts) = Len(ss) + Len(ts)
           /\ \A i \in 1 .. Len(ss) : (ss \o ts)[i] = ss[i]
           /\ \A i \in 1 .. Len(ts) : (ss \o ts)[Len(ss) + i] = ts[i]
<1>1. ss \in Seq(Range(ss) \cup Range(ts)) /\ ts \in Seq(Range(ss) \cup Range(ts))
  BY DEF Listed
<1>2. /\ ss \o ts \in Seq(Range(ss) \cup Range(ts)) /\ Len(ss \o ts) = Len(ss) + Len(ts)
      /\ \A i \in 1 .. Len(ss) : (ss \o ts)[i] = ss[i]
      /\ \A i \in 1 .. Len(ts) : (ss \o ts)[Len(ss) + i] = ts[i]
  BY <1>1
<1> QED BY <1>2, ListedIs

LEMMA SameList ==
    ASSUME NEW ss, NEW ts, Listed(ss), Listed(ts), Len(ss) = Len(ts),
           \A i \in 1 .. Len(ss) : ss[i] = ts[i]
    PROVE  ss = ts
<1>1. ss = [i \in 1 .. Len(ss) |-> ss[i]] /\ ts = [i \in 1 .. Len(ts) |-> ts[i]]
  BY DEF Listed
<1> QED BY <1>1

\* A head of a head, and a head of a text grown by another's head.
LEMMA HeadOfHead ==
    ASSUME NEW ts, Listed(ts), NEW m \in Nat, NEW n \in Nat, m <= n, n <= Len(ts)
    PROVE  SubSeq(SubSeq(ts, 1, n), 1, m) = SubSeq(ts, 1, m)
<1>1. Len(ts) \in Nat
  BY Lengths
<1>2. /\ Listed(SubSeq(ts, 1, n)) /\ Len(SubSeq(ts, 1, n)) = n
      /\ \A i \in 1 .. n : SubSeq(ts, 1, n)[i] = ts[i]
  BY Headed
<1>3. /\ Listed(SubSeq(ts, 1, m)) /\ Len(SubSeq(ts, 1, m)) = m
      /\ \A i \in 1 .. m : SubSeq(ts, 1, m)[i] = ts[i]
  BY <1>1, Headed
<1> DEFINE h == SubSeq(ts, 1, n)
<1> HIDE DEF h
<1>4. /\ Listed(SubSeq(h, 1, m)) /\ Len(SubSeq(h, 1, m)) = m
      /\ \A i \in 1 .. m : SubSeq(h, 1, m)[i] = h[i]
  BY <1>2, Headed DEF h
<1>5. \A i \in 1 .. m : SubSeq(h, 1, m)[i] = SubSeq(ts, 1, m)[i]
  BY <1>2, <1>3, <1>4 DEF h
<1>6. SubSeq(h, 1, m) = SubSeq(ts, 1, m)
  BY <1>3, <1>4, <1>5, SameList
<1> QED BY <1>6 DEF h

LEMMA HeadOfGrown ==
    ASSUME NEW text, Listed(text), NEW ts, Listed(ts), NEW k \in Nat, k <= Len(ts),
           NEW r \in Nat, r <= k
    PROVE  SubSeq(text \o SubSeq(ts, 1, k), 1, Len(text) + r) = text \o SubSeq(ts, 1, r)
<1> DEFINE a == SubSeq(ts, 1, k)
           b == SubSeq(ts, 1, r)
<1>0. Len(text) \in Nat /\ Len(ts) \in Nat
  BY Lengths
<1>1. Listed(a) /\ Len(a) = k /\ \A i \in 1 .. k : a[i] = ts[i]
  BY Headed
<1>2. Listed(b) /\ Len(b) = r /\ \A i \in 1 .. r : b[i] = ts[i]
  BY <1>0, Headed
<1> HIDE DEF a, b
<1> DEFINE g == text \o a
           w == text \o b
<1>3. /\ Listed(g) /\ Len(g) = Len(text) + k
      /\ \A i \in 1 .. Len(text) : g[i] = text[i]
      /\ \A i \in 1 .. k : g[Len(text) + i] = a[i]
  BY <1>1, Joined
<1>4. /\ Listed(w) /\ Len(w) = Len(text) + r
      /\ \A i \in 1 .. Len(text) : w[i] = text[i]
      /\ \A i \in 1 .. r : w[Len(text) + i] = b[i]
  BY <1>2, Joined
<1> HIDE DEF g, w
<1> DEFINE n == Len(text) + r
<1>5. n \in Nat /\ n <= Len(g)
  BY <1>0, <1>3
<1>6. /\ Listed(SubSeq(g, 1, n)) /\ Len(SubSeq(g, 1, n)) = n
      /\ \A i \in 1 .. n : SubSeq(g, 1, n)[i] = g[i]
  <2> HIDE DEF n
  <2> QED BY <1>3, <1>5, Headed
<1>7. \A i \in 1 .. n : g[i] = w[i]
  <2> SUFFICES ASSUME NEW i \in 1 .. n PROVE g[i] = w[i]
    OBVIOUS
  <2>1. CASE i <= Len(text)
    BY <1>0, <1>3, <1>4, <2>1
  <2>2. CASE i > Len(text)
    <3>1. PICK j \in 1 .. r : i = Len(text) + j
      <4>1. i - Len(text) \in 1 .. r /\ i = Len(text) + (i - Len(text))
        BY <1>0, <2>2
      <4> QED BY <4>1
    <3>2. j \in 1 .. k
      BY <3>1
    <3>3. g[i] = a[j] /\ w[i] = b[j]
      BY <1>3, <1>4, <3>1, <3>2
    <3> QED BY <1>1, <1>2, <3>1, <3>2, <3>3
  <2> QED BY <1>0, <2>1, <2>2
<1>8. SubSeq(g, 1, n) = w
  <2> HIDE DEF n
  <2>1. Len(w) = n
    BY <1>4 DEF n
  <2> QED BY <1>4, <1>6, <1>7, <2>1, SameList
<1> QED BY <1>8 DEF g, w, a, b

\* Of a text grown, the head is the text.
LEMMA TextOfGrown ==
    ASSUME NEW text, Listed(text), NEW ts, Listed(ts), NEW r \in Nat, r <= Len(text)
    PROVE  SubSeq(text \o ts, 1, r) = SubSeq(text, 1, r)
<1>0. Len(text) \in Nat /\ Len(ts) \in Nat
  BY Lengths
<1> DEFINE g == text \o ts
<1>1. Listed(g) /\ Len(g) = Len(text) + Len(ts) /\ \A i \in 1 .. Len(text) : g[i] = text[i]
  BY Joined
<1> HIDE DEF g
<1>2. r <= Len(g)
  BY <1>0, <1>1
<1>3. /\ Listed(SubSeq(g, 1, r)) /\ Len(SubSeq(g, 1, r)) = r
      /\ \A i \in 1 .. r : SubSeq(g, 1, r)[i] = g[i]
  BY <1>1, <1>2, Headed
<1>4. /\ Listed(SubSeq(text, 1, r)) /\ Len(SubSeq(text, 1, r)) = r
      /\ \A i \in 1 .. r : SubSeq(text, 1, r)[i] = text[i]
  BY Headed
<1>5. \A i \in 1 .. r : SubSeq(g, 1, r)[i] = SubSeq(text, 1, r)[i]
  BY <1>0, <1>1, <1>3, <1>4
<1>6. SubSeq(g, 1, r) = SubSeq(text, 1, r)
  BY <1>3, <1>4, <1>5, SameList
<1> QED BY <1>6 DEF g

LEMMA WholeHead ==
    ASSUME NEW ts, Listed(ts)
    PROVE  SubSeq(ts, 1, Len(ts)) = ts
<1>0. Len(ts) \in Nat
  BY Lengths
<1>1. /\ Listed(SubSeq(ts, 1, Len(ts))) /\ Len(SubSeq(ts, 1, Len(ts))) = Len(ts)
      /\ \A i \in 1 .. Len(ts) : SubSeq(ts, 1, Len(ts))[i] = ts[i]
  BY <1>0, Headed
<1> QED BY <1>1, SameList

-----------------------------------------------------------------------------
(* The inductive invariant. *)

\* K/V rows that hold a text, through every layer.
Holds(kv, text) == \A x \in Rows : x[1] < Len(text) => kv[x] = SubSeq(text, 1, x[1] + 1)

\* No text begins with no token: its rows are not junk.
Proper(text) == Listed(text) /\ (text # <<>> => text[1] # NoToken)

\* The pages of a text of n rows: all of its rows', and no more than the next one's.
Fit(n, pages) == Cover(n) <= pages /\ pages <= Cover(n + 1)

SeqFields   == {"len", "layer", "ready", "res", "walk"}
ChunkFields == {"kind", "toks", "done", "at", "snap", "mrow", "entry", "was"}
JumpFields  == {"toks", "off", "kept", "stop", "walk", "entry", "mirror"}

\* What a chunk or a jump found, and goes back to.
Found(e) == DOMAIN e.seq = SeqFields /\ e.seq.len \in Nat /\ e.mapped \in Nat /\ Fit(e.seq.len, e.mapped)

Shapes ==
    /\ DOMAIN seq = SeqFields /\ seq.len \in 0 .. Limit
    /\ DOMAIN device = Rows /\ DOMAIN mirror = Rows
    /\ mapped \in Nat

\* The rows below the length are those of one text, in mirror and device; a jump has those
\* it began with in its copy of the mirror.
Texts ==
    \E text :
        /\ Proper(text) /\ Len(text) = seq.len
        /\ Holds(device, text) /\ Holds(mirror, text)
        /\ jump # NoJump => Holds(jump.mirror, SubSeq(text, 1, jump.entry.seq.len))

\* An open chunk: behind the text it found, within the limit, with the device's rows as
\* its last slice computed them and, for a draft, as it found them in its snapshot.
Chunked ==
    chunk # NoChunk =>
        /\ jump = NoJump
        /\ DOMAIN chunk = ChunkFields
        /\ Proper(chunk.toks) /\ chunk.toks # <<>> /\ seq.len + Len(chunk.toks) <= Limit
        /\ chunk.done \in 0 .. NumLayers
        /\ chunk.at \in [1 .. Len(chunk.toks) -> 0 .. NumLayers]
        /\ Found(chunk.entry) /\ chunk.entry.seq.len = seq.len
        /\ DOMAIN chunk.was = Rows
        /\ chunk.done = 0 => device = chunk.was
        /\ chunk.done > 0 /\ chunk.kind = "exact" /\ ~Single(chunk) => chunk.snap = chunk.was
        /\ chunk.done = NumLayers => device = Written(chunk)

\* A jump under way: so many rows behind what it found, on no more than their pages.
Jumping ==
    jump # NoJump =>
        /\ chunk = NoChunk
        /\ DOMAIN jump = JumpFields
        /\ Listed(jump.toks) /\ Len(jump.toks) > 1
        /\ Found(jump.entry) /\ jump.entry.seq.len >= 1
        /\ jump.entry.seq.len + Len(jump.toks) <= Limit
        /\ DOMAIN jump.mirror = Rows
        /\ jump.off \in 0 .. Len(jump.toks) /\ jump.kept \in Nat /\ jump.stop \in BOOLEAN
        /\ seq.len = jump.entry.seq.len + jump.kept
        /\ ~jump.stop => jump.kept = jump.off /\ jump.off < Len(jump.toks)
        /\ jump.stop => jump.kept >= 1
        /\ jump.kept >= 1 => mapped = Cover(seq.len)

IInv == Shapes /\ Texts /\ Chunked /\ Jumping /\ PagesFit

-----------------------------------------------------------------------------
(* Rows that hold a text. *)

LEMMA RowIs ==
    ASSUME NEW x \in Rows
    PROVE  /\ x = <<x[1], x[2]>> /\ x[1] \in Nat /\ x[1] < Limit
           /\ x[2] \in Nat /\ x[2] < NumLayers
BY Sizes DEF Rows

LEMMA IsRow ==
    ASSUME NEW p \in Nat, p < Limit, NEW l \in Nat, l < NumLayers
    PROVE  <<p, l>> \in Rows /\ <<p, l>>[1] = p /\ <<p, l>>[2] = l
BY Sizes DEF Rows

LEMMA OnPagesHolds ==
    ASSUME NEW kv, NEW text, Listed(text), Holds(kv, text), NEW pages \in Nat, Cover(Len(text)) <= pages
    PROVE  Holds(OnPages(kv, pages), text)
<1>1. Len(text) \in Nat /\ Len(text) <= pages * PageRows /\ pages * PageRows \in Nat
  BY Lengths, Covered, Sizes
<1> SUFFICES ASSUME NEW x \in Rows, x[1] < Len(text)
             PROVE  OnPages(kv, pages)[x] = SubSeq(text, 1, x[1] + 1)
  BY DEF Holds
<1>2. x[1] < pages * PageRows
  BY <1>1, RowIs
<1>3. OnPages(kv, pages)[x] = kv[x]
  BY <1>2 DEF OnPages
<1> QED BY <1>3 DEF Holds

LEMMA BelowHolds ==
    ASSUME NEW kv, NEW text, Listed(text), Holds(kv, text), NEW n \in Nat, Len(text) <= n
    PROVE  Holds(Below(kv, n), text)
<1> SUFFICES ASSUME NEW x \in Rows, x[1] < Len(text)
             PROVE  Below(kv, n)[x] = SubSeq(text, 1, x[1] + 1)
  BY DEF Holds
<1>1. x[1] < n
  BY RowIs, Lengths
<1>2. Below(kv, n)[x] = kv[x]
  BY <1>1 DEF Below
<1> QED BY <1>2 DEF Holds

\* Rows spliced in at or behind the end of a text.
LEMMA SpliceBehind ==
    ASSUME NEW new, NEW old, NEW text, Listed(text), Holds(old, text),
           NEW lo \in Nat, NEW hi, Len(text) <= lo
    PROVE  Holds(Splice(lo, hi, new, old), text)
<1> SUFFICES ASSUME NEW x \in Rows, x[1] < Len(text)
             PROVE  Splice(lo, hi, new, old)[x] = SubSeq(text, 1, x[1] + 1)
  BY DEF Holds
<1>1. ~(lo <= x[1])
  BY RowIs, Lengths
<1>2. Splice(lo, hi, new, old)[x] = old[x]
  BY <1>1 DEF Splice
<1> QED BY <1>2 DEF Holds

\* The rest of a text spliced behind its head.
LEMMA SpliceHolds ==
    ASSUME NEW new, NEW old, NEW text, Listed(text), Holds(new, text),
           NEW lo \in Nat, lo <= Len(text), Holds(old, SubSeq(text, 1, lo)),
           NEW hi \in Nat, Len(text) <= hi
    PROVE  Holds(Splice(lo, hi, new, old), text)
<1> SUFFICES ASSUME NEW x \in Rows, x[1] < Len(text)
             PROVE  Splice(lo, hi, new, old)[x] = SubSeq(text, 1, x[1] + 1)
  BY DEF Holds
<1>0. Len(text) \in Nat /\ x[1] \in Nat
  BY RowIs, Lengths
<1>1. CASE lo <= x[1]
  <2>1. Splice(lo, hi, new, old)[x] = new[x]
    BY <1>0, <1>1 DEF Splice
  <2> QED BY <2>1 DEF Holds
<1>2. CASE ~(lo <= x[1])
  <2>1. Splice(lo, hi, new, old)[x] = old[x]
    BY <1>2 DEF Splice
  <2>2. Len(SubSeq(text, 1, lo)) = lo
    BY Headed
  <2>3. old[x] = SubSeq(SubSeq(text, 1, lo), 1, x[1] + 1)
    BY <1>0, <1>2, <2>2 DEF Holds
  <2>4. SubSeq(SubSeq(text, 1, lo), 1, x[1] + 1) = SubSeq(text, 1, x[1] + 1)
    <3>1. x[1] + 1 \in Nat /\ x[1] + 1 <= lo
      BY <1>0, <1>2
    <3> QED BY <3>1, HeadOfHead
  <2> QED BY <2>1, <2>3, <2>4
<1> QED BY <1>1, <1>2

\* What holds a text holds its heads.
LEMMA HeadHolds ==
    ASSUME NEW kv, NEW text, Listed(text), Holds(kv, text), NEW n \in Nat, n <= Len(text)
    PROVE  Holds(kv, SubSeq(text, 1, n))
<1> SUFFICES ASSUME NEW x \in Rows, x[1] < Len(SubSeq(text, 1, n))
             PROVE  kv[x] = SubSeq(SubSeq(text, 1, n), 1, x[1] + 1)
  BY DEF Holds
<1>0. Len(text) \in Nat /\ x[1] \in Nat /\ Len(SubSeq(text, 1, n)) = n
  BY RowIs, Lengths, Headed
<1>1. x[1] + 1 \in Nat /\ x[1] + 1 <= n /\ x[1] < Len(text)
  BY <1>0
<1>2. SubSeq(SubSeq(text, 1, n), 1, x[1] + 1) = SubSeq(text, 1, x[1] + 1)
  BY <1>1, HeadOfHead
<1> QED BY <1>1, <1>2 DEF Holds

\* Rows computed behind a text leave it, and grow it by the first of them that no layer
\* refuses.
LEMMA ComputedBehind ==
    ASSUME NEW kv, NEW text, Listed(text), Holds(kv, text), seq.len \in Nat, Len(text) <= seq.len,
           NEW ts, NEW at, NEW n
    PROVE  Holds(Computed(kv, ts, at, n), text)
<1> SUFFICES ASSUME NEW x \in Rows, x[1] < Len(text)
             PROVE  Computed(kv, ts, at, n)[x] = SubSeq(text, 1, x[1] + 1)
  BY DEF Holds
<1>1. x[1] - seq.len + 1 \notin 1 .. Len(ts)
  BY RowIs, Lengths
<1>2. Computed(kv, ts, at, n)[x] = kv[x]
  BY <1>1 DEF Computed
<1> QED BY <1>2 DEF Holds

LEMMA ProperGrown ==
    ASSUME NEW text, Proper(text), NEW ts, Listed(ts), text # <<>> \/ Proper(ts),
           NEW k \in Nat, k <= Len(ts)
    PROVE  /\ Proper(text \o SubSeq(ts, 1, k)) /\ Len(text \o SubSeq(ts, 1, k)) = Len(text) + k
           /\ SubSeq(text \o SubSeq(ts, 1, k), 1, Len(text)) = text
<1> DEFINE a == SubSeq(ts, 1, k)
           g == text \o a
<1>0. Listed(text) /\ Listed(ts) /\ Len(text) \in Nat /\ Len(ts) \in Nat
  BY Lengths DEF Proper
<1>1. Listed(a) /\ Len(a) = k /\ \A i \in 1 .. k : a[i] = ts[i]
  BY <1>0, Headed
<1> HIDE DEF a
<1>2. /\ Listed(g) /\ Len(g) = Len(text) + k
      /\ \A i \in 1 .. Len(text) : g[i] = text[i]
      /\ \A i \in 1 .. k : g[Len(text) + i] = a[i]
  BY <1>0, <1>1, Joined
<1>3. SubSeq(g, 1, Len(text)) = text
  <2>1. SubSeq(g, 1, Len(text)) = SubSeq(text, 1, Len(text))
    BY <1>0, <1>1, TextOfGrown
  <2> QED BY <1>0, <2>1, WholeHead
<1> HIDE DEF g
<1>4. ASSUME g # <<>> PROVE g[1] # NoToken
  <2>1. CASE Len(text) >= 1
    <3>1. g[1] = text[1] /\ text # <<>>
      BY <1>0, <1>2, <2>1, Lengths
    <3> QED BY <3>1 DEF Proper
  <2>2. CASE Len(text) = 0
    <3>1. k >= 1
      BY <1>2, <1>4, <2>2, Lengths
    <3>2. g[0 + 1] = a[1]
      BY <1>2, <2>2, <3>1
    <3>3. g[1] = ts[1] /\ ts # <<>> /\ text = <<>>
      BY <1>0, <1>1, <2>2, <3>1, <3>2, Lengths
    <3> QED BY <3>3 DEF Proper
  <2> QED BY <1>0, <2>1, <2>2
<1> QED BY <1>2, <1>3, <1>4 DEF Proper, g, a

LEMMA ComputedHolds ==
    ASSUME Shapes, NEW kv, NEW text, Proper(text), Holds(kv, text), Len(text) = seq.len,
           NEW ts, Listed(ts), text # <<>> \/ Proper(ts), NEW k \in Nat, k <= Len(ts), seq.len + k <= Limit,
           NEW at, \A r \in 1 .. k : at[r] = NumLayers
    PROVE  Holds(Computed(kv, ts, at, NumLayers), text \o SubSeq(ts, 1, k))
<1> DEFINE g == text \o SubSeq(ts, 1, k)
           n == seq.len
<1>0. /\ Listed(text) /\ Listed(ts) /\ Len(text) \in Nat /\ Len(ts) \in Nat
      /\ n \in Nat /\ n <= Limit
  BY Lengths, Sizes DEF Proper, Shapes
<1>1. Proper(g) /\ Len(g) = n + k /\ SubSeq(g, 1, Len(text)) = text
  BY ProperGrown
<1> SUFFICES ASSUME NEW x \in Rows, x[1] < Len(g)
             PROVE  Computed(kv, ts, at, NumLayers)[x] = SubSeq(g, 1, x[1] + 1)
  BY DEF Holds
<1>2. /\ x = <<x[1], x[2]>> /\ x[1] \in Nat /\ x[2] \in Nat /\ x[2] < NumLayers /\ x[1] < n + k
  BY <1>1, RowIs
<1>3. CASE x[1] < n
  <2>1. x[1] - n + 1 \notin 1 .. Len(ts)
    BY <1>0, <1>2, <1>3
  <2>2. Computed(kv, ts, at, NumLayers)[x] = kv[x]
    BY <2>1 DEF Computed
  <2>3. kv[x] = SubSeq(text, 1, x[1] + 1)
    BY <1>3 DEF Holds
  <2>4. SubSeq(SubSeq(g, 1, Len(text)), 1, x[1] + 1) = SubSeq(g, 1, x[1] + 1)
    <3>1. Listed(g)
      BY <1>1 DEF Proper
    <3> HIDE DEF g, n
    <3>2. x[1] + 1 \in Nat /\ x[1] + 1 <= Len(text) /\ Len(text) <= Len(g)
      <4>1. Len(text) = n
        BY DEF n
      <4> QED BY <1>0, <1>1, <1>2, <1>3, <4>1
    <3> DEFINE i == x[1] + 1
               m == Len(text)
    <3>3. i \in Nat /\ m \in Nat /\ i <= m /\ m <= Len(g)
      BY <1>0, <3>2
    <3> HIDE DEF i, m
    <3>4. SubSeq(SubSeq(g, 1, m), 1, i) = SubSeq(g, 1, i)
      BY <3>1, <3>3, HeadOfHead
    <3> QED BY <3>4 DEF i, m
  <2> QED BY <1>1, <2>2, <2>3, <2>4
<1>4. CASE ~(x[1] < n)
  <2> DEFINE r == x[1] - n + 1
             before == Behind(kv, x[2])
  <2>1. r \in 1 .. k /\ r \in Nat /\ r \in 1 .. Len(ts) /\ x[1] + 1 = n + r
    BY <1>0, <1>2, <1>4
  <2>2. before = text
    <3>1. CASE n = 0
      <4>1. text = <<>>
        BY <1>0, <3>1, Lengths
      <4> QED BY <3>1, <4>1 DEF Behind
    <3>2. CASE n # 0
      <4>1. n - 1 \in Nat /\ n - 1 < Limit
        <5> HIDE DEF n
        <5> QED BY <1>0, <3>2, Sizes
      <4>2. <<n - 1, x[2]>> \in Rows /\ <<n - 1, x[2]>>[1] = n - 1
        BY <1>2, <4>1, IsRow
      <4>3. kv[<<n - 1, x[2]>>] = SubSeq(text, 1, (n - 1) + 1)
        <5>1. n - 1 < Len(text)
          BY <1>0, <3>2
        <5>2. <<n - 1, x[2]>>[1] < Len(text)
          BY <4>2, <5>1
        <5>3. kv[<<n - 1, x[2]>>] = SubSeq(text, 1, <<n - 1, x[2]>>[1] + 1)
          BY <4>2, <5>2 DEF Holds
        <5> QED BY <4>2, <5>3
      <4>4. (n - 1) + 1 = Len(text)
        BY <1>0
      <4>5. SubSeq(text, 1, (n - 1) + 1) = text
        BY <1>0, <4>4, WholeHead
      <4> QED BY <3>2, <4>3, <4>5 DEF Behind
    <3> QED BY <3>1, <3>2
  <2>3. before # Junk
    <3>1. Junk # <<>> /\ Junk[1] = NoToken
      BY DEF Junk
    <3> QED BY <2>2, <3>1 DEF Proper
  <2>4. ~(\E q \in 1 .. r : at[q] <= x[2])
    <3> SUFFICES ASSUME NEW q \in 1 .. r PROVE ~(at[q] <= x[2])
      OBVIOUS
    <3>1. q \in 1 .. k
      BY <2>1
    <3> QED BY <1>2, <3>1, Sizes
  <2>5. Computed(kv, ts, at, NumLayers)[x] = before \o SubSeq(ts, 1, r)
    BY <1>2, <2>1, <2>3, <2>4 DEF Computed
  <2>6. SubSeq(g, 1, Len(text) + r) = text \o SubSeq(ts, 1, r)
    <3> HIDE DEF r, n
    <3>1. r \in Nat /\ r <= k
      BY <2>1
    <3>2. Listed(text) /\ Listed(ts) /\ k <= Len(ts)
      BY <1>0
    <3> QED BY <3>1, <3>2, HeadOfGrown
  <2>7. Len(text) + r = x[1] + 1
    <3> HIDE DEF r, n
    <3>1. Len(text) = n
      BY DEF n
    <3> QED BY <1>0, <2>1, <3>1
  <2> QED BY <2>2, <2>5, <2>6, <2>7
<1> QED BY <1>3, <1>4

-----------------------------------------------------------------------------
(* What the operations are built from. *)

LEMMA MoreOrLess ==
    ASSUME NEW a \in Nat, NEW b \in Nat
    PROVE  /\ Max2(a, b) \in Nat /\ Max2(a, b) >= a /\ Max2(a, b) >= b /\ Max2(a, b) \in {a, b}
           /\ Min2(a, b) \in Nat /\ Min2(a, b) <= a /\ Min2(a, b) <= b /\ Min2(a, b) \in {a, b}
BY DEF Max2, Min2

LEMMA CoverNone == Cover(0) = 0
<1>1. Cover(0) \in Nat /\ Cover(0) * PageRows < 0 + PageRows
  BY CoverIs
<1>2. Cover(0) * PageRows < 0 * PageRows + PageRows
  BY <1>1, Sizes
<1>3. Cover(0) <= 0
  BY <1>1, <1>2, NoMorePages
<1> QED BY <1>1, <1>3

\* A finish, told or failed, keeps the length and the residual.
LEMMA FinishedIs ==
    ASSUME NEW x, DOMAIN x = SeqFields, NEW o \in Finished(x)
    PROVE  DOMAIN o.seq = SeqFields /\ o.seq.len = x.len /\ o.seq.res = x.res
<1>1. CASE o = Answered(x)
  <2> DEFINE t == Finish(x.res, x.walk)
  <2> HIDE DEF t
  <2>1. CASE t = DeadEnd
    <3>1. o.seq = [x EXCEPT !.ready = TRUE]
      BY <1>1, <2>1 DEF Answered, t
    <3> QED BY <3>1 DEF SeqFields
  <2>2. CASE t # DeadEnd
    <3>1. o.seq = [x EXCEPT !.walk = Step(@, t), !.layer = 0]
      BY <1>1, <2>2 DEF Answered, t
    <3> QED BY <3>1 DEF SeqFields
  <2> QED BY <2>1, <2>2
<1>2. CASE o \in FinishFailed(x)
  <2>1. PICK rearm \in BOOLEAN : o = [seq |-> [x EXCEPT !.ready = @ \/ rearm], hand |-> NoToken]
    BY <1>2 DEF FinishFailed
  <2>2. o.seq = [x EXCEPT !.ready = @ \/ rearm]
    BY <2>1
  <2> QED BY <2>2 DEF SeqFields
<1> QED BY <1>1, <1>2 DEF Finished

LEMMA BeholdIs ==
    ASSUME NEW dev, NEW k, NEW w
    PROVE  /\ DOMAIN Behold(dev, k, w) = SeqFields
           /\ Behold(dev, k, w).len = seq.len + k
           /\ Behold(dev, k, w).res = Residual(dev, seq.len + k - 1, NumLayers)
BY DEF Behold, SeqFields

\* The walk admits the first row at least.
LEMMA LegalPrefixIs ==
    ASSUME NEW ts, Listed(ts), Len(ts) >= 1
    PROVE  LegalPrefix(ts) \in 1 .. Len(ts)
<1> DEFINE S == {m \in 1 .. Len(ts) : CanWalk(seq.walk, SubSeq(ts, 2, m))}
<1>0. Len(ts) \in Nat
  BY Lengths
<1>1. 1 \in S
  <2>1. Len(SubSeq(ts, 2, 1)) = 0
    <3>1. Len(SubSeq(ts, 2, 1)) = 1 - 2 + 1
      BY <1>0, Between
    <3> QED BY <3>1
  <2>2. CanWalk(seq.walk, SubSeq(ts, 2, 1))
    BY <2>1 DEF CanWalk
  <2> QED BY <1>0, <2>2
<1>2. S \subseteq 0 .. Len(ts) /\ S # {}
  BY <1>0, <1>1
<1>3. S \subseteq 1 .. Len(ts) /\ \A m \in 1 .. Len(ts) : CanWalk(seq.walk, SubSeq(ts, 2, m)) <=> m \in S
  OBVIOUS
<1> HIDE DEF S
<1>4. \E n \in S : \A m \in S : m <= n
  BY <1>0, <1>2, MostOf
<1>5. \E n \in 1 .. Len(ts) : /\ CanWalk(seq.walk, SubSeq(ts, 2, n))
                              /\ \A m \in 1 .. Len(ts) : CanWalk(seq.walk, SubSeq(ts, 2, m)) => m <= n
  <2>1. PICK n \in S : \A m \in S : m <= n
    BY <1>4
  <2> QED BY <1>3, <2>1
<1> QED BY <1>5 DEF LegalPrefix

LEMMA ComputedAgain ==
    ASSUME seq.len \in Nat, NEW kv, NEW ts, NEW at, NEW n
    PROVE  Computed(Computed(kv, ts, at, n), ts, at, n) = Computed(kv, ts, at, n)
<1> DEFINE once == Computed(kv, ts, at, n)
<1>1. \A l : seq.len # 0 /\ <<seq.len - 1, l>> \in Rows => once[<<seq.len - 1, l>>] = kv[<<seq.len - 1, l>>]
  <2> SUFFICES ASSUME NEW l, <<seq.len - 1, l>> \in Rows
               PROVE  once[<<seq.len - 1, l>>] = kv[<<seq.len - 1, l>>]
    OBVIOUS
  <2>1. (seq.len - 1) - seq.len + 1 \notin 1 .. Len(ts)
    OBVIOUS
  <2> QED BY <2>1 DEF Computed
<1>2. \A x \in Rows : Behind(once, x[2]) = Behind(kv, x[2]) \/ ~(x[1] - seq.len + 1 \in 1 .. Len(ts))
  <2> HIDE DEF once
  <2> SUFFICES ASSUME NEW x \in Rows, x[1] - seq.len + 1 \in 1 .. Len(ts)
               PROVE  Behind(once, x[2]) = Behind(kv, x[2])
    OBVIOUS
  <2>1. CASE seq.len = 0
    BY <2>1 DEF Behind
  <2>2. CASE seq.len # 0
    <3>1. x[1] \in Nat /\ x[1] < Limit /\ x[2] \in Nat /\ x[2] < NumLayers
      BY RowIs
    <3>2. x[1] - seq.len + 1 >= 1
      OBVIOUS
    <3>3. seq.len - 1 \in Nat /\ seq.len - 1 < Limit
      BY <2>2, <3>1, <3>2, Sizes
    <3>4. <<seq.len - 1, x[2]>> \in Rows
      BY <3>1, <3>3, IsRow
    <3> QED BY <1>1, <2>2, <3>4 DEF Behind
  <2> QED BY <2>1, <2>2
<1>3. Computed(once, ts, at, n) = [x \in Rows |-> once[x]]
  <2>1. \A x \in Rows : Computed(once, ts, at, n)[x] = once[x]
    <3> SUFFICES ASSUME NEW x \in Rows PROVE Computed(once, ts, at, n)[x] = once[x]
      OBVIOUS
    <3>1. CASE x[1] - seq.len + 1 \in 1 .. Len(ts) /\ x[2] < n
      <4>1. Behind(once, x[2]) = Behind(kv, x[2])
        BY <1>2, <3>1
      <4> QED BY <3>1, <4>1 DEF Computed
    <3>2. CASE ~(x[1] - seq.len + 1 \in 1 .. Len(ts) /\ x[2] < n)
      <4> HIDE DEF once
      <4> QED BY <3>2 DEF Computed
    <3> QED BY <3>1, <3>2
  <2> HIDE DEF once
  <2>2. DOMAIN Computed(once, ts, at, n) = Rows
    BY DEF Computed
  <2>3. Computed(once, ts, at, n) = [x \in Rows |-> Computed(once, ts, at, n)[x]]
    BY DEF Computed
  <2> QED BY <2>1, <2>3
<1>4. once = [x \in Rows |-> once[x]]
  BY DEF Computed
<1> QED BY <1>3, <1>4

-----------------------------------------------------------------------------
(* A chunk closes. *)

\* At rest: one text in mirror and device, on its pages.
LEMMA Lands ==
    ASSUME NEW text, Proper(text), chunk' = NoChunk, jump' = NoJump,
           DOMAIN seq' = SeqFields, seq'.len = Len(text), Len(text) <= Limit,
           DOMAIN device' = Rows, DOMAIN mirror' = Rows,
           mapped' \in Nat, Fit(Len(text), mapped'),
           Holds(device', text), Holds(mirror', text)
    PROVE  IInv'
<1>0. Len(text) \in Nat
  BY Lengths DEF Proper
<1>1. Shapes'
  BY <1>0, Sizes DEF Shapes
<1>2. Texts'
  BY DEF Texts
<1>3. Chunked' /\ Jumping'
  BY DEF Chunked, Jumping
<1>4. PagesFit'
  BY DEF PagesFit, Fit
<1> QED BY <1>1, <1>2, <1>3, <1>4 DEF IInv

LEMMA OnPagesRows ==
    ASSUME NEW kv, NEW n
    PROVE  DOMAIN OnPages(kv, n) = Rows
BY DEF OnPages

LEMMA SpliceRows ==
    ASSUME NEW lo, NEW hi, NEW new, NEW old
    PROVE  DOMAIN Splice(lo, hi, new, old) = Rows
BY DEF Splice

\* A chunk whose device rows are those of the text it found, and of its rows that no
\* layer refused.
Told(c, dev, text) ==
    /\ Proper(text) /\ Len(text) = seq.len
    /\ Listed(c.toks) /\ Proper(c.toks) /\ seq.len + Len(c.toks) <= Limit
    /\ Found(c.entry) /\ c.entry.seq.len = seq.len
    /\ Holds(mirror, text) /\ Holds(dev, text)
    /\ \A k \in 1 .. Len(c.toks) :
          (\A r \in 1 .. k : c.at[r] = NumLayers) => Holds(dev, text \o SubSeq(c.toks, 1, k))

LEMMA RolledBack ==
    ASSUME Shapes, jump = NoJump, NEW c, NEW dev, NEW text, Told(c, dev, text), Rollback(c, dev)
    PROVE  IInv' /\ Holds(device', text)
<1>0. /\ Listed(text) /\ Len(text) \in Nat /\ Len(text) <= Limit /\ seq.len = Len(text)
      /\ c.entry.mapped \in Nat /\ Fit(Len(text), c.entry.mapped) /\ Cover(Len(text)) <= c.entry.mapped
  BY Sizes DEF Told, Proper, Shapes, Found, Fit
<1>1. /\ chunk' = NoChunk /\ jump' = NoJump /\ mapped' = c.entry.mapped
      /\ DOMAIN seq' = SeqFields /\ seq'.len = Len(text)
  BY <1>0 DEF Rollback, Told, Found
<1>2. Holds(mirror', text) /\ DOMAIN mirror' = Rows
  <2> DEFINE m == IF c.mrow = NoRows THEN mirror ELSE Splice(seq.len, seq.len + 1, c.mrow, mirror)
  <2>1. Holds(m, text)
    <3>1. Holds(Splice(seq.len, seq.len + 1, c.mrow, mirror), text)
      BY <1>0, SpliceBehind DEF Told
    <3> QED BY <3>1 DEF Told
  <2>2. mirror' = OnPages(m, c.entry.mapped)
    BY <1>1 DEF Rollback
  <2> HIDE DEF m
  <2> QED BY <1>0, <2>1, <2>2, OnPagesHolds, OnPagesRows
<1>3. Holds(device', text) /\ DOMAIN device' = Rows
  <2>1. PICK d \in {Restored(c, dev, 0), Spoiled(dev)} : device' = OnPages(d, c.entry.mapped)
    BY <1>1 DEF Rollback
  <2>2. Holds(Restored(c, dev, 0), text)
    <3>1. seq.len + 0 \in Nat /\ Len(text) <= seq.len + 0
      BY <1>0
    <3> DEFINE lo == seq.len + 0
    <3> HIDE DEF lo
    <3>2. Holds(Splice(lo, Limit, c.snap, dev), text)
      BY <1>0, <3>1, SpliceBehind DEF Told, lo
    <3> QED BY <3>2 DEF Restored, Told, lo
  <2>3. Holds(Spoiled(dev), text)
    BY <1>0, BelowHolds DEF Told, Spoiled
  <2>4. Holds(d, text)
    BY <2>2, <2>3
  <2> QED BY <1>0, <2>1, <2>4, OnPagesHolds, OnPagesRows
<1>4. Proper(text)
  BY DEF Told
<1> QED BY <1>0, <1>1, <1>2, <1>3, <1>4, Lands

\* What is kept mapped covers the rows kept, and a refused row's footprint.
LEMMA PagesKeptIs ==
    ASSUME seq.len \in Nat, mapped \in Nat, NEW c, Listed(c.toks), c.entry.mapped \in Nat,
           c.entry.mapped <= Cover(seq.len + 1), NEW f \in Nat, f < Len(c.toks)
    PROVE  PagesKept(c, seq.len + f + 1) = Cover(seq.len + f + 1)
<1> DEFINE a == Cover(seq.len + f + 1)
           b == Cover(seq.len + Len(c.toks))
<1>0. Len(c.toks) \in Nat
  BY Lengths
<1>1. a \in Nat /\ b \in Nat
  <2>1. seq.len + f + 1 \in Nat /\ seq.len + Len(c.toks) \in Nat
    BY <1>0
  <2> QED BY <2>1, CoverIs
<1>2. Cover(seq.len + 1) <= a
  <2>1. seq.len + 1 \in Nat /\ seq.len + f + 1 \in Nat /\ seq.len + 1 <= seq.len + f + 1
    OBVIOUS
  <2> QED BY <2>1, MoreCover
<1>3. a <= b
  <2>1. seq.len + f + 1 \in Nat /\ seq.len + Len(c.toks) \in Nat /\ seq.len + f + 1 <= seq.len + Len(c.toks)
    BY <1>0
  <2> QED BY <2>1, MoreCover
<1>4. Cover(seq.len + 1) \in Nat
  <2>1. seq.len + 1 \in Nat
    OBVIOUS
  <2> QED BY <2>1, CoverIs
<1>5. PagesKept(c, seq.len + f + 1) = Min2(Max2(mapped, b), Max2(a, c.entry.mapped))
  BY DEF PagesKept, Mapped
<1> HIDE DEF a, b
<1>6. Max2(a, c.entry.mapped) = a
  BY <1>1, <1>2, <1>4 DEF Max2
<1>7. Max2(mapped, b) >= b /\ Max2(mapped, b) \in Nat
  BY <1>1, MoreOrLess
<1>8. Min2(Max2(mapped, b), a) = a
  BY <1>1, <1>3, <1>7 DEF Min2
<1> QED BY <1>5, <1>6, <1>8 DEF a

\* Rows 1 .. k stay, of f + 1 or all but the refused last of them.
LEMMA PrefixCommitted ==
    ASSUME Shapes, jump = NoJump, NEW c, NEW dev, NEW text, Told(c, dev, text),
           NEW f \in Nat, f < Len(c.toks), NEW k \in {f, f + 1},
           \A r \in 1 .. k : c.at[r] = NumLayers,
           CommitPrefix(c, dev, f), DOMAIN seq' = SeqFields, seq'.len = seq.len + k
    PROVE  IInv' /\ Holds(device', text \o SubSeq(c.toks, 1, k))
<1>0. /\ Listed(text) /\ Len(text) \in Nat /\ seq.len = Len(text) /\ mapped \in Nat
      /\ Listed(c.toks) /\ Proper(c.toks) /\ Len(c.toks) \in Nat /\ seq.len + Len(c.toks) <= Limit
      /\ c.entry.mapped \in Nat /\ c.entry.mapped <= Cover(seq.len + 1)
      /\ Proper(text) /\ Holds(mirror, text) /\ Holds(dev, text)
  BY Lengths DEF Told, Shapes, Found, Fit, Proper
<1>1. k \in Nat /\ k <= Len(c.toks) /\ k <= f + 1 /\ f <= k
  BY <1>0
<1> DEFINE w == text \o SubSeq(c.toks, 1, k)
           lo == seq.len + f + 1
<1>2. Proper(w) /\ Len(w) = Len(text) + k /\ SubSeq(w, 1, Len(text)) = text
  BY <1>0, <1>1, ProperGrown
<1>3. Holds(dev, w)
  <2>1. CASE k >= 1
    BY <1>0, <1>1, <2>1 DEF Told
  <2>2. CASE k = 0
    <3>1. SubSeq(w, 1, Len(text)) = w
      <4>1. Len(w) = Len(text) /\ Listed(w)
        BY <1>0, <1>2, <2>2 DEF Proper
      <4> HIDE DEF w
      <4> QED BY <4>1, WholeHead
    <3> HIDE DEF w
    <3> QED BY <1>0, <1>2, <3>1
  <2> HIDE DEF w
  <2> QED BY <1>1, <2>1, <2>2
<1>4. /\ chunk' = NoChunk /\ jump' = NoJump
      /\ mapped' = Cover(lo) /\ mapped' \in Nat
  <2>1. mapped' = Cover(lo)
    BY <1>0, PagesKeptIs DEF CommitPrefix, Shapes
  <2>2. lo \in Nat
    BY <1>0
  <2> HIDE DEF lo
  <2> QED BY <2>1, <2>2, CoverIs DEF CommitPrefix
<1> HIDE DEF w
<1>5. Listed(w) /\ Len(w) \in Nat /\ Len(w) = seq.len + k /\ seq'.len = Len(w) /\ Len(w) <= Limit
  <2>1. Listed(w)
    BY <1>2 DEF Proper
  <2> QED BY <1>0, <1>1, <1>2, <2>1, Sizes
<1>6. Fit(Len(w), mapped') /\ Cover(Len(w)) <= mapped'
  <2>1. lo \in Nat /\ Len(w) <= lo /\ lo <= Len(w) + 1 /\ Len(w) + 1 \in Nat
    BY <1>0, <1>1, <1>5
  <2> HIDE DEF lo
  <2>2. Cover(Len(w)) <= Cover(lo) /\ Cover(lo) <= Cover(Len(w) + 1)
    BY <1>5, <2>1, MoreCover
  <2> QED BY <1>4, <2>2 DEF Fit
<1>7. lo \in Nat /\ Len(w) <= lo
  BY <1>0, <1>1, <1>5
<1> HIDE DEF lo
<1>8. Holds(mirror', w) /\ DOMAIN mirror' = Rows
  <2> DEFINE m == Splice(seq.len, lo, dev, mirror)
  <2>1. mirror' = OnPages(m, mapped')
    BY DEF CommitPrefix, Mirrored, lo
  <2>2. Holds(m, w)
    <3>1. Holds(mirror, SubSeq(w, 1, seq.len))
      BY <1>0, <1>2
    <3>2. seq.len \in Nat /\ seq.len <= Len(w)
      BY <1>0, <1>1, <1>5
    <3> QED BY <1>3, <1>5, <1>7, <3>1, <3>2, SpliceHolds
  <2> HIDE DEF m
  <2> QED BY <1>4, <1>5, <1>6, <2>1, <2>2, OnPagesHolds, OnPagesRows
<1>9. Holds(device', w) /\ DOMAIN device' = Rows
  <2> DEFINE d == Restored(c, dev, f + 1)
  <2>1. device' = OnPages(d, mapped')
    BY DEF CommitPrefix
  <2>2. Holds(d, w)
    <3>1. seq.len + (f + 1) = lo
      BY <1>0 DEF lo
    <3>2. Holds(Splice(lo, Limit, c.snap, dev), w)
      BY <1>3, <1>5, <1>7, SpliceBehind
    <3> QED BY <1>3, <3>1, <3>2 DEF Restored
  <2> HIDE DEF d
  <2> QED BY <1>4, <1>5, <1>6, <2>1, <2>2, OnPagesHolds, OnPagesRows
<1>10. IInv'
  BY <1>2, <1>4, <1>5, <1>6, <1>8, <1>9, Lands
<1> QED BY <1>9, <1>10 DEF w

LEMMA PromptCommitted ==
    ASSUME Shapes, jump = NoJump, NEW c, NEW dev, NEW text, Told(c, dev, text), c.toks # <<>>,
           CommitPrompt(c, dev)
    PROVE  IInv'
<1>0. Len(c.toks) \in Nat /\ Len(c.toks) >= 1
  BY Lengths DEF Told
<1> DEFINE f == Len(c.toks) - 1
<1>1. f \in Nat /\ f < Len(c.toks) /\ Len(c.toks) \in {f, f + 1}
  BY <1>0
<1>2. \A r \in 1 .. Len(c.toks) : c.at[r] = NumLayers
  BY DEF CommitPrompt, Clean, Unrefused
<1>3. CommitPrefix(c, dev, f)
  BY DEF CommitPrompt
<1>4. DOMAIN seq' = SeqFields /\ seq'.len = seq.len + Len(c.toks)
  BY BeholdIs DEF CommitPrompt
<1> HIDE DEF f
<1> DEFINE k == Len(c.toks)
<1>5. k \in {f, f + 1} /\ (\A r \in 1 .. k : c.at[r] = NumLayers) /\ seq'.len = seq.len + k
  BY <1>1, <1>2, <1>4
<1> HIDE DEF k
<1> QED BY <1>1, <1>3, <1>4, <1>5, PrefixCommitted

LEMMA DraftCommitted ==
    ASSUME Shapes, jump = NoJump, NEW c, NEW dev, NEW text, Told(c, dev, text),
           CommitDraft(c, dev)
    PROVE  IInv'
<1>0. Len(c.toks) \in Nat
  BY Lengths DEF Told
<1>1. PICK a \in 1 .. Len(c.toks) :
         /\ \A r \in 1 .. a : c.at[r] = NumLayers
         /\ \E o \in Finished(Behold(dev, a, WalkAfter(c.toks, a))) : Rests(o)
         /\ CommitPrefix(c, dev, a - 1)
  BY DEF CommitDraft
<1> DEFINE f == a - 1
<1>2. f \in Nat /\ f < Len(c.toks) /\ a \in {f, f + 1}
  BY <1>0
<1>3. CommitPrefix(c, dev, f)
  BY <1>1
<1>4. DOMAIN seq' = SeqFields /\ seq'.len = seq.len + a
  <2> DEFINE x == Behold(dev, a, WalkAfter(c.toks, a))
  <2>1. DOMAIN x = SeqFields /\ x.len = seq.len + a
    BY BeholdIs
  <2>2. PICK o \in Finished(x) : Rests(o)
    BY <1>1
  <2> HIDE DEF x
  <2>3. DOMAIN o.seq = SeqFields /\ o.seq.len = x.len
    BY <2>1, FinishedIs
  <2> QED BY <2>1, <2>2, <2>3 DEF Rests
<1> HIDE DEF f
<1> QED BY <1>1, <1>2, <1>3, <1>4, PrefixCommitted

LEMMA Refused ==
    ASSUME Shapes, jump = NoJump, NEW c, NEW dev, NEW text, Told(c, dev, text), Refuse(c, dev)
    PROVE  IInv'
<1>0. Len(c.toks) \in Nat /\ seq.len \in Nat
  BY Lengths, Sizes DEF Told, Shapes
<1>1. PICK j \in 1 .. Len(c.toks) :
         /\ \A r \in 1 .. j - 1 : c.at[r] = NumLayers
         /\ CommitPrefix(c, dev, j - 1)
         /\ seq' = [len |-> seq.len + j - 1, layer |-> c.at[j], ready |-> FALSE, res |-> Junk,
                    walk |-> IF c.kind = "exact" THEN WalkAfter(c.toks, j) ELSE seq.walk]
  BY DEF Refuse
<1> DEFINE f == j - 1
<1>2. f \in Nat /\ f < Len(c.toks) /\ f \in {f, f + 1}
  BY <1>0
<1>3. DOMAIN seq' = SeqFields /\ seq'.len = seq.len + f
  <2>1. DOMAIN seq' = SeqFields
    BY <1>1 DEF SeqFields
  <2>2. seq'.len = seq.len + j - 1
    BY <1>1
  <2> QED BY <1>0, <2>1, <2>2
<1>4. CommitPrefix(c, dev, f) /\ \A r \in 1 .. f : c.at[r] = NumLayers
  BY <1>1
<1> HIDE DEF f
<1> QED BY <1>2, <1>3, <1>4, PrefixCommitted

LEMMA Closed ==
    ASSUME Shapes, jump = NoJump, NEW c, NEW dev, NEW text, Told(c, dev, text), c.toks # <<>>,
           Close(c, dev)
    PROVE  IInv'
<1>1. CASE CommitPrompt(c, dev)
  BY <1>1, PromptCommitted
<1>2. CASE CommitDraft(c, dev)
  BY <1>2, DraftCommitted
<1>3. CASE Refuse(c, dev)
  BY <1>3, Refused
<1>4. CASE CloseFails(c, dev)
  BY <1>4, RolledBack DEF CloseFails
<1> QED BY <1>1, <1>2, <1>3, <1>4 DEF Close

-----------------------------------------------------------------------------
(* A chunk's slices. *)

\* What a chunk keeps of itself through its slices.
Same(c) ==
    /\ DOMAIN c = ChunkFields
    /\ c.kind = chunk.kind /\ c.toks = chunk.toks /\ c.entry = chunk.entry /\ c.was = chunk.was

LEMMA SnappedIs ==
    ASSUME Chunked, chunk # NoChunk
    PROVE  /\ Same(Snapped) /\ Snapped.done = chunk.done /\ Snapped.at = chunk.at
           /\ chunk.kind = "exact" /\ ~Single(chunk) => Snapped.snap = chunk.was
<1>0. DOMAIN chunk = ChunkFields
  BY DEF Chunked
<1>1. CASE chunk.done > 0
  <2>1. Snapped = chunk
    BY <1>1 DEF Snapped
  <2>2. chunk.kind = "exact" /\ ~Single(chunk) => Snapped.snap = chunk.was
    BY <1>1, <2>1 DEF Chunked
  <2>3. Snapped.done = chunk.done /\ Snapped.at = chunk.at
    BY <2>1
  <2>4. Same(Snapped)
    BY <1>0, <2>1 DEF Same
  <2> QED BY <2>2, <2>3, <2>4
<1>2. CASE ~(chunk.done > 0)
  <2> DEFINE s == IF chunk.kind = "exact" /\ ~Single(chunk) THEN device ELSE chunk.snap
             m == IF Single(chunk) THEN mirror ELSE chunk.mrow
  <2>1. Snapped = [chunk EXCEPT !.snap = s, !.mrow = m]
    BY <1>2 DEF Snapped
  <2>2. chunk.kind = "exact" /\ ~Single(chunk) => s = chunk.was
    <3>1. chunk.done = 0
      BY <1>2, Sizes DEF Chunked
    <3> QED BY <3>1 DEF Chunked
  <2> HIDE DEF s, m
  <2>3. DOMAIN Snapped = ChunkFields
    BY <1>0, <2>1
  <2>4. Snapped.snap = s
    BY <1>0, <2>1 DEF ChunkFields
  <2>5. Snapped.done = chunk.done /\ Snapped.at = chunk.at
    BY <1>0, <2>1 DEF ChunkFields
  <2>6. /\ Snapped.kind = chunk.kind /\ Snapped.toks = chunk.toks
        /\ Snapped.entry = chunk.entry /\ Snapped.was = chunk.was
    BY <1>0, <2>1 DEF ChunkFields
  <2> QED BY <2>2, <2>3, <2>4, <2>5, <2>6 DEF Same
<1> QED BY <1>1, <1>2

LEMMA AdvancedIs ==
    ASSUME Chunked, chunk # NoChunk, NEW n \in 1 .. NumLayers, chunk.done + n <= NumLayers,
           NEW c \in Advanced(n)
    PROVE  /\ Same(c) /\ c.done = chunk.done + n /\ c.done \in 0 .. NumLayers /\ c.done > 0
           /\ c.at \in [1 .. Len(c.toks) -> 0 .. NumLayers]
           /\ c.kind = "exact" /\ ~Single(c) => c.snap = c.was
<1> DEFINE upto == chunk.done + n
           outcomes(r) == IF chunk.at[r] < NumLayers THEN {chunk.at[r]}
                          ELSE (chunk.done .. upto - 1) \cup {NumLayers}
<1>1. PICK at \in [1 .. Len(chunk.toks) -> 0 .. NumLayers] :
         c = [Snapped EXCEPT !.done = upto, !.at = at]
  BY DEF Advanced
<1>2. upto \in 0 .. NumLayers /\ upto > 0
  BY Sizes DEF Chunked
<1> HIDE DEF upto
<1> DEFINE s == Snapped
<1>3. /\ Same(s) /\ (chunk.kind = "exact" /\ ~Single(chunk) => s.snap = chunk.was)
  BY SnappedIs
<1>4. c = [s EXCEPT !.done = upto, !.at = at]
  BY <1>1
<1> HIDE DEF s
<1>5. DOMAIN c = ChunkFields
  BY <1>3, <1>4 DEF Same
<1>6. c.done = upto /\ c.at = at
  BY <1>3, <1>4 DEF ChunkFields, Same
<1>7. c.kind = s.kind /\ c.toks = s.toks /\ c.entry = s.entry /\ c.was = s.was /\ c.snap = s.snap
  BY <1>3, <1>4 DEF ChunkFields, Same
<1>8. Same(c)
  BY <1>3, <1>5, <1>7 DEF Same
<1>9. c.kind = "exact" /\ ~Single(c) => c.snap = c.was
  BY <1>3, <1>7 DEF Same, Single
<1>10. c.at \in [1 .. Len(c.toks) -> 0 .. NumLayers]
  BY <1>1, <1>3, <1>6, <1>7 DEF Same
<1> QED BY <1>2, <1>6, <1>8, <1>9, <1>10 DEF upto

\* A chunk that its last slice lets close is of the text, with every row kept computed.
LEMMA WrittenTold ==
    ASSUME Shapes, Chunked, chunk # NoChunk, NEW c, Same(c),
           c.at \in [1 .. Len(c.toks) -> 0 .. NumLayers],
           Closes(c), NEW text, Proper(text), Len(text) = seq.len,
           Holds(device, text), Holds(mirror, text)
    PROVE  Told(c, Written(c), text)
<1>0. /\ Listed(text) /\ Len(text) \in Nat /\ seq.len \in Nat
      /\ Listed(c.toks) /\ Proper(c.toks) /\ Len(c.toks) \in Nat /\ seq.len + Len(c.toks) <= Limit
      /\ Found(c.entry) /\ c.entry.seq.len = seq.len
  BY Lengths DEF Chunked, Same, Proper
<1>1. Holds(Written(c), text)
  BY <1>0, ComputedBehind DEF Written
<1>2. ASSUME NEW k \in 1 .. Len(c.toks), \A r \in 1 .. k : c.at[r] = NumLayers
      PROVE  Holds(Written(c), text \o SubSeq(c.toks, 1, k))
  <2>1. c.done = NumLayers
    <3>1. ASSUME Single(c) PROVE Clean(c)
      <4>1. c.at = [r \in 1 .. Len(c.toks) |-> c.at[r]]
        OBVIOUS
      <4>2. \A r \in 1 .. Len(c.toks) : c.at[r] = NumLayers
        BY <1>2, <3>1 DEF Single
      <4> QED BY <4>1, <4>2 DEF Clean, Unrefused
    <3> QED BY <3>1 DEF Closes
  <2>2. k \in Nat /\ k <= Len(c.toks) /\ seq.len + k <= Limit
    BY <1>0, Sizes
  <2>3. Holds(Computed(device, c.toks, c.at, NumLayers), text \o SubSeq(c.toks, 1, k))
    BY <1>0, <1>2, <2>2, ComputedHolds
  <2> QED BY <2>1, <2>3 DEF Written
<1> QED BY <1>0, <1>1, <1>2 DEF Told

-----------------------------------------------------------------------------
(* The steps of a chunk keep the invariant. *)

\* The text of the handle.
LEMMA TheText ==
    ASSUME IInv
    PROVE  \E text :
             /\ Proper(text) /\ Listed(text) /\ Len(text) \in Nat /\ Len(text) = seq.len
             /\ Holds(device, text) /\ Holds(mirror, text)
             /\ jump # NoJump => Holds(jump.mirror, SubSeq(text, 1, jump.entry.seq.len))
<1>1. \A text : Proper(text) => Listed(text) /\ Len(text) \in Nat
  BY Lengths DEF Proper
<1> QED BY <1>1 DEF IInv, Texts

\* The text of the handle, in device and mirror; a jump has what it began with in its own.
TextIs(text) ==
    /\ Proper(text) /\ Len(text) = seq.len
    /\ Holds(device, text) /\ Holds(mirror, text)
    /\ jump # NoJump => Holds(jump.mirror, SubSeq(text, 1, jump.entry.seq.len))

LEMMA TheTextIs ==
    ASSUME IInv
    PROVE  \E text : TextIs(text)
BY TheText DEF TextIs

LEMMA TextIsSo ==
    ASSUME IInv, NEW text, TextIs(text)
    PROVE  /\ Proper(text) /\ Listed(text) /\ Len(text) \in Nat /\ Len(text) = seq.len
           /\ Holds(device, text) /\ Holds(mirror, text)
           /\ jump # NoJump => Holds(jump.mirror, SubSeq(text, 1, jump.entry.seq.len))
BY Lengths DEF TextIs, Proper

LEMMA AdmittedIs ==
    ASSUME Shapes, NEW ts, Listed(ts), Len(ts) >= 1, NEW kind, Admitted(kind, ts) > 0
    PROVE  /\ Admitted(kind, ts) \in Nat /\ Admitted(kind, ts) <= Len(ts)
           /\ seq.len + Admitted(kind, ts) <= Limit
<1> DEFINE most == IF kind = "exact" THEN LegalPrefix(ts) ELSE Len(ts)
           room == Limit - seq.len
<1>0. Len(ts) \in Nat /\ seq.len \in Nat /\ Limit \in Nat /\ seq.len <= Limit
  BY Lengths, Sizes DEF Shapes
<1>1. most \in Nat /\ most <= Len(ts)
  BY <1>0, LegalPrefixIs
<1>2. room \in Nat /\ seq.len + room = Limit
  BY <1>0
<1>3. Admitted(kind, ts) = Min2(most, room)
  BY DEF Admitted
<1> HIDE DEF most, room
<1>4. Min2(most, room) \in Nat /\ Min2(most, room) <= most /\ Min2(most, room) <= room
  BY <1>1, <1>2, MoreOrLess
<1> QED BY <1>0, <1>1, <1>2, <1>3, <1>4

LEMMA EmbedRowsKeeps ==
    ASSUME IInv, NEW kind, NEW ts \in Chunks, EmbedRows(kind, ts)
    PROVE  IInv'
<1> DEFINE n == Admitted(kind, ts)
           rows == SubSeq(ts, 1, n)
<1>1. Listed(ts) /\ Len(ts) \in Nat /\ Len(ts) >= 1 /\ ts[1] # NoToken
  <2>1. PICK m \in 1 .. MaxRows : ts \in [1 .. m -> Tokens]
    BY DEF Chunks
  <2>2. ts \in Seq(Tokens) /\ Len(ts) = m /\ m \in Nat /\ m >= 1
    BY <2>1, Sizes
  <2>3. ts[1] \in Tokens
    BY <2>1, <2>2
  <2>4. ts[1] # NoToken
    BY <2>3, SizesAssumption DEF Tokens, NoToken
  <2> QED BY <2>2, <2>4, ListedIs
<1>2. Idle /\ n > 0 /\ Shapes
  BY DEF EmbedRows, IInv
<1>3. n \in Nat /\ n <= Len(ts) /\ seq.len + n <= Limit
  BY <1>1, <1>2, AdmittedIs
<1>4. /\ chunk' = [kind |-> kind, toks |-> rows, done |-> 0, at |-> Unrefused(rows), snap |-> NoRows,
                   mrow |-> NoRows, entry |-> Entry, was |-> device]
      /\ seq' = IF Len(rows) = 1 THEN [seq EXCEPT !.ready = FALSE, !.layer = 0, !.res = <<>>]
                ELSE [seq EXCEPT !.ready = FALSE]
      /\ UNCHANGED <<mirror, device, mapped, jump, hand>>
  BY DEF EmbedRows, Opened
<1> HIDE DEF n
<1>5. Listed(rows) /\ Len(rows) = n /\ Proper(rows) /\ rows # <<>>
  <2>1. Listed(rows) /\ Len(rows) = n /\ \A i \in 1 .. n : rows[i] = ts[i]
    BY <1>1, <1>3, Headed
  <2>2. rows[1] = ts[1]
    BY <1>2, <1>3, <2>1
  <2> HIDE DEF rows
  <2>3. rows # <<>>
    BY <1>2, <1>3, <2>1, Lengths
  <2> QED BY <1>1, <2>1, <2>2, <2>3 DEF Proper
<1> HIDE DEF rows
<1>6. DOMAIN seq' = SeqFields /\ seq'.len = seq.len
  <2>1. CASE Len(rows) = 1
    <3>1. seq' = [seq EXCEPT !.ready = FALSE, !.layer = 0, !.res = <<>>]
      BY <1>4, <2>1
    <3> QED BY <1>2, <3>1 DEF Shapes, SeqFields
  <2>2. CASE Len(rows) # 1
    <3>1. seq' = [seq EXCEPT !.ready = FALSE]
      BY <1>4, <2>2
    <3> QED BY <1>2, <3>1 DEF Shapes, SeqFields
  <2> QED BY <2>1, <2>2
<1>7. Shapes'
  BY <1>2, <1>4, <1>6 DEF Shapes
<1>8. jump = NoJump /\ jump' = NoJump
  BY <1>2, <1>4 DEF Idle
<1>9. Texts'
  <2>1. PICK text : /\ Proper(text) /\ Len(text) = seq.len
                    /\ Holds(device, text) /\ Holds(mirror, text)
    BY TheText
  <2> QED BY <1>4, <1>6, <1>8, <2>1 DEF Texts
<1>10. /\ DOMAIN chunk' = ChunkFields /\ chunk'.toks = rows /\ chunk'.done = 0
       /\ chunk'.at = Unrefused(rows) /\ chunk'.entry = Entry /\ chunk'.was = device
  BY <1>4 DEF ChunkFields
<1>11. chunk' # NoChunk
  BY <1>5, <1>10 DEF NoChunk
<1>12. Found(Entry) /\ Entry.seq.len = seq.len
  <2>1. Fit(seq.len, mapped)
    BY <1>2 DEF IInv, PagesFit, Fit
  <2> QED BY <1>2, <2>1, Sizes DEF Found, Entry, Shapes
<1>13. Unrefused(rows) \in [1 .. Len(rows) -> 0 .. NumLayers]
  BY Sizes DEF Unrefused
<1>14. Chunked'
  <2>1. DOMAIN device = Rows /\ device' = device
    BY <1>2, <1>4 DEF Shapes
  <2>2. ~(chunk'.done > 0) /\ chunk'.done # NumLayers /\ chunk'.done \in 0 .. NumLayers
    BY <1>10, Sizes
  <2> QED BY <1>3, <1>5, <1>6, <1>8, <1>10, <1>12, <1>13, <2>1, <2>2 DEF Chunked
<1>15. Jumping' /\ PagesFit'
  BY <1>8, <1>11 DEF Jumping, PagesFit, Idle
<1> QED BY <1>7, <1>9, <1>14, <1>15 DEF IInv

\* An open chunk: its text, and no jump.
LEMMA Opens ==
    ASSUME IInv, chunk # NoChunk
    PROVE  /\ jump = NoJump /\ Shapes /\ Chunked /\ chunk.toks # <<>>
           /\ Found(chunk.entry) /\ chunk.entry.seq.len = seq.len
           /\ Listed(chunk.toks) /\ Proper(chunk.toks) /\ seq.len + Len(chunk.toks) <= Limit
BY DEF IInv, Chunked, Proper

\* Rolled back, whatever else was done behind the text.
LEMMA RollbackKeeps ==
    ASSUME IInv, chunk # NoChunk, NEW c, Same(c), NEW dev, NEW text, TextIs(text), Holds(dev, text),
           Rollback(c, dev)
    PROVE  IInv' /\ Holds(device', text)
<1> DEFINE d == [c EXCEPT !.at = [r \in 1 .. Len(c.toks) |-> 0]]
<1>1. Rollback(d, dev)
  <2>1. /\ d.entry = c.entry /\ d.mrow = c.mrow /\ d.snap = c.snap /\ d.toks = c.toks
    BY DEF Same, ChunkFields
  <2> HIDE DEF d
  <2> QED BY <2>1 DEF Rollback, Restored
<1>2. Proper(text) /\ Len(text) = seq.len /\ Holds(mirror, text)
  BY DEF TextIs
<1>3. Told(d, dev, text)
  <2>1. d.toks = c.toks /\ d.entry = c.entry
    BY DEF Same, ChunkFields
  <2>2. \A r \in 1 .. Len(d.toks) : d.at[r] = 0
    BY <2>1 DEF Same, ChunkFields
  <2> HIDE DEF d
  <2>3. Len(d.toks) \in Nat
    BY <2>1, Opens, Lengths DEF Same
  <2>4. \A k \in 1 .. Len(d.toks) : ~ \A r \in 1 .. k : d.at[r] = NumLayers
    <3> SUFFICES ASSUME NEW k \in 1 .. Len(d.toks), \A r \in 1 .. k : d.at[r] = NumLayers PROVE FALSE
      OBVIOUS
    <3>1. 1 \in 1 .. k /\ 1 \in 1 .. Len(d.toks)
      BY <2>3
    <3> QED BY <2>2, <3>1, Sizes
  <2> QED BY <1>2, <2>1, <2>4, Opens DEF Told, Same
<1> HIDE DEF d
<1> QED BY <1>1, <1>3, Opens, RolledBack

LEMMA SliceFailsTells ==
    ASSUME IInv, SliceFails, NEW text, TextIs(text)
    PROVE  IInv' /\ Holds(device', text)
<1>1. chunk # NoChunk /\ Rollback(Snapped, Spoiled(device))
  BY DEF SliceFails
<1>2. Same(Snapped)
  BY <1>1, Opens, SnappedIs
<1>3. Holds(Spoiled(device), text)
  <2>1. seq.len \in Nat /\ Listed(text) /\ Len(text) <= seq.len /\ Holds(device, text)
    BY Sizes DEF IInv, Shapes, Proper, TextIs
  <2> QED BY <2>1, BelowHolds DEF Spoiled
<1> DEFINE c == Snapped
           dev == Spoiled(device)
<1>4. Same(c) /\ Rollback(c, dev) /\ Holds(dev, text)
  BY <1>1, <1>2, <1>3
<1> HIDE DEF c, dev
<1> QED BY <1>1, <1>4, RollbackKeeps

LEMMA SliceFailsKeeps ==
    ASSUME IInv, SliceFails
    PROVE  IInv'
BY TheTextIs, SliceFailsTells

LEMMA AbandonTells ==
    ASSUME IInv, Abandon, NEW text, TextIs(text)
    PROVE  IInv' /\ Holds(device', text)
<1>1. chunk # NoChunk /\ Rollback(chunk, device)
  BY DEF Abandon
<1>2. Same(chunk)
  BY <1>1, Opens DEF Chunked, Same
<1>3. Holds(device, text)
  BY DEF TextIs
<1> QED BY <1>1, <1>2, <1>3, RollbackKeeps

LEMMA AbandonKeeps ==
    ASSUME IInv, Abandon
    PROVE  IInv'
BY TheTextIs, AbandonTells

LEMMA CloseAgainKeeps ==
    ASSUME IInv, CloseAgain
    PROVE  IInv'
<1>1. chunk # NoChunk /\ chunk.done = NumLayers /\ Close(chunk, device)
  BY DEF CloseAgain
<1>2. Same(chunk) /\ Closes(chunk) /\ Written(chunk) = device
      /\ chunk.at \in [1 .. Len(chunk.toks) -> 0 .. NumLayers]
  BY <1>1, Opens DEF Chunked, Same, Closes
<1>3. PICK text : /\ Proper(text) /\ Len(text) = seq.len
                  /\ Holds(device, text) /\ Holds(mirror, text)
  BY TheText
<1>4. Told(chunk, Written(chunk), text)
  BY <1>1, <1>2, <1>3, Opens, WrittenTold
<1> QED BY <1>1, <1>2, <1>4, Opens, Closed

LEMMA ResetKeeps ==
    ASSUME IInv, Reset
    PROVE  IInv'
<1>1. /\ chunk' = NoChunk /\ jump' = NoJump /\ seq' = Fresh /\ mapped' = 0
      /\ DOMAIN mirror' = Rows /\ DOMAIN device' = Rows
  BY DEF Reset, OnPages
<1>2. DOMAIN seq' = SeqFields /\ seq'.len = 0
  BY <1>1 DEF Fresh, SeqFields
<1>3. Proper(<<>>) /\ Len(<<>>) = 0 /\ \A kv : Holds(kv, <<>>)
  <2>1. \A x \in Rows : ~(x[1] < Len(<<>>))
    BY Empty, RowIs
  <2> QED BY <2>1, Empty DEF Proper, Holds
<1>4. Fit(0, 0)
  <2>1. Cover(0 + 1) \in Nat
    BY CoverIs
  <2> QED BY <2>1, CoverNone DEF Fit
<1>5. mapped' \in Nat /\ Fit(Len(<<>>), mapped') /\ Len(<<>>) <= Limit
  BY <1>1, <1>3, <1>4, Sizes
<1>6. seq'.len = Len(<<>>)
  BY <1>2, <1>3
<1> DEFINE text == <<>>
<1>7. /\ Proper(text) /\ Len(text) <= Limit /\ Fit(Len(text), mapped') /\ seq'.len = Len(text)
      /\ Holds(device', text) /\ Holds(mirror', text)
  BY <1>3, <1>5, <1>6
<1> HIDE DEF text
<1> QED BY <1>1, <1>2, <1>5, <1>7, Lands

\* A chunk that stays open: more of its layers have run.
LEMMA StaysOpen ==
    ASSUME IInv, chunk # NoChunk, NEW c, Same(c), c.done \in 0 .. NumLayers, c.done > 0,
           c.at \in [1 .. Len(c.toks) -> 0 .. NumLayers],
           c.kind = "exact" /\ ~Single(c) => c.snap = c.was,
           chunk' = c, device' = Written(c), mapped' = Mapped(c), jump' = jump,
           DOMAIN seq' = SeqFields, seq'.len = seq.len,
           DOMAIN mirror' = Rows,
           \A text : Listed(text) /\ Len(text) = seq.len /\ Holds(mirror, text) => Holds(mirror', text),
           c.done = NumLayers => device' = Written(c)'
    PROVE  IInv'
<1>1. PICK text : /\ Proper(text) /\ Listed(text) /\ Len(text) \in Nat /\ Len(text) = seq.len
                  /\ Holds(device, text) /\ Holds(mirror, text)
  BY TheText
<1>2. jump = NoJump /\ jump' = NoJump /\ Shapes /\ Chunked /\ c.toks # <<>>
  BY Opens DEF Same
<1>3. mapped' \in Nat
  <2>1. Len(c.toks) \in Nat /\ mapped \in Nat /\ seq.len \in Nat
    BY <1>2, Opens, Lengths, Sizes DEF Shapes, Same
  <2>2. seq.len + Len(c.toks) \in Nat
    BY <2>1
  <2>3. Cover(seq.len + Len(c.toks)) \in Nat
    BY <2>2, CoverIs
  <2> QED BY <2>1, <2>3, MoreOrLess DEF Mapped
<1>4. Shapes'
  <2>1. DOMAIN device' = Rows
    BY DEF Written, Computed
  <2> QED BY <1>2, <1>3, <2>1 DEF Shapes
<1>5. Texts'
  <2>1. Holds(device', text)
    BY <1>1, ComputedBehind DEF Written
  <2>2. Holds(mirror', text)
    BY <1>1
  <2> QED BY <1>1, <1>2, <2>1, <2>2 DEF Texts
<1>6. Chunked'
  <2>1. /\ Proper(c.toks) /\ seq.len + Len(c.toks) <= Limit
        /\ Found(c.entry) /\ c.entry.seq.len = seq.len
    BY Opens DEF Same
  <2>2. DOMAIN c.was = Rows /\ DOMAIN c = ChunkFields
    BY <1>2 DEF Chunked, Same
  <2>3. c.done # 0
    OBVIOUS
  <2>4. c.done > 0 /\ c.kind = "exact" /\ ~Single(c) => c.snap = c.was
    OBVIOUS
  <2>5. /\ jump' = NoJump
        /\ DOMAIN chunk' = ChunkFields
        /\ Proper(chunk'.toks) /\ chunk'.toks # <<>> /\ seq'.len + Len(chunk'.toks) <= Limit
        /\ chunk'.done \in 0 .. NumLayers
        /\ chunk'.at \in [1 .. Len(chunk'.toks) -> 0 .. NumLayers]
    BY <1>2, <2>1, <2>2
  <2>6. /\ Found(chunk'.entry) /\ chunk'.entry.seq.len = seq'.len
        /\ DOMAIN chunk'.was = Rows
        /\ chunk'.done = 0 => device' = chunk'.was
    BY <2>1, <2>2, <2>3
  <2>7. chunk'.done > 0 /\ chunk'.kind = "exact" /\ ~Single(chunk)' => chunk'.snap = chunk'.was
    BY <2>4 DEF Single
  <2>8. chunk'.done = NumLayers => device' = Written(chunk)'
    BY DEF Written
  <2> QED BY <2>5, <2>6, <2>7, <2>8 DEF Chunked
<1>7. Jumping' /\ PagesFit'
  <2>1. chunk' # NoChunk
    BY <1>2 DEF NoChunk
  <2> QED BY <1>2, <2>1 DEF Jumping, PagesFit, Idle
<1> QED BY <1>4, <1>5, <1>6, <1>7 DEF IInv

LEMMA SliceKeeps ==
    ASSUME IInv, NEW n \in 1 .. NumLayers, Slice(n)
    PROVE  IInv'
<1>1. chunk # NoChunk /\ chunk.done + n <= NumLayers
  BY DEF Slice
<1>2. PICK c \in Advanced(n) :
         IF Closes(c) THEN Close(c, Written(c)) \/ CloseWaits(c, Written(c)) ELSE MidChunk(c, Written(c))
  BY DEF Slice
<1>3. jump = NoJump /\ Shapes /\ Chunked
  BY <1>1, Opens
<1>4. /\ Same(c) /\ c.done \in 0 .. NumLayers /\ c.done > 0
      /\ c.at \in [1 .. Len(c.toks) -> 0 .. NumLayers]
      /\ c.kind = "exact" /\ ~Single(c) => c.snap = c.was
  BY <1>1, <1>3, AdvancedIs
<1>5. DOMAIN seq = SeqFields /\ DOMAIN mirror = Rows /\ seq.len \in Nat
  BY <1>3, Sizes DEF Shapes
<1>6. CASE Closes(c) /\ Close(c, Written(c))
  <2>1. PICK text : /\ Proper(text) /\ Len(text) = seq.len
                    /\ Holds(device, text) /\ Holds(mirror, text)
    BY TheText
  <2>2. Told(c, Written(c), text)
    BY <1>1, <1>3, <1>4, <1>6, <2>1, WrittenTold
  <2>3. c.toks # <<>>
    BY <1>1, <1>4, Opens DEF Same
  <2> DEFINE dev == Written(c)
  <2>4. Told(c, dev, text) /\ Close(c, dev)
    BY <1>6, <2>2
  <2> HIDE DEF dev
  <2> QED BY <1>3, <2>3, <2>4, Closed
<1>7. CASE CloseWaits(c, Written(c))
  <2>1. chunk' = c /\ device' = Written(c) /\ mapped' = Mapped(c) /\ UNCHANGED <<seq, mirror, jump, hand>>
    BY <1>7 DEF CloseWaits
  <2>2. device' = Written(c)'
    <3>1. Computed(device', c.toks, c.at, c.done) = device'
      BY <1>5, <2>1, ComputedAgain DEF Written
    <3>2. Written(c)' = Computed(device', c.toks, c.at, c.done)
      BY <2>1 DEF Written, Computed, Behind
    <3> QED BY <3>1, <3>2
  <2>3. DOMAIN seq' = SeqFields /\ seq'.len = seq.len /\ DOMAIN mirror' = Rows /\ jump' = jump
    BY <1>5, <2>1
  <2>4. \A text : Listed(text) /\ Len(text) = seq.len /\ Holds(mirror, text) => Holds(mirror', text)
    BY <2>1
  <2> QED BY <1>1, <1>4, <2>1, <2>2, <2>3, <2>4, StaysOpen
<1>8. CASE ~Closes(c) /\ MidChunk(c, Written(c))
  <2>1. chunk' = c /\ device' = Written(c) /\ mapped' = Mapped(c) /\ jump' = jump
    BY <1>8 DEF MidChunk
  <2>2. c.done # NumLayers
    BY <1>8 DEF Closes
  <2>3. DOMAIN seq' = SeqFields /\ seq'.len = seq.len
    <3>1. CASE Single(c)
      <4>1. seq' = [seq EXCEPT !.layer = c.done, !.res = Residual(Written(c), seq.len, c.done)]
        BY <1>8, <3>1 DEF MidChunk
      <4> QED BY <1>5, <4>1 DEF SeqFields
    <3>2. CASE ~Single(c)
      BY <1>5, <1>8, <3>2 DEF MidChunk
    <3> QED BY <3>1, <3>2
  <2>4. /\ DOMAIN mirror' = Rows
        /\ \A text : Listed(text) /\ Len(text) = seq.len /\ Holds(mirror, text) => Holds(mirror', text)
    <3>1. CASE Single(c)
      <4>1. mirror' = Splice(seq.len, seq.len + 1, Written(c), mirror)
        BY <1>8, <3>1 DEF MidChunk
      <4>2. ASSUME NEW text, Listed(text), Len(text) = seq.len, Holds(mirror, text)
            PROVE  Holds(mirror', text)
        BY <1>5, <4>1, <4>2, SpliceBehind
      <4> QED BY <4>1, <4>2, SpliceRows
    <3>2. CASE ~Single(c)
      BY <1>5, <1>8, <3>2 DEF MidChunk
    <3> QED BY <3>1, <3>2
  <2> QED BY <1>1, <1>4, <2>1, <2>2, <2>3, <2>4, StaysOpen
<1> QED BY <1>2, <1>6, <1>7, <1>8

-----------------------------------------------------------------------------
(* One row at a time. *)

LEMMA AtRestFits ==
    ASSUME IInv, Idle
    PROVE  /\ jump = NoJump /\ chunk = NoChunk /\ Fit(seq.len, mapped)
           /\ Max2(mapped, Cover(seq.len + 1)) = Cover(seq.len + 1)
           /\ seq.len \in Nat /\ seq.len <= Limit /\ Cover(seq.len + 1) \in Nat
<1>1. seq.len \in Nat /\ seq.len <= Limit /\ seq.len + 1 \in Nat /\ mapped \in Nat
  BY Sizes DEF IInv, Shapes
<1>2. Cover(seq.len + 1) \in Nat
  BY <1>1, CoverIs
<1>3. Fit(seq.len, mapped)
  BY DEF IInv, PagesFit, Fit
<1>4. Max2(mapped, Cover(seq.len + 1)) = Cover(seq.len + 1)
  BY <1>1, <1>2, <1>3 DEF Max2, Fit
<1> QED BY <1>1, <1>2, <1>3, <1>4 DEF Idle

\* A handle at rest whose text and pages stay as they are.
LEMMA FinishKeeps ==
    ASSUME IInv, Idle, DOMAIN seq' = SeqFields, seq'.len = seq.len,
           UNCHANGED <<mirror, device, mapped, chunk, jump>>
    PROVE  IInv'
<1>1. PICK text : /\ Proper(text) /\ Len(text) \in Nat /\ Len(text) = seq.len
                  /\ Holds(device, text) /\ Holds(mirror, text)
  BY TheText
<1>2. jump' = NoJump /\ chunk' = NoChunk /\ Fit(Len(text), mapped') /\ Len(text) <= Limit
  BY <1>1, AtRestFits
<1>3. DOMAIN device' = Rows /\ DOMAIN mirror' = Rows /\ mapped' \in Nat
  BY DEF IInv, Shapes
<1>4. Holds(device', text) /\ Holds(mirror', text) /\ seq'.len = Len(text)
  BY <1>1
<1> QED BY <1>1, <1>2, <1>3, <1>4, Lands

LEMMA FinishesKeep ==
    ASSUME IInv, Idle, NEW x, DOMAIN x = SeqFields, x.len = seq.len,
           NEW o \in Finished(x), Rests(o), UNCHANGED <<mirror, device, mapped, chunk, jump>>
    PROVE  IInv'
<1>1. DOMAIN o.seq = SeqFields /\ o.seq.len = seq.len
  BY FinishedIs
<1> QED BY <1>1, FinishKeeps DEF Rests

LEMMA DecodeReadyKeeps ==
    ASSUME IInv, DecodeReady
    PROVE  IInv'
<1> DEFINE x == [seq EXCEPT !.ready = FALSE]
<1>1. Idle /\ UNCHANGED <<mirror, device, mapped, chunk, jump>>
      /\ IF seq.layer = NumLayers THEN \E o \in Finished(x) : Rests(o)
         ELSE seq' = x /\ UNCHANGED hand
  BY DEF DecodeReady
<1>2. DOMAIN x = SeqFields /\ x.len = seq.len
  BY DEF IInv, Shapes, SeqFields
<1> HIDE DEF x
<1>3. CASE seq.layer = NumLayers
  BY <1>1, <1>2, <1>3, FinishesKeep
<1>4. CASE seq.layer # NumLayers
  BY <1>1, <1>2, <1>4, FinishKeeps
<1> QED BY <1>3, <1>4

LEMMA FinishTokenKeeps ==
    ASSUME IInv, FinishToken
    PROVE  IInv'
<1>1. DOMAIN seq = SeqFields
  BY DEF IInv, Shapes
<1> QED BY <1>1, FinishesKeep DEF FinishToken

LEMMA DecodeKeeps ==
    ASSUME IInv, Decode
    PROVE  IInv'
<1> DEFINE ts == <<hand>>
           at == <<NumLayers>>
           k == 1
           dev == Computed(device, ts, at, NumLayers)
           x == [Behold(device', 1, seq.walk) EXCEPT !.ready = FALSE]
<1>1. /\ Idle /\ hand # NoToken /\ seq.len < Limit /\ UNCHANGED <<chunk, jump>>
      /\ mapped' = Max2(mapped, Cover(seq.len + 1)) /\ device' = dev
      /\ mirror' = Splice(seq.len, seq.len + 1, dev, mirror)
      /\ \E o \in Finished(x) : Rests(o)
  BY DEF Decode, ReadsRow, RowRuns
<1>2. PICK text : /\ Proper(text) /\ Listed(text) /\ Len(text) \in Nat /\ Len(text) = seq.len
                  /\ Holds(device, text) /\ Holds(mirror, text)
  BY TheText
<1>3. /\ jump' = NoJump /\ chunk' = NoChunk /\ mapped' = Cover(seq.len + 1) /\ mapped' \in Nat
      /\ seq.len \in Nat /\ Shapes
  BY <1>1, AtRestFits DEF IInv
<1>4. Listed(ts) /\ Len(ts) = 1 /\ Proper(ts)
  <2>1. ts \in Seq({hand}) /\ Len(ts) = 1 /\ ts[1] = hand
    OBVIOUS
  <2>2. Listed(ts)
    BY <2>1, ListedIs
  <2> QED BY <1>1, <2>1, <2>2 DEF Proper
<1>5. k \in Nat /\ k = 1 /\ k <= Len(ts) /\ \A r \in 1 .. k : at[r] = NumLayers
  BY <1>4
<1>6. seq.len + 1 <= Limit /\ seq.len + k <= Limit
  BY <1>1, <1>3, Sizes
<1>7. DOMAIN seq' = SeqFields /\ seq'.len = seq.len + 1
  <2>1. DOMAIN x = SeqFields /\ x.len = seq.len + 1
    <3> DEFINE y == Behold(device', 1, seq.walk)
    <3>1. DOMAIN y = SeqFields /\ y.len = seq.len + 1
      BY DEF Behold, SeqFields
    <3>2. x = [y EXCEPT !.ready = FALSE]
      OBVIOUS
    <3> HIDE DEF x, y
    <3> QED BY <3>1, <3>2 DEF SeqFields
  <2>2. PICK o \in Finished(x) : Rests(o)
    BY <1>1
  <2> HIDE DEF x
  <2>3. DOMAIN o.seq = SeqFields /\ o.seq.len = x.len
    BY <2>1, FinishedIs
  <2> QED BY <2>1, <2>2, <2>3 DEF Rests
<1> HIDE DEF ts, at, k
<1>8. Holds(dev, text \o SubSeq(ts, 1, k))
  BY <1>2, <1>3, <1>4, <1>5, <1>6, ComputedHolds
<1> DEFINE w == text \o SubSeq(ts, 1, k)
<1>9. Proper(w) /\ Len(w) = Len(text) + 1 /\ SubSeq(w, 1, Len(text)) = text
  BY <1>2, <1>4, <1>5, ProperGrown
<1>10. DOMAIN dev = Rows
  BY DEF Computed
<1> HIDE DEF w, dev
<1>11. Holds(dev, w)
  BY <1>8 DEF w
<1>12. Listed(w) /\ seq'.len = Len(w) /\ Len(w) = seq.len + 1 /\ Len(w) <= Limit
  BY <1>2, <1>6, <1>7, <1>9 DEF Proper
<1>13. Holds(mirror', w)
  <2>1. Holds(mirror, SubSeq(w, 1, seq.len))
    BY <1>2, <1>9
  <2> DEFINE hi == seq.len + 1
  <2>2. hi \in Nat /\ Len(w) <= hi /\ seq.len <= Len(w)
    BY <1>3, <1>12
  <2>3. mirror' = Splice(seq.len, hi, dev, mirror)
    BY <1>1
  <2> HIDE DEF hi
  <2> QED BY <1>3, <1>11, <1>12, <2>1, <2>2, <2>3, SpliceHolds
<1>14. Fit(Len(w), mapped')
  <2>1. seq.len + 1 \in Nat /\ seq.len + 1 + 1 \in Nat /\ seq.len + 1 <= seq.len + 1 + 1
    BY <1>3
  <2>2. Cover(seq.len + 1) <= Cover(seq.len + 1 + 1) /\ Cover(seq.len + 1) \in Nat
    BY <2>1, MoreCover, CoverIs
  <2> QED BY <1>3, <1>12, <2>2 DEF Fit
<1>15. DOMAIN device' = Rows /\ DOMAIN mirror' = Rows /\ Holds(device', w)
  BY <1>1, <1>10, <1>11, SpliceRows
<1> QED BY <1>3, <1>7, <1>9, <1>12, <1>13, <1>14, <1>15, Lands

LEMMA DecodeFailsKeeps ==
    ASSUME IInv, NEW n, DecodeFails(n)
    PROVE  IInv'
<1> DEFINE dev == Spoiled(device)
<1>1. /\ Idle /\ UNCHANGED <<chunk, jump>>
      /\ mapped' = Max2(mapped, Cover(seq.len + 1)) /\ device' = dev
      /\ mirror' = Splice(seq.len, seq.len + 1, dev, mirror)
      /\ seq' = [seq EXCEPT !.layer = n, !.res = Junk]
  BY DEF DecodeFails, ReadsRow, RowRuns
<1>2. PICK text : /\ Proper(text) /\ Listed(text) /\ Len(text) \in Nat /\ Len(text) = seq.len
                  /\ Holds(device, text) /\ Holds(mirror, text)
  BY TheText
<1>3. /\ jump' = NoJump /\ chunk' = NoChunk /\ mapped' = Cover(seq.len + 1) /\ mapped' \in Nat
      /\ seq.len \in Nat /\ seq.len <= Limit
  BY <1>1, AtRestFits DEF IInv
<1>4. DOMAIN seq' = SeqFields /\ seq'.len = seq.len
  BY <1>1 DEF IInv, Shapes, SeqFields
<1>5. Holds(device', text) /\ DOMAIN device' = Rows
  <2>1. DOMAIN dev = Rows
    BY DEF Spoiled, Below
  <2>2. Holds(dev, text)
    BY <1>2, BelowHolds DEF Spoiled
  <2> QED BY <1>1, <2>1, <2>2
<1>6. Holds(mirror', text) /\ DOMAIN mirror' = Rows
  <2> HIDE DEF dev
  <2> QED BY <1>1, <1>2, <1>3, SpliceBehind, SpliceRows
<1>7. Fit(Len(text), mapped')
  <2>1. seq.len + 1 \in Nat /\ seq.len <= seq.len + 1
    BY <1>3
  <2>2. Cover(seq.len) <= Cover(seq.len + 1) /\ Cover(seq.len + 1) \in Nat
    BY <1>3, <2>1, MoreCover, CoverIs
  <2> QED BY <1>2, <1>3, <2>2 DEF Fit
<1> QED BY <1>2, <1>3, <1>4, <1>5, <1>6, <1>7, Lands

-----------------------------------------------------------------------------
(* A jump. *)

LEMMA JumpIs ==
    ASSUME IInv, jump # NoJump
    PROVE  /\ chunk = NoChunk /\ DOMAIN jump = JumpFields /\ Listed(jump.toks)
           /\ Len(jump.toks) \in Nat /\ Len(jump.toks) > 1
           /\ Found(jump.entry) /\ jump.entry.seq.len \in Nat /\ jump.entry.seq.len >= 1
           /\ jump.entry.mapped \in Nat /\ jump.entry.mapped <= Cover(jump.entry.seq.len + 1)
           /\ Fit(jump.entry.seq.len, jump.entry.mapped)
           /\ jump.off \in Nat /\ jump.off <= Len(jump.toks) /\ jump.kept \in Nat
           /\ seq.len \in Nat /\ seq.len = jump.entry.seq.len + jump.kept /\ seq.len <= Limit
           /\ mapped \in Nat
<1>1. Jumping /\ Shapes
  BY DEF IInv
<1>2. Len(jump.toks) \in Nat
  BY <1>1, Lengths DEF Jumping
<1>3. /\ chunk = NoChunk /\ DOMAIN jump = JumpFields /\ Listed(jump.toks) /\ Len(jump.toks) > 1
      /\ Found(jump.entry) /\ jump.entry.seq.len >= 1
      /\ jump.off \in 0 .. Len(jump.toks) /\ jump.kept \in Nat
      /\ seq.len = jump.entry.seq.len + jump.kept
  BY <1>1 DEF Jumping
<1>4. seq.len \in Nat /\ seq.len <= Limit /\ mapped \in Nat
  BY <1>1, Sizes DEF Shapes
<1>5. /\ jump.entry.seq.len \in Nat /\ jump.entry.mapped \in Nat
      /\ Fit(jump.entry.seq.len, jump.entry.mapped)
  BY <1>3 DEF Found
<1> QED BY <1>2, <1>3, <1>4, <1>5 DEF Fit

LEMMA PassIs ==
    ASSUME IInv, Passing
    PROVE  /\ Height \in Nat /\ Height >= 1 /\ Height <= MaxRows
           /\ jump.off + Height <= Len(jump.toks)
           /\ (LastPass <=> jump.off + Height = Len(jump.toks))
           /\ Listed(Pass) /\ Len(Pass) = Height
           /\ jump.kept = jump.off /\ jump.off < Len(jump.toks)
           /\ seq.len >= 1 /\ seq.len + Height <= Limit
           /\ Height = 1 => jump.off >= 1
<1> DEFINE rest == Rest(jump)
           lo == jump.off + 1
<1>0. jump # NoJump /\ ~jump.stop
  BY DEF Passing
<1>1. /\ Listed(jump.toks) /\ Len(jump.toks) \in Nat /\ jump.off \in Nat /\ jump.kept \in Nat
      /\ jump.entry.seq.len \in Nat /\ jump.entry.seq.len >= 1 /\ Len(jump.toks) > 1
      /\ seq.len \in Nat /\ seq.len = jump.entry.seq.len + jump.kept
  BY <1>0, JumpIs
<1>2. jump.kept = jump.off /\ jump.off < Len(jump.toks)
      /\ jump.entry.seq.len + Len(jump.toks) <= Limit
  BY <1>0 DEF IInv, Jumping
<1>3. Listed(rest) /\ Len(rest) = Len(jump.toks) - jump.off
  <2>1. lo \in Nat /\ lo >= 1 /\ lo <= Len(jump.toks) + 1
    BY <1>1, <1>2
  <2>2. rest = SubSeq(jump.toks, lo, Len(jump.toks))
    BY DEF Rest
  <2>3. Len(jump.toks) - lo + 1 = Len(jump.toks) - jump.off
    BY <1>1
  <2> HIDE DEF lo, rest
  <2>4. Listed(rest) /\ Len(rest) = Len(jump.toks) - lo + 1
    BY <1>1, <2>1, <2>2, Between
  <2> QED BY <2>3, <2>4
<1>4. Len(rest) \in Nat /\ Len(rest) >= 1
  BY <1>1, <1>2, <1>3
<1>5. Height = Min2(MaxRows, Len(rest)) /\ (LastPass <=> Height = Len(rest))
  BY DEF Height, LastPass
<1>6. Pass = SubSeq(rest, 1, Height)
  BY DEF Pass
<1> HIDE DEF rest
<1>7. /\ Height \in Nat /\ Height >= 1 /\ Height <= Len(rest) /\ Height <= MaxRows
      /\ (Height = MaxRows \/ Height = Len(rest))
  <2>1. Min2(MaxRows, Len(rest)) \in {MaxRows, Len(rest)} /\ Min2(MaxRows, Len(rest)) <= Len(rest)
        /\ Min2(MaxRows, Len(rest)) <= MaxRows
    BY <1>4, Sizes, MoreOrLess
  <2> QED BY <1>4, <1>5, <2>1, Sizes
<1>8. Listed(Pass) /\ Len(Pass) = Height
  BY <1>3, <1>6, <1>7, Headed
<1>9. jump.off + Height <= Len(jump.toks)
  BY <1>1, <1>3, <1>4, <1>7
<1>10. LastPass <=> jump.off + Height = Len(jump.toks)
  <2>1. (Height = Len(rest)) <=> (jump.off + Height = Len(jump.toks))
    BY <1>1, <1>3, <1>7
  <2> QED BY <1>5, <2>1
<1>11. seq.len >= 1 /\ seq.len + Height <= Limit
  BY <1>1, <1>2, <1>7, <1>9, Sizes
<1>12. ASSUME Height = 1 PROVE jump.off >= 1
  <2>1. Height = Len(rest)
    BY <1>7, <1>12, Sizes
  <2> QED BY <1>1, <1>3, <1>12, <2>1
<1> QED BY <1>2, <1>7, <1>8, <1>9, <1>10, <1>11, <1>12

\* A pass leaves the pages of its text.
LEMMA UnmapIs ==
    ASSUME IInv, Passing, NEW n \in Nat, n <= seq.len + Height, jump.entry.seq.len + 1 <= n
    PROVE  UnmapAbove(n) = Cover(n) /\ Cover(n) \in Nat
<1> DEFINE high == seq.len + Height
           base == jump.entry.seq.len + 1
<1>1. /\ high \in Nat /\ base \in Nat /\ mapped \in Nat
      /\ jump.entry.mapped \in Nat /\ jump.entry.mapped <= Cover(base)
  <2>1. jump # NoJump
    BY DEF Passing
  <2>2. /\ jump.entry.seq.len \in Nat /\ mapped \in Nat /\ seq.len \in Nat
        /\ jump.entry.mapped \in Nat /\ jump.entry.mapped <= Cover(jump.entry.seq.len + 1)
    BY <2>1, JumpIs
  <2>3. Height \in Nat
    BY PassIs
  <2> QED BY <2>2, <2>3
<1>2. n <= high /\ base <= n
  OBVIOUS
<1>3. UnmapAbove(n) = Min2(Max2(mapped, Cover(high)), Max2(Cover(n), jump.entry.mapped))
  BY DEF UnmapAbove
<1> HIDE DEF high, base
<1>4. Cover(n) \in Nat /\ Cover(high) \in Nat /\ Cover(base) \in Nat
  BY <1>1, CoverIs
<1>5. Cover(n) <= Cover(high) /\ Cover(base) <= Cover(n)
  BY <1>1, <1>2, MoreCover
<1>6. Max2(Cover(n), jump.entry.mapped) = Cover(n)
  BY <1>1, <1>4, <1>5 DEF Max2
<1>7. Max2(mapped, Cover(high)) \in Nat /\ Max2(mapped, Cover(high)) >= Cover(high)
  BY <1>1, <1>4, MoreOrLess
<1>8. Min2(Max2(mapped, Cover(high)), Cover(n)) = Cover(n)
  BY <1>4, <1>5, <1>7 DEF Min2
<1> QED BY <1>3, <1>4, <1>6, <1>8

\* A jump under way: some text, what it began with in its mirror, and its counts.
LEMMA JumpsOn ==
    ASSUME IInv, jump # NoJump, jump' # NoJump, DOMAIN jump' = JumpFields,
           jump'.toks = jump.toks, jump'.entry = jump.entry, jump'.mirror = jump.mirror,
           jump'.off \in 0 .. Len(jump.toks), jump'.kept \in Nat, jump'.stop \in BOOLEAN,
           DOMAIN seq' = SeqFields, seq'.len = jump.entry.seq.len + jump'.kept, seq'.len <= Limit,
           ~jump'.stop => jump'.kept = jump'.off /\ jump'.off < Len(jump.toks),
           jump'.kept >= 1, mapped' = Cover(seq'.len), chunk' = chunk,
           DOMAIN device' = Rows, DOMAIN mirror' = Rows,
           NEW text, Proper(text), Len(text) = seq'.len,
           Holds(device', text), Holds(mirror', text),
           Holds(jump.mirror, SubSeq(text, 1, jump.entry.seq.len))
    PROVE  IInv'
<1>1. chunk' = NoChunk /\ jump.entry.seq.len \in Nat
  BY JumpIs
<1>2. seq'.len \in Nat
  BY <1>1
<1>3. mapped' \in Nat
  BY <1>2, CoverIs
<1>4. Shapes'
  BY <1>2, <1>3, Sizes DEF Shapes
<1>5. Texts'
  BY DEF Texts
<1>6. Chunked' /\ PagesFit'
  BY <1>1 DEF Chunked, PagesFit, Idle
<1>7. Jumping'
  <2>1. /\ Listed(jump.toks) /\ Len(jump.toks) > 1
        /\ Found(jump.entry) /\ jump.entry.seq.len >= 1
        /\ jump.entry.seq.len + Len(jump.toks) <= Limit
        /\ DOMAIN jump.mirror = Rows
    BY DEF IInv, Jumping
  <2> QED BY <1>1, <2>1 DEF Jumping
<1> QED BY <1>4, <1>5, <1>6, <1>7 DEF IInv

\* The rows a pass computes, as far as any of them.
LEMMA PassTold ==
    ASSUME IInv, Passing, NEW text, TextIs(text), NEW a \in 1 .. Height
    PROVE  Holds(Computed(device, Pass, Unrefused(Pass), NumLayers), text \o SubSeq(Pass, 1, a))
<1> DEFINE at == Unrefused(Pass)
<1>1. /\ Height \in Nat /\ Listed(Pass) /\ Len(Pass) = Height /\ seq.len + Height <= Limit
      /\ seq.len >= 1
  BY PassIs
<1>2. /\ Proper(text) /\ Listed(text) /\ Len(text) \in Nat /\ Len(text) = seq.len
      /\ Holds(device, text)
  BY TextIsSo
<1>3. a \in Nat /\ a <= Height /\ Shapes /\ text # <<>>
  BY <1>1, <1>2, Lengths DEF IInv
<1>4. seq.len + a <= Limit
  BY <1>1, <1>2, <1>3, Sizes
<1>5. \A r \in 1 .. a : at[r] = NumLayers
  BY <1>1, <1>3 DEF Unrefused
<1> HIDE DEF at
<1>6. Holds(Computed(device, Pass, at, NumLayers), text \o SubSeq(Pass, 1, a))
  BY <1>1, <1>2, <1>3, <1>4, <1>5, ComputedHolds
<1> QED BY <1>6 DEF at

LEMMA PassEnded ==
    ASSUME IInv, Passing, NEW text, TextIs(text), NEW a \in 1 .. Height, NEW stop \in BOOLEAN,
           ~stop => a = Height /\ ~LastPass,
           PassEnds(Computed(device, Pass, Unrefused(Pass), NumLayers), a, stop)
    PROVE  IInv' /\ Holds(device', text \o SubSeq(Pass, 1, a))
<1> DEFINE at == Unrefused(Pass)
           dev == Computed(device, Pass, at, NumLayers)
           len == seq.len + a
<1>0. /\ Proper(text) /\ Listed(text) /\ Len(text) \in Nat /\ Len(text) = seq.len
      /\ Holds(device, text) /\ Holds(mirror, text)
      /\ jump # NoJump => Holds(jump.mirror, SubSeq(text, 1, jump.entry.seq.len))
  BY TextIsSo
<1>1. jump # NoJump
  BY DEF Passing
<1>2. /\ Height \in Nat /\ Listed(Pass) /\ Len(Pass) = Height /\ seq.len + Height <= Limit
      /\ jump.off + Height <= Len(jump.toks) /\ (LastPass <=> jump.off + Height = Len(jump.toks))
      /\ jump.kept = jump.off /\ jump.off < Len(jump.toks) /\ seq.len >= 1
  BY PassIs
<1>3. /\ jump.entry.seq.len \in Nat /\ jump.off \in Nat /\ Len(jump.toks) \in Nat /\ seq.len \in Nat
      /\ seq.len = jump.entry.seq.len + jump.off /\ DOMAIN jump = JumpFields /\ Shapes
  BY <1>1, <1>2, JumpIs DEF IInv
<1>4. a \in Nat /\ a >= 1 /\ a <= Height
  BY <1>2
<1>5. len \in Nat /\ seq.len + a <= Limit
  BY <1>2, <1>3, <1>4, Sizes
<1>7. mapped' = Cover(len) /\ mapped' \in Nat
  <2>1. len \in Nat /\ len <= seq.len + Height /\ jump.entry.seq.len + 1 <= len
    <3>1. jump.off >= 0 /\ jump.entry.seq.len >= 0 /\ Height \in Nat
      BY <1>2, <1>3
    <3>2. /\ a <= Height /\ a >= 1 /\ seq.len \in Nat /\ a \in Nat /\ jump.entry.seq.len \in Nat
          /\ jump.off \in Nat /\ seq.len = jump.entry.seq.len + jump.off
      BY <1>3, <1>4
    <3>3. seq.len + a \in Nat /\ seq.len + a <= seq.len + Height /\ jump.entry.seq.len + 1 <= seq.len + a
      BY ONLY <3>1, <3>2
    <3> QED BY <3>3
  <2>2. mapped' = UnmapAbove(len)
    BY DEF PassEnds
  <2> HIDE DEF len
  <2> QED BY <2>1, <2>2, UnmapIs
<1>8. /\ device' = OnPages(Splice(0, len, dev, device), mapped')
      /\ mirror' = OnPages(Splice(seq.len, len, dev, mirror), mapped')
      /\ jump' = [jump EXCEPT !.off = @ + Height, !.kept = @ + a, !.stop = stop]
      /\ chunk' = chunk
  BY DEF PassEnds
<1>9. DOMAIN seq' = SeqFields /\ seq'.len = len
  BY BeholdIs DEF PassEnds
<1>10. text # <<>>
  BY <1>0, <1>2, Lengths
<1> DEFINE w == text \o SubSeq(Pass, 1, a)
<1>11. Holds(dev, w)
  BY PassTold
<1>12. Proper(w) /\ Len(w) = Len(text) + a /\ SubSeq(w, 1, Len(text)) = text
  BY <1>0, <1>2, <1>4, <1>10, ProperGrown
<1> HIDE DEF w, dev
<1>13. Listed(w) /\ Len(w) = len /\ Len(w) \in Nat /\ seq.len <= Len(w)
  <2>1. Listed(w)
    BY <1>12 DEF Proper
  <2>2. Len(w) = seq.len + a
    BY <1>0, <1>12
  <2>3. seq.len <= seq.len + a
    BY <1>3, <1>4
  <2> QED BY <1>5, <2>1, <2>2, <2>3
<1> HIDE DEF len
<1>14. Cover(Len(w)) <= mapped'
  BY <1>7, <1>13
<1>15. Holds(device', w) /\ DOMAIN device' = Rows
  <2> DEFINE z == 0
             d == Splice(z, len, dev, device)
  <2>1. Holds(device, SubSeq(w, 1, z)) /\ z \in Nat /\ z <= Len(w)
    <3>1. Len(SubSeq(w, 1, z)) = z /\ z \in Nat /\ z <= Len(w)
      BY <1>13, Headed
    <3>2. \A x \in Rows : ~(x[1] < Len(SubSeq(w, 1, z)))
      BY <3>1, RowIs
    <3> QED BY <3>1, <3>2 DEF Holds
  <2>2. device' = OnPages(d, mapped')
    BY <1>8
  <2> HIDE DEF z
  <2>3. Holds(d, w)
    BY <1>5, <1>11, <1>13, <2>1, SpliceHolds
  <2> HIDE DEF d
  <2> QED BY <1>7, <1>13, <1>14, <2>2, <2>3, OnPagesHolds, OnPagesRows
<1>16. Holds(mirror', w) /\ DOMAIN mirror' = Rows
  <2> DEFINE m == Splice(seq.len, len, dev, mirror)
  <2>1. Holds(mirror, SubSeq(w, 1, seq.len))
    BY <1>0, <1>12
  <2>2. mirror' = OnPages(m, mapped')
    BY <1>8
  <2>3. Holds(m, w)
    BY <1>3, <1>5, <1>11, <1>13, <2>1, SpliceHolds
  <2> HIDE DEF m
  <2> QED BY <1>7, <1>13, <1>14, <2>2, <2>3, OnPagesHolds, OnPagesRows
<1>17. /\ DOMAIN jump' = JumpFields /\ jump'.off = jump.off + Height /\ jump'.kept = jump.kept + a
       /\ jump'.stop = stop
  BY <1>3, <1>8 DEF JumpFields
<1>18. jump'.toks = jump.toks /\ jump'.entry = jump.entry /\ jump'.mirror = jump.mirror
  BY <1>3, <1>8 DEF JumpFields
<1>19. jump' # NoJump
  BY <1>17 DEF NoJump, JumpFields
<1>20. /\ jump'.off \in 0 .. Len(jump.toks) /\ jump'.kept \in Nat /\ jump'.kept >= 1
       /\ seq'.len = jump.entry.seq.len + jump'.kept /\ seq'.len <= Limit
  <2>1. jump'.off \in Nat /\ jump'.off <= Len(jump.toks)
    BY <1>2, <1>3, <1>17
  <2>2. jump'.kept \in Nat /\ jump'.kept >= 1
    BY <1>2, <1>3, <1>4, <1>17
  <2>3. seq'.len = jump.entry.seq.len + jump'.kept
    BY <1>2, <1>3, <1>4, <1>9, <1>17 DEF len
  <2>4. seq'.len <= Limit
    BY <1>5, <1>9 DEF len
  <2> QED BY <1>3, <2>1, <2>2, <2>3, <2>4
<1>21. ~jump'.stop => jump'.kept = jump'.off /\ jump'.off < Len(jump.toks)
  <2> SUFFICES ASSUME ~stop PROVE jump'.kept = jump'.off /\ jump'.off < Len(jump.toks)
    BY <1>17
  <2>1. a = Height /\ ~(jump.off + Height = Len(jump.toks))
    BY <1>2
  <2>2. jump'.kept = jump.off + Height /\ jump'.off = jump.off + Height
    BY <1>2, <1>17, <2>1
  <2>3. jump.off + Height < Len(jump.toks)
    <3>1. /\ Height \in Nat /\ jump.off \in Nat /\ Len(jump.toks) \in Nat
          /\ jump.off + Height <= Len(jump.toks) /\ jump.off + Height # Len(jump.toks)
      BY <1>2, <1>3, <2>1
    <3> QED BY ONLY <3>1
  <2> QED BY <2>2, <2>3
<1>22. Holds(jump.mirror, SubSeq(w, 1, jump.entry.seq.len))
  <2>1. jump.entry.seq.len <= Len(text) /\ Listed(SubSeq(Pass, 1, a))
    BY <1>0, <1>2, <1>3, <1>4, Headed
  <2>2. SubSeq(w, 1, jump.entry.seq.len) = SubSeq(text, 1, jump.entry.seq.len)
    <3> DEFINE p == SubSeq(Pass, 1, a)
    <3> HIDE DEF p
    <3> QED BY <1>0, <1>3, <2>1, TextOfGrown DEF w, p
  <2> QED BY <1>0, <1>1, <2>2
<1>23. mapped' = Cover(seq'.len) /\ Len(w) = seq'.len /\ jump'.stop \in BOOLEAN
  BY <1>7, <1>9, <1>13, <1>17
<1>24. IInv'
  BY <1>1, <1>8, <1>9, <1>12, <1>15, <1>16, <1>17, <1>18, <1>19, <1>20, <1>21, <1>22, <1>23, JumpsOn
<1> QED BY <1>15, <1>24 DEF w

LEMMA JumpPassKeeps ==
    ASSUME IInv, JumpPass
    PROVE  IInv'
<1>1. Passing
  BY DEF JumpPass
<1>2. PICK a \in 1 .. Height, stop \in BOOLEAN :
         /\ ~stop => a = Height /\ ~LastPass
         /\ PassEnds(Computed(device, Pass, Unrefused(Pass), NumLayers), a, stop)
  BY DEF JumpPass
<1>3. PICK text : TextIs(text)
  BY TheTextIs
<1> QED BY <1>1, <1>2, <1>3, PassEnded

LEMMA JumpLastRowKeeps ==
    ASSUME IInv, JumpLastRow
    PROVE  IInv'
<1>1. Passing /\ Height = 1 /\ PassEnds(Computed(device, Pass, Unrefused(Pass), NumLayers), 1, TRUE)
  BY DEF JumpLastRow
<1>2. 1 \in 1 .. Height
  BY <1>1
<1> DEFINE a == 1
           stop == TRUE
<1>3. a \in 1 .. Height /\ stop \in BOOLEAN /\ (~stop => a = Height /\ ~LastPass)
      /\ PassEnds(Computed(device, Pass, Unrefused(Pass), NumLayers), a, stop)
  BY <1>1, <1>2
<1> HIDE DEF a, stop
<1>4. PICK text : TextIs(text)
  BY TheTextIs
<1> QED BY <1>1, <1>3, <1>4, PassEnded

\* A later pass that failed: nothing of it stays.
LEMMA PassLost ==
    ASSUME IInv, Passing, jump.off >= 1, mapped' = UnmapAbove(seq.len),
           DOMAIN seq' = SeqFields, seq'.len = seq.len,
           NEW dev \in {device, Spoiled(device)}, device' = OnPages(dev, mapped'),
           mirror' = OnPages(mirror, mapped'),
           jump' = [jump EXCEPT !.stop = TRUE], chunk' = chunk, NEW text, TextIs(text)
    PROVE  IInv' /\ Holds(device', text)
<1>0. /\ Proper(text) /\ Listed(text) /\ Len(text) \in Nat /\ Len(text) = seq.len
      /\ Holds(device, text) /\ Holds(mirror, text)
      /\ jump # NoJump => Holds(jump.mirror, SubSeq(text, 1, jump.entry.seq.len))
  BY TextIsSo
<1>1. jump # NoJump
  BY DEF Passing
<1>2. /\ jump.kept = jump.off /\ jump.off \in Nat /\ jump.off <= Len(jump.toks) /\ Len(jump.toks) \in Nat
      /\ seq.len \in Nat /\ seq.len = jump.entry.seq.len + jump.kept /\ seq.len <= Limit
      /\ jump.entry.seq.len \in Nat /\ DOMAIN jump = JumpFields
  BY <1>1, JumpIs, PassIs
<1>3. mapped' = Cover(seq.len) /\ mapped' \in Nat
  <2>1. Height \in Nat
    BY PassIs
  <2>2. seq.len <= seq.len + Height /\ jump.entry.seq.len + 1 <= seq.len
    BY <1>2, <2>1
  <2> QED BY <1>2, <2>2, UnmapIs
<1>4. Cover(Len(text)) <= mapped'
  BY <1>0, <1>3
<1>5. Holds(device', text) /\ DOMAIN device' = Rows
  <2>1. Holds(Spoiled(device), text)
    BY <1>0, <1>2, BelowHolds DEF Spoiled
  <2>2. Holds(dev, text)
    BY <1>0, <2>1
  <2> QED BY <1>0, <1>3, <1>4, <2>2, OnPagesHolds, OnPagesRows
<1>6. Holds(mirror', text) /\ DOMAIN mirror' = Rows
  BY <1>0, <1>3, <1>4, OnPagesHolds, OnPagesRows
<1>7. DOMAIN jump' = JumpFields /\ jump'.off = jump.off /\ jump'.kept = jump.kept
  BY <1>2 DEF JumpFields
<1>8. jump'.stop = TRUE
  BY <1>2 DEF JumpFields
<1>9. jump'.toks = jump.toks /\ jump'.entry = jump.entry /\ jump'.mirror = jump.mirror
  BY <1>2 DEF JumpFields
<1>10. jump' # NoJump
  BY <1>7 DEF NoJump, JumpFields
<1>11. /\ jump'.off \in 0 .. Len(jump.toks) /\ jump'.kept \in Nat /\ jump'.kept >= 1
       /\ seq'.len = jump.entry.seq.len + jump'.kept /\ seq'.len <= Limit
       /\ mapped' = Cover(seq'.len) /\ Len(text) = seq'.len
  BY <1>0, <1>2, <1>3, <1>7
<1>12. jump'.stop \in BOOLEAN /\ (~jump'.stop => jump'.kept = jump'.off /\ jump'.off < Len(jump.toks))
  BY <1>8
<1>13. IInv'
  BY <1>0, <1>1, <1>5, <1>6, <1>7, <1>9, <1>10, <1>11, <1>12, JumpsOn
<1> QED BY <1>5, <1>13

LEMMA JumpPassFailsTells ==
    ASSUME IInv, JumpPassFails, NEW text, TextIs(text)
    PROVE  IInv' /\ Holds(device', text)
<1>1. /\ Passing /\ jump.off > 0 /\ mapped' = UnmapAbove(seq.len)
      /\ mirror' = OnPages(mirror, mapped') /\ jump' = [jump EXCEPT !.stop = TRUE]
      /\ chunk' = chunk /\ seq' = seq
  BY DEF JumpPassFails
<1>2. PICK dev \in {device, Spoiled(device)} : device' = OnPages(dev, mapped')
  BY DEF JumpPassFails
<1>3. jump.off >= 1
  BY <1>1, JumpIs DEF Passing
<1>4. DOMAIN seq' = SeqFields /\ seq'.len = seq.len
  BY <1>1 DEF IInv, Shapes
<1> QED BY <1>1, <1>2, <1>3, <1>4, PassLost

LEMMA JumpPassFailsKeeps ==
    ASSUME IInv, JumpPassFails
    PROVE  IInv'
BY TheTextIs, JumpPassFailsTells

LEMMA JumpLastRowFailsTells ==
    ASSUME IInv, NEW n, JumpLastRowFails(n), NEW text, TextIs(text)
    PROVE  IInv' /\ Holds(device', text)
<1>1. /\ Passing /\ Height = 1 /\ mapped' = UnmapAbove(seq.len)
      /\ mirror' = OnPages(mirror, mapped') /\ jump' = [jump EXCEPT !.stop = TRUE]
      /\ chunk' = chunk /\ seq' = [seq EXCEPT !.layer = n, !.res = Junk]
      /\ device' = OnPages(Spoiled(device), mapped')
  BY DEF JumpLastRowFails
<1>2. jump.off >= 1
  BY <1>1, PassIs
<1>3. DOMAIN seq' = SeqFields /\ seq'.len = seq.len
  BY <1>1 DEF IInv, Shapes, SeqFields
<1> DEFINE dev == Spoiled(device)
<1>4. dev \in {device, Spoiled(device)} /\ device' = OnPages(dev, mapped')
  BY <1>1
<1> HIDE DEF dev
<1> QED BY <1>1, <1>2, <1>3, <1>4, PassLost

LEMMA JumpLastRowFailsKeeps ==
    ASSUME IInv, NEW n, JumpLastRowFails(n)
    PROVE  IInv'
BY TheTextIs, JumpLastRowFailsTells

LEMMA JumpAbortsTells ==
    ASSUME IInv, JumpAborts, NEW text, TextIs(text)
    PROVE  IInv' /\ Holds(device', SubSeq(text, 1, jump.entry.seq.len))
<1>0. /\ Proper(text) /\ Listed(text) /\ Len(text) \in Nat /\ Len(text) = seq.len
      /\ Holds(device, text) /\ Holds(mirror, text)
      /\ jump # NoJump => Holds(jump.mirror, SubSeq(text, 1, jump.entry.seq.len))
  BY TextIsSo
<1>1. /\ jump # NoJump /\ seq' = jump.entry.seq /\ mapped' = jump.entry.mapped
      /\ device' = OnPages(Below(device, jump.entry.seq.len), mapped')
      /\ mirror' = OnPages(jump.mirror, mapped')
      /\ jump' = NoJump /\ chunk' = chunk
  BY DEF JumpAborts
<1> DEFINE n == jump.entry.seq.len
           w == SubSeq(text, 1, n)
<1>2. /\ chunk' = NoChunk /\ n \in Nat /\ n <= Len(text) /\ n <= Limit
      /\ mapped' \in Nat /\ Fit(n, mapped') /\ DOMAIN seq' = SeqFields /\ seq'.len = n
  <2>1. /\ chunk = NoChunk /\ n \in Nat /\ jump.kept \in Nat /\ seq.len \in Nat
        /\ seq.len = n + jump.kept /\ seq.len <= Limit /\ jump.entry.mapped \in Nat
        /\ Fit(n, jump.entry.mapped) /\ Found(jump.entry)
    BY <1>1, JumpIs
  <2>2. n <= Len(text) /\ n <= Limit
    BY <1>0, <2>1, Sizes
  <2> QED BY <1>1, <2>1, <2>2 DEF Found
<1>3. Listed(w) /\ Len(w) = n /\ Proper(w)
  <2> HIDE DEF n
  <2>1. Listed(w) /\ Len(w) = n /\ \A i \in 1 .. n : w[i] = text[i]
    BY <1>0, <1>2, Headed
  <2> HIDE DEF w
  <2>2. ASSUME w # <<>> PROVE w[1] # NoToken
    <3>1. n >= 1
      BY <2>1, <2>2, Lengths
    <3>2. w[1] = text[1] /\ text # <<>>
      BY <1>0, <1>2, <2>1, <3>1, Lengths
    <3> QED BY <1>0, <3>2 DEF Proper
  <2> QED BY <2>1, <2>2 DEF Proper
<1>4. Holds(device, w) /\ Holds(jump.mirror, w)
  <2>1. Holds(device, w)
    <3> HIDE DEF n
    <3> QED BY <1>0, <1>2, HeadHolds
  <2> QED BY <1>0, <1>1, <2>1
<1> HIDE DEF w
<1>5. Cover(Len(w)) <= mapped' /\ Fit(Len(w), mapped') /\ Len(w) <= Limit /\ seq'.len = Len(w)
  BY <1>2, <1>3 DEF Fit
<1>6. Holds(device', w) /\ DOMAIN device' = Rows
  <2> DEFINE d == Below(device, n)
  <2>1. Holds(d, w)
    <3> HIDE DEF n
    <3>1. Len(w) <= n
      BY <1>2, <1>3
    <3> QED BY <1>2, <1>3, <1>4, <3>1, BelowHolds
  <2>2. device' = OnPages(d, mapped')
    BY <1>1
  <2> HIDE DEF d
  <2> QED BY <1>2, <1>3, <1>5, <2>1, <2>2, OnPagesHolds, OnPagesRows
<1>7. Holds(mirror', w) /\ DOMAIN mirror' = Rows
  BY <1>1, <1>2, <1>3, <1>4, <1>5, OnPagesHolds, OnPagesRows
<1>8. IInv'
  BY <1>1, <1>2, <1>3, <1>5, <1>6, <1>7, Lands
<1> QED BY <1>6, <1>8 DEF w

LEMMA JumpAbortsKeeps ==
    ASSUME IInv, JumpAborts
    PROVE  IInv'
BY TheTextIs, JumpAbortsTells

LEMMA JumpReturnKeeps ==
    ASSUME IInv, JumpReturn
    PROVE  IInv'
<1>0. PICK text : /\ Proper(text) /\ Listed(text) /\ Len(text) \in Nat /\ Len(text) = seq.len
                  /\ Holds(device, text) /\ Holds(mirror, text)
  BY TheText
<1>1. /\ jump # NoJump /\ jump.stop /\ seq' = [seq EXCEPT !.ready = TRUE] /\ jump' = NoJump
      /\ UNCHANGED <<mirror, device, mapped, chunk>>
  BY DEF JumpReturn
<1>2. /\ chunk' = NoChunk /\ seq.len \in Nat /\ seq.len <= Limit /\ mapped = Cover(seq.len)
      /\ DOMAIN device' = Rows /\ DOMAIN mirror' = Rows /\ mapped' \in Nat
  BY <1>1, JumpIs DEF IInv, Jumping, Shapes
<1>3. DOMAIN seq' = SeqFields /\ seq'.len = seq.len
  BY <1>1 DEF IInv, Shapes, SeqFields
<1>4. Fit(Len(text), mapped')
  <2>1. seq.len + 1 \in Nat /\ seq.len <= seq.len + 1
    BY <1>2
  <2>2. Cover(seq.len) <= Cover(seq.len + 1) /\ Cover(seq.len) \in Nat
    BY <1>2, <2>1, MoreCover, CoverIs
  <2> QED BY <1>0, <1>1, <1>2, <2>2 DEF Fit
<1>5. Len(text) <= Limit /\ seq'.len = Len(text) /\ Holds(device', text) /\ Holds(mirror', text)
  BY <1>0, <1>1, <1>2, <1>3
<1> QED BY <1>0, <1>1, <1>2, <1>3, <1>4, <1>5, Lands

LEMMA JumpForwardKeeps ==
    ASSUME IInv, NEW draft \in Drafts, JumpForward(draft)
    PROVE  IInv'
<1> DEFINE room == Min2(Len(draft), Limit - seq.len - 1)
           rows == SubSeq(draft, 1, room)
           ts == <<hand>> \o rows
           n == LegalPrefix(ts)
<1>0. PICK text : /\ Proper(text) /\ Listed(text) /\ Len(text) \in Nat /\ Len(text) = seq.len
                  /\ Holds(device, text) /\ Holds(mirror, text)
  BY TheText
<1>1. /\ Idle /\ seq.len > 0 /\ room > 0 /\ n > 1
      /\ jump' = [toks |-> SubSeq(ts, 1, n), off |-> 0, kept |-> 0, stop |-> FALSE,
                  walk |-> seq.walk, entry |-> Entry, mirror |-> mirror]
      /\ mapped' = Max2(mapped, Cover(seq.len + n))
      /\ UNCHANGED <<seq, mirror, device, chunk, hand>>
  BY DEF JumpForward, InHand
<1>2. /\ jump = NoJump /\ chunk = NoChunk /\ Fit(seq.len, mapped) /\ seq.len \in Nat /\ mapped \in Nat
      /\ DOMAIN seq = SeqFields /\ DOMAIN mirror = Rows /\ Shapes
  BY <1>1, AtRestFits DEF IInv, Shapes
<1>3. Listed(draft) /\ Len(draft) \in Nat
  <2>1. PICK m \in 1 .. MaxDraft : draft \in [1 .. m -> Tokens]
    BY DEF Drafts
  <2>2. draft \in Seq(Tokens)
    BY <2>1, Sizes
  <2> QED BY <2>2, ListedIs
<1>4. room \in Nat /\ room <= Len(draft) /\ seq.len + 1 + room <= Limit
  <2> DEFINE left == Limit - seq.len - 1
  <2>1. left \in Int /\ seq.len + 1 + left = Limit
    BY <1>2, Sizes
  <2>2. room = Min2(Len(draft), left)
    OBVIOUS
  <2> HIDE DEF left, room
  <2>3. room <= Len(draft) /\ room <= left /\ room \in Int
    BY <1>3, <2>1, <2>2 DEF Min2
  <2> QED BY <1>1, <1>2, <1>3, <2>1, <2>3, Sizes
<1> HIDE DEF room
<1>5. Listed(ts) /\ Len(ts) = 1 + room
  <2>1. Listed(rows) /\ Len(rows) = room
    BY <1>3, <1>4, Headed
  <2> HIDE DEF rows
  <2> DEFINE one == <<hand>>
  <2>2. one \in Seq({hand}) /\ Len(one) = 1
    OBVIOUS
  <2>3. Listed(one)
    BY <2>2, ListedIs
  <2> HIDE DEF one
  <2>4. Listed(one \o rows) /\ Len(one \o rows) = Len(one) + Len(rows)
    BY <2>1, <2>3, Joined
  <2> QED BY <2>1, <2>2, <2>4 DEF one
<1> HIDE DEF ts
<1>6. n \in Nat /\ n <= Len(ts) /\ seq.len + n <= Limit
  <2>1. n \in 1 .. Len(ts) /\ Len(ts) \in Nat
    BY <1>4, <1>5, LegalPrefixIs
  <2> HIDE DEF n
  <2> QED BY <1>2, <1>4, <1>5, <2>1, Sizes
<1> HIDE DEF n
<1> DEFINE toks == SubSeq(ts, 1, n)
<1>7. Listed(toks) /\ Len(toks) = n
  BY <1>5, <1>6, Headed
<1>8. /\ DOMAIN jump' = JumpFields /\ jump'.toks = toks /\ jump'.off = 0 /\ jump'.kept = 0
      /\ jump'.stop = FALSE /\ jump'.entry = Entry /\ jump'.mirror = mirror
  BY <1>1 DEF JumpFields
<1> HIDE DEF toks
<1>9. jump' # NoJump
  BY <1>8 DEF NoJump, JumpFields
<1>10. mapped' \in Nat
  <2>1. seq.len + n \in Nat
    BY <1>2, <1>6
  <2>2. Cover(seq.len + n) \in Nat
    BY <2>1, CoverIs
  <2> QED BY <1>1, <1>2, <2>2, MoreOrLess
<1>11. Shapes'
  BY <1>1, <1>2, <1>10 DEF Shapes
<1>12. Found(Entry) /\ Entry.seq.len = seq.len
  BY <1>2 DEF Found, Entry
<1>13. Texts'
  <2>1. SubSeq(text, 1, seq.len) = text
    BY <1>0, WholeHead
  <2>2. Holds(jump'.mirror, SubSeq(text, 1, jump'.entry.seq.len))
    BY <1>0, <1>8, <1>12, <2>1
  <2> QED BY <1>0, <1>1, <2>2 DEF Texts
<1>14. Chunked' /\ PagesFit'
  BY <1>1, <1>2, <1>9 DEF Chunked, PagesFit, Idle
<1>15. Jumping'
  <2>1. Len(toks) > 1 /\ jump'.off \in 0 .. Len(toks) /\ jump'.off < Len(toks) /\ jump'.kept = jump'.off
        /\ jump'.kept \in Nat /\ ~(jump'.kept >= 1) /\ ~jump'.stop /\ jump'.stop \in BOOLEAN
    BY <1>1, <1>6, <1>7, <1>8
  <2>2. /\ Entry.seq.len >= 1 /\ Entry.seq.len + Len(toks) <= Limit
        /\ seq'.len = Entry.seq.len + jump'.kept
    BY <1>1, <1>2, <1>6, <1>7, <1>8, <1>12
  <2>3. chunk' = NoChunk /\ DOMAIN jump'.mirror = Rows
    BY <1>1, <1>2, <1>8
  <2> QED BY <1>7, <1>8, <1>12, <2>1, <2>2, <2>3 DEF Jumping
<1> QED BY <1>11, <1>13, <1>14, <1>15 DEF IInv

-----------------------------------------------------------------------------
(* The theorems. *)

LEMMA InitKeeps == Init => IInv
<1> SUFFICES ASSUME Init PROVE IInv
  OBVIOUS
<1>1. /\ seq = Fresh /\ mapped = 0 /\ chunk = NoChunk /\ jump = NoJump
      /\ DOMAIN mirror = Rows /\ DOMAIN device = Rows
  BY DEF Init
<1>2. DOMAIN seq = SeqFields /\ seq.len = 0
  BY <1>1 DEF Fresh, SeqFields
<1>3. Proper(<<>>) /\ Len(<<>>) = 0 /\ Holds(device, <<>>) /\ Holds(mirror, <<>>)
  <2>1. \A x \in Rows : ~(x[1] < Len(<<>>))
    BY Empty, RowIs
  <2> QED BY <2>1, Empty DEF Proper, Holds
<1>4. Shapes
  BY <1>1, <1>2, Sizes DEF Shapes
<1>5. Texts
  BY <1>1, <1>2, <1>3 DEF Texts
<1>6. PagesFit
  <2>1. Cover(0 + 1) \in Nat
    BY CoverIs
  <2> QED BY <1>1, <1>2, <2>1, CoverNone DEF PagesFit
<1> QED BY <1>1, <1>4, <1>5, <1>6 DEF IInv, Chunked, Jumping

LEMMA StutterKeeps ==
    ASSUME IInv, UNCHANGED vars
    PROVE  IInv'
<1>1. UNCHANGED <<seq, mirror, device, mapped, chunk, jump, hand>>
  BY DEF vars
<1>2. Shapes' /\ Texts' /\ Jumping' /\ PagesFit'
  BY <1>1 DEF IInv, Shapes, Texts, Jumping, PagesFit, Idle
<1>3. Chunked'
  BY <1>1 DEF IInv, Chunked, Single, Written, Computed, Behind
<1> QED BY <1>2, <1>3 DEF IInv

\* The rows below the length hold one text in mirror and device, through every slice,
\* close, rollback, failure and pass; an open chunk has its text and its rows to go back
\* to, a jump its count of rows and pages.
THEOREM Invariance == Spec => []IInv
<1>1. IInv /\ [Next]_vars => IInv'
  <2> SUFFICES ASSUME IInv, [Next]_vars PROVE IInv'
    OBVIOUS
  <2>1. CASE \E kind \in {"prompt", "exact"}, ts \in Chunks : EmbedRows(kind, ts)
    BY <2>1, EmbedRowsKeeps
  <2>2. CASE \E n \in 1 .. NumLayers : Slice(n)
    BY <2>2, SliceKeeps
  <2>3. CASE SliceFails
    BY <2>3, SliceFailsKeeps
  <2>4. CASE CloseAgain
    BY <2>4, CloseAgainKeeps
  <2>5. CASE Abandon
    BY <2>5, AbandonKeeps
  <2>6. CASE Reset
    BY <2>6, ResetKeeps
  <2>7. CASE Decode
    BY <2>7, DecodeKeeps
  <2>8. CASE \E n \in 0 .. Top : DecodeFails(n)
    BY <2>8, DecodeFailsKeeps
  <2>9. CASE DecodeReady
    BY <2>9, DecodeReadyKeeps
  <2>10. CASE FinishToken
    BY <2>10, FinishTokenKeeps
  <2>11. CASE \E draft \in Drafts : JumpForward(draft)
    BY <2>11, JumpForwardKeeps
  <2>12. CASE JumpPass
    BY <2>12, JumpPassKeeps
  <2>13. CASE JumpPassFails
    BY <2>13, JumpPassFailsKeeps
  <2>14. CASE JumpAborts
    BY <2>14, JumpAbortsKeeps
  <2>15. CASE JumpLastRow
    BY <2>15, JumpLastRowKeeps
  <2>16. CASE \E n \in 0 .. Top : JumpLastRowFails(n)
    BY <2>16, JumpLastRowFailsKeeps
  <2>17. CASE JumpReturn
    BY <2>17, JumpReturnKeeps
  <2>18. CASE UNCHANGED vars
    BY <2>18, StutterKeeps
  <2> QED
    BY <2>1, <2>2, <2>3, <2>4, <2>5, <2>6, <2>7, <2>8, <2>9, <2>10, <2>11, <2>12, <2>13,
       <2>14, <2>15, <2>16, <2>17, <2>18 DEF Next
<1> QED BY <1>1, InitKeeps, PTL DEF Spec

\* Every row of the text, at every layer, is the row of that text, on the device as in the
\* mirror: whatever the slices, partial commits, rollbacks and failures between.
THEOREM RowsAgreeHolds == Spec => []RowsAgree
<1>1. IInv => RowsAgree
  <2> SUFFICES ASSUME IInv, NEW x \in Rows, x[1] < seq.len
               PROVE  /\ device[x] = SubSeq(device[<<seq.len - 1, Top>>], 1, x[1] + 1)
                      /\ mirror[x] = device[x]
    BY DEF RowsAgree
  <2>1. PICK text : /\ Proper(text) /\ Listed(text) /\ Len(text) \in Nat /\ Len(text) = seq.len
                    /\ Holds(device, text) /\ Holds(mirror, text)
    BY TheText
  <2>2. device[x] = SubSeq(text, 1, x[1] + 1) /\ mirror[x] = SubSeq(text, 1, x[1] + 1)
    BY <2>1 DEF Holds
  <2>3. device[<<seq.len - 1, Top>>] = text
    <3> DEFINE p == seq.len - 1
    <3>1. p \in Nat /\ p < Limit /\ p < Len(text) /\ p + 1 = Len(text)
      BY <2>1, RowIs, Sizes DEF IInv, Shapes
    <3>2. Top \in Nat /\ Top < NumLayers
      BY Sizes DEF Top
    <3> HIDE DEF p
    <3>3. <<p, Top>> \in Rows /\ <<p, Top>>[1] = p
      BY <3>1, <3>2, IsRow
    <3>4. device[<<p, Top>>] = SubSeq(text, 1, <<p, Top>>[1] + 1)
      BY <2>1, <3>1, <3>3 DEF Holds
    <3>5. device[<<p, Top>>] = SubSeq(text, 1, Len(text))
      BY <3>1, <3>3, <3>4
    <3> QED BY <2>1, <3>5, WholeHead DEF p
  <2> QED BY <2>2, <2>3
<1> QED BY <1>1, Invariance, PTL

\* Between calls the table covers the text and no more than the row after it: every
\* chunk and every jump gives back what its dropped rows had mapped.
THEOREM PagesFitHolds == Spec => []PagesFit
<1>1. IInv => PagesFit
  BY DEF IInv
<1> QED BY <1>1, Invariance, PTL

\* The rows a draft's close puts back, above those of its footprint.
LEMMA PutBack ==
    ASSUME Shapes, NEW c, NEW dev, NEW f \in Nat, c.snap = chunk.was, DOMAIN chunk.was = Rows,
           CommitPrefix(c, dev, f), NEW x \in Rows, x[1] >= seq.len + f + 1
    PROVE  device'[x] = OnPages(chunk.was, mapped')[x]
<1>1. c.snap # NoRows
  <2>1. <<0, 0>> \in Rows
    BY Sizes DEF Rows
  <2>2. DOMAIN NoRows = {}
    BY DEF NoRows
  <2> QED BY <2>1, <2>2
<1>2. Restored(c, dev, f + 1)[x] = chunk.was[x]
  <2>1. x[1] < Limit /\ x[1] \in Nat /\ seq.len \in Nat
    BY RowIs, Sizes DEF Shapes
  <2>2. seq.len + (f + 1) <= x[1]
    BY <2>1
  <2>3. Restored(c, dev, f + 1) = Splice(seq.len + (f + 1), Limit, c.snap, dev)
    BY <1>1 DEF Restored
  <2> DEFINE lo == seq.len + (f + 1)
  <2>4. Restored(c, dev, f + 1)[x] = Splice(lo, Limit, c.snap, dev)[x] /\ lo <= x[1]
    BY <2>2, <2>3
  <2> HIDE DEF lo
  <2>5. Splice(lo, Limit, c.snap, dev)[x] = c.snap[x]
    BY <2>1, <2>4 DEF Splice
  <2> QED BY <2>4, <2>5
<1> DEFINE d == Restored(c, dev, f + 1)
<1>3. device' = OnPages(d, mapped') /\ d[x] = chunk.was[x]
  BY <1>2 DEF CommitPrefix
<1> HIDE DEF d
<1>4. OnPages(d, mapped')[x] = OnPages(chunk.was, mapped')[x]
  BY <1>3 DEF OnPages
<1> QED BY <1>3, <1>4

\* A row above what a close keeps, and above a refused row's footprint.
AboveKept(x) == x[1] > seq'.len \/ (x[1] = seq'.len /\ seq'.res # Junk)

LEMMA DraftPutsBack ==
    ASSUME Shapes, NEW c, NEW dev, c.kind = "exact", c.snap = chunk.was, DOMAIN chunk.was = Rows,
           Listed(c.toks), c.entry.seq.len = seq.len, Close(c, dev), seq'.len > seq.len,
           NEW x \in Rows, AboveKept(x)
    PROVE  device'[x] = OnPages(chunk.was, mapped')[x]
<1>0. Len(c.toks) \in Nat /\ seq.len \in Nat /\ x[1] \in Nat
  BY Lengths, RowIs, Sizes DEF Shapes
<1>1. CASE CommitPrompt(c, dev)
  BY <1>1 DEF CommitPrompt
<1>2. CASE CommitDraft(c, dev)
  <2>1. PICK a \in 1 .. Len(c.toks) :
           /\ \E o \in Finished(Behold(dev, a, WalkAfter(c.toks, a))) : Rests(o)
           /\ CommitPrefix(c, dev, a - 1)
    BY <1>2 DEF CommitDraft
  <2>2. seq'.len = seq.len + a
    <3> DEFINE y == Behold(dev, a, WalkAfter(c.toks, a))
    <3>1. DOMAIN y = SeqFields /\ y.len = seq.len + a
      BY BeholdIs
    <3>2. PICK o \in Finished(y) : Rests(o)
      BY <2>1
    <3> HIDE DEF y
    <3> QED BY <3>1, <3>2, FinishedIs DEF Rests
  <2> DEFINE f == a - 1
  <2>3. f \in Nat /\ x[1] >= seq.len + f + 1 /\ CommitPrefix(c, dev, f)
    BY <1>0, <2>1, <2>2 DEF AboveKept
  <2> HIDE DEF f
  <2> QED BY <2>3, PutBack
<1>3. CASE Refuse(c, dev)
  <2>1. PICK j \in 1 .. Len(c.toks) :
           /\ CommitPrefix(c, dev, j - 1)
           /\ seq' = [len |-> seq.len + j - 1, layer |-> c.at[j], ready |-> FALSE, res |-> Junk,
                      walk |-> IF c.kind = "exact" THEN WalkAfter(c.toks, j) ELSE seq.walk]
    BY <1>3 DEF Refuse
  <2>2. seq'.len = seq.len + j - 1 /\ seq'.res = Junk
    BY <2>1
  <2>3. x[1] > seq'.len
    BY <2>2 DEF AboveKept
  <2> DEFINE f == j - 1
  <2>4. f \in Nat /\ x[1] >= seq.len + f + 1 /\ CommitPrefix(c, dev, f)
    BY <1>0, <2>1, <2>2, <2>3
  <2> HIDE DEF f
  <2> QED BY <2>4, PutBack
<1>4. CASE CloseFails(c, dev)
  <2>1. seq'.len = seq.len
    BY <1>4 DEF CloseFails, Rollback
  <2> QED BY <1>0, <2>1
<1> QED BY <1>1, <1>2, <1>3, <1>4 DEF Close

\* A draft that keeps some of its rows leaves the device, above them and a refused row's
\* footprint, as it found it: nothing of a row that was dropped stays behind.
THEOREM DraftRowsRestoredHolds == Spec => DraftRowsRestored
<1> DEFINE A == /\ chunk # NoChunk /\ chunk' = NoChunk /\ chunk.kind = "exact" /\ ~Single(chunk)
                /\ seq'.len > seq.len
           B == \A x \in Rows :
                   x[1] > seq'.len \/ (x[1] = seq'.len /\ seq'.res # Junk)
                   => device'[x] = OnPages(chunk.was, mapped')[x]
<1>1. IInv /\ [Next]_vars => [A => B]_vars
  <2> SUFFICES ASSUME IInv, Next, A, NEW x \in Rows, AboveKept(x)
               PROVE  device'[x] = OnPages(chunk.was, mapped')[x]
    BY DEF AboveKept
  <2>0. /\ chunk # NoChunk /\ chunk' = NoChunk /\ chunk.kind = "exact" /\ ~Single(chunk)
        /\ seq'.len > seq.len
    OBVIOUS
  <2> HIDE DEF A, B
  <2>1. /\ jump = NoJump /\ Shapes /\ Chunked /\ DOMAIN chunk.was = Rows
        /\ chunk.entry.seq.len = seq.len /\ Listed(chunk.toks) /\ seq.len \in Nat
    BY <2>0, Opens, Sizes DEF Chunked, Shapes
  <2>2. ~Idle /\ ~Passing
    BY <2>0, <2>1 DEF Idle, Passing
  <2>3. ASSUME NEW c, Same(c), NEW dev, Rollback(c, dev) PROVE FALSE
    <3>1. seq'.len = seq.len
      BY <2>1, <2>3 DEF Rollback, Same
    <3> QED BY <2>0, <2>1, <3>1
  <2>4. CASE \E n \in 1 .. NumLayers : Slice(n)
    <3>1. PICK n \in 1 .. NumLayers : Slice(n)
      BY <2>4
    <3>2. PICK c \in Advanced(n) :
             IF Closes(c) THEN Close(c, Written(c)) \/ CloseWaits(c, Written(c)) ELSE MidChunk(c, Written(c))
      BY <3>1 DEF Slice
    <3>3. Same(c) /\ (c.kind = "exact" /\ ~Single(c) => c.snap = c.was)
      BY <2>0, <2>1, <3>1, AdvancedIs DEF Slice
    <3>4. c.kind = "exact" /\ c.snap = chunk.was /\ c.toks = chunk.toks /\ c.entry = chunk.entry
      BY <2>0, <3>3 DEF Same, Single
    <3>5. CASE Close(c, Written(c))
      <4> DEFINE dev == Written(c)
      <4>1. Close(c, dev)
        BY <3>5
      <4> HIDE DEF dev
      <4> QED BY <2>0, <2>1, <3>4, <4>1, DraftPutsBack
    <3>6. CASE CloseWaits(c, Written(c)) \/ MidChunk(c, Written(c))
      <4>1. chunk' = c
        BY <3>6 DEF CloseWaits, MidChunk
      <4>2. chunk.toks # <<>>
        BY <2>0, Opens
      <4>3. chunk' # NoChunk
        BY <3>4, <4>1, <4>2 DEF NoChunk
      <4> QED BY <2>0, <4>3
    <3> QED BY <3>2, <3>5, <3>6
  <2>5. CASE CloseAgain
    <3>1. Close(chunk, device) /\ chunk.done = NumLayers
      BY <2>5 DEF CloseAgain
    <3>2. chunk.snap = chunk.was
      BY <2>0, <2>1, <3>1, Sizes DEF Chunked
    <3> QED BY <2>0, <2>1, <3>1, <3>2, DraftPutsBack
  <2>6. CASE SliceFails
    BY <2>0, <2>1, <2>3, <2>6, SnappedIs DEF SliceFails
  <2>7. CASE Abandon
    <3>1. Same(chunk)
      BY <2>0, <2>1 DEF Chunked, Same
    <3> QED BY <2>3, <2>7, <3>1 DEF Abandon
  <2>8. CASE Reset
    <3>1. seq'.len = 0
      BY <2>8 DEF Reset, Fresh
    <3> QED BY <2>0, <2>1, <3>1
  <2>9. CASE \/ \E kind \in {"prompt", "exact"}, ts \in Chunks : EmbedRows(kind, ts)
             \/ Decode \/ (\E n \in 0 .. Top : DecodeFails(n)) \/ DecodeReady \/ FinishToken
             \/ \E draft \in Drafts : JumpForward(draft)
    BY <2>2, <2>9 DEF EmbedRows, Decode, DecodeFails, ReadsRow, DecodeReady, FinishToken, JumpForward
  <2>10. CASE \/ JumpPass \/ JumpPassFails \/ JumpAborts \/ JumpLastRow
              \/ (\E n \in 0 .. Top : JumpLastRowFails(n)) \/ JumpReturn
    BY <2>1, <2>2, <2>10 DEF JumpPass, JumpPassFails, JumpAborts, JumpLastRow, JumpLastRowFails, JumpReturn
  <2> QED BY <2>4, <2>5, <2>6, <2>7, <2>8, <2>9, <2>10 DEF Next
<1>2. Spec => [][A => B]_vars
  BY <1>1, Invariance, PTL DEF Spec
<1> QED BY <1>2 DEF DraftRowsRestored

-----------------------------------------------------------------------------
(* The walk past a draft's rows. *)

LEMMA LeastOf ==
    ASSUME NEW T, T \subseteq Nat, T # {}
    PROVE  \E n \in T : \A m \in T : n <= m
<1> DEFINE R == OpToRel(<, Nat)
<1>1. IsWellFoundedOn(R, Nat) /\ \A x, y \in Nat : y < x => <<y, x>> \in R
  BY NatLessThanWellFounded DEF OpToRel
<1> HIDE DEF R
<1>2. PICK x \in T : \A y \in T : ~(<<y, x>> \in R)
  BY <1>1, WFMin
<1>3. \A y \in T : ~(y < x)
  BY <1>1, <1>2
<1> QED BY <1>3

\* f is the walk over the first n of ts from w.
Walk(f, w, ts, n) == f = [i \in 0 .. n |-> IF i = 0 THEN w ELSE Step(f[i - 1], ts[i])]

LEMMA WalkAt ==
    ASSUME NEW f, NEW w, NEW ts, NEW n \in Nat, Walk(f, w, ts, n)
    PROVE  /\ DOMAIN f = 0 .. n /\ f[0] = w
           /\ \A i \in 1 .. n : f[i] = Step(f[i - 1], ts[i])
<1>1. DOMAIN f = 0 .. n
  BY DEF Walk
<1>2. \A i \in 0 .. n : f[i] = IF i = 0 THEN w ELSE Step(f[i - 1], ts[i])
  BY DEF Walk
<1>3. 0 \in 0 .. n /\ \A i \in 1 .. n : i \in 0 .. n /\ i # 0
  OBVIOUS
<1> QED BY <1>1, <1>2, <1>3

LEMMA WalkMade ==
    ASSUME NEW f, NEW w, NEW ts, NEW n \in Nat, f = [i \in 0 .. n |-> f[i]], f[0] = w,
           \A i \in 1 .. n : f[i] = Step(f[i - 1], ts[i])
    PROVE  Walk(f, w, ts, n)
<1>1. \A i \in 0 .. n : f[i] = IF i = 0 THEN w ELSE Step(f[i - 1], ts[i])
  <2> TAKE i \in 0 .. n
  <2>1. CASE i = 0
    BY <2>1
  <2>2. CASE i # 0
    <3>1. i \in 1 .. n
      BY <2>2
    <3> QED BY <2>2, <3>1
  <2> QED BY <2>1, <2>2
<1> QED BY <1>1 DEF Walk

\* There is a walk over any list of tokens, and only one.
LEMMA WalkExists ==
    ASSUME NEW w, NEW ts, NEW n \in Nat
    PROVE  \E f : Walk(f, w, ts, n)
<1> DEFINE Bad == {m \in Nat : ~\E f : Walk(f, w, ts, m)}
<1> SUFFICES ASSUME Bad # {} PROVE FALSE
  OBVIOUS
<1>1. PICK m \in Bad : \A k \in Bad : m <= k
  <2>1. Bad \subseteq Nat
    OBVIOUS
  <2> HIDE DEF Bad
  <2> QED BY <2>1, LeastOf
<1>2. m \in Nat /\ ~\E f : Walk(f, w, ts, m)
  OBVIOUS
<1>3. CASE m = 0
  <2> DEFINE f == [i \in 0 .. 0 |-> w]
  <2>1. f = [i \in 0 .. m |-> f[i]] /\ f[0] = w /\ 1 .. m = {}
    BY <1>3
  <2> HIDE DEF f
  <2>2. Walk(f, w, ts, m)
    BY <1>2, <2>1, WalkMade
  <2> QED BY <1>2, <2>2
<1>4. CASE m # 0
  <2> DEFINE k == m - 1
  <2>1. k \in Nat /\ k < m /\ m = k + 1
    BY <1>2, <1>4
  <2>2. k \notin Bad
    <3> HIDE DEF Bad
    <3> QED BY <1>1, <1>2, <2>1
  <2>3. PICK g : Walk(g, w, ts, k)
    BY <2>1, <2>2
  <2> HIDE DEF k, Bad
  <2>4. /\ DOMAIN g = 0 .. k /\ g[0] = w
        /\ \A i \in 1 .. k : g[i] = Step(g[i - 1], ts[i])
    BY <2>1, <2>3, WalkAt
  <2> DEFINE f == [i \in 0 .. m |-> IF i = m THEN Step(g[k], ts[m]) ELSE g[i]]
  <2>5. f = [i \in 0 .. m |-> f[i]] /\ f[0] = w
    BY <1>2, <1>4, <2>4
  <2>6. \A i \in 1 .. m : f[i] = Step(f[i - 1], ts[i])
    <3> TAKE i \in 1 .. m
    <3>1. CASE i = m
      <4>1. i - 1 = k /\ k \in 0 .. m /\ k # m /\ m \in 0 .. m
        BY <2>1, <3>1
      <4> QED BY <3>1, <4>1
    <3>2. CASE i # m
      <4>1. i \in 1 .. k /\ i \in 0 .. m /\ i - 1 \in 0 .. m /\ i - 1 # m
        BY <2>1, <3>2
      <4>2. f[i] = g[i] /\ f[i - 1] = g[i - 1]
        BY <3>2, <4>1
      <4> QED BY <2>4, <4>1, <4>2
    <3> QED BY <3>1, <3>2
  <2> HIDE DEF f
  <2>7. Walk(f, w, ts, m)
    BY <1>2, <2>5, <2>6, WalkMade
  <2> QED BY <1>2, <2>7
<1> QED BY <1>3, <1>4

LEMMA WalkOnce ==
    ASSUME NEW w, NEW ts, NEW n \in Nat, NEW f, Walk(f, w, ts, n), NEW g, Walk(g, w, ts, n)
    PROVE  f[n] = g[n]
<1> DEFINE Bad == {m \in 0 .. n : f[m] # g[m]}
<1>0. /\ f[0] = w /\ \A i \in 1 .. n : f[i] = Step(f[i - 1], ts[i])
      /\ g[0] = w /\ \A i \in 1 .. n : g[i] = Step(g[i - 1], ts[i])
  BY WalkAt
<1>1. CASE Bad = {}
  <2>1. n \in 0 .. n
    OBVIOUS
  <2> QED BY <1>1, <2>1
<1>2. CASE Bad # {}
  <2>1. PICK m \in Bad : \A k \in Bad : m <= k
    <3>1. Bad \subseteq Nat
      OBVIOUS
    <3> HIDE DEF Bad
    <3> QED BY <1>2, <3>1, LeastOf
  <2>2. m \in 0 .. n /\ f[m] # g[m]
    OBVIOUS
  <2>3. m # 0
    BY <1>0, <2>2
  <2> DEFINE k == m - 1
  <2>4. k \in 0 .. n /\ k < m /\ m \in 1 .. n
    BY <2>2, <2>3
  <2>5. k \notin Bad
    <3> HIDE DEF Bad
    <3>1. k \in Nat /\ m \in Nat
      BY <2>2, <2>4
    <3> HIDE DEF k
    <3> QED BY <2>1, <2>4, <3>1
  <2>6. f[k] = g[k]
    BY <2>4, <2>5
  <2>7. f[m] = Step(f[k], ts[m]) /\ g[m] = Step(g[k], ts[m])
    BY <1>0, <2>4
  <2> QED BY <2>2, <2>6, <2>7
<1> QED BY <1>1, <1>2

LEMMA WalkIs ==
    ASSUME NEW w, NEW ts, NEW n \in Nat, n = Len(ts), NEW f, Walk(f, w, ts, n)
    PROVE  WalkOver(w, ts) = f[n]
<1> DEFINE R(g) == g = [i \in 0 .. Len(ts) |-> IF i = 0 THEN w ELSE Step(g[i - 1], ts[i])]
           at == CHOOSE g : R(g)
<1>1. WalkOver(w, ts) = at[Len(ts)]
  BY DEF WalkOver
<1>2. R(at)
  <2>1. R(f)
    BY DEF Walk
  <2> HIDE DEF R
  <2> QED BY <2>1
<1>3. Walk(at, w, ts, n)
  <2> HIDE DEF at
  <2> QED BY <1>2 DEF Walk
<1> HIDE DEF at
<1> QED BY <1>1, <1>3, WalkOnce

LEMMA WalkNone ==
    ASSUME NEW w
    PROVE  WalkOver(w, <<>>) = w
<1> DEFINE n == 0
           ts == <<>>
<1>1. n \in Nat /\ n = Len(ts)
  OBVIOUS
<1> HIDE DEF n, ts
<1>2. PICK f : Walk(f, w, ts, n)
  BY <1>1, WalkExists
<1>3. WalkOver(w, ts) = f[n] /\ f[0] = w
  BY <1>1, <1>2, WalkIs, WalkAt
<1> QED BY <1>3 DEF n, ts

\* Past no row but the first the walk stays; past one more it takes a step.
LEMMA WalkStays ==
    ASSUME NEW w, NEW ts, Listed(ts), NEW n \in {0, 1}
    PROVE  WalkOver(w, SubSeq(ts, 2, n)) = w
<1> DEFINE a == SubSeq(ts, 2, n)
<1>1. ts \in Seq(Range(ts)) /\ n \in Nat /\ n < 2
  BY DEF Listed
<1>2. a = <<>>
  <2>1. a \in Seq(Range(ts)) /\ Len(a) = 0
    BY <1>1
  <2> HIDE DEF a
  <2> QED BY <2>1
<1> HIDE DEF a
<1>3. WalkOver(w, a) = w
  BY <1>2, WalkNone
<1> QED BY <1>3 DEF a

LEMMA FromSecond ==
    ASSUME NEW ts, Listed(ts), NEW n \in Nat, n >= 1, n <= Len(ts)
    PROVE  /\ Len(SubSeq(ts, 2, n)) = n - 1
           /\ \A i \in 1 .. n - 1 : SubSeq(ts, 2, n)[i] = ts[i + 1]
<1>1. ts \in Seq(Range(ts)) /\ Len(ts) \in Nat
  BY Lengths DEF Listed
<1>2. Len(SubSeq(ts, 2, n)) = n - 1
  BY <1>1
<1>3. \A i \in 1 .. n - 1 : SubSeq(ts, 2, n)[i] = ts[i + 1]
  BY <1>1
<1> QED BY <1>2, <1>3

LEMMA WalkMore ==
    ASSUME NEW w, NEW ts, Listed(ts), NEW n \in Nat, n >= 1, n < Len(ts)
    PROVE  WalkOver(w, SubSeq(ts, 2, n + 1)) = Step(WalkOver(w, SubSeq(ts, 2, n)), ts[n + 1])
<1> DEFINE k == n - 1
           a == SubSeq(ts, 2, n)
           b == SubSeq(ts, 2, n + 1)
<1>0. k \in Nat /\ n = k + 1 /\ n + 1 \in Nat /\ n + 1 <= Len(ts) /\ n <= Len(ts) /\ (n + 1) - 1 = n
  BY Lengths
<1>1. Len(a) = k /\ \A i \in 1 .. k : a[i] = ts[i + 1]
  BY <1>0, FromSecond
<1>2. Len(b) = n /\ \A i \in 1 .. n : b[i] = ts[i + 1]
  <2> DEFINE m == n + 1
  <2>1. m \in Nat /\ m >= 1 /\ m <= Len(ts) /\ m - 1 = n
    BY <1>0
  <2> HIDE DEF m
  <2>2. /\ Len(SubSeq(ts, 2, m)) = m - 1
        /\ \A i \in 1 .. m - 1 : SubSeq(ts, 2, m)[i] = ts[i + 1]
    BY <2>1, FromSecond
  <2> QED BY <2>1, <2>2 DEF m
<1> HIDE DEF a, b
<1>3. PICK f : Walk(f, w, b, n)
  BY WalkExists
<1>4. DOMAIN f = 0 .. n /\ f[0] = w /\ \A i \in 1 .. n : f[i] = Step(f[i - 1], b[i])
  BY <1>3, WalkAt
<1>5. WalkOver(w, b) = f[n]
  BY <1>2, <1>3, WalkIs
<1> DEFINE g == [i \in 0 .. k |-> f[i]]
<1>6. g = [i \in 0 .. k |-> g[i]] /\ g[0] = w /\ g[k] = f[k]
  BY <1>0, <1>4
<1>7. \A i \in 1 .. k : g[i] = Step(g[i - 1], a[i])
  <2> TAKE i \in 1 .. k
  <2>1. i \in 1 .. n /\ i \in 0 .. k /\ i - 1 \in 0 .. k
    BY <1>0
  <2>2. g[i] = f[i] /\ g[i - 1] = f[i - 1] /\ a[i] = b[i]
    BY <1>1, <1>2, <2>1
  <2> HIDE DEF g
  <2> QED BY <1>4, <2>1, <2>2
<1> HIDE DEF g
<1>8. Walk(g, w, a, k)
  BY <1>0, <1>6, <1>7, WalkMade
<1>9. WalkOver(w, a) = g[k]
  BY <1>0, <1>1, <1>8, WalkIs
<1>10. f[n] = Step(f[k], b[n]) /\ b[n] = ts[n + 1]
  <2>1. n \in 1 .. n /\ n - 1 = k
    BY <1>0
  <2> QED BY <1>2, <1>4, <2>1
<1> QED BY <1>5, <1>6, <1>9, <1>10 DEF a, b

-----------------------------------------------------------------------------
(* The loop of one row at a time. *)

MostRows == Max2(MaxRows, MaxDraft + 1)

\* The states one token on from those of S that have a token in hand.
OneOn(S) == {Plain!Answer(Plain!Read(y)) : y \in {z \in S : z.hand # Plain!NoToken}}

\* g is the loop's states, token by token, from x.
Looped(g, x, n) == g = [i \in 0 .. n |-> IF i = 0 THEN {x} ELSE OneOn(g[i - 1])]

LoopFrom(x) ==
    LET plain[i \in 0 .. MostRows] == IF i = 0 THEN {x} ELSE OneOn(plain[i - 1])
    IN  UNION {plain[i] : i \in 0 .. MostRows}

ReadingFrom(x) == {Plain!Read(y) : y \in {z \in LoopFrom(x) : z.hand # Plain!NoToken}}

LEMMA Mosts == MostRows \in Nat /\ MostRows >= MaxRows /\ MostRows >= MaxDraft + 1 /\ MostRows >= 1
<1>1. MaxRows \in Nat /\ MaxDraft + 1 \in Nat /\ MaxRows > 1
  BY Sizes
<1> DEFINE a == MaxRows
           b == MaxDraft + 1
<1>2. MostRows = Max2(a, b) /\ a \in Nat /\ b \in Nat /\ a > 1
  BY <1>1 DEF MostRows
<1> HIDE DEF a, b
<1>3. MostRows \in Nat /\ MostRows >= a /\ MostRows >= b
  BY <1>2, MoreOrLess
<1>4. MostRows >= 1
  BY <1>2, <1>3
<1> QED BY <1>3, <1>4 DEF a, b

LEMMA LoopedAt ==
    ASSUME NEW g, NEW x, NEW n \in Nat, Looped(g, x, n)
    PROVE  /\ DOMAIN g = 0 .. n /\ g[0] = {x}
           /\ \A i \in 1 .. n : g[i] = OneOn(g[i - 1])
<1>1. DOMAIN g = 0 .. n
  BY DEF Looped
<1>2. \A i \in 0 .. n : g[i] = IF i = 0 THEN {x} ELSE OneOn(g[i - 1])
  BY DEF Looped
<1>3. 0 \in 0 .. n /\ \A i \in 1 .. n : i \in 0 .. n /\ i # 0
  OBVIOUS
<1> QED BY <1>1, <1>2, <1>3

LEMMA LoopedMade ==
    ASSUME NEW g, NEW x, NEW n \in Nat, g = [i \in 0 .. n |-> g[i]], g[0] = {x},
           \A i \in 1 .. n : g[i] = OneOn(g[i - 1])
    PROVE  Looped(g, x, n)
<1>1. \A i \in 0 .. n : g[i] = IF i = 0 THEN {x} ELSE OneOn(g[i - 1])
  <2> TAKE i \in 0 .. n
  <2>1. CASE i = 0
    BY <2>1
  <2>2. CASE i # 0
    <3>1. i \in 1 .. n
      BY <2>2
    <3> QED BY <2>2, <3>1
  <2> QED BY <2>1, <2>2
<1> QED BY <1>1 DEF Looped

LEMMA LoopedExists ==
    ASSUME NEW x, NEW n \in Nat
    PROVE  \E g : Looped(g, x, n)
<1> DEFINE Bad == {m \in Nat : ~\E g : Looped(g, x, m)}
<1> SUFFICES ASSUME Bad # {} PROVE FALSE
  OBVIOUS
<1>1. PICK m \in Bad : \A k \in Bad : m <= k
  <2>1. Bad \subseteq Nat
    OBVIOUS
  <2> HIDE DEF Bad
  <2> QED BY <2>1, LeastOf
<1>2. m \in Nat /\ ~\E g : Looped(g, x, m)
  OBVIOUS
<1>3. CASE m = 0
  <2> DEFINE g == [i \in 0 .. 0 |-> {x}]
  <2>1. g = [i \in 0 .. m |-> g[i]] /\ g[0] = {x} /\ 1 .. m = {}
    BY <1>3
  <2> HIDE DEF g
  <2>2. Looped(g, x, m)
    BY <1>2, <2>1, LoopedMade
  <2> QED BY <1>2, <2>2
<1>4. CASE m # 0
  <2> DEFINE k == m - 1
  <2>1. k \in Nat /\ k < m /\ m = k + 1
    BY <1>2, <1>4
  <2>2. k \notin Bad
    <3> HIDE DEF Bad
    <3> QED BY <1>1, <1>2, <2>1
  <2>3. PICK h : Looped(h, x, k)
    BY <2>1, <2>2
  <2> HIDE DEF k, Bad
  <2>4. DOMAIN h = 0 .. k /\ h[0] = {x} /\ \A i \in 1 .. k : h[i] = OneOn(h[i - 1])
    BY <2>1, <2>3, LoopedAt
  <2> DEFINE g == [i \in 0 .. m |-> IF i = m THEN OneOn(h[k]) ELSE h[i]]
  <2>5. g = [i \in 0 .. m |-> g[i]] /\ g[0] = {x}
    BY <1>2, <1>4, <2>4
  <2>6. \A i \in 1 .. m : g[i] = OneOn(g[i - 1])
    <3> TAKE i \in 1 .. m
    <3>1. CASE i = m
      <4>1. i - 1 = k /\ k \in 0 .. m /\ k # m /\ m \in 0 .. m
        BY <2>1, <3>1
      <4> QED BY <3>1, <4>1
    <3>2. CASE i # m
      <4>1. i \in 1 .. k /\ i \in 0 .. m /\ i - 1 \in 0 .. m /\ i - 1 # m
        BY <2>1, <3>2
      <4>2. g[i] = h[i] /\ g[i - 1] = h[i - 1]
        BY <3>2, <4>1
      <4> QED BY <2>4, <4>1, <4>2
    <3> QED BY <3>1, <3>2
  <2> HIDE DEF g
  <2>7. Looped(g, x, m)
    BY <1>2, <2>5, <2>6, LoopedMade
  <2> QED BY <1>2, <2>7
<1> QED BY <1>3, <1>4

LEMMA LoopFromIs ==
    ASSUME NEW x
    PROVE  \E g : Looped(g, x, MostRows) /\ LoopFrom(x) = UNION {g[i] : i \in 0 .. MostRows}
<1> DEFINE R(h) == h = [i \in 0 .. MostRows |-> IF i = 0 THEN {x} ELSE OneOn(h[i - 1])]
           plain == CHOOSE h : R(h)
<1>1. LoopFrom(x) = UNION {plain[i] : i \in 0 .. MostRows}
  BY DEF LoopFrom
<1>2. R(plain)
  <2>1. PICK h : Looped(h, x, MostRows)
    BY Mosts, LoopedExists
  <2>2. R(h)
    BY <2>1 DEF Looped
  <2> HIDE DEF R
  <2> QED BY <2>2
<1>3. Looped(plain, x, MostRows)
  <2> HIDE DEF plain
  <2> QED BY <1>2 DEF Looped
<1> HIDE DEF plain
<1> QED BY <1>1, <1>3

\* A path of the loop, token by token, stays in it.
LEMMA PathLoops ==
    ASSUME NEW x, NEW p, NEW k \in 0 .. MostRows, p[0] = x,
           \A i \in 1 .. k : /\ p[i - 1].hand # Plain!NoToken
                             /\ p[i] = Plain!Answer(Plain!Read(p[i - 1]))
    PROVE  p[k] \in LoopFrom(x)
<1>0. MostRows \in Nat
  BY Mosts
<1>1. PICK g : Looped(g, x, MostRows) /\ LoopFrom(x) = UNION {g[i] : i \in 0 .. MostRows}
  BY LoopFromIs
<1>2. g[0] = {x} /\ \A i \in 1 .. MostRows : g[i] = OneOn(g[i - 1])
  BY <1>0, <1>1, LoopedAt
<1> DEFINE Bad == {i \in 0 .. k : p[i] \notin g[i]}
<1>3. Bad = {}
  <2> SUFFICES ASSUME Bad # {} PROVE FALSE
    OBVIOUS
  <2>1. PICK m \in Bad : \A i \in Bad : m <= i
    <3>1. Bad \subseteq Nat
      OBVIOUS
    <3> HIDE DEF Bad
    <3> QED BY <3>1, LeastOf
  <2>2. m \in 0 .. k /\ p[m] \notin g[m]
    OBVIOUS
  <2>3. m # 0
    BY <1>2, <2>2
  <2> DEFINE l == m - 1
  <2>4. l \in 0 .. k /\ l < m /\ m \in 1 .. k /\ m \in 1 .. MostRows /\ l \in Nat /\ m \in Nat
    BY <1>0, <2>2, <2>3
  <2>5. l \notin Bad
    <3> HIDE DEF Bad, l
    <3> QED BY <2>1, <2>4
  <2>6. p[l] \in g[l]
    BY <2>4, <2>5
  <2>7. p[l].hand # Plain!NoToken /\ p[m] = Plain!Answer(Plain!Read(p[l])) /\ g[m] = OneOn(g[l])
    BY <1>2, <2>4
  <2> HIDE DEF l
  <2>8. p[m] \in OneOn(g[l])
    BY <2>6, <2>7 DEF OneOn
  <2> QED BY <2>2, <2>7, <2>8
<1>4. p[k] \in g[k]
  BY <1>0, <1>3
<1> QED BY <1>0, <1>1, <1>4

-----------------------------------------------------------------------------
(* What a caller sees of the handle, as the plain loop has it. *)

SeenText(kv, n) == IF n = 0 THEN <<>> ELSE kv[<<n - 1, Top>>]

Seen == [text |-> SeenText(device, AtRest.len), walk |-> AtRest.walk, hand |-> hand,
         held |-> AtRest.layer = NumLayers]

FedTo(x, ts) == [x EXCEPT !.text = @ \o ts, !.hand = NoToken, !.held = TRUE]

\* A step of the loop, or none.
Moves ==
    \/ Seen' = Seen
    \/ Seen.hand # NoToken /\ Seen' \in LoopFrom(Seen) \cup ReadingFrom(Seen)
    \/ \E ts \in Plain!Prompts : Seen' = FedTo(Seen, ts)
    \/ Seen.held /\ Seen' = Plain!Answer(Seen)
    \/ Seen' = Plain!Lost(Seen)
    \/ \E ts \in Plain!Prompts : Seen' = Plain!Lost(FedTo(Seen, ts))
    \/ \E x \in ReadingFrom(Seen) : Seen' = Plain!Lost(x)
    \/ Seen' = Plain!Start

LEMMA NoTokenIs == Plain!NoToken = NoToken /\ Plain!DeadEnd = DeadEnd
BY DEF Plain!NoToken, NoToken, Plain!DeadEnd, DeadEnd

LEMMA PlainLoopIs == Plain!Loop = LoopFrom(Seen)
BY DEF Plain!Loop, LoopFrom, OneOn, Seen, SeenText, MostRows

LEMMA PlainReadingIs == Plain!Reading = ReadingFrom(Seen)
BY PlainLoopIs DEF Plain!Reading, ReadingFrom

LEMMA PlainFedIs ==
    ASSUME NEW ts
    PROVE  Plain!Fed(ts) = FedTo(Seen, ts)
BY NoTokenIs DEF Plain!Fed, FedTo, Seen, SeenText

LEMMA MovesIs ==
    ASSUME Moves
    PROVE  Plain!Next \/ Seen' = Seen
<1>1. ASSUME Seen.hand # NoToken, Seen' \in LoopFrom(Seen) \cup ReadingFrom(Seen) PROVE Plain!Decode
  BY <1>1, PlainLoopIs, PlainReadingIs, NoTokenIs DEF Plain!Decode, Seen, SeenText
<1>2. ASSUME NEW ts \in Plain!Prompts, Seen' = FedTo(Seen, ts) PROVE Plain!Feed
  BY <1>2, PlainFedIs DEF Plain!Feed, Seen, SeenText
<1>3. ASSUME Seen.held, Seen' = Plain!Answer(Seen) PROVE Plain!Speak
  BY <1>3 DEF Plain!Speak, Seen, SeenText
<1>4. ASSUME Seen' = Plain!Lost(Seen) PROVE Plain!Lose
  BY <1>4 DEF Plain!Lose, Seen, SeenText
<1>5. ASSUME NEW ts \in Plain!Prompts, Seen' = Plain!Lost(FedTo(Seen, ts)) PROVE Plain!Lose
  BY <1>5, PlainFedIs DEF Plain!Lose, Seen, SeenText
<1>6. ASSUME NEW x \in ReadingFrom(Seen), Seen' = Plain!Lost(x) PROVE Plain!Lose
  BY <1>6, PlainReadingIs DEF Plain!Lose, Seen, SeenText
<1>7. ASSUME Seen' = Plain!Start PROVE Plain!Reset
  BY <1>7 DEF Plain!Reset, Seen, SeenText
<1> QED BY <1>1, <1>2, <1>3, <1>4, <1>5, <1>6, <1>7 DEF Moves, Plain!Next

\* The loop with the first i tokens of toks read and the next one in hand, and with the
\* k-th of them held.
LoopRow(x, toks, i) ==
    [text |-> x.text \o SubSeq(toks, 1, i), walk |-> WalkOver(x.walk, SubSeq(toks, 2, i + 1)),
     hand |-> toks[i + 1], held |-> FALSE]

FullRow(x, toks, k) ==
    [text |-> x.text \o SubSeq(toks, 1, k), walk |-> WalkOver(x.walk, SubSeq(toks, 2, k)),
     hand |-> NoToken, held |-> TRUE]

\* The loop, with the first of toks in hand, goes on with them up to the (k+1)-th.
Goes(x, toks, k) ==
    /\ Listed(toks) /\ Listed(x.text)
    /\ x = [text |-> x.text, walk |-> x.walk, hand |-> toks[1], held |-> FALSE]
    /\ toks[1] # NoToken /\ \A i \in 2 .. Len(toks) : toks[i] # NoToken /\ toks[i] # DeadEnd
    /\ \A r \in 1 .. k : Finish(x.text \o SubSeq(toks, 1, r), WalkOver(x.walk, SubSeq(toks, 2, r))) = toks[r + 1]

LEMMA HeadAnd ==
    ASSUME NEW text, Listed(text), NEW ts, Listed(ts), NEW i \in Nat, i < Len(ts)
    PROVE  Append(text \o SubSeq(ts, 1, i), ts[i + 1]) = text \o SubSeq(ts, 1, i + 1)
<1>1. text \in Seq(Range(text) \cup Range(ts)) /\ ts \in Seq(Range(text) \cup Range(ts))
  BY DEF Listed
<1>2. SubSeq(ts, 1, i + 1) = Append(SubSeq(ts, 1, i), ts[i + 1])
  BY <1>1
<1> DEFINE a == SubSeq(ts, 1, i)
<1>3. a \in Seq(Range(text) \cup Range(ts)) /\ ts[i + 1] \in Range(text) \cup Range(ts)
  <2>1. i + 1 \in 1 .. Len(ts)
    BY <1>1
  <2> QED BY <1>1, <2>1
<1> HIDE DEF a
<1> DEFINE S == Range(text) \cup Range(ts)
           e == ts[i + 1]
<1>4. text \in Seq(S) /\ a \in Seq(S) /\ e \in S
  BY <1>1, <1>3
<1> HIDE DEF S, e
<1>5. Append(text \o a, e) = text \o Append(a, e)
  BY ONLY <1>4
<1> QED BY <1>2, <1>5 DEF a, e

LEMMA NoneOf ==
    ASSUME NEW text, Listed(text), NEW ts, Listed(ts)
    PROVE  text \o SubSeq(ts, 1, 0) = text
<1>1. text \in Seq(Range(text) \cup Range(ts)) /\ ts \in Seq(Range(text) \cup Range(ts))
  BY DEF Listed
<1>2. SubSeq(ts, 1, 0) = <<>>
  BY <1>1
<1> QED BY <1>1, <1>2

LEMMA ReadsRowOf ==
    ASSUME NEW x, NEW toks, Listed(x.text), Listed(toks), NEW i \in Nat, i < Len(toks)
    PROVE  Plain!Read(LoopRow(x, toks, i)) = FullRow(x, toks, i + 1)
<1> DEFINE y == LoopRow(x, toks, i)
<1>1. y.text = x.text \o SubSeq(toks, 1, i) /\ y.hand = toks[i + 1]
  BY DEF LoopRow
<1>2. Append(y.text, y.hand) = x.text \o SubSeq(toks, 1, i + 1)
  BY <1>1, HeadAnd
<1>3. Plain!Read(y) = [y EXCEPT !.text = Append(y.text, y.hand), !.hand = NoToken, !.held = TRUE]
  BY NoTokenIs DEF Plain!Read
<1> QED BY <1>2, <1>3 DEF LoopRow, FullRow

LEMMA AnswersRowOf ==
    ASSUME NEW x, NEW toks, Listed(toks), NEW k \in Nat, k >= 1, k < Len(toks), toks[k + 1] # DeadEnd,
           Finish(x.text \o SubSeq(toks, 1, k), WalkOver(x.walk, SubSeq(toks, 2, k))) = toks[k + 1]
    PROVE  Plain!Answer(FullRow(x, toks, k)) = LoopRow(x, toks, k)
<1> DEFINE y == FullRow(x, toks, k)
           t == toks[k + 1]
<1>1. Finish(y.text, y.walk) = t
  BY DEF FullRow
<1>2. Plain!Answer(y) = [y EXCEPT !.hand = t, !.walk = Step(y.walk, t), !.held = FALSE]
  BY <1>1, NoTokenIs DEF Plain!Answer
<1>3. Step(y.walk, t) = WalkOver(x.walk, SubSeq(toks, 2, k + 1))
  BY WalkMore DEF FullRow
<1> QED BY <1>2, <1>3 DEF FullRow, LoopRow

\* So far the loop goes: the token after them in hand, the last of them read, and
\* whatever its finish answers.
LEMMA LoopGoes ==
    ASSUME NEW x, NEW toks, NEW k \in Nat, k < Len(toks), k < MostRows, Goes(x, toks, k)
    PROVE  /\ LoopRow(x, toks, k) \in LoopFrom(x)
           /\ FullRow(x, toks, k + 1) \in ReadingFrom(x)
           /\ Plain!Answer(FullRow(x, toks, k + 1)) \in LoopFrom(x)
<1> DEFINE n == k + 1
           last == Plain!Answer(FullRow(x, toks, n))
           p == [i \in 0 .. n |-> IF i = n THEN last ELSE LoopRow(x, toks, i)]
<1>0. /\ Listed(toks) /\ Listed(x.text) /\ Len(toks) \in Nat /\ MostRows \in Nat
      /\ x = [text |-> x.text, walk |-> x.walk, hand |-> toks[1], held |-> FALSE]
      /\ toks[1] # NoToken /\ \A i \in 2 .. Len(toks) : toks[i] # NoToken /\ toks[i] # DeadEnd
      /\ \A r \in 1 .. k : Finish(x.text \o SubSeq(toks, 1, r), WalkOver(x.walk, SubSeq(toks, 2, r))) = toks[r + 1]
  BY Lengths, Mosts DEF Goes
<1>1. LoopRow(x, toks, 0) = x
  <2>1. WalkOver(x.walk, SubSeq(toks, 2, 0 + 1)) = x.walk
    BY <1>0, WalkStays
  <2>2. toks[0 + 1] = toks[1]
    OBVIOUS
  <2>3. x.text \o SubSeq(toks, 1, 0) = x.text
    BY <1>0, NoneOf
  <2> QED BY <1>0, <2>1, <2>2, <2>3 DEF LoopRow
<1>2. \A i \in 0 .. k : LoopRow(x, toks, i).hand # NoToken
  <2> TAKE i \in 0 .. k
  <2>1. LoopRow(x, toks, i).hand = toks[i + 1]
    BY DEF LoopRow
  <2>2. CASE i = 0
    BY <1>0, <2>1, <2>2
  <2>3. CASE i # 0
    <3>1. i + 1 \in 2 .. Len(toks)
      BY <1>0, <2>3
    <3> QED BY <1>0, <2>1, <3>1
  <2> QED BY <2>2, <2>3
<1>3. \A i \in 1 .. k : LoopRow(x, toks, i) = Plain!Answer(Plain!Read(LoopRow(x, toks, i - 1)))
  <2> TAKE i \in 1 .. k
  <2> DEFINE j == i - 1
  <2>1. j \in Nat /\ j < Len(toks) /\ j + 1 = i /\ i \in Nat /\ i >= 1 /\ i < Len(toks) /\ i + 1 \in 2 .. Len(toks)
    BY <1>0
  <2> HIDE DEF j
  <2>2. Plain!Read(LoopRow(x, toks, j)) = FullRow(x, toks, j + 1)
    BY <1>0, <2>1, ReadsRowOf
  <2>3. Plain!Answer(FullRow(x, toks, i)) = LoopRow(x, toks, i)
    BY <1>0, <2>1, AnswersRowOf
  <2> QED BY <2>1, <2>2, <2>3 DEF j
<1>4. Plain!Read(LoopRow(x, toks, k)) = FullRow(x, toks, n)
  BY <1>0, ReadsRowOf
<1>5. n \in 0 .. MostRows /\ k \in 0 .. MostRows /\ n \in Nat /\ k \in 0 .. k /\ n # 0
  BY <1>0
<1> HIDE DEF last
<1>6. p[0] = LoopRow(x, toks, 0)
  BY <1>5
<1>7. \A i \in 1 .. n : /\ p[i - 1].hand # Plain!NoToken
                        /\ p[i] = Plain!Answer(Plain!Read(p[i - 1]))
  <2> TAKE i \in 1 .. n
  <2>1. i - 1 \in 0 .. k /\ i - 1 # n /\ i - 1 \in 0 .. n /\ i \in 0 .. n
    BY <1>5
  <2>2. p[i - 1] = LoopRow(x, toks, i - 1)
    BY <2>1
  <2>3. CASE i = n
    <3>1. i - 1 = k
      BY <2>3
    <3>2. p[i] = last
      BY <2>1, <2>3
    <3> HIDE DEF p
    <3> QED BY <1>2, <1>4, <2>1, <2>2, <3>1, <3>2, NoTokenIs DEF last
  <2>4. CASE i # n
    <3>1. i \in 1 .. k
      BY <2>4
    <3>2. p[i] = LoopRow(x, toks, i)
      BY <2>1, <2>4
    <3> HIDE DEF p
    <3> QED BY <1>2, <1>3, <2>1, <2>2, <3>1, <3>2, NoTokenIs
  <2> QED BY <2>3, <2>4
<1>8. p[n] = last /\ p[k] = LoopRow(x, toks, k)
  BY <1>5
<1> HIDE DEF p
<1>9. p[n] \in LoopFrom(x)
  <2> HIDE DEF n
  <2> QED BY <1>1, <1>5, <1>6, <1>7, PathLoops
<1>10. p[k] \in LoopFrom(x)
  <2>1. \A i \in 1 .. k : i \in 1 .. n
    OBVIOUS
  <2>2. \A i \in 1 .. k : /\ p[i - 1].hand # Plain!NoToken
                          /\ p[i] = Plain!Answer(Plain!Read(p[i - 1]))
    BY <1>7, <2>1
  <2> QED BY <1>1, <1>5, <1>6, <2>2, PathLoops
<1>11. FullRow(x, toks, n) \in ReadingFrom(x)
  <2> DEFINE y == LoopRow(x, toks, k)
  <2>1. y \in LoopFrom(x) /\ y.hand # Plain!NoToken /\ Plain!Read(y) = FullRow(x, toks, n)
    BY <1>2, <1>4, <1>5, <1>8, <1>10, NoTokenIs
  <2> HIDE DEF y
  <2> QED BY <2>1 DEF ReadingFrom
<1> QED BY <1>8, <1>9, <1>10, <1>11 DEF last

-----------------------------------------------------------------------------
(* What a handle, a chunk and a jump say of the loop. *)

\* A row held at rest is the text's last, and nobody has its token yet.
HeldTells == Seen.held => hand = NoToken /\ AtRest.res = Seen.text

\* A chunk's tokens, and the walk it began at; a draft's first is the one in hand.
ChunkTells ==
    chunk # NoChunk =>
        /\ seq.walk = chunk.entry.seq.walk
        /\ \A i \in 1 .. Len(chunk.toks) : chunk.toks[i] \in Tokens
        /\ Len(chunk.toks) <= MaxRows
        /\ chunk.kind = "prompt" \/ chunk.kind = "exact"
        /\ chunk.kind = "exact" => chunk.entry.seq.layer = 0 /\ chunk.toks[1] = hand

\* A jump's rows so far: the plain loop's, up to the last if the jump goes on.
JumpTells ==
    jump # NoJump =>
        /\ Len(jump.toks) <= MaxDraft + 1
        /\ jump.toks[1] = hand /\ hand # NoToken
        /\ \A i \in 2 .. Len(jump.toks) : jump.toks[i] \in Tokens
        /\ jump.walk = jump.entry.seq.walk /\ jump.entry.seq.layer = 0
        /\ seq.walk = JumpWalk(jump.kept)
        /\ jump.kept <= jump.off
        /\ SeenText(device, seq.len) = Seen.text \o SubSeq(jump.toks, 1, jump.kept)
        /\ seq.layer = NumLayers => seq.res = SeenText(device, seq.len)
        /\ \A r \in 1 .. jump.kept : r < jump.kept \/ ~jump.stop =>
              Finish(Seen.text \o SubSeq(jump.toks, 1, r), JumpWalk(r)) = jump.toks[r + 1]

RInv == IInv /\ HeldTells /\ ChunkTells /\ JumpTells

LEMMA TopIs == NumLayers - 1 = Top /\ Top \in Nat /\ Top < NumLayers /\ NumLayers # 0
BY Sizes DEF Top

LEMMA TextTells ==
    ASSUME NEW kv, NEW text, Listed(text), Holds(kv, text), Len(text) <= Limit,
           NEW n \in Nat, n <= Len(text)
    PROVE  SeenText(kv, n) = SubSeq(text, 1, n)
<1>0. Len(text) \in Nat
  BY Lengths
<1>1. CASE n = 0
  <2>1. Len(SubSeq(text, 1, n)) = 0 /\ Listed(SubSeq(text, 1, n))
    BY <1>1, Headed
  <2>2. SubSeq(text, 1, n) = <<>>
    <3> DEFINE a == SubSeq(text, 1, n)
    <3> HIDE DEF a
    <3>1. Listed(a) /\ Len(a) = 0
      BY <2>1 DEF a
    <3>2. a = <<>>
      BY <3>1, Lengths
    <3> QED BY <3>2 DEF a
  <2> QED BY <1>1, <2>2 DEF SeenText
<1>2. CASE n # 0
  <2> DEFINE p == n - 1
  <2>1. p \in Nat /\ p < Limit /\ p < Len(text) /\ p + 1 = n
    BY <1>0, <1>2, Sizes
  <2> HIDE DEF p
  <2>2. <<p, Top>> \in Rows /\ <<p, Top>>[1] = p
    BY <2>1, TopIs, IsRow
  <2>3. kv[<<p, Top>>] = SubSeq(text, 1, <<p, Top>>[1] + 1)
    BY <2>1, <2>2 DEF Holds
  <2>4. kv[<<p, Top>>] = SubSeq(text, 1, n)
    BY <2>1, <2>2, <2>3
  <2> QED BY <1>2, <2>4 DEF SeenText, p
<1> QED BY <1>1, <1>2

\* What a row's residual is at full depth.
LEMMA ResidualTells ==
    ASSUME NEW kv, NEW text, Listed(text), Holds(kv, text), Len(text) <= Limit,
           NEW p, p \in Nat, p < Len(text)
    PROVE  Residual(kv, p, NumLayers) = SubSeq(text, 1, p + 1)
<1>1. p + 1 \in Nat /\ p + 1 <= Len(text) /\ p + 1 # 0 /\ (p + 1) - 1 = p
  BY Lengths
<1>2. SeenText(kv, p + 1) = SubSeq(text, 1, p + 1)
  BY <1>1, TextTells
<1>3. Residual(kv, p, NumLayers) = kv[<<p, Top>>] /\ SeenText(kv, p + 1) = kv[<<p, Top>>]
  BY <1>1, TopIs DEF Residual, SeenText
<1> QED BY <1>2, <1>3

\* At rest in a chunk or out of it, the text seen is the handle's; in a jump, its head.
LEMMA SeenIs ==
    ASSUME IInv, NEW text, TextIs(text)
    PROVE  /\ jump = NoJump => Seen.text = text /\ AtRest.len = Len(text)
           /\ jump # NoJump => Seen.text = SubSeq(text, 1, jump.entry.seq.len)
           /\ AtRest.len \in Nat /\ AtRest.len <= Len(text)
           /\ Seen.text = SubSeq(text, 1, AtRest.len)
<1>0. /\ Listed(text) /\ Len(text) \in Nat /\ Len(text) = seq.len /\ Holds(device, text)
      /\ Len(text) <= Limit
  BY TextIsSo, Sizes DEF IInv, Shapes
<1>1. ASSUME jump = NoJump PROVE AtRest.len = Len(text)
  <2>1. CASE chunk = NoChunk
    BY <1>0, <1>1, <2>1 DEF AtRest
  <2>2. CASE chunk # NoChunk
    BY <1>0, <1>1, <2>2, Opens DEF AtRest
  <2> QED BY <2>1, <2>2
<1>2. ASSUME jump # NoJump PROVE AtRest.len = jump.entry.seq.len /\ AtRest.len \in Nat /\ AtRest.len <= Len(text)
  <2>1. AtRest.len = jump.entry.seq.len
    BY <1>2 DEF AtRest
  <2>2. jump.entry.seq.len \in Nat /\ jump.kept \in Nat /\ seq.len = jump.entry.seq.len + jump.kept
    BY <1>2, JumpIs
  <2>3. jump.entry.seq.len <= Len(text)
    BY ONLY <1>0, <2>2
  <2> QED BY <2>1, <2>2, <2>3
<1>3. AtRest.len \in Nat /\ AtRest.len <= Len(text)
  BY <1>0, <1>1, <1>2
<1> DEFINE n == AtRest.len
<1>4. Seen.text = SeenText(device, n)
  BY DEF Seen
<1> HIDE DEF n
<1>5. SeenText(device, n) = SubSeq(text, 1, n)
  BY <1>0, <1>3, TextTells DEF n
<1>6. SubSeq(text, 1, Len(text)) = text
  BY <1>0, WholeHead
<1> QED BY <1>1, <1>2, <1>3, <1>4, <1>5, <1>6 DEF n

LEMMA SeenStays ==
    ASSUME AtRest' = AtRest, hand' = hand, SeenText(device', AtRest.len) = SeenText(device, AtRest.len)
    PROVE  Seen' = Seen /\ (HeldTells => HeldTells')
<1>1. Seen' = Seen
  BY DEF Seen
<1> QED BY <1>1 DEF HeldTells

\* A handle that comes to rest.
LEMMA Settles ==
    ASSUME IInv', chunk' = NoChunk, jump' = NoJump,
           NEW text, Listed(text), Holds(device', text), seq'.len = Len(text), Len(text) <= Limit,
           seq'.layer = NumLayers => hand' = NoToken /\ seq'.res = text
    PROVE  /\ RInv'
           /\ Seen' = [text |-> text, walk |-> seq'.walk, hand |-> hand', held |-> seq'.layer = NumLayers]
<1>1. AtRest' = seq'
  BY DEF AtRest
<1>2. Len(text) \in Nat
  BY Lengths
<1>3. SeenText(device', Len(text)) = text
  BY <1>2, TextTells, WholeHead
<1>4. Seen' = [text |-> SeenText(device', seq'.len), walk |-> seq'.walk, hand |-> hand',
               held |-> seq'.layer = NumLayers]
  BY <1>1 DEF Seen
<1>5. Seen' = [text |-> text, walk |-> seq'.walk, hand |-> hand', held |-> seq'.layer = NumLayers]
  BY <1>3, <1>4
<1>6. HeldTells'
  BY <1>1, <1>5 DEF HeldTells
<1>7. ChunkTells' /\ JumpTells'
  BY DEF ChunkTells, JumpTells
<1> QED BY <1>5, <1>6, <1>7 DEF RInv

-----------------------------------------------------------------------------
(* What a caller sees at rest, in a chunk and in a jump. *)

LEMMA IdleSeen ==
    ASSUME IInv, Idle, NEW text, TextIs(text)
    PROVE  Seen = [text |-> text, walk |-> seq.walk, hand |-> hand, held |-> seq.layer = NumLayers]
<1>1. jump = NoJump /\ AtRest = seq
  BY DEF Idle, AtRest
<1>2. Seen.text = text
  BY <1>1, SeenIs
<1> QED BY <1>1, <1>2 DEF Seen

LEMMA ChunkSeen ==
    ASSUME IInv, chunk # NoChunk, NEW text, TextIs(text)
    PROVE  /\ AtRest = chunk.entry.seq
           /\ Seen = [text |-> text, walk |-> chunk.entry.seq.walk, hand |-> hand,
                      held |-> chunk.entry.seq.layer = NumLayers]
<1>1. jump = NoJump
  BY Opens
<1>2. AtRest = chunk.entry.seq
  BY <1>1 DEF AtRest
<1>3. Seen.text = text
  BY <1>1, SeenIs
<1> QED BY <1>2, <1>3 DEF Seen

LEMMA JumpSeen ==
    ASSUME IInv, jump # NoJump, NEW text, TextIs(text)
    PROVE  /\ AtRest = jump.entry.seq
           /\ Seen = [text |-> SubSeq(text, 1, jump.entry.seq.len), walk |-> jump.entry.seq.walk,
                      hand |-> hand, held |-> jump.entry.seq.layer = NumLayers]
<1>1. AtRest = jump.entry.seq
  BY DEF AtRest
<1>2. Seen.text = SubSeq(text, 1, jump.entry.seq.len)
  BY SeenIs
<1> QED BY <1>1, <1>2 DEF Seen

\* The device's rows of what is seen, when the text only grows or stays behind them.
LEMMA SeenKept ==
    ASSUME IInv, NEW text, TextIs(text), Holds(device', text), AtRest' = AtRest, hand' = hand
    PROVE  Seen' = Seen /\ (HeldTells => HeldTells')
<1>1. Listed(text) /\ Len(text) <= Limit /\ Holds(device, text)
  BY TextIsSo DEF IInv, Shapes
<1>2. AtRest.len \in Nat /\ AtRest.len <= Len(text)
  BY SeenIs
<1> DEFINE n == AtRest.len
<1> HIDE DEF n
<1>3. SeenText(device, n) = SubSeq(text, 1, n)
  BY <1>1, <1>2, TextTells DEF n
<1>4. SeenText(device', n) = SubSeq(text, 1, n)
  BY <1>1, <1>2, TextTells DEF n
<1> QED BY <1>3, <1>4, SeenStays DEF n

\* A full row and what its finish leaves: the plain loop's row, or its answer.
LEMMA FinishTells ==
    ASSUME IInv', chunk' = NoChunk, jump' = NoJump,
           NEW text, Listed(text), Holds(device', text), Len(text) <= Limit,
           NEW x, DOMAIN x = SeqFields, x.len = Len(text), x.layer = NumLayers, x.res = text,
           NEW o \in Finished(x), Rests(o),
           NEW full, full = [text |-> text, walk |-> x.walk, hand |-> NoToken, held |-> TRUE]
    PROVE  RInv' /\ Seen' \in {full, Plain!Answer(full)}
<1>0. 0 # NumLayers
  BY Sizes
<1> DEFINE t == Finish(x.res, x.walk)
<1>1. CASE o = Answered(x) /\ t # DeadEnd
  <2>1. o = [seq |-> [x EXCEPT !.walk = Step(x.walk, t), !.layer = 0], hand |-> t]
    BY <1>1 DEF Answered
  <2> HIDE DEF t
  <2>2. /\ seq'.layer = 0 /\ seq'.len = Len(text) /\ seq'.walk = Step(x.walk, t) /\ hand' = t
    BY <2>1 DEF Rests, SeqFields
  <2>3. RInv' /\ Seen' = [text |-> text, walk |-> Step(x.walk, t), hand |-> t, held |-> FALSE]
    <3>1. /\ RInv'
          /\ Seen' = [text |-> text, walk |-> seq'.walk, hand |-> hand', held |-> seq'.layer = NumLayers]
      BY <1>0, <2>2, Settles
    <3> QED BY <1>0, <2>2, <3>1
  <2>4. Plain!Answer(full) = [text |-> text, walk |-> Step(x.walk, t), hand |-> t, held |-> FALSE]
    <3>1. Finish(full.text, full.walk) = t /\ full.walk = x.walk
      BY DEF t
    <3>2. Plain!Answer(full) = [full EXCEPT !.hand = t, !.walk = Step(full.walk, t), !.held = FALSE]
      BY <1>1, <3>1, NoTokenIs DEF Plain!Answer, t
    <3> QED BY <3>1, <3>2
  <2> QED BY <2>3, <2>4
<1>2. CASE o \in FinishFailed(x) \/ (o = Answered(x) /\ t = DeadEnd)
  <2>1. \E b : o = [seq |-> [x EXCEPT !.ready = b], hand |-> NoToken]
    BY <1>2 DEF FinishFailed, Answered
  <2>2. seq'.layer = NumLayers /\ seq'.len = Len(text) /\ seq'.walk = x.walk /\ seq'.res = text /\ hand' = NoToken
    BY <2>1 DEF Rests, SeqFields
  <2>3. /\ RInv'
        /\ Seen' = [text |-> text, walk |-> seq'.walk, hand |-> hand', held |-> seq'.layer = NumLayers]
    BY <2>2, Settles
  <2> QED BY <2>2, <2>3
<1> QED BY <1>1, <1>2 DEF Finished

-----------------------------------------------------------------------------
(* Steps between calls. *)

LEMMA SameMoves == ASSUME Seen' = Seen PROVE Moves
BY DEF Moves

LEMMA ResetMoves ==
    ASSUME RInv, Reset
    PROVE  RInv' /\ Moves
<1>1. IInv'
  BY ResetKeeps DEF RInv
<1>2. chunk' = NoChunk /\ jump' = NoJump /\ hand' = NoToken /\ seq' = Fresh
  BY DEF Reset
<1>3. seq'.len = 0 /\ seq'.layer = 0 /\ seq'.walk = 0
  BY <1>2 DEF Fresh
<1>4. Listed(<<>>) /\ Len(<<>>) = 0 /\ Holds(device', <<>>)
  <2>1. \A x \in Rows : ~(x[1] < Len(<<>>))
    BY Empty, RowIs
  <2> QED BY <2>1, Empty DEF Holds
<1>5. 0 # NumLayers /\ 0 <= Limit
  BY Sizes
<1>6. /\ RInv'
      /\ Seen' = [text |-> <<>>, walk |-> seq'.walk, hand |-> hand', held |-> seq'.layer = NumLayers]
  BY <1>1, <1>2, <1>3, <1>4, <1>5, Settles
<1>7. Seen' = Plain!Start
  BY <1>2, <1>3, <1>5, <1>6, NoTokenIs DEF Plain!Start
<1> QED BY <1>6, <1>7 DEF Moves

\* Between calls, a full handle holds the text and nobody has its last row's token.
LEMMA HoldsAtRest ==
    ASSUME RInv, Idle, seq.layer = NumLayers, NEW text, TextIs(text)
    PROVE  hand = NoToken /\ seq.res = text /\ Seen.held
           /\ Seen = [text |-> text, walk |-> seq.walk, hand |-> NoToken, held |-> TRUE]
<1>1. AtRest = seq
  BY DEF Idle, AtRest
<1>2. Seen = [text |-> text, walk |-> seq.walk, hand |-> hand, held |-> seq.layer = NumLayers]
  BY IdleSeen DEF RInv
<1>3. Seen.held /\ Seen.text = text
  BY <1>2
<1>4. hand = NoToken /\ seq.res = text
  BY <1>1, <1>3 DEF RInv, HeldTells
<1> QED BY <1>2, <1>3, <1>4

\* The held row is finished: the plain loop's answer, or nothing seen.
LEMMA SpeaksMoves ==
    ASSUME RInv, IInv', Idle, seq.layer = NumLayers,
           NEW x, DOMAIN x = SeqFields, x.len = seq.len, x.layer = NumLayers, x.res = seq.res,
           x.walk = seq.walk, NEW o \in Finished(x), Rests(o),
           UNCHANGED <<mirror, device, mapped, chunk, jump>>
    PROVE  RInv' /\ Moves
<1>1. PICK text : TextIs(text)
  BY TheTextIs DEF RInv
<1>2. Listed(text) /\ Holds(device, text) /\ Len(text) = seq.len /\ Len(text) <= Limit
  BY <1>1, TextIsSo DEF RInv, IInv, Shapes
<1>3. seq.res = text /\ Seen.held
      /\ Seen = [text |-> text, walk |-> seq.walk, hand |-> NoToken, held |-> TRUE]
  BY <1>1, HoldsAtRest
<1>4. device' = device /\ chunk' = NoChunk /\ jump' = NoJump
  BY DEF Idle
<1>5. RInv' /\ Seen' \in {Seen, Plain!Answer(Seen)}
  BY <1>2, <1>3, <1>4, FinishTells
<1> QED BY <1>3, <1>5 DEF Moves

LEMMA FinishTokenMoves ==
    ASSUME RInv, FinishToken
    PROVE  RInv' /\ Moves
<1>1. IInv' /\ Idle /\ seq.layer = NumLayers /\ DOMAIN seq = SeqFields
  BY FinishTokenKeeps DEF RInv, FinishToken, IInv, Shapes
<1>2. PICK o \in Finished(seq) : Rests(o)
  BY DEF FinishToken
<1>3. UNCHANGED <<mirror, device, mapped, chunk, jump>>
  BY DEF FinishToken
<1> QED BY <1>1, <1>2, <1>3, SpeaksMoves

LEMMA DecodeReadyMoves ==
    ASSUME RInv, DecodeReady
    PROVE  RInv' /\ Moves
<1> DEFINE x == [seq EXCEPT !.ready = FALSE]
<1>1. IInv' /\ Idle /\ DOMAIN seq = SeqFields /\ UNCHANGED <<mirror, device, mapped, chunk, jump>>
  BY DecodeReadyKeeps DEF RInv, DecodeReady, IInv, Shapes
<1>2. DOMAIN x = SeqFields /\ x.len = seq.len /\ x.layer = seq.layer /\ x.res = seq.res /\ x.walk = seq.walk
  BY <1>1 DEF SeqFields
<1>3. CASE seq.layer = NumLayers
  <2>1. PICK o \in Finished(x) : Rests(o)
    BY <1>3 DEF DecodeReady
  <2> HIDE DEF x
  <2> QED BY <1>1, <1>2, <1>3, <2>1, SpeaksMoves
<1>4. CASE seq.layer # NumLayers
  <2>1. seq' = x /\ hand' = hand
    BY <1>4 DEF DecodeReady
  <2> HIDE DEF x
  <2>2. PICK text : TextIs(text)
    BY TheTextIs DEF RInv
  <2>3. Listed(text) /\ Holds(device, text) /\ Len(text) = seq.len /\ Len(text) <= Limit
    BY <2>2, TextIsSo DEF RInv, IInv, Shapes
  <2>4. device' = device /\ chunk' = NoChunk /\ jump' = NoJump
    BY <1>1 DEF Idle
  <2>5. seq'.len = Len(text) /\ seq'.layer # NumLayers /\ seq'.walk = seq.walk /\ seq'.layer = seq.layer
    BY <1>2, <1>4, <2>1, <2>3
  <2>6. /\ RInv'
        /\ Seen' = [text |-> text, walk |-> seq'.walk, hand |-> hand', held |-> seq'.layer = NumLayers]
    BY <1>1, <2>3, <2>4, <2>5, Settles
  <2>7. Seen = [text |-> text, walk |-> seq.walk, hand |-> hand, held |-> seq.layer = NumLayers]
    BY <1>1, <2>2, IdleSeen DEF RInv
  <2> QED BY <2>1, <2>5, <2>6, <2>7, SameMoves
<1> QED BY <1>3, <1>4

\* A draft of which the loop goes on to row a, and a finish of that row.
LEMMA DraftMoves ==
    ASSUME NEW toks, NEW a \in Nat, a >= 1, a <= Len(toks), a <= MostRows, Goes(Seen, toks, a - 1),
           Seen' \in {FullRow(Seen, toks, a), Plain!Answer(FullRow(Seen, toks, a))}
    PROVE  Moves
<1> DEFINE k == a - 1
<1>1. k \in Nat /\ k < Len(toks) /\ k < MostRows /\ k + 1 = a /\ Goes(Seen, toks, k)
  BY Lengths, Mosts DEF Goes
<1> HIDE DEF k
<1>2. FullRow(Seen, toks, a) \in ReadingFrom(Seen) /\ Plain!Answer(FullRow(Seen, toks, a)) \in LoopFrom(Seen)
  BY <1>1, LoopGoes
<1>3. Seen.hand # NoToken
  BY DEF Goes
<1> QED BY <1>2, <1>3 DEF Moves

LEMMA OneHand ==
    ASSUME NEW t, t # NoToken
    PROVE  /\ Listed(<<t>>) /\ Len(<<t>>) = 1 /\ Proper(<<t>>) /\ <<t>>[1] = t
<1> DEFINE ts == <<t>>
<1>1. ts \in Seq({t}) /\ Len(ts) = 1 /\ ts[1] = t
  OBVIOUS
<1>2. Listed(ts)
  BY <1>1, ListedIs
<1> HIDE DEF ts
<1>3. Proper(ts)
  BY <1>1, <1>2 DEF Proper
<1> QED BY <1>1, <1>2, <1>3 DEF ts

LEMMA DecodeMoves ==
    ASSUME RInv, Decode
    PROVE  RInv' /\ Moves
<1> DEFINE ts == <<hand>>
           at == <<NumLayers>>
           k == 1
           dev == Computed(device, ts, at, NumLayers)
           x == [Behold(device', 1, seq.walk) EXCEPT !.ready = FALSE]
<1>1. /\ Idle /\ hand # NoToken /\ seq.len < Limit /\ chunk' = NoChunk /\ jump' = NoJump
      /\ device' = dev /\ IInv' /\ IInv /\ Shapes
  BY DecodeKeeps DEF Decode, ReadsRow, RowRuns, Idle, RInv, IInv
<1>2. PICK text : TextIs(text)
  BY <1>1, TheTextIs
<1>3. Proper(text) /\ Listed(text) /\ Len(text) \in Nat /\ Len(text) = seq.len /\ Holds(device, text)
  BY <1>1, <1>2, TextIsSo
<1>4. Listed(ts) /\ Len(ts) = 1 /\ Proper(ts) /\ ts[1] = hand
  BY <1>1, OneHand
<1>5. k \in Nat /\ k = 1 /\ k <= Len(ts) /\ (\A r \in 1 .. k : at[r] = NumLayers) /\ seq.len + k <= Limit
  BY <1>1, <1>3, <1>4, Sizes
<1>6. PICK o \in Finished(x) : Rests(o)
  BY DEF Decode
<1>7. /\ DOMAIN x = SeqFields /\ x.len = seq.len + k /\ x.layer = NumLayers /\ x.walk = seq.walk
      /\ x.res = Residual(device', seq.len + k - 1, NumLayers)
  BY DEF Behold, SeqFields
<1> HIDE DEF x, ts, at, k
<1> DEFINE w == text \o SubSeq(ts, 1, k)
<1>8. Holds(dev, w)
  BY <1>1, <1>3, <1>4, <1>5, ComputedHolds
<1>9. Proper(w) /\ Len(w) = Len(text) + k
  BY <1>3, <1>4, <1>5, ProperGrown
<1> HIDE DEF w, dev
<1>10. Listed(w) /\ Len(w) = seq.len + k /\ Len(w) <= Limit /\ Holds(device', w) /\ x.len = Len(w)
  BY <1>1, <1>3, <1>5, <1>7, <1>8, <1>9 DEF Proper
<1>11. x.res = w
  <2> DEFINE p == seq.len + k - 1
  <2>1. p \in Nat /\ p < Len(w) /\ p + 1 = Len(w)
    BY <1>3, <1>5, <1>10
  <2>2. x.res = Residual(device', p, NumLayers)
    BY <1>7
  <2> HIDE DEF p
  <2>3. Residual(device', p, NumLayers) = SubSeq(w, 1, p + 1)
    BY <1>10, <2>1, ResidualTells
  <2> QED BY <1>10, <2>1, <2>2, <2>3, WholeHead
<1>12. ~Seen.held
  BY <1>1 DEF RInv, HeldTells
<1>13. Seen = [text |-> text, walk |-> seq.walk, hand |-> hand, held |-> FALSE]
  <2>1. Seen = [text |-> text, walk |-> seq.walk, hand |-> hand, held |-> seq.layer = NumLayers]
    BY <1>1, <1>2, IdleSeen
  <2>2. seq.layer # NumLayers
    BY <1>12, <2>1
  <2> QED BY <2>1, <2>2
<1>14. FullRow(Seen, ts, k) = [text |-> w, walk |-> x.walk, hand |-> NoToken, held |-> TRUE]
  <2>1. WalkOver(seq.walk, SubSeq(ts, 2, k)) = seq.walk
    BY <1>4, <1>5, WalkStays
  <2> QED BY <1>7, <1>13, <2>1 DEF FullRow, w
<1>15. RInv' /\ Seen' \in {FullRow(Seen, ts, k), Plain!Answer(FullRow(Seen, ts, k))}
  BY <1>1, <1>6, <1>7, <1>10, <1>11, <1>14, FinishTells
<1>16. Goes(Seen, ts, k - 1)
  <2>1. Seen.text = text /\ Seen = [text |-> Seen.text, walk |-> Seen.walk, hand |-> ts[1], held |-> FALSE]
    BY <1>4, <1>13
  <2>2. 1 .. k - 1 = {} /\ 2 .. Len(ts) = {}
    BY <1>4, <1>5
  <2> QED BY <1>1, <1>3, <1>4, <2>1, <2>2 DEF Goes
<1>17. Moves
  BY <1>4, <1>5, <1>15, <1>16, Mosts, DraftMoves
<1> QED BY <1>15, <1>17

LEMMA DecodeFailsMoves ==
    ASSUME RInv, NEW n \in 0 .. Top, DecodeFails(n)
    PROVE  RInv' /\ Moves
<1> DEFINE dev == Spoiled(device)
<1>1. /\ Idle /\ hand # NoToken /\ chunk' = NoChunk /\ jump' = NoJump /\ hand' = hand
      /\ device' = dev /\ seq' = [seq EXCEPT !.layer = n, !.res = Junk] /\ IInv' /\ IInv /\ Shapes
  BY DecodeFailsKeeps DEF DecodeFails, ReadsRow, RowRuns, Idle, RInv, IInv
<1>2. PICK text : TextIs(text)
  BY <1>1, TheTextIs
<1>3. Listed(text) /\ Len(text) \in Nat /\ Len(text) = seq.len /\ Len(text) <= Limit /\ Holds(device, text)
  BY <1>1, <1>2, TextIsSo DEF Shapes
<1>4. Holds(device', text)
  <2>1. Holds(dev, text)
    BY <1>3, BelowHolds DEF Spoiled
  <2> QED BY <1>1, <2>1
<1>5. n # NumLayers
  BY Sizes DEF Top
<1>6. seq'.layer # NumLayers /\ seq'.len = Len(text) /\ seq'.walk = seq.walk
  BY <1>1, <1>3, <1>5 DEF Shapes, SeqFields
<1> HIDE DEF dev
<1>7. /\ RInv'
      /\ Seen' = [text |-> text, walk |-> seq'.walk, hand |-> hand', held |-> seq'.layer = NumLayers]
  BY <1>1, <1>3, <1>4, <1>6, Settles
<1>8. Seen = [text |-> text, walk |-> seq.walk, hand |-> hand, held |-> seq.layer = NumLayers]
  BY <1>1, <1>2, IdleSeen
<1>9. seq.layer # NumLayers
  BY <1>1, <1>8 DEF RInv, HeldTells
<1>10. Seen' = Seen
  BY <1>1, <1>6, <1>7, <1>8, <1>9
<1> QED BY <1>7, <1>10, SameMoves

-----------------------------------------------------------------------------
(* A chunk and a jump begin. *)

LEMMA EmbedRowsMoves ==
    ASSUME RInv, NEW kind \in {"prompt", "exact"}, NEW ts \in Chunks, EmbedRows(kind, ts)
    PROVE  RInv' /\ Moves
<1> DEFINE n == Admitted(kind, ts)
           rows == SubSeq(ts, 1, n)
<1>1. Listed(ts) /\ Len(ts) \in Nat /\ Len(ts) >= 1 /\ Len(ts) <= MaxRows /\ \A i \in 1 .. Len(ts) : ts[i] \in Tokens
  <2>1. PICK m \in 1 .. MaxRows : ts \in [1 .. m -> Tokens]
    BY DEF Chunks
  <2>2. ts \in Seq(Tokens) /\ Len(ts) = m /\ m \in Nat /\ m >= 1 /\ m <= MaxRows
    BY <2>1, Sizes
  <2> QED BY <2>1, <2>2, ListedIs
<1>2. Idle /\ n > 0 /\ Shapes /\ IInv /\ IInv'
  BY EmbedRowsKeeps DEF EmbedRows, RInv, IInv
<1>3. n \in Nat /\ n <= Len(ts)
  BY <1>1, <1>2, AdmittedIs
<1>4. /\ chunk' = [kind |-> kind, toks |-> rows, done |-> 0, at |-> Unrefused(rows), snap |-> NoRows,
                   mrow |-> NoRows, entry |-> Entry, was |-> device]
      /\ seq' = IF Len(rows) = 1 THEN [seq EXCEPT !.ready = FALSE, !.layer = 0, !.res = <<>>]
                ELSE [seq EXCEPT !.ready = FALSE]
      /\ UNCHANGED <<mirror, device, mapped, jump, hand>>
      /\ kind = "exact" => InHand /\ ts[1] = hand
  BY DEF EmbedRows, Opened
<1> HIDE DEF n
<1>5. Listed(rows) /\ Len(rows) = n /\ \A i \in 1 .. n : rows[i] = ts[i]
  BY <1>1, <1>3, Headed
<1> HIDE DEF rows
<1>6. seq'.walk = seq.walk
  <2>1. CASE Len(rows) = 1
    <3>1. seq' = [seq EXCEPT !.ready = FALSE, !.layer = 0, !.res = <<>>]
      BY <1>4, <2>1
    <3> QED BY <1>2, <3>1 DEF Shapes, SeqFields
  <2>2. CASE Len(rows) # 1
    <3>1. seq' = [seq EXCEPT !.ready = FALSE]
      BY <1>4, <2>2
    <3> QED BY <1>2, <3>1 DEF Shapes, SeqFields
  <2> QED BY <2>1, <2>2
<1>7. chunk'.kind = kind /\ chunk'.toks = rows /\ chunk'.entry = Entry /\ Entry.seq = seq
  BY <1>4 DEF Entry
<1>8. rows # <<>>
  BY <1>2, <1>5, Lengths
<1>9. chunk' # NoChunk /\ jump = NoJump /\ jump' = NoJump /\ chunk = NoChunk
  BY <1>2, <1>4, <1>7, <1>8 DEF NoChunk, Idle
<1>10. AtRest' = AtRest
  BY <1>7, <1>9 DEF AtRest
<1>11. Seen' = Seen /\ HeldTells'
  BY <1>4, <1>10, SeenStays DEF RInv
<1>12. ChunkTells'
  <2>1. \A i \in 1 .. Len(rows) : rows[i] \in Tokens
    BY <1>1, <1>3, <1>5
  <2>2. Len(rows) <= MaxRows
    BY <1>1, <1>3, <1>5, Sizes
  <2>3. ASSUME kind = "exact" PROVE seq.layer = 0 /\ rows[1] = hand'
    <3>1. 1 \in 1 .. n
      BY <1>2, <1>3
    <3> QED BY <1>4, <1>5, <2>3, <3>1 DEF InHand
  <2> QED BY <1>6, <1>7, <2>1, <2>2, <2>3 DEF ChunkTells
<1>13. JumpTells'
  BY <1>9 DEF JumpTells
<1> QED BY <1>2, <1>11, <1>12, <1>13, SameMoves DEF RInv

LEMMA JumpForwardMoves ==
    ASSUME RInv, NEW draft \in Drafts, JumpForward(draft)
    PROVE  RInv' /\ Moves
<1> DEFINE room == Min2(Len(draft), Limit - seq.len - 1)
           rows == SubSeq(draft, 1, room)
           ts == <<hand>> \o rows
           n == LegalPrefix(ts)
<1>1. /\ Idle /\ seq.layer = 0 /\ hand # NoToken /\ room > 0 /\ n > 1
      /\ jump' = [toks |-> SubSeq(ts, 1, n), off |-> 0, kept |-> 0, stop |-> FALSE,
                  walk |-> seq.walk, entry |-> Entry, mirror |-> mirror]
      /\ UNCHANGED <<seq, mirror, device, chunk, hand>>
  BY DEF JumpForward, InHand
<1>2. /\ jump = NoJump /\ chunk = NoChunk /\ seq.len \in Nat /\ IInv /\ IInv'
  BY <1>1, AtRestFits, JumpForwardKeeps DEF RInv
<1>3. Listed(draft) /\ Len(draft) \in Nat /\ Len(draft) <= MaxDraft /\ \A i \in 1 .. Len(draft) : draft[i] \in Tokens
  <2>1. PICK m \in 1 .. MaxDraft : draft \in [1 .. m -> Tokens]
    BY DEF Drafts
  <2>2. draft \in Seq(Tokens) /\ Len(draft) = m /\ m \in Nat /\ m <= MaxDraft
    BY <2>1, Sizes
  <2> QED BY <2>1, <2>2, ListedIs
<1>4. room \in Nat /\ room <= Len(draft)
  <2> DEFINE left == Limit - seq.len - 1
  <2>1. left \in Int
    BY <1>2, Sizes
  <2>2. room = Min2(Len(draft), left)
    OBVIOUS
  <2> HIDE DEF left, room
  <2>3. room <= Len(draft) /\ room \in Int
    BY <1>3, <2>1, <2>2 DEF Min2
  <2> QED BY <1>1, <1>3, <2>3
<1> HIDE DEF room
<1>5. /\ Listed(ts) /\ Len(ts) = 1 + room /\ ts[1] = hand
      /\ \A i \in 1 .. room : ts[1 + i] \in Tokens
  <2>1. Listed(rows) /\ Len(rows) = room /\ \A i \in 1 .. room : rows[i] \in Tokens
    <3>1. Listed(rows) /\ Len(rows) = room /\ \A i \in 1 .. room : rows[i] = draft[i]
      BY <1>3, <1>4, Headed
    <3>2. \A i \in 1 .. room : i \in 1 .. Len(draft)
      BY <1>3, <1>4
    <3> QED BY <1>3, <3>1, <3>2
  <2> HIDE DEF rows
  <2> DEFINE one == <<hand>>
  <2>2. Listed(one) /\ Len(one) = 1 /\ one[1] = hand
    BY <1>1, OneHand
  <2> HIDE DEF one
  <2>3. /\ Listed(one \o rows) /\ Len(one \o rows) = Len(one) + Len(rows)
        /\ \A i \in 1 .. Len(one) : (one \o rows)[i] = one[i]
        /\ \A i \in 1 .. Len(rows) : (one \o rows)[Len(one) + i] = rows[i]
    <3>1. Listed(one) /\ Listed(rows)
      BY <2>1, <2>2
    <3> QED BY ONLY <3>1, Joined
  <2>4. ts = one \o rows
    BY DEF one
  <2> HIDE DEF ts
  <2> QED BY <2>1, <2>2, <2>3, <2>4
<1> HIDE DEF ts
<1>6. n \in Nat /\ n <= Len(ts)
  <2>1. n \in 1 .. Len(ts) /\ Len(ts) \in Nat
    BY <1>4, <1>5, LegalPrefixIs
  <2> HIDE DEF n
  <2> QED BY <2>1
<1> HIDE DEF n
<1> DEFINE toks == SubSeq(ts, 1, n)
<1>7. Listed(toks) /\ Len(toks) = n /\ \A i \in 1 .. n : toks[i] = ts[i]
  BY <1>5, <1>6, Headed
<1>8. /\ jump'.toks = toks /\ jump'.off = 0 /\ jump'.kept = 0 /\ jump'.walk = seq.walk
      /\ jump'.stop = FALSE /\ jump'.entry.seq = seq
  BY <1>1 DEF Entry
<1> HIDE DEF toks
<1>9. jump' # NoJump
  <2>1. Len(toks) >= 1
    BY <1>1, <1>6, <1>7
  <2>2. toks # <<>>
    BY ONLY <1>7, <2>1, Lengths
  <2> QED BY <1>8, <2>2 DEF NoJump
<1>10. chunk' = NoChunk /\ AtRest = seq /\ AtRest' = seq
  BY <1>1, <1>2, <1>8, <1>9 DEF AtRest
<1>11. Seen' = Seen /\ HeldTells'
  BY <1>1, <1>10, SeenStays DEF RInv
<1>12. ChunkTells'
  BY <1>10 DEF ChunkTells
<1>13. PICK text : TextIs(text)
  BY <1>2, TheTextIs
<1>14. Listed(text) /\ Len(text) \in Nat /\ Len(text) = seq.len /\ Len(text) <= Limit /\ Holds(device, text)
  BY <1>2, <1>13, TextIsSo DEF IInv, Shapes
<1>15. Seen.text = text /\ SeenText(device, seq.len) = text
  <2>1. Seen.text = text
    BY <1>2, <1>13, SeenIs
  <2> QED BY <1>14, <2>1, TextTells, WholeHead
<1>16. JumpTells'
  <2>0. seq' = seq /\ hand' = hand /\ device' = device /\ seq.layer = 0 /\ hand # NoToken
    BY <1>1
  <2>1. Len(toks) <= MaxDraft + 1
    BY <1>3, <1>4, <1>5, <1>6, <1>7, Sizes
  <2>2. toks[1] = hand
    <3>1. 1 \in 1 .. n
      BY <1>1, <1>6
    <3> QED BY <1>5, <1>7, <3>1
  <2>3. \A i \in 2 .. Len(toks) : toks[i] \in Tokens
    <3> TAKE i \in 2 .. Len(toks)
    <3> DEFINE j == i - 1
    <3>1. j \in 1 .. room /\ 1 + j = i /\ i \in 1 .. n
      BY <1>4, <1>5, <1>6, <1>7
    <3> HIDE DEF j
    <3> QED BY <1>5, <1>7, <3>1
  <2>4. WalkOver(seq.walk, SubSeq(toks, 2, 0)) = seq.walk
    BY <1>7, WalkStays
  <2>5. text \o SubSeq(toks, 1, 0) = text
    BY <1>7, <1>14, NoneOf
  <2>6. SeenText(device', seq'.len) = Seen'.text \o SubSeq(jump'.toks, 1, jump'.kept)
    BY <2>0, <1>8, <1>11, <1>15, <2>5
  <2>7. seq'.walk = JumpWalk(jump.kept)'
    BY <2>0, <1>8, <2>4 DEF JumpWalk
  <2>8. seq'.layer # NumLayers
    BY <2>0, Sizes
  <2>9. 1 .. jump'.kept = {}
    BY <1>8
  <2>10. jump'.kept <= jump'.off /\ jump'.walk = jump'.entry.seq.walk /\ jump'.entry.seq.layer = 0
         /\ jump'.toks[1] = hand' /\ hand' # NoToken
    BY <1>8, <2>0, <2>2
  <2>11. Len(jump'.toks) <= MaxDraft + 1 /\ \A i \in 2 .. Len(jump'.toks) : jump'.toks[i] \in Tokens
    BY <1>8, <2>1, <2>3
  <2> QED BY <2>6, <2>7, <2>8, <2>9, <2>10, <2>11 DEF JumpTells
<1> QED BY <1>2, <1>11, <1>12, <1>16, SameMoves DEF RInv

-----------------------------------------------------------------------------
(* The steps of a chunk. *)

LEMMA FedToIs ==
    ASSUME NEW ts
    PROVE  FedTo(Seen, ts) = [text |-> Seen.text \o ts, walk |-> Seen.walk, hand |-> NoToken, held |-> TRUE]
<1>1. Seen = [text |-> Seen.text, walk |-> Seen.walk, hand |-> Seen.hand, held |-> Seen.held]
  BY DEF Seen
<1>2. FedTo(Seen, ts) = [Seen EXCEPT !.text = Seen.text \o ts, !.hand = NoToken, !.held = TRUE]
  BY DEF FedTo
<1> QED BY ONLY <1>1, <1>2

LEMMA LostIs ==
    ASSUME NEW t, NEW w, NEW h, NEW b \in BOOLEAN
    PROVE  Plain!Lost([text |-> t, walk |-> w, hand |-> h, held |-> b]) = [text |-> t, walk |-> w, hand |-> NoToken, held |-> FALSE]
<1> DEFINE x == [text |-> t, walk |-> w, hand |-> h, held |-> b]
<1>1. Plain!Lost(x) = [x EXCEPT !.hand = NoToken, !.held = FALSE]
  BY NoTokenIs DEF Plain!Lost
<1> QED BY <1>1

LEMMA TokenIs ==
    ASSUME NEW t \in Tokens
    PROVE  t # NoToken /\ t # DeadEnd
BY SizesAssumption DEF Tokens, NoToken, DeadEnd

\* What an open chunk, or the same further on, is to the caller.
LEMMA ChunkIs ==
    ASSUME RInv, chunk # NoChunk, NEW c, Same(c), NEW text, TextIs(text)
    PROVE  /\ IInv /\ Shapes /\ jump = NoJump /\ Listed(c.toks) /\ Len(c.toks) \in Nat /\ Len(c.toks) >= 1
           /\ c.toks # <<>> /\ Proper(c.toks)
           /\ Len(c.toks) <= MostRows /\ seq.len \in Nat /\ seq.len + Len(c.toks) <= Limit
           /\ \A i \in 1 .. Len(c.toks) : c.toks[i] \in Tokens
           /\ c.kind = "prompt" \/ c.kind = "exact"
           /\ AtRest = c.entry.seq /\ c.entry.seq.len = seq.len
           /\ Seen = [text |-> text, walk |-> seq.walk, hand |-> hand, held |-> c.entry.seq.layer = NumLayers]
           /\ c.kind = "exact" => c.entry.seq.layer = 0 /\ c.toks[1] = hand
<1>1. /\ IInv /\ Shapes /\ jump = NoJump /\ Listed(chunk.toks) /\ Proper(chunk.toks) /\ chunk.toks # <<>>
      /\ seq.len + Len(chunk.toks) <= Limit /\ chunk.entry.seq.len = seq.len
  BY Opens DEF RInv
<1>2. c.toks = chunk.toks /\ c.entry = chunk.entry /\ c.kind = chunk.kind
  BY DEF Same
<1>3. /\ seq.walk = chunk.entry.seq.walk
      /\ \A i \in 1 .. Len(chunk.toks) : chunk.toks[i] \in Tokens
      /\ Len(chunk.toks) <= MaxRows
      /\ chunk.kind = "prompt" \/ chunk.kind = "exact"
      /\ chunk.kind = "exact" => chunk.entry.seq.layer = 0 /\ chunk.toks[1] = hand
  BY DEF RInv, ChunkTells
<1>4. Len(chunk.toks) \in Nat /\ Len(chunk.toks) >= 1 /\ Len(chunk.toks) <= MostRows /\ seq.len \in Nat
  BY <1>1, <1>3, Lengths, Mosts, Sizes DEF Shapes
<1>5. /\ AtRest = chunk.entry.seq
      /\ Seen = [text |-> text, walk |-> chunk.entry.seq.walk, hand |-> hand,
                 held |-> chunk.entry.seq.layer = NumLayers]
  BY <1>1, ChunkSeen
<1> QED BY <1>1, <1>2, <1>3, <1>4, <1>5

\* Row r of what was computed has, at full depth, the text up to it.
RowFits(text, toks, r) ==
    /\ Listed(text) /\ Listed(toks) /\ r \in Nat /\ r >= 1 /\ r <= Len(toks)
    /\ seq.len \in Nat /\ Len(text) = seq.len /\ seq.len + r <= Limit

RowTold(dev, text, toks, r) ==
    /\ Residual(dev, seq.len + r - 1, NumLayers) = text \o SubSeq(toks, 1, r)
    /\ Listed(text \o SubSeq(toks, 1, r)) /\ Len(text \o SubSeq(toks, 1, r)) = seq.len + r

LEMMA RowTells ==
    ASSUME NEW dev, NEW text, NEW toks, NEW r, RowFits(text, toks, r), Holds(dev, text \o SubSeq(toks, 1, r))
    PROVE  RowTold(dev, text, toks, r)
<1> DEFINE n == seq.len
<1>0. /\ n \in Nat /\ Len(text) = n /\ n + r <= Limit
      /\ Listed(text) /\ Listed(toks) /\ r \in Nat /\ r >= 1 /\ r <= Len(toks)
  BY DEF RowFits
<1> HIDE DEF n
<1> DEFINE a == SubSeq(toks, 1, r)
<1>1. Listed(a) /\ Len(a) = r
  BY <1>0, Headed
<1> HIDE DEF a
<1> DEFINE w == text \o a
<1>2. Listed(w) /\ Len(w) = n + r
  BY <1>0, <1>1, Joined
<1>3. Holds(dev, w)
  BY DEF a
<1> HIDE DEF w
<1> DEFINE p == n + r - 1
<1>4. p \in Nat /\ p < Len(w) /\ p + 1 = Len(w) /\ Len(w) <= Limit
  BY <1>0, <1>2
<1> HIDE DEF p
<1>5. Residual(dev, p, NumLayers) = SubSeq(w, 1, p + 1)
  BY <1>2, <1>3, <1>4, ResidualTells
<1>6. Residual(dev, p, NumLayers) = w
  BY <1>2, <1>4, <1>5, WholeHead
<1> QED BY <1>2, <1>6 DEF p, w, a, n, RowTold

\* The rows of a draft that agree with it are the loop's.
LEMMA DraftGoes ==
    ASSUME RInv, chunk # NoChunk, NEW c, Same(c), c.kind = "exact", NEW text, TextIs(text),
           NEW dev, Told(c, dev, text), NEW k \in Nat, k < Len(c.toks),
           \A r \in 1 .. k : c.at[r] = NumLayers /\ Agrees(dev, c.toks, r)
    PROVE  Goes(Seen, c.toks, k)
<1> DEFINE toks == c.toks
<1>1. /\ Listed(toks) /\ Len(toks) \in Nat /\ Len(toks) >= 1 /\ seq.len \in Nat /\ seq.len + Len(toks) <= Limit
      /\ (\A i \in 1 .. Len(toks) : toks[i] \in Tokens)
      /\ Seen = [text |-> text, walk |-> seq.walk, hand |-> hand, held |-> c.entry.seq.layer = NumLayers]
      /\ c.entry.seq.layer = 0 /\ toks[1] = hand /\ IInv
  BY ChunkIs
<1>2. Listed(text) /\ Len(text) = seq.len
  BY <1>1, TextIsSo
<1>0. seq.len \in Nat /\ Listed(toks) /\ Len(toks) \in Nat /\ seq.len + Len(toks) <= Limit
  BY <1>1
<1>3. Seen.text = text /\ Seen.walk = seq.walk
  BY <1>1
<1>4. Seen = [text |-> Seen.text, walk |-> Seen.walk, hand |-> toks[1], held |-> FALSE]
  <2>1. c.entry.seq.layer # NumLayers
    BY <1>1, Sizes
  <2>2. Seen = [text |-> text, walk |-> seq.walk, hand |-> toks[1], held |-> c.entry.seq.layer = NumLayers]
    BY <1>1
  <2> QED BY <1>3, <2>1, <2>2
<1>5. toks[1] # NoToken /\ \A i \in 2 .. Len(toks) : toks[i] # NoToken /\ toks[i] # DeadEnd
  BY <1>1, TokenIs
<1>6. \A r \in 1 .. k : Finish(text \o SubSeq(toks, 1, r), WalkOver(seq.walk, SubSeq(toks, 2, r))) = toks[r + 1]
  <2> TAKE r \in 1 .. k
  <2>1. r \in Nat /\ r >= 1 /\ r <= Len(toks) /\ r \in 1 .. Len(toks) /\ seq.len + r <= Limit
    BY <1>0, Sizes
  <2>2. \A q \in 1 .. r : c.at[q] = NumLayers
    OBVIOUS
  <2>3. Holds(dev, text \o SubSeq(toks, 1, r))
    BY <2>1, <2>2 DEF Told
  <2>4. Agrees(dev, toks, r)
    OBVIOUS
  <2> HIDE DEF toks
  <2>5. Residual(dev, seq.len + r - 1, NumLayers) = text \o SubSeq(toks, 1, r)
    <3>1. RowFits(text, toks, r)
      BY ONLY <1>0, <1>2, <2>1 DEF RowFits
    <3>2. RowTold(dev, text, toks, r)
      BY ONLY <2>3, <3>1, RowTells, Zenon
    <3> QED BY ONLY <3>2 DEF RowTold
  <2> QED BY <2>4, <2>5 DEF Agrees, WalkAfter
<1> HIDE DEF toks
<1>7. Goes(Seen, toks, k)
  BY <1>1, <1>2, <1>3, <1>4, <1>5, <1>6 DEF Goes
<1> QED BY <1>7 DEF toks

LEMMA PromptIs ==
    ASSUME NEW ts, Listed(ts), Len(ts) >= 1, Len(ts) <= MostRows, \A i \in 1 .. Len(ts) : ts[i] \in Tokens
    PROVE  ts \in Plain!Prompts
<1>1. Len(ts) \in Nat /\ MostRows \in Nat
  BY Lengths, Mosts
<1>2. Len(ts) \in 1 .. MostRows
  BY <1>1
<1>3. ts = [i \in 1 .. Len(ts) |-> ts[i]]
  BY DEF Listed
<1>4. ts \in [1 .. Len(ts) -> 0 .. Vocab - 1]
  BY <1>3 DEF Tokens
<1> QED BY <1>2, <1>4 DEF Plain!Prompts, MostRows

LEMMA RollbackMoves ==
    ASSUME RInv, IInv', chunk # NoChunk, NEW c, Same(c), NEW dev, NEW text, TextIs(text), Holds(device', text),
           Rollback(c, dev)
    PROVE  RInv' /\ Moves
<1>1. /\ IInv /\ Shapes /\ jump = NoJump /\ AtRest = c.entry.seq /\ c.entry.seq.len = seq.len /\ seq.len \in Nat
      /\ Seen = [text |-> text, walk |-> seq.walk, hand |-> hand, held |-> c.entry.seq.layer = NumLayers]
      /\ seq.len + Len(c.toks) <= Limit /\ Len(c.toks) \in Nat
  BY ChunkIs
<1>2. seq' = c.entry.seq /\ chunk' = NoChunk /\ jump' = NoJump /\ hand' = hand
  BY <1>1 DEF Rollback
<1>3. Listed(text) /\ Len(text) = seq.len /\ Len(text) <= Limit
  <2>1. Listed(text) /\ Len(text) = seq.len /\ seq.len <= Limit
    BY <1>1, TextIsSo DEF Shapes
  <2> QED BY <2>1
<1>4. seq'.layer = NumLayers => hand' = NoToken /\ seq'.res = text
  <2> SUFFICES ASSUME c.entry.seq.layer = NumLayers PROVE hand = NoToken /\ c.entry.seq.res = text
    BY <1>2
  <2>1. Seen.held /\ Seen.text = text
    BY <1>1
  <2> QED BY <1>1, <2>1 DEF RInv, HeldTells
<1>5. /\ RInv'
      /\ Seen' = [text |-> text, walk |-> seq'.walk, hand |-> hand', held |-> seq'.layer = NumLayers]
  BY <1>1, <1>2, <1>3, <1>4, Settles
<1>6. c.entry.seq.walk = seq.walk
  BY DEF RInv, ChunkTells, Same
<1>7. Seen' = Seen
  BY <1>1, <1>2, <1>5, <1>6
<1> QED BY <1>5, <1>7, SameMoves

LEMMA CommitPromptMoves ==
    ASSUME RInv, chunk # NoChunk, NEW c, Same(c), NEW dev, NEW text, TextIs(text), Told(c, dev, text),
           CommitPrompt(c, dev)
    PROVE  RInv' /\ Moves
<1> DEFINE k == Len(c.toks)
           f == k - 1
           w == text \o SubSeq(c.toks, 1, k)
<1>1. /\ IInv /\ Shapes /\ jump = NoJump /\ Listed(c.toks) /\ k \in Nat /\ k >= 1 /\ k <= MostRows
      /\ seq.len \in Nat /\ seq.len + k <= Limit /\ \A i \in 1 .. k : c.toks[i] \in Tokens
  BY ChunkIs
<1>2. Seen = [text |-> text, walk |-> seq.walk, hand |-> hand, held |-> c.entry.seq.layer = NumLayers]
  BY ChunkIs
<1>3. /\ CommitPrefix(c, dev, f) /\ seq' = Behold(dev, k, seq.walk) /\ hand' = NoToken
      /\ \A r \in 1 .. k : c.at[r] = NumLayers
  BY DEF CommitPrompt, Clean, Unrefused
<1>4. f \in Nat /\ f < Len(c.toks) /\ k \in {f, f + 1}
  BY <1>1
<1>5. DOMAIN seq' = SeqFields /\ seq'.len = seq.len + k
  BY <1>3, BeholdIs
<1>6. seq'.layer = NumLayers /\ seq'.walk = seq.walk /\ seq'.res = Residual(dev, seq.len + k - 1, NumLayers)
  BY <1>3 DEF Behold
<1>7. Listed(text) /\ Len(text) = seq.len
  BY <1>1, TextIsSo
<1> HIDE DEF f
<1>8. Holds(dev, text \o SubSeq(c.toks, 1, k))
  <2>1. k \in 1 .. Len(c.toks)
    BY <1>1
  <2> QED BY <1>3, <2>1 DEF Told
<1>9. k <= Len(c.toks)
  BY <1>1
<1> HIDE DEF k
<1>10. IInv' /\ Holds(device', w)
  BY <1>1, <1>3, <1>4, <1>5, PrefixCommitted
<1>11. seq'.res = w /\ Listed(w) /\ Len(w) = seq.len + k
  <2>1. k \in Nat /\ k >= 1 /\ seq.len \in Nat /\ seq.len + k <= Limit /\ Listed(c.toks)
    BY <1>1
  <2>2. /\ Residual(dev, seq.len + k - 1, NumLayers) = text \o SubSeq(c.toks, 1, k)
        /\ Listed(text \o SubSeq(c.toks, 1, k)) /\ Len(text \o SubSeq(c.toks, 1, k)) = seq.len + k
    <3>1. RowFits(text, c.toks, k)
      BY ONLY <1>7, <1>9, <2>1 DEF RowFits
    <3>2. RowTold(dev, text, c.toks, k)
      BY ONLY <1>8, <3>1, RowTells, Zenon
    <3> QED BY ONLY <3>2 DEF RowTold
  <2> QED BY <1>6, <2>2
<1> HIDE DEF w
<1>12. chunk' = NoChunk /\ jump' = NoJump
  BY <1>1, <1>3 DEF CommitPrefix
<1>13. /\ RInv'
       /\ Seen' = [text |-> w, walk |-> seq'.walk, hand |-> hand', held |-> seq'.layer = NumLayers]
  BY <1>1, <1>3, <1>5, <1>6, <1>10, <1>11, <1>12, Settles
<1>14. w = text \o c.toks
  BY <1>1, WholeHead DEF w, k
<1>15. Seen' = FedTo(Seen, c.toks)
  <2>1. Seen.text = text /\ Seen.walk = seq.walk
    BY <1>2
  <2>2. FedTo(Seen, c.toks) = [text |-> text \o c.toks, walk |-> seq.walk, hand |-> NoToken, held |-> TRUE]
    <3>1. FedTo(Seen, c.toks) = [text |-> Seen.text \o c.toks, walk |-> Seen.walk, hand |-> NoToken, held |-> TRUE]
      BY ONLY FedToIs, Zenon
    <3> QED BY ONLY <2>1, <3>1, Zenon
  <2>3. Seen' = [text |-> w, walk |-> seq.walk, hand |-> NoToken, held |-> TRUE]
    BY <1>3, <1>6, <1>13
  <2> QED BY <1>14, <2>2, <2>3
<1>16. c.toks \in Plain!Prompts
  BY <1>1, PromptIs DEF k
<1> QED BY <1>13, <1>15, <1>16 DEF Moves

LEMMA CommitDraftMoves ==
    ASSUME RInv, chunk # NoChunk, NEW c, Same(c), NEW dev, NEW text, TextIs(text), Told(c, dev, text),
           CommitDraft(c, dev)
    PROVE  RInv' /\ Moves
<1>1. /\ IInv /\ Shapes /\ jump = NoJump /\ Listed(c.toks) /\ Len(c.toks) \in Nat /\ Len(c.toks) <= MostRows
      /\ seq.len \in Nat /\ seq.len + Len(c.toks) <= Limit
  BY ChunkIs
<1>2. Seen = [text |-> text, walk |-> seq.walk, hand |-> hand, held |-> c.entry.seq.layer = NumLayers]
  BY ChunkIs
<1>3. PICK a \in 1 .. Len(c.toks) :
         /\ \A r \in 1 .. a : c.at[r] = NumLayers
         /\ MayEnd(c, dev, a)
         /\ \E o \in Finished(Behold(dev, a, WalkAfter(c.toks, a))) : Rests(o)
         /\ CommitPrefix(c, dev, a - 1)
  BY DEF CommitDraft
<1> DEFINE f == a - 1
           x == Behold(dev, a, WalkAfter(c.toks, a))
           w == text \o SubSeq(c.toks, 1, a)
<1>4. f \in Nat /\ f < Len(c.toks) /\ a \in {f, f + 1} /\ a \in Nat /\ a >= 1 /\ a <= Len(c.toks)
      /\ seq.len + a <= Limit /\ a <= MostRows
  BY <1>1, Mosts, Sizes
<1>5. CommitPrefix(c, dev, f)
  BY <1>3
<1>6. PICK o \in Finished(x) : Rests(o)
  BY <1>3
<1>7. /\ DOMAIN x = SeqFields /\ x.len = seq.len + a /\ x.res = Residual(dev, seq.len + a - 1, NumLayers)
      /\ x.layer = NumLayers /\ x.walk = WalkAfter(c.toks, a)
  BY BeholdIs DEF Behold
<1> HIDE DEF x
<1>8. DOMAIN seq' = SeqFields /\ seq'.len = seq.len + a
  BY <1>6, <1>7, FinishedIs DEF Rests
<1>9. Listed(text) /\ Len(text) = seq.len
  BY <1>1, TextIsSo
<1>10. Holds(dev, text \o SubSeq(c.toks, 1, a))
  BY <1>3 DEF Told
<1>11. IInv' /\ Holds(device', w)
  <2> HIDE DEF f
  <2> QED BY <1>1, <1>3, <1>4, <1>5, <1>8, PrefixCommitted
<1>12. x.res = w /\ Listed(w) /\ Len(w) = seq.len + a
  <2>1. seq.len \in Nat /\ Listed(c.toks)
    BY <1>1
  <2>2. /\ Residual(dev, seq.len + a - 1, NumLayers) = text \o SubSeq(c.toks, 1, a)
        /\ Listed(text \o SubSeq(c.toks, 1, a)) /\ Len(text \o SubSeq(c.toks, 1, a)) = seq.len + a
    <3>1. RowFits(text, c.toks, a)
      BY ONLY <1>4, <1>9, <2>1 DEF RowFits
    <3>2. RowTold(dev, text, c.toks, a)
      BY ONLY <1>10, <3>1, RowTells, Zenon
    <3> QED BY ONLY <3>2 DEF RowTold
  <2> QED BY <1>7, <2>2
<1> HIDE DEF w
<1>13. chunk' = NoChunk /\ jump' = NoJump
  BY <1>1, <1>3 DEF CommitPrefix
<1>14. FullRow(Seen, c.toks, a) = [text |-> w, walk |-> x.walk, hand |-> NoToken, held |-> TRUE]
  BY <1>2, <1>7 DEF FullRow, WalkAfter, w
<1>15. RInv' /\ Seen' \in {FullRow(Seen, c.toks, a), Plain!Answer(FullRow(Seen, c.toks, a))}
  <2>1. x.len = Len(w) /\ Len(w) <= Limit
    BY <1>4, <1>7, <1>12
  <2> QED BY <1>6, <1>7, <1>11, <1>12, <1>13, <1>14, <2>1, FinishTells
<1>16. Goes(Seen, c.toks, a - 1)
  <2>1. c.kind = "exact"
    BY DEF CommitDraft
  <2>2. \A r \in 1 .. f : c.at[r] = NumLayers /\ Agrees(dev, c.toks, r)
    <3>1. \A r \in 1 .. a - 1 : r \in 1 .. a
      BY <1>4
    <3> QED BY <1>3, <3>1 DEF MayEnd
  <2>3. Goes(Seen, c.toks, f)
    <3> HIDE DEF f
    <3> QED BY <1>4, <2>1, <2>2, DraftGoes
  <2> QED BY <2>3
<1>17. Moves
  BY <1>4, <1>15, <1>16, DraftMoves
<1> QED BY <1>15, <1>17

LEMMA RefuseMoves ==
    ASSUME RInv, chunk # NoChunk, NEW c, Same(c), c.at \in [1 .. Len(c.toks) -> 0 .. NumLayers],
           NEW dev, NEW text, TextIs(text), Told(c, dev, text), Refuse(c, dev)
    PROVE  RInv' /\ Moves
<1>1. /\ IInv /\ Shapes /\ jump = NoJump /\ Listed(c.toks) /\ Len(c.toks) \in Nat /\ Len(c.toks) <= MostRows
      /\ seq.len \in Nat /\ seq.len + Len(c.toks) <= Limit
      /\ \A i \in 1 .. Len(c.toks) : c.toks[i] \in Tokens
      /\ c.kind = "prompt" \/ c.kind = "exact"
  BY ChunkIs
<1>2. Seen = [text |-> text, walk |-> seq.walk, hand |-> hand, held |-> c.entry.seq.layer = NumLayers]
  BY ChunkIs
<1>3. PICK j \in 1 .. Len(c.toks) :
        /\ c.at[j] < NumLayers /\ \A r \in 1 .. j - 1 : c.at[r] = NumLayers
        /\ c.kind = "exact" => \A r \in 1 .. j - 1 : Agrees(dev, c.toks, r)
        /\ CommitPrefix(c, dev, j - 1)
        /\ seq' = [len |-> seq.len + j - 1, layer |-> c.at[j], ready |-> FALSE, res |-> Junk,
                   walk |-> IF c.kind = "exact" THEN WalkAfter(c.toks, j) ELSE seq.walk]
        /\ hand' = IF c.kind = "exact" THEN c.toks[j] ELSE NoToken
  BY DEF Refuse
<1> DEFINE f == j - 1
           w == text \o SubSeq(c.toks, 1, f)
<1>4. f \in Nat /\ f < Len(c.toks) /\ f \in {f, f + 1} /\ f + 1 = j /\ f < MostRows /\ f <= Len(c.toks)
      /\ seq.len + f <= Limit
  BY <1>1, Mosts, Sizes
<1>5. /\ DOMAIN seq' = SeqFields /\ seq'.len = seq.len + f /\ seq'.layer = c.at[j]
      /\ seq'.walk = IF c.kind = "exact" THEN WalkAfter(c.toks, j) ELSE seq.walk
  <2>1. DOMAIN seq' = SeqFields
    BY <1>3 DEF SeqFields
  <2>2. /\ seq'.len = seq.len + j - 1 /\ seq'.layer = c.at[j]
        /\ seq'.walk = IF c.kind = "exact" THEN WalkAfter(c.toks, j) ELSE seq.walk
    BY <1>3
  <2> QED BY <1>1, <2>1, <2>2
<1>6. CommitPrefix(c, dev, f) /\ \A r \in 1 .. f : c.at[r] = NumLayers
  BY <1>3
<1>7. seq'.layer # NumLayers
  <2>1. c.at[j] \in 0 .. NumLayers
    OBVIOUS
  <2> QED BY <1>3, <1>5, <2>1, Sizes
<1>8. Listed(text) /\ Len(text) = seq.len /\ Proper(text)
  BY <1>1, TextIsSo
<1> HIDE DEF f
<1>9. IInv' /\ Holds(device', w)
  BY <1>1, <1>4, <1>5, <1>6, PrefixCommitted
<1>10. Listed(w) /\ Len(w) = seq.len + f
  <2>1. Listed(SubSeq(c.toks, 1, f)) /\ Len(SubSeq(c.toks, 1, f)) = f
    BY <1>1, <1>4, Headed
  <2> DEFINE b == SubSeq(c.toks, 1, f)
  <2> HIDE DEF b
  <2>2. Listed(text \o b) /\ Len(text \o b) = Len(text) + Len(b)
    BY <1>8, <2>1, Joined DEF b
  <2> QED BY <1>8, <2>1, <2>2 DEF b
<1> HIDE DEF w
<1>11. chunk' = NoChunk /\ jump' = NoJump
  BY <1>1, <1>6 DEF CommitPrefix
<1>12. RInv' /\ Seen' = [text |-> w, walk |-> seq'.walk, hand |-> hand', held |-> FALSE]
  <2>1. /\ RInv'
        /\ Seen' = [text |-> w, walk |-> seq'.walk, hand |-> hand', held |-> seq'.layer = NumLayers]
    BY <1>4, <1>5, <1>7, <1>9, <1>10, <1>11, Settles
  <2> QED BY <1>7, <2>1
<1>13. CASE c.kind = "exact"
  <2>1. \A r \in 1 .. f : c.at[r] = NumLayers /\ Agrees(dev, c.toks, r)
    BY <1>3, <1>13 DEF f
  <2>2. Goes(Seen, c.toks, f)
    BY <1>4, <1>13, <2>1, DraftGoes
  <2>3. LoopRow(Seen, c.toks, f) \in LoopFrom(Seen)
    BY <1>4, <2>2, LoopGoes
  <2>4. hand' = c.toks[f + 1] /\ seq'.walk = WalkOver(seq.walk, SubSeq(c.toks, 2, f + 1))
    BY <1>3, <1>4, <1>5, <1>13 DEF WalkAfter
  <2>5. Seen' = LoopRow(Seen, c.toks, f)
    BY <1>2, <1>12, <2>4 DEF LoopRow, w
  <2>6. Seen.hand # NoToken
    BY <2>2 DEF Goes
  <2> QED BY <1>12, <2>3, <2>5, <2>6 DEF Moves
<1>14. CASE c.kind # "exact"
  <2>1. Seen' = [text |-> w, walk |-> seq.walk, hand |-> NoToken, held |-> FALSE]
    BY <1>3, <1>5, <1>12, <1>14
  <2>2. CASE f = 0
    <3>1. w = text
      BY <1>1, <1>8, <2>2, NoneOf DEF w
    <3>2. Seen' = Plain!Lost(Seen)
      <4>1. PICK b \in BOOLEAN : Seen = [text |-> text, walk |-> seq.walk, hand |-> hand, held |-> b]
        BY <1>2
      <4>2. Plain!Lost(Seen) = [text |-> text, walk |-> seq.walk, hand |-> NoToken, held |-> FALSE]
        BY ONLY <4>1, LostIs
      <4> QED BY <2>1, <3>1, <4>2
    <3> QED BY <1>12, <3>2 DEF Moves
  <2>3. CASE f # 0
    <3> DEFINE p == SubSeq(c.toks, 1, f)
    <3>1. Listed(p) /\ Len(p) = f /\ \A i \in 1 .. f : p[i] = c.toks[i]
      BY <1>1, <1>4, Headed
    <3> HIDE DEF p
    <3>2. \A i \in 1 .. Len(p) : p[i] \in Tokens
      BY <1>1, <1>4, <3>1
    <3>3. Len(p) >= 1 /\ Len(p) <= MostRows
      BY <1>4, <2>3, <3>1, Mosts
    <3>4. p \in Plain!Prompts
      BY <3>1, <3>2, <3>3, PromptIs
    <3>5. w = text \o p
      BY DEF w, p
    <3>6. Seen' = Plain!Lost(FedTo(Seen, p))
      <4>1. Seen.text = text /\ Seen.walk = seq.walk
        BY <1>2
      <4>2. FedTo(Seen, p) = [text |-> text \o p, walk |-> seq.walk, hand |-> NoToken, held |-> TRUE]
        <5>1. FedTo(Seen, p) = [text |-> Seen.text \o p, walk |-> Seen.walk, hand |-> NoToken, held |-> TRUE]
          BY ONLY FedToIs, Zenon
        <5> QED BY ONLY <4>1, <5>1, Zenon
      <4>3. Plain!Lost(FedTo(Seen, p)) = [text |-> text \o p, walk |-> seq.walk, hand |-> NoToken, held |-> FALSE]
        BY ONLY <4>2, LostIs
      <4> QED BY <2>1, <3>5, <4>3
    <3> QED BY <1>12, <3>4, <3>6 DEF Moves
  <2> QED BY <2>2, <2>3
<1> QED BY <1>13, <1>14

LEMMA CloseMoves ==
    ASSUME RInv, chunk # NoChunk, NEW c, Same(c), c.at \in [1 .. Len(c.toks) -> 0 .. NumLayers],
           NEW dev, NEW text, TextIs(text), Told(c, dev, text), Close(c, dev)
    PROVE  RInv' /\ Moves
<1>1. CASE CommitPrompt(c, dev)
  BY <1>1, CommitPromptMoves
<1>2. CASE CommitDraft(c, dev)
  BY <1>2, CommitDraftMoves
<1>3. CASE Refuse(c, dev)
  BY <1>3, RefuseMoves
<1>4. CASE CloseFails(c, dev)
  <2>1. Rollback(c, dev) /\ Holds(dev, text) /\ IInv
    BY <1>4 DEF CloseFails, Told, RInv
  <2>2. IInv' /\ Holds(device', text)
    BY <2>1, RollbackKeeps
  <2> QED BY <2>1, <2>2, RollbackMoves
<1> QED BY <1>1, <1>2, <1>3, <1>4 DEF Close

\* The chunk stays open, further on: nothing is seen of it.
LEMMA StaysMoves ==
    ASSUME RInv, IInv', chunk # NoChunk, NEW c, Same(c), chunk' = c, jump' = jump, hand' = hand,
           seq'.walk = seq.walk, NEW text, TextIs(text), Holds(device', text)
    PROVE  RInv' /\ Moves
<1>1. IInv /\ jump = NoJump /\ c.toks # <<>> /\ AtRest = c.entry.seq
  BY ChunkIs
<1>2. chunk' # NoChunk /\ jump' = NoJump
  BY <1>1 DEF NoChunk
<1>3. AtRest' = AtRest
  BY <1>1, <1>2 DEF AtRest
<1>4. Seen' = Seen /\ HeldTells'
  BY <1>1, <1>3, SeenKept DEF RInv
<1>5. c.toks = chunk.toks /\ c.entry = chunk.entry /\ c.kind = chunk.kind
  BY DEF Same
<1>6. ChunkTells'
  BY <1>5 DEF RInv, ChunkTells
<1>7. JumpTells'
  BY <1>2 DEF JumpTells
<1> QED BY <1>4, <1>6, <1>7, SameMoves DEF RInv

LEMMA SliceMoves ==
    ASSUME RInv, NEW n \in 1 .. NumLayers, Slice(n)
    PROVE  RInv' /\ Moves
<1>1. chunk # NoChunk /\ chunk.done + n <= NumLayers /\ IInv /\ IInv'
  BY SliceKeeps DEF Slice, RInv
<1>2. PICK c \in Advanced(n) :
         IF Closes(c) THEN Close(c, Written(c)) \/ CloseWaits(c, Written(c)) ELSE MidChunk(c, Written(c))
  BY DEF Slice
<1>3. jump = NoJump /\ Shapes /\ Chunked
  BY <1>1, Opens
<1>4. Same(c) /\ c.at \in [1 .. Len(c.toks) -> 0 .. NumLayers]
  BY <1>1, <1>3, AdvancedIs
<1>5. PICK text : TextIs(text)
  BY <1>1, TheTextIs
<1>6. Proper(text) /\ Listed(text) /\ Len(text) = seq.len /\ seq.len \in Nat /\ Holds(device, text) /\ Holds(mirror, text)
  BY <1>1, <1>3, <1>5, TextIsSo, Sizes DEF Shapes
<1>7. CASE Closes(c) /\ Close(c, Written(c))
  <2>1. Told(c, Written(c), text)
    BY <1>1, <1>3, <1>4, <1>6, <1>7, WrittenTold
  <2> DEFINE dev == Written(c)
  <2>2. Told(c, dev, text) /\ Close(c, dev)
    BY <1>7, <2>1
  <2> HIDE DEF dev
  <2> QED BY <1>1, <1>4, <1>5, <2>2, CloseMoves
<1>8. Holds(Written(c), text)
  BY <1>6, ComputedBehind DEF Written
<1>9. CASE CloseWaits(c, Written(c))
  <2>1. chunk' = c /\ device' = Written(c) /\ jump' = jump /\ hand' = hand /\ seq' = seq
    BY <1>9 DEF CloseWaits
  <2>2. Holds(device', text) /\ seq'.walk = seq.walk
    BY <1>8, <2>1
  <2> QED BY <1>1, <1>4, <1>5, <2>1, <2>2, StaysMoves
<1>10. CASE ~Closes(c) /\ MidChunk(c, Written(c))
  <2>1. chunk' = c /\ device' = Written(c) /\ jump' = jump /\ hand' = hand
    BY <1>10 DEF MidChunk
  <2>2. seq'.walk = seq.walk
    <3>1. CASE Single(c)
      <4>1. seq' = [seq EXCEPT !.layer = c.done, !.res = Residual(Written(c), seq.len, c.done)]
        BY <1>10, <3>1 DEF MidChunk
      <4> QED BY <1>3, <4>1 DEF Shapes, SeqFields
    <3>2. CASE ~Single(c)
      BY <1>10, <3>2 DEF MidChunk
    <3> QED BY <3>1, <3>2
  <2>3. Holds(device', text)
    BY <1>8, <2>1
  <2> QED BY <1>1, <1>4, <1>5, <2>1, <2>2, <2>3, StaysMoves
<1> QED BY <1>2, <1>7, <1>9, <1>10

LEMMA CloseAgainMoves ==
    ASSUME RInv, CloseAgain
    PROVE  RInv' /\ Moves
<1>1. chunk # NoChunk /\ chunk.done = NumLayers /\ Close(chunk, device) /\ IInv
  BY DEF CloseAgain, RInv
<1>2. Same(chunk) /\ Closes(chunk) /\ Written(chunk) = device
      /\ chunk.at \in [1 .. Len(chunk.toks) -> 0 .. NumLayers]
  BY <1>1, Opens DEF Chunked, Same, Closes
<1>3. PICK text : TextIs(text)
  BY <1>1, TheTextIs
<1>4. Proper(text) /\ Len(text) = seq.len /\ Holds(device, text) /\ Holds(mirror, text)
  BY <1>1, <1>3, TextIsSo
<1>5. Told(chunk, Written(chunk), text)
  BY <1>1, <1>2, <1>4, Opens, WrittenTold
<1> QED BY <1>1, <1>2, <1>3, <1>5, CloseMoves

LEMMA SliceFailsMoves ==
    ASSUME RInv, SliceFails
    PROVE  RInv' /\ Moves
<1>1. chunk # NoChunk /\ Rollback(Snapped, Spoiled(device)) /\ IInv
  BY DEF SliceFails, RInv
<1>2. Same(Snapped)
  BY <1>1, Opens, SnappedIs
<1>3. PICK text : TextIs(text)
  BY <1>1, TheTextIs
<1>4. IInv' /\ Holds(device', text)
  BY <1>1, <1>3, SliceFailsTells
<1> QED BY <1>1, <1>2, <1>3, <1>4, RollbackMoves

LEMMA AbandonMoves ==
    ASSUME RInv, Abandon
    PROVE  RInv' /\ Moves
<1>1. chunk # NoChunk /\ Rollback(chunk, device) /\ IInv
  BY DEF Abandon, RInv
<1>2. Same(chunk)
  BY <1>1, Opens DEF Chunked, Same
<1>3. PICK text : TextIs(text)
  BY <1>1, TheTextIs
<1>4. IInv' /\ Holds(device', text)
  BY <1>1, <1>3, AbandonTells
<1> QED BY <1>1, <1>2, <1>3, <1>4, RollbackMoves

-----------------------------------------------------------------------------
(* The steps of a jump. *)

\* What a jump is to the caller: nothing yet, but the rows so far are the loop's.
LEMMA JumpTold ==
    ASSUME RInv, jump # NoJump, NEW text, TextIs(text)
    PROVE  /\ IInv /\ Shapes /\ chunk = NoChunk /\ Listed(text) /\ Listed(Seen.text) /\ Len(text) = seq.len
           /\ AtRest = jump.entry.seq /\ AtRest.len \in Nat /\ AtRest.len <= Len(text)
           /\ Seen.text = SubSeq(text, 1, AtRest.len) /\ Len(Seen.text) = AtRest.len
           /\ Seen = [text |-> Seen.text, walk |-> jump.walk, hand |-> jump.toks[1], held |-> FALSE]
           /\ Seen.walk = jump.walk
           /\ text = Seen.text \o SubSeq(jump.toks, 1, jump.kept)
           /\ seq.layer = NumLayers => seq.res = text
<1>1. /\ IInv /\ Shapes /\ chunk = NoChunk /\ Listed(text) /\ Len(text) = seq.len /\ Holds(device, text)
      /\ seq.len \in Nat /\ seq.len <= Limit
  BY JumpIs, TextIsSo DEF RInv, IInv
<1>2. AtRest = jump.entry.seq /\ AtRest.len \in Nat /\ AtRest.len <= Len(text)
      /\ Seen.text = SubSeq(text, 1, AtRest.len)
  BY <1>1, JumpSeen, SeenIs
<1> DEFINE n == AtRest.len
<1>3. Listed(SubSeq(text, 1, n)) /\ Len(SubSeq(text, 1, n)) = n
  <2> HIDE DEF n
  <2> QED BY <1>1, <1>2, Headed DEF n
<1>4. /\ jump.toks[1] = hand /\ jump.walk = jump.entry.seq.walk /\ jump.entry.seq.layer = 0
      /\ SeenText(device, seq.len) = Seen.text \o SubSeq(jump.toks, 1, jump.kept)
      /\ seq.layer = NumLayers => seq.res = SeenText(device, seq.len)
  BY DEF RInv, JumpTells
<1>5. SeenText(device, seq.len) = text
  <2>1. SeenText(device, seq.len) = SubSeq(text, 1, seq.len)
    BY <1>1, TextTells
  <2> QED BY <1>1, <2>1, WholeHead
<1>6. Seen = [text |-> Seen.text, walk |-> jump.walk, hand |-> jump.toks[1], held |-> FALSE]
  <2>1. jump.entry.seq.layer # NumLayers
    BY <1>4, Sizes
  <2>2. Seen = [text |-> Seen.text, walk |-> jump.entry.seq.walk, hand |-> hand,
                held |-> jump.entry.seq.layer = NumLayers]
    BY <1>2 DEF Seen
  <2> QED BY <1>4, <2>1, <2>2
<1>7. Seen.walk = jump.walk
  BY <1>6
<1> QED BY <1>1, <1>2, <1>3, <1>4, <1>5, <1>6, <1>7

\* The jump goes on, its rows still the loop's.
LEMMA JumpStays ==
    ASSUME RInv, IInv', jump # NoJump, jump' # NoJump, chunk' = chunk, hand' = hand,
           jump'.toks = jump.toks, jump'.walk = jump.walk, jump'.entry = jump.entry,
           NEW text, TextIs(text), NEW w, Listed(w), Holds(device', w), seq'.len = Len(w), Len(w) <= Limit,
           AtRest.len <= Len(w), SubSeq(w, 1, AtRest.len) = Seen.text,
           w = Seen.text \o SubSeq(jump.toks, 1, jump'.kept),
           seq'.walk = JumpWalk(jump'.kept), jump'.kept <= jump'.off,
           seq'.layer = NumLayers => seq'.res = w,
           \A r \in 1 .. jump'.kept : r < jump'.kept \/ ~jump'.stop =>
              Finish(Seen.text \o SubSeq(jump.toks, 1, r), JumpWalk(r)) = jump.toks[r + 1]
    PROVE  RInv' /\ Moves
<1>1. chunk' = NoChunk /\ AtRest' = AtRest /\ AtRest.len \in Nat
  BY JumpTold DEF AtRest
<1> DEFINE n == AtRest.len
<1>2. SeenText(device', n) = Seen.text
  <2>1. n \in Nat /\ n <= Len(w) /\ SubSeq(w, 1, n) = Seen.text
    BY <1>1
  <2> HIDE DEF n
  <2> QED BY <2>1, TextTells
<1>3. Seen' = [text |-> SeenText(device', n), walk |-> AtRest.walk, hand |-> hand, held |-> AtRest.layer = NumLayers]
  BY <1>1 DEF Seen
<1>4. Seen = [text |-> Seen.text, walk |-> AtRest.walk, hand |-> hand, held |-> AtRest.layer = NumLayers]
  BY DEF Seen
<1>5. Seen' = Seen
  BY <1>2, <1>3, <1>4
<1>6. HeldTells' /\ ChunkTells'
  BY <1>1, <1>5 DEF RInv, HeldTells, ChunkTells
<1>7. SeenText(device', seq'.len) = w
  <2> DEFINE m == Len(w)
  <2>0. Len(w) \in Nat
    BY Lengths
  <2>1. m \in Nat /\ m <= Len(w) /\ m = Len(w)
    BY ONLY <2>0
  <2>2. SubSeq(w, 1, m) = w
    BY WholeHead
  <2> HIDE DEF m
  <2>3. SeenText(device', m) = SubSeq(w, 1, m)
    BY <2>1, TextTells
  <2> QED BY <2>1, <2>2, <2>3
<1>8. JumpTells'
  <2>1. /\ Len(jump.toks) <= MaxDraft + 1 /\ jump.toks[1] = hand /\ hand # NoToken
        /\ \A i \in 2 .. Len(jump.toks) : jump.toks[i] \in Tokens
        /\ jump.walk = jump.entry.seq.walk /\ jump.entry.seq.layer = 0
    BY DEF RInv, JumpTells
  <2>2. \A r : JumpWalk(r)' = WalkOver(jump'.walk, SubSeq(jump'.toks, 2, r))
    BY DEF JumpWalk
  <2>3. \A r : WalkOver(jump'.walk, SubSeq(jump'.toks, 2, r)) = JumpWalk(r)
    BY DEF JumpWalk
  <2>4. seq'.walk = WalkOver(jump'.walk, SubSeq(jump'.toks, 2, jump'.kept))
    BY <2>3
  <2>5. \A r \in 1 .. jump'.kept : r < jump'.kept \/ ~jump'.stop =>
           Finish(Seen'.text \o SubSeq(jump'.toks, 1, r), WalkOver(jump'.walk, SubSeq(jump'.toks, 2, r)))
             = jump'.toks[r + 1]
    BY <1>5, <2>3
  <2>6. SeenText(device', seq'.len) = Seen'.text \o SubSeq(jump'.toks, 1, jump'.kept)
        /\ (seq'.layer = NumLayers => seq'.res = SeenText(device', seq'.len))
    BY <1>5, <1>7
  <2> QED BY <2>1, <2>4, <2>5, <2>6 DEF JumpTells, JumpWalk
<1> QED BY <1>5, <1>6, <1>8, SameMoves DEF RInv

\* A text grown twice, by a draft's head and by the tokens behind it.
NextOf(toks, k, a, b) ==
    /\ Listed(toks) /\ k \in Nat /\ a \in Nat /\ k + a <= Len(toks)
    /\ Listed(b) /\ Len(b) = a /\ \A i \in 1 .. a : b[i] = toks[k + i]

Twice(t, toks, k, a, b) == (t \o SubSeq(toks, 1, k)) \o b = t \o SubSeq(toks, 1, k + a)

LEMMA GrownTwice ==
    ASSUME NEW t, Listed(t), NEW toks, NEW k, NEW a, NEW b, NextOf(toks, k, a, b)
    PROVE  Twice(t, toks, k, a, b)
<1>a. /\ Listed(toks) /\ k \in Nat /\ a \in Nat /\ k + a <= Len(toks)
      /\ Listed(b) /\ Len(b) = a /\ \A i \in 1 .. a : b[i] = toks[k + i]
  BY DEF NextOf
<1> DEFINE c == SubSeq(toks, 1, k)
           d == SubSeq(toks, 1, k + a)
<1>0. Len(t) \in Nat /\ Len(toks) \in Nat /\ k <= Len(toks) /\ k + a \in Nat /\ k \in Nat /\ a \in Nat /\ k + a <= Len(toks)
  BY <1>a, Lengths
<1>1. Listed(c) /\ Len(c) = k /\ \A i \in 1 .. k : c[i] = toks[i]
  BY <1>0, <1>a, Headed
<1>2. Listed(d) /\ Len(d) = k + a /\ \A i \in 1 .. k + a : d[i] = toks[i]
  <2> DEFINE n == k + a
  <2>1. n \in Nat /\ n <= Len(toks)
    BY <1>0
  <2> HIDE DEF n
  <2>2. Listed(SubSeq(toks, 1, n)) /\ Len(SubSeq(toks, 1, n)) = n /\ \A i \in 1 .. n : SubSeq(toks, 1, n)[i] = toks[i]
    BY <1>a, <2>1, Headed
  <2> QED BY <2>2 DEF n
<1> HIDE DEF c, d
<1> DEFINE e == t \o c
           f == e \o b
           g == t \o d
<1>3. /\ Listed(e) /\ Len(e) = Len(t) + k
      /\ \A i \in 1 .. Len(t) : e[i] = t[i]
      /\ \A i \in 1 .. k : e[Len(t) + i] = c[i]
  <2>1. Listed(t) /\ Listed(c)
    BY <1>1
  <2>2. /\ Listed(e) /\ Len(e) = Len(t) + Len(c)
        /\ \A i \in 1 .. Len(t) : e[i] = t[i]
        /\ \A i \in 1 .. Len(c) : e[Len(t) + i] = c[i]
    BY ONLY <2>1, Joined
  <2> QED BY ONLY <1>1, <2>2
<1> HIDE DEF e
<1>4. /\ Listed(f) /\ Len(f) = Len(e) + a
      /\ \A i \in 1 .. Len(e) : f[i] = e[i]
      /\ \A i \in 1 .. a : f[Len(e) + i] = b[i]
  <2>1. Listed(e) /\ Listed(b) /\ Len(b) = a
    BY <1>3, <1>a
  <2>2. /\ Listed(f) /\ Len(f) = Len(e) + Len(b)
        /\ \A i \in 1 .. Len(e) : f[i] = e[i]
        /\ \A i \in 1 .. Len(b) : f[Len(e) + i] = b[i]
    BY ONLY <2>1, Joined
  <2> QED BY ONLY <2>1, <2>2
<1>5. /\ Listed(g) /\ Len(g) = Len(t) + (k + a)
      /\ \A i \in 1 .. Len(t) : g[i] = t[i]
      /\ \A i \in 1 .. k + a : g[Len(t) + i] = d[i]
  <2>1. Listed(t) /\ Listed(d)
    BY <1>2
  <2>2. /\ Listed(g) /\ Len(g) = Len(t) + Len(d)
        /\ \A i \in 1 .. Len(t) : g[i] = t[i]
        /\ \A i \in 1 .. Len(d) : g[Len(t) + i] = d[i]
    BY ONLY <2>1, Joined
  <2> QED BY ONLY <1>2, <2>2
<1> HIDE DEF f, g
<1>6. Len(f) = Len(g) /\ Len(g) = Len(t) + (k + a) /\ Len(f) \in Nat
  BY <1>0, <1>3, <1>4, <1>5
<1>7. \A i \in 1 .. Len(f) : f[i] = g[i]
  <2> TAKE i \in 1 .. Len(f)
  <2>1. i \in Nat /\ i >= 1 /\ i <= Len(t) + (k + a)
    BY <1>6
  <2>2. CASE i <= Len(t)
    <3>1. i \in 1 .. Len(t) /\ i \in 1 .. Len(e)
      BY <1>0, <1>3, <2>1, <2>2
    <3> QED BY <1>3, <1>4, <1>5, <3>1
  <2>3. CASE i > Len(t) /\ i <= Len(t) + k
    <3>1. PICK j \in 1 .. k : i = Len(t) + j
      <4>1. i - Len(t) \in 1 .. k /\ i = Len(t) + (i - Len(t))
        BY <1>0, <2>1, <2>3
      <4> QED BY <4>1
    <3>2. i \in 1 .. Len(e) /\ j \in 1 .. k + a
      BY <1>0, <1>3, <2>1, <2>3, <3>1
    <3>3. f[i] = c[j] /\ g[i] = d[j]
      BY <1>3, <1>4, <1>5, <3>1, <3>2
    <3> QED BY <1>1, <1>2, <3>2, <3>3
  <2>4. CASE i > Len(t) + k
    <3>1. PICK j \in 1 .. a : i = Len(t) + k + j
      <4>1. i - (Len(t) + k) \in 1 .. a /\ i = Len(t) + k + (i - (Len(t) + k))
        BY <1>0, <2>1, <2>4
      <4> QED BY <4>1
    <3>2. i = Len(e) + j /\ i = Len(t) + (k + j) /\ k + j \in 1 .. k + a
      BY <1>0, <1>3, <3>1
    <3>3. f[i] = b[j]
      BY <1>4, <3>2
    <3>4. g[i] = d[k + j]
      BY <1>5, <3>2
    <3> QED BY <1>a, <1>2, <3>2, <3>3, <3>4
  <2> QED BY <1>0, <2>1, <2>2, <2>3, <2>4
<1>8. f = g
  BY <1>4, <1>5, <1>6, <1>7, SameList
<1> QED BY <1>8 DEF f, g, e, c, d, Twice

\* The rows of a pass are the draft's next.
LEMMA PassTokens ==
    ASSUME IInv, Passing
    PROVE  \A i \in 1 .. Height : Pass[i] = jump.toks[jump.off + i]
<1>1. jump # NoJump
  BY DEF Passing
<1>2. /\ Listed(jump.toks) /\ Len(jump.toks) \in Nat /\ jump.off \in Nat /\ Height \in Nat
      /\ jump.off + Height <= Len(jump.toks)
  BY <1>1, JumpIs, PassIs
<1> DEFINE lo == jump.off + 1
           hi == Len(jump.toks)
           rest == SubSeq(jump.toks, lo, hi)
<1>3. /\ jump.toks \in Seq(Range(jump.toks)) /\ lo \in Nat /\ lo >= 1 /\ hi \in Nat
      /\ lo <= hi + 1
  BY <1>2 DEF Listed
<1>4. Listed(rest) /\ Len(rest) = hi - lo + 1
  <2> HIDE DEF lo, hi
  <2>1. hi <= Len(jump.toks)
    BY <1>2 DEF hi
  <2> QED BY <1>2, <1>3, <2>1, Between
<1>5. \A i \in 1 .. hi - lo + 1 : rest[i] = jump.toks[lo + i - 1]
  <2> DEFINE ts == jump.toks
  <2>1. ts \in Seq(Range(jump.toks)) /\ lo \in Nat /\ lo >= 1 /\ hi = Len(ts) /\ rest = SubSeq(ts, lo, hi)
    BY <1>3
  <2> HIDE DEF ts, lo, hi, rest
  <2>2. \A i \in 1 .. hi - lo + 1 : rest[i] = ts[lo + i - 1]
    BY ONLY <2>1, <1>3
  <2> QED BY <2>2 DEF ts
<1>6. Pass = SubSeq(rest, 1, Height)
  BY DEF Pass, Rest
<1> HIDE DEF rest
<1>7. Height <= Len(rest)
  BY <1>2, <1>4
<1>8. \A i \in 1 .. Height : SubSeq(rest, 1, Height)[i] = rest[i]
  BY <1>2, <1>4, <1>7, Headed
<1>9. \A i \in 1 .. Height : i \in 1 .. hi - lo + 1 /\ lo + i - 1 = jump.off + i
  BY <1>2
<1> HIDE DEF lo, hi
<1> QED BY <1>5, <1>6, <1>8, <1>9

\* So many rows of a pass behind the text.
LEMMA PassGrows ==
    ASSUME RInv, Passing, NEW text, TextIs(text), NEW a \in 1 .. Height
    PROVE  text \o SubSeq(Pass, 1, a) = Seen.text \o SubSeq(jump.toks, 1, jump.off + a)
<1>1. jump # NoJump /\ IInv
  BY DEF Passing, RInv
<1>2. /\ Listed(jump.toks) /\ Len(jump.toks) \in Nat /\ jump.off \in Nat /\ Height \in Nat
      /\ jump.off + Height <= Len(jump.toks) /\ jump.kept = jump.off /\ Listed(Pass) /\ Len(Pass) = Height
  BY <1>1, JumpIs, PassIs
<1>3. Listed(Seen.text) /\ text = Seen.text \o SubSeq(jump.toks, 1, jump.off)
  BY <1>1, <1>2, JumpTold
<1>4. a \in Nat /\ a <= Len(Pass) /\ jump.off + a <= Len(jump.toks)
  BY <1>2
<1> DEFINE b == SubSeq(Pass, 1, a)
<1>5. Listed(b) /\ Len(b) = a /\ \A i \in 1 .. a : b[i] = Pass[i]
  BY <1>2, <1>4, Headed
<1>6. \A i \in 1 .. a : b[i] = jump.toks[jump.off + i]
  <2>1. \A i \in 1 .. Height : Pass[i] = jump.toks[jump.off + i]
    BY <1>1, PassTokens
  <2>2. \A i \in 1 .. a : i \in 1 .. Height
    BY <1>2
  <2> HIDE DEF b
  <2> QED BY <1>5, <2>1, <2>2
<1> HIDE DEF b
<1> DEFINE t == Seen.text
           k == jump.off
           ts == jump.toks
<1>7. /\ Listed(t) /\ Listed(ts) /\ k \in Nat /\ k + a <= Len(ts) /\ \A i \in 1 .. a : b[i] = ts[k + i]
  BY <1>2, <1>3, <1>4, <1>6
<1> HIDE DEF t, k, ts
<1>8. (t \o SubSeq(ts, 1, k)) \o b = t \o SubSeq(ts, 1, k + a)
  <2>1. Listed(t) /\ Listed(ts) /\ k \in Nat /\ a \in Nat /\ k + a <= Len(ts) /\ Listed(b) /\ Len(b) = a
        /\ \A i \in 1 .. a : b[i] = ts[k + i]
    BY ONLY <1>4, <1>5, <1>7
  <2>2. NextOf(ts, k, a, b)
    BY ONLY <2>1 DEF NextOf
  <2>3. Listed(t)
    BY ONLY <2>1
  <2>4. Twice(t, ts, k, a, b)
    BY ONLY <2>2, <2>3, GrownTwice, Zenon
  <2> QED BY ONLY <2>4 DEF Twice
<1> QED BY <1>3, <1>8 DEF t, k, ts, b

\* A pass leaves the rows up to the first that disagrees, which the loop reads too.
LEMMA PassMoves ==
    ASSUME RInv, Passing, NEW a \in 1 .. Height, NEW stop \in BOOLEAN,
           \A r \in 1 .. a - 1 : PassAgrees(Computed(device, Pass, Unrefused(Pass), NumLayers), r),
           ~stop => a = Height /\ ~LastPass
                    /\ PassAgrees(Computed(device, Pass, Unrefused(Pass), NumLayers), a),
           PassEnds(Computed(device, Pass, Unrefused(Pass), NumLayers), a, stop)
    PROVE  RInv' /\ Moves
<1> DEFINE dev == Computed(device, Pass, Unrefused(Pass), NumLayers)
<1>0. IInv /\ jump # NoJump
  BY DEF RInv, Passing
<1>1. PICK text : TextIs(text)
  BY <1>0, TheTextIs
<1>2. /\ Listed(text) /\ Len(text) = seq.len /\ Len(text) \in Nat /\ seq.len \in Nat
      /\ AtRest.len \in Nat /\ AtRest.len <= Len(text) /\ Listed(Seen.text)
      /\ Seen.text = SubSeq(text, 1, AtRest.len)
      /\ text = Seen.text \o SubSeq(jump.toks, 1, jump.kept)
  BY <1>0, <1>1, JumpTold, Lengths
<1>3. /\ Height \in Nat /\ Listed(Pass) /\ Len(Pass) = Height /\ jump.kept = jump.off /\ jump.off \in Nat
      /\ seq.len + Height <= Limit /\ Len(jump.toks) \in Nat /\ jump.off + Height <= Len(jump.toks)
      /\ DOMAIN jump = JumpFields
  BY <1>0, JumpIs, PassIs
<1>4. a \in Nat /\ a >= 1 /\ a <= Height
  BY <1>3
<1> DEFINE w == text \o SubSeq(Pass, 1, a)
<1>5. IInv' /\ Holds(device', w)
  <2>1. ~stop => a = Height /\ ~LastPass
    OBVIOUS
  <2> QED BY ONLY <1>0, <1>1, <2>1, PassEnded, Passing, a \in 1 .. Height, stop \in BOOLEAN,
                 PassEnds(Computed(device, Pass, Unrefused(Pass), NumLayers), a, stop), Zenon
<1>6. \A q \in 1 .. a : /\ Residual(dev, seq.len + q - 1, NumLayers) = text \o SubSeq(Pass, 1, q)
                        /\ Listed(text \o SubSeq(Pass, 1, q)) /\ Len(text \o SubSeq(Pass, 1, q)) = seq.len + q
                        /\ text \o SubSeq(Pass, 1, q) = Seen.text \o SubSeq(jump.toks, 1, jump.off + q)
  <2> TAKE q \in 1 .. a
  <2>0. seq.len \in Nat /\ Height \in Nat /\ Len(Pass) = Height /\ seq.len + Height <= Limit /\ Limit \in Nat
    BY <1>2, <1>3, Sizes
  <2>1. q \in Nat /\ q >= 1 /\ q <= Len(Pass) /\ seq.len + q <= Limit /\ q \in 1 .. Height
    BY ONLY <1>4, <2>0
  <2>2. Holds(dev, text \o SubSeq(Pass, 1, q))
    BY ONLY <1>0, <1>1, <2>1, PassTold, Passing, Zenon
  <2> HIDE DEF dev
  <2>3. /\ Residual(dev, seq.len + q - 1, NumLayers) = text \o SubSeq(Pass, 1, q)
        /\ Listed(text \o SubSeq(Pass, 1, q)) /\ Len(text \o SubSeq(Pass, 1, q)) = seq.len + q
    <3>1. RowFits(text, Pass, q)
      BY ONLY <1>2, <1>3, <2>1 DEF RowFits
    <3>2. RowTold(dev, text, Pass, q)
      BY ONLY <2>2, <3>1, RowTells, Zenon
    <3> QED BY ONLY <3>2 DEF RowTold
  <2>4. text \o SubSeq(Pass, 1, q) = Seen.text \o SubSeq(jump.toks, 1, jump.off + q)
    BY ONLY RInv, Passing, <1>1, <2>1, PassGrows, Zenon
  <2> QED BY <2>3, <2>4
<1>7. /\ chunk' = chunk /\ hand' = hand /\ seq' = Behold(dev, a, JumpWalk(jump.off + a))
      /\ jump' = [jump EXCEPT !.off = @ + Height, !.kept = @ + a, !.stop = stop]
  BY DEF PassEnds
<1>8. /\ jump'.toks = jump.toks /\ jump'.walk = jump.walk /\ jump'.entry = jump.entry
      /\ jump'.off = jump.off + Height /\ jump'.kept = jump.kept + a /\ jump'.stop = stop /\ jump' # NoJump
  <2>1. DOMAIN jump = JumpFields
    BY <1>3
  <2>2. jump' = [jump EXCEPT !.off = @ + Height, !.kept = @ + a, !.stop = stop]
    BY <1>7
  <2>3. NoJump = [toks |-> <<>>]
    BY DEF NoJump
  <2> QED BY ONLY <2>1, <2>2, <2>3 DEF JumpFields
<1>9. a \in 1 .. a
  BY <1>4
<1>10. /\ Listed(w) /\ Len(w) = seq.len + a /\ w = Seen.text \o SubSeq(jump.toks, 1, jump.off + a)
       /\ Residual(dev, seq.len + a - 1, NumLayers) = w
  BY ONLY <1>6, <1>9
<1>11. seq'.len = seq.len + a /\ seq'.walk = JumpWalk(jump.off + a)
       /\ seq'.res = Residual(dev, seq.len + a - 1, NumLayers)
  BY ONLY <1>7 DEF Behold
<1>12. SubSeq(w, 1, AtRest.len) = Seen.text
  <2>1. Listed(SubSeq(Pass, 1, a))
    BY <1>3, <1>4, Headed
  <2>2. SubSeq(text \o SubSeq(Pass, 1, a), 1, AtRest.len) = SubSeq(text, 1, AtRest.len)
    BY ONLY <1>2, <2>1, TextOfGrown, Zenon
  <2> QED BY ONLY <1>2, <2>2
<1>13. \A r \in 1 .. jump'.kept : r < jump'.kept \/ ~jump'.stop =>
          Finish(Seen.text \o SubSeq(jump.toks, 1, r), JumpWalk(r)) = jump.toks[r + 1]
  <2> SUFFICES ASSUME NEW r \in 1 .. jump.off + a, r < jump.off + a \/ ~stop
               PROVE  Finish(Seen.text \o SubSeq(jump.toks, 1, r), JumpWalk(r)) = jump.toks[r + 1]
    <3>1. jump'.kept = jump.off + a /\ jump'.stop = stop
      BY ONLY <1>3, <1>8
    <3> QED BY <3>1
  <2>1. r \in Nat /\ r >= 1 /\ r <= jump.off + a
    BY <1>3, <1>4
  <2>2. CASE r <= jump.off
    <3>1. r \in 1 .. jump.kept
      BY <1>3, <2>1, <2>2
    <3>2. ~jump.stop
      BY DEF Passing
    <3>3. \A i \in 1 .. jump.kept : i < jump.kept \/ ~jump.stop =>
              Finish(Seen.text \o SubSeq(jump.toks, 1, i), JumpWalk(i)) = jump.toks[i + 1]
      BY <1>0 DEF RInv, JumpTells
    <3> QED BY ONLY <3>1, <3>2, <3>3
  <2>3. CASE r > jump.off
    <3>1. PICK q \in 1 .. a : r = jump.off + q
      <4>1. r - jump.off \in 1 .. a /\ r = jump.off + (r - jump.off)
        BY <1>3, <1>4, <2>1, <2>3
      <4> QED BY <4>1
    <3>2. PassAgrees(dev, q)
      <4>1. CASE q < a
        <5>1. q \in 1 .. a - 1
          BY <1>4, <4>1
        <5> QED BY <5>1
      <4>2. CASE q = a
        <5>1. ~stop
          BY <1>3, <1>4, <3>1, <4>2
        <5> QED BY <4>2, <5>1
      <4> QED BY <1>4, <4>1, <4>2
    <3> HIDE DEF dev
    <3>3. Finish(Residual(dev, seq.len + q - 1, NumLayers), JumpWalk(jump.off + q)) = jump.toks[jump.off + q + 1]
      BY ONLY <3>2 DEF PassAgrees
    <3>4. Residual(dev, seq.len + q - 1, NumLayers) = Seen.text \o SubSeq(jump.toks, 1, jump.off + q)
      BY ONLY <1>6, <3>1
    <3> QED BY ONLY <3>1, <3>3, <3>4
  <2> QED BY <1>3, <2>1, <2>2, <2>3
<1> HIDE DEF w, dev
<1>14. /\ seq'.len = Len(w) /\ Len(w) <= Limit /\ AtRest.len <= Len(w)
  <2>1. /\ Len(w) = seq.len + a /\ seq'.len = seq.len + a /\ seq.len \in Nat /\ Height \in Nat
        /\ seq.len + Height <= Limit /\ AtRest.len <= seq.len /\ AtRest.len \in Nat /\ Limit \in Nat
    BY <1>2, <1>3, <1>10, <1>11, Sizes
  <2> QED BY ONLY <1>4, <2>1
<1>15. /\ w = Seen.text \o SubSeq(jump.toks, 1, jump'.kept) /\ seq'.walk = JumpWalk(jump'.kept)
       /\ jump'.kept <= jump'.off /\ (seq'.layer = NumLayers => seq'.res = w)
  <2>1. jump'.kept = jump.off + a /\ jump'.off = jump.off + Height /\ jump.off \in Nat /\ Height \in Nat
    BY ONLY <1>3, <1>8
  <2>2. jump'.kept <= jump'.off
    BY ONLY <1>4, <2>1
  <2> QED BY ONLY <1>10, <1>11, <2>1, <2>2
<1>16. /\ RInv /\ IInv' /\ jump # NoJump /\ jump' # NoJump /\ chunk' = chunk /\ hand' = hand
       /\ jump'.toks = jump.toks /\ jump'.walk = jump.walk /\ jump'.entry = jump.entry
       /\ TextIs(text) /\ Listed(w) /\ Holds(device', w) /\ seq'.len = Len(w) /\ Len(w) <= Limit
       /\ AtRest.len <= Len(w) /\ SubSeq(w, 1, AtRest.len) = Seen.text
       /\ w = Seen.text \o SubSeq(jump.toks, 1, jump'.kept)
       /\ seq'.walk = JumpWalk(jump'.kept) /\ jump'.kept <= jump'.off
       /\ (seq'.layer = NumLayers => seq'.res = w)
  <2>1. /\ IInv' /\ Holds(device', w)
    BY <1>5
  <2>2. SubSeq(w, 1, AtRest.len) = Seen.text
    BY <1>12
  <2> QED BY <1>0, <1>1, <1>7, <1>8, <1>10, <1>14, <1>15, <2>1, <2>2
<1> QED BY ONLY <1>13, <1>16, JumpStays, Zenon

LEMMA JumpPassMoves ==
    ASSUME RInv, JumpPass
    PROVE  RInv' /\ Moves
<1> DEFINE dev == Computed(device, Pass, Unrefused(Pass), NumLayers)
<1>1. PICK a \in 1 .. Height, stop \in BOOLEAN :
         /\ \A r \in 1 .. a - 1 : PassAgrees(dev, r)
         /\ ~stop => a = Height /\ ~LastPass /\ PassAgrees(dev, a)
         /\ PassEnds(dev, a, stop)
  BY DEF JumpPass
<1>2. Passing
  BY DEF JumpPass
<1> QED BY <1>1, <1>2, PassMoves

LEMMA JumpLastRowMoves ==
    ASSUME RInv, JumpLastRow
    PROVE  RInv' /\ Moves
<1>1. Passing /\ Height = 1 /\ PassEnds(Computed(device, Pass, Unrefused(Pass), NumLayers), 1, TRUE)
  BY DEF JumpLastRow
<1>2. 1 \in 1 .. Height /\ \A r \in 1 .. 1 - 1 : PassAgrees(Computed(device, Pass, Unrefused(Pass), NumLayers), r)
  BY <1>1
<1> QED BY <1>1, <1>2, PassMoves

\* A pass that fails changes nothing but the device's rows behind the text.
LEMMA StoppedMoves ==
    ASSUME RInv, IInv', jump # NoJump, DOMAIN jump = JumpFields, NEW text, TextIs(text), Holds(device', text),
           jump' = [jump EXCEPT !.stop = TRUE], chunk' = chunk, hand' = hand,
           seq'.len = seq.len, seq'.walk = seq.walk, seq'.layer = NumLayers => seq'.res = text
    PROVE  RInv' /\ Moves
<1>1. /\ jump'.toks = jump.toks /\ jump'.walk = jump.walk /\ jump'.entry = jump.entry
      /\ jump'.off = jump.off /\ jump'.kept = jump.kept /\ jump'.stop = TRUE /\ jump' # NoJump
  <2>1. NoJump = [toks |-> <<>>]
    BY DEF NoJump
  <2>2. DOMAIN jump = JumpFields /\ jump' = [jump EXCEPT !.stop = TRUE]
    OBVIOUS
  <2> QED BY ONLY <2>1, <2>2 DEF JumpFields
<1>2. /\ Listed(text) /\ Len(text) = seq.len /\ AtRest.len <= Len(text)
      /\ SubSeq(text, 1, AtRest.len) = Seen.text
      /\ text = Seen.text \o SubSeq(jump.toks, 1, jump.kept)
  BY JumpTold
<1>3. Len(text) <= Limit
  BY <1>2, JumpIs DEF RInv
<1>4. /\ seq.walk = JumpWalk(jump.kept) /\ jump.kept <= jump.off
      /\ \A r \in 1 .. jump.kept : r < jump.kept \/ ~jump.stop =>
              Finish(Seen.text \o SubSeq(jump.toks, 1, r), JumpWalk(r)) = jump.toks[r + 1]
  BY DEF RInv, JumpTells
<1>5. \A r \in 1 .. jump'.kept : r < jump'.kept \/ ~jump'.stop =>
          Finish(Seen.text \o SubSeq(jump.toks, 1, r), JumpWalk(r)) = jump.toks[r + 1]
  BY ONLY <1>1, <1>4
<1>6. /\ RInv /\ IInv' /\ jump # NoJump /\ jump' # NoJump /\ chunk' = chunk /\ hand' = hand
      /\ jump'.toks = jump.toks /\ jump'.walk = jump.walk /\ jump'.entry = jump.entry
      /\ TextIs(text) /\ Listed(text) /\ Holds(device', text) /\ seq'.len = Len(text) /\ Len(text) <= Limit
      /\ AtRest.len <= Len(text) /\ SubSeq(text, 1, AtRest.len) = Seen.text
      /\ text = Seen.text \o SubSeq(jump.toks, 1, jump'.kept)
      /\ seq'.walk = JumpWalk(jump'.kept) /\ jump'.kept <= jump'.off
      /\ (seq'.layer = NumLayers => seq'.res = text)
  BY <1>1, <1>2, <1>3, <1>4
<1> QED BY ONLY <1>5, <1>6, JumpStays, Zenon

LEMMA JumpPassFailsMoves ==
    ASSUME RInv, JumpPassFails
    PROVE  RInv' /\ Moves
<1>1. IInv /\ jump # NoJump /\ DOMAIN jump = JumpFields
  BY JumpIs DEF JumpPassFails, Passing, RInv
<1>2. PICK text : TextIs(text)
  BY <1>1, TheTextIs
<1>3. IInv' /\ Holds(device', text)
  BY <1>1, <1>2, JumpPassFailsTells
<1>4. seq' = seq /\ chunk' = chunk /\ hand' = hand /\ jump' = [jump EXCEPT !.stop = TRUE]
  BY DEF JumpPassFails
<1>5. /\ seq'.len = seq.len /\ seq'.walk = seq.walk
      /\ seq'.layer = NumLayers => seq'.res = text
  BY <1>1, <1>2, <1>4, JumpTold
<1> QED BY <1>1, <1>2, <1>3, <1>4, <1>5, StoppedMoves

LEMMA JumpLastRowFailsMoves ==
    ASSUME RInv, NEW n \in 0 .. Top, JumpLastRowFails(n)
    PROVE  RInv' /\ Moves
<1>1. IInv /\ jump # NoJump /\ DOMAIN jump = JumpFields /\ Shapes
  BY JumpIs DEF JumpLastRowFails, Passing, RInv, IInv
<1>2. PICK text : TextIs(text)
  BY <1>1, TheTextIs
<1>3. IInv' /\ Holds(device', text)
  BY <1>1, <1>2, JumpLastRowFailsTells
<1>4. seq' = [seq EXCEPT !.layer = n, !.res = Junk] /\ chunk' = chunk /\ hand' = hand
      /\ jump' = [jump EXCEPT !.stop = TRUE]
  BY DEF JumpLastRowFails
<1>5. DOMAIN seq = SeqFields /\ n # NumLayers
  BY <1>1, TopIs, Sizes DEF Shapes
<1>6. seq'.len = seq.len /\ seq'.walk = seq.walk /\ seq'.layer # NumLayers
  BY <1>4, <1>5 DEF SeqFields
<1> QED BY <1>1, <1>2, <1>3, <1>4, <1>6, StoppedMoves

\* A call given up is nothing that the caller sees.
LEMMA JumpAbortsMoves ==
    ASSUME RInv, JumpAborts
    PROVE  RInv' /\ Moves
<1>1. IInv /\ jump # NoJump /\ chunk = NoChunk
  BY JumpIs DEF JumpAborts, RInv
<1>2. PICK text : TextIs(text)
  BY <1>1, TheTextIs
<1>3. IInv' /\ Holds(device', SubSeq(text, 1, jump.entry.seq.len))
  BY <1>1, <1>2, JumpAbortsTells
<1>4. seq' = jump.entry.seq /\ chunk' = NoChunk /\ hand' = hand /\ jump' = NoJump
  BY <1>1 DEF JumpAborts
<1>5. /\ AtRest = jump.entry.seq /\ Seen.text = SubSeq(text, 1, AtRest.len) /\ Listed(Seen.text)
      /\ Len(Seen.text) = AtRest.len /\ AtRest.len <= Len(text) /\ AtRest.len \in Nat /\ Len(text) = seq.len
  BY <1>1, <1>2, JumpTold
<1>6. seq.len \in Nat /\ seq.len <= Limit /\ Limit \in Nat
  BY <1>1, JumpIs, Sizes
<1>7. Len(Seen.text) <= Limit
  BY <1>5, <1>6
<1>8. seq'.layer # NumLayers
  <2>1. jump.entry.seq.layer = 0
    BY <1>1 DEF RInv, JumpTells
  <2> QED BY <1>4, <2>1, Sizes
<1>9. Holds(device', Seen.text) /\ seq'.len = Len(Seen.text)
  BY <1>3, <1>4, <1>5
<1> DEFINE t == Seen.text
<1>10. Listed(t) /\ Holds(device', t) /\ seq'.len = Len(t) /\ Len(t) <= Limit
  BY <1>5, <1>7, <1>9
<1>11. Seen = [text |-> t, walk |-> AtRest.walk, hand |-> hand, held |-> AtRest.layer = NumLayers]
  BY DEF Seen
<1> HIDE DEF t
<1>12. RInv' /\ Seen' = [text |-> t, walk |-> seq'.walk, hand |-> hand', held |-> seq'.layer = NumLayers]
  BY ONLY <1>3, <1>4, <1>8, <1>10, Settles, Zenon
<1>13. Seen' = Seen
  BY <1>4, <1>5, <1>11, <1>12
<1> QED BY <1>12, <1>13, SameMoves

\* A call answered: the loop has read the rows kept, and holds the last of them, or has
\* lost it.
LEMMA JumpReturnMoves ==
    ASSUME RInv, JumpReturn
    PROVE  RInv' /\ Moves
<1>1. IInv /\ jump # NoJump /\ chunk = NoChunk /\ jump.stop
  BY JumpIs DEF JumpReturn, RInv
<1>2. PICK text : TextIs(text)
  BY <1>1, TheTextIs
<1>3. IInv'
  BY <1>1, JumpReturnKeeps
<1>4. /\ seq' = [seq EXCEPT !.ready = TRUE] /\ hand' = NoToken /\ jump' = NoJump /\ chunk' = NoChunk
      /\ device' = device
  BY <1>1 DEF JumpReturn
<1>5. DOMAIN seq = SeqFields /\ Listed(text) /\ Len(text) = seq.len /\ Holds(device, text) /\ Len(text) <= Limit
  BY <1>1, <1>2, TextIsSo, JumpIs DEF IInv, Shapes
<1>6. seq'.len = seq.len /\ seq'.walk = seq.walk /\ seq'.layer = seq.layer /\ seq'.res = seq.res
  BY <1>4, <1>5 DEF SeqFields
<1>7. /\ Listed(Seen.text) /\ text = Seen.text \o SubSeq(jump.toks, 1, jump.kept)
      /\ Seen = [text |-> Seen.text, walk |-> Seen.walk, hand |-> jump.toks[1], held |-> FALSE]
      /\ Seen.walk = jump.walk
      /\ seq.layer = NumLayers => seq.res = text
  BY <1>1, <1>2, JumpTold
<1>8. /\ RInv'
      /\ Seen' = [text |-> text, walk |-> seq'.walk, hand |-> hand', held |-> seq'.layer = NumLayers]
  <2>1. /\ Holds(device', text) /\ seq'.len = Len(text)
        /\ seq'.layer = NumLayers => hand' = NoToken /\ seq'.res = text
    BY <1>4, <1>5, <1>6, <1>7
  <2> QED BY ONLY <1>3, <1>4, <1>5, <2>1, Settles, Zenon
<1> DEFINE toks == jump.toks
           n == jump.kept
           k == n - 1
<1>9. /\ Len(toks) <= MaxDraft + 1 /\ toks[1] = hand /\ hand # NoToken
      /\ \A i \in 2 .. Len(toks) : toks[i] \in Tokens
      /\ seq.walk = WalkOver(Seen.walk, SubSeq(toks, 2, n)) /\ n <= jump.off
      /\ \A r \in 1 .. n : r < n =>
            Finish(Seen.text \o SubSeq(toks, 1, r), WalkOver(Seen.walk, SubSeq(toks, 2, r))) = toks[r + 1]
  BY <1>1, <1>7 DEF RInv, JumpTells, JumpWalk
<1>10. /\ Listed(toks) /\ Len(toks) \in Nat /\ n \in Nat /\ n >= 1 /\ jump.off \in Nat /\ jump.off <= Len(toks)
  BY <1>1, JumpIs DEF IInv, Jumping
<1> HIDE DEF toks, n
<1>11. k \in Nat /\ k < Len(toks) /\ k < MostRows /\ k + 1 = n
  BY <1>9, <1>10, Mosts, Sizes
<1>12. Goes(Seen, toks, k)
  <2>1. toks[1] # NoToken /\ \A i \in 2 .. Len(toks) : toks[i] # NoToken /\ toks[i] # DeadEnd
    BY <1>9, TokenIs
  <2>2. \A r \in 1 .. k : r \in 1 .. n /\ r < n
    BY <1>10
  <2>3. \A r \in 1 .. k :
           Finish(Seen.text \o SubSeq(toks, 1, r), WalkOver(Seen.walk, SubSeq(toks, 2, r))) = toks[r + 1]
    BY <1>9, <2>2
  <2>4. Seen = [text |-> Seen.text, walk |-> Seen.walk, hand |-> toks[1], held |-> FALSE]
    BY <1>7 DEF toks
  <2> QED BY ONLY <1>7, <1>10, <2>1, <2>3, <2>4 DEF Goes
<1>13. FullRow(Seen, toks, n) \in ReadingFrom(Seen)
  <2> HIDE DEF k
  <2>1. FullRow(Seen, toks, k + 1) \in ReadingFrom(Seen)
    BY ONLY <1>11, <1>12, LoopGoes, Zenon
  <2> QED BY <1>11, <2>1
<1>14. text = Seen.text \o SubSeq(toks, 1, n)
  BY <1>7 DEF toks, n
<1>15. FullRow(Seen, toks, n) = [text |-> text, walk |-> seq'.walk, hand |-> NoToken, held |-> TRUE]
  BY ONLY <1>6, <1>9, <1>14 DEF FullRow
<1>16. Seen.hand # NoToken
  BY <1>7, <1>9 DEF toks
<1>17. CASE seq'.layer = NumLayers
  <2>1. Seen' = FullRow(Seen, toks, n)
    BY ONLY <1>4, <1>8, <1>15, <1>17
  <2> QED BY <1>8, <1>13, <1>16, <2>1 DEF Moves
<1>18. CASE seq'.layer # NumLayers
  <2>1. Seen' = [text |-> text, walk |-> seq'.walk, hand |-> NoToken, held |-> FALSE]
    BY ONLY <1>4, <1>8, <1>18
  <2>2. Plain!Lost(FullRow(Seen, toks, n)) = [text |-> text, walk |-> seq'.walk, hand |-> NoToken, held |-> FALSE]
    BY <1>15, LostIs
  <2> QED BY <1>8, <1>13, <2>1, <2>2 DEF Moves
<1> QED BY <1>17, <1>18

-----------------------------------------------------------------------------
(* The whole. *)

LEMMA InitTells == Init => RInv /\ Plain!Init
<1> SUFFICES ASSUME Init PROVE RInv /\ Plain!Init
  OBVIOUS
<1>1. IInv
  BY InitKeeps
<1>2. seq = Fresh /\ chunk = NoChunk /\ jump = NoJump /\ hand = NoToken
  BY DEF Init
<1>3. AtRest = Fresh
  BY <1>2 DEF AtRest
<1>4. Seen = Plain!Start
  <2>1. Fresh.layer # NumLayers /\ Fresh.len = 0 /\ Fresh.walk = 0
    BY Sizes DEF Fresh
  <2> QED BY <1>2, <1>3, <2>1, NoTokenIs DEF Seen, SeenText, Plain!Start
<1>5. ~Seen.held
  BY <1>4 DEF Plain!Start
<1>6. RInv
  BY <1>1, <1>2, <1>5 DEF RInv, HeldTells, ChunkTells, JumpTells
<1>7. Plain!Init
  BY <1>4 DEF Plain!Init, Seen, SeenText
<1> QED BY <1>6, <1>7

LEMMA StutterMoves ==
    ASSUME RInv, UNCHANGED vars
    PROVE  RInv' /\ Moves
<1>1. UNCHANGED <<seq, mirror, device, mapped, chunk, jump, hand>>
  BY DEF vars
<1>2. IInv'
  BY StutterKeeps DEF RInv
<1>3. AtRest' = AtRest /\ Seen' = Seen
  BY <1>1 DEF AtRest, Seen, SeenText
<1>4. HeldTells' /\ ChunkTells'
  BY <1>1, <1>3 DEF RInv, HeldTells, ChunkTells
<1>5. JumpTells'
  <2>1. \A r : JumpWalk(r)' = JumpWalk(r)
    BY <1>1 DEF JumpWalk
  <2>2. SeenText(device, seq.len)' = SeenText(device, seq.len)
    BY <1>1 DEF SeenText
  <2> QED BY <1>1, <1>3, <2>1, <2>2 DEF RInv, JumpTells
<1> QED BY <1>2, <1>3, <1>4, <1>5, SameMoves DEF RInv

LEMMA StepMoves ==
    ASSUME RInv, [Next]_vars
    PROVE  RInv' /\ Moves
<1>1. CASE \E kind \in {"prompt", "exact"}, ts \in Chunks : EmbedRows(kind, ts)
  BY <1>1, EmbedRowsMoves
<1>2. CASE \E n \in 1 .. NumLayers : Slice(n)
  BY <1>2, SliceMoves
<1>3. CASE SliceFails
  BY <1>3, SliceFailsMoves
<1>4. CASE CloseAgain
  BY <1>4, CloseAgainMoves
<1>5. CASE Abandon
  BY <1>5, AbandonMoves
<1>6. CASE Reset
  BY <1>6, ResetMoves
<1>7. CASE Decode
  BY <1>7, DecodeMoves
<1>8. CASE \E n \in 0 .. Top : DecodeFails(n)
  BY <1>8, DecodeFailsMoves
<1>9. CASE DecodeReady
  BY <1>9, DecodeReadyMoves
<1>10. CASE FinishToken
  BY <1>10, FinishTokenMoves
<1>11. CASE \E draft \in Drafts : JumpForward(draft)
  BY <1>11, JumpForwardMoves
<1>12. CASE JumpPass
  BY <1>12, JumpPassMoves
<1>13. CASE JumpPassFails
  BY <1>13, JumpPassFailsMoves
<1>14. CASE JumpAborts
  BY <1>14, JumpAbortsMoves
<1>15. CASE JumpLastRow
  BY <1>15, JumpLastRowMoves
<1>16. CASE \E n \in 0 .. Top : JumpLastRowFails(n)
  BY <1>16, JumpLastRowFailsMoves
<1>17. CASE JumpReturn
  BY <1>17, JumpReturnMoves
<1>18. CASE UNCHANGED vars
  BY <1>18, StutterMoves
<1> QED
  BY <1>1, <1>2, <1>3, <1>4, <1>5, <1>6, <1>7, <1>8, <1>9, <1>10, <1>11, <1>12, <1>13,
     <1>14, <1>15, <1>16, <1>17, <1>18 DEF Next

\* Every behaviour of chunks and jumps, with their slices, refusals, failures, rollbacks
\* and abandons, shows its caller what a loop that reads and finishes one row at a time
\* could have shown: the text, the walk, the token in hand and the row held are that
\* loop's, and no call reads a row that the loop would not have read.
THEOREM OneRowAtATimeHolds == Spec => OneRowAtATime
<1>1. Init => RInv /\ Plain!Init
  BY InitTells
<1>2. RInv /\ [Next]_vars => RInv' /\ [Plain!Next]_Seen
  <2> SUFFICES ASSUME RInv, [Next]_vars PROVE RInv' /\ [Plain!Next]_Seen
    OBVIOUS
  <2>1. RInv' /\ Moves
    BY StepMoves
  <2> QED BY <2>1, MovesIs
<1> QED BY <1>1, <1>2, PTL DEF Spec, OneRowAtATime, Plain!Spec, Seen, SeenText

-----------------------------------------------------------------------------
(* What a caller has seen stays. *)

Extends(s, t) ==
    Listed(s) /\ Listed(t) /\ Len(s) <= Len(t) /\ \A i \in 1 .. Len(s) : t[i] = s[i]

LEMMA ExtendsItself == ASSUME NEW s, Listed(s) PROVE Extends(s, s)
BY Lengths DEF Extends

LEMMA ExtendsOn ==
    ASSUME NEW r, NEW s, NEW t, Extends(r, s), Extends(s, t)
    PROVE  Extends(r, t)
<1>1. Listed(r) /\ Listed(s) /\ Listed(t) /\ Len(r) <= Len(s) /\ Len(s) <= Len(t)
      /\ Len(r) \in Nat /\ Len(s) \in Nat /\ Len(t) \in Nat
  BY Lengths DEF Extends
<1>2. \A i \in 1 .. Len(r) : i \in 1 .. Len(s)
  BY <1>1
<1>3. \A i \in 1 .. Len(r) : t[i] = r[i]
  BY <1>2 DEF Extends
<1>4. Len(r) <= Len(t)
  BY <1>1
<1> QED BY <1>1, <1>3, <1>4 DEF Extends

LEMMA ExtendsBy ==
    ASSUME NEW s, Listed(s), NEW b, Listed(b)
    PROVE  Extends(s, s \o b)
<1> DEFINE t == s \o b
<1>1. Listed(t) /\ Len(t) = Len(s) + Len(b) /\ \A i \in 1 .. Len(s) : t[i] = s[i]
  BY Joined
<1>2. Len(s) \in Nat /\ Len(b) \in Nat
  BY Lengths
<1> HIDE DEF t
<1>3. Extends(s, t)
  BY <1>1, <1>2 DEF Extends
<1> QED BY <1>3 DEF t

LEMMA ExtendsOne ==
    ASSUME NEW s, Listed(s), NEW e
    PROVE  Extends(s, Append(s, e))
<1> DEFINE S == Range(s) \cup {e}
           t == Append(s, e)
<1>1. s \in Seq(S) /\ e \in S
  BY DEF Listed
<1> HIDE DEF S
<1>2. t \in Seq(S) /\ Len(t) = Len(s) + 1 /\ Len(s) \in Nat /\ \A i \in 1 .. Len(s) : t[i] = s[i]
  BY <1>1
<1> HIDE DEF t
<1>3. Listed(t)
  BY <1>2, ListedIs
<1>4. Extends(s, t)
  BY <1>2, <1>3 DEF Extends
<1> QED BY <1>4 DEF t

PlainFields == {"text", "walk", "hand", "held"}

\* One turn of the loop reads a row behind the text.
LEMMA TurnExtends ==
    ASSUME NEW y, DOMAIN y = PlainFields, Listed(y.text)
    PROVE  /\ DOMAIN Plain!Read(y) = PlainFields /\ Extends(y.text, Plain!Read(y).text)
           /\ DOMAIN Plain!Answer(Plain!Read(y)) = PlainFields
           /\ Extends(y.text, Plain!Answer(Plain!Read(y)).text)
<1> DEFINE z == Plain!Read(y)
<1>1. z = [y EXCEPT !.text = Append(y.text, y.hand), !.hand = NoToken, !.held = TRUE]
  BY NoTokenIs DEF Plain!Read
<1>2. DOMAIN z = PlainFields /\ z.text = Append(y.text, y.hand)
  <2> HIDE DEF z
  <2> QED BY <1>1 DEF PlainFields
<1>3. Extends(y.text, z.text)
  BY <1>2, ExtendsOne
<1> HIDE DEF z
<1>4. DOMAIN Plain!Answer(z) = PlainFields /\ Plain!Answer(z).text = z.text
  <2> DEFINE t == Finish(z.text, z.walk)
  <2>1. CASE t = Plain!DeadEnd
    <3>1. Plain!Answer(z) = z
      BY <2>1 DEF Plain!Answer
    <3> QED BY <1>2, <3>1
  <2>2. CASE t # Plain!DeadEnd
    <3>1. Plain!Answer(z) = [z EXCEPT !.hand = t, !.walk = Step(z.walk, t), !.held = FALSE]
      BY <2>2 DEF Plain!Answer
    <3> HIDE DEF t
    <3> QED BY <1>2, <3>1 DEF PlainFields
  <2> QED BY <2>1, <2>2
<1> QED BY <1>2, <1>3, <1>4 DEF z

LEMMA LoopExtends ==
    ASSUME NEW x, DOMAIN x = PlainFields, Listed(x.text), NEW y \in LoopFrom(x)
    PROVE  DOMAIN y = PlainFields /\ Extends(x.text, y.text)
<1> DEFINE Fine(u) == DOMAIN u = PlainFields /\ Extends(x.text, u.text)
<1>0. MostRows \in Nat
  BY Mosts
<1>1. PICK g : Looped(g, x, MostRows) /\ LoopFrom(x) = UNION {g[i] : i \in 0 .. MostRows}
  BY LoopFromIs
<1>2. g[0] = {x} /\ \A i \in 1 .. MostRows : g[i] = OneOn(g[i - 1])
  BY <1>0, <1>1, LoopedAt
<1>3. Fine(x)
  BY ExtendsItself
<1>4. ASSUME NEW u, Fine(u) PROVE Fine(Plain!Answer(Plain!Read(u)))
  <2>1. Listed(u.text)
    BY <1>4 DEF Extends
  <2>2. DOMAIN Plain!Answer(Plain!Read(u)) = PlainFields
        /\ Extends(u.text, Plain!Answer(Plain!Read(u)).text)
    BY <1>4, <2>1, TurnExtends
  <2> QED BY <1>4, <2>2, ExtendsOn
<1> HIDE DEF Fine
<1> DEFINE Bad == {i \in 0 .. MostRows : \E u \in g[i] : ~Fine(u)}
<1>5. Bad = {}
  <2> SUFFICES ASSUME Bad # {} PROVE FALSE
    OBVIOUS
  <2>1. PICK m \in Bad : \A i \in Bad : m <= i
    <3>1. Bad \subseteq Nat
      OBVIOUS
    <3> HIDE DEF Bad
    <3> QED BY <3>1, LeastOf
  <2>2. m \in 0 .. MostRows /\ \E u \in g[m] : ~Fine(u)
    OBVIOUS
  <2>3. m # 0
    BY <1>2, <1>3, <2>2
  <2> DEFINE l == m - 1
  <2>4. l \in 0 .. MostRows /\ l < m /\ m \in 1 .. MostRows /\ l \in Nat /\ m \in Nat
    BY <1>0, <2>2, <2>3
  <2>5. l \notin Bad
    <3> HIDE DEF Bad, l
    <3> QED BY <2>1, <2>4
  <2>6. \A u \in g[l] : Fine(u)
    BY <2>4, <2>5
  <2>7. g[m] = OneOn(g[l])
    BY <1>2, <2>4
  <2> HIDE DEF l
  <2>8. \A u \in g[m] : \E v \in g[l] : u = Plain!Answer(Plain!Read(v))
    BY <2>7 DEF OneOn
  <2> QED BY <1>4, <2>2, <2>6, <2>8
<1>6. PICK i \in 0 .. MostRows : y \in g[i]
  BY <1>1
<1>7. Fine(y)
  BY <1>5, <1>6
<1> QED BY <1>7 DEF Fine

LEMMA ReadingExtends ==
    ASSUME NEW x, DOMAIN x = PlainFields, Listed(x.text), NEW y \in ReadingFrom(x)
    PROVE  DOMAIN y = PlainFields /\ Extends(x.text, y.text)
<1>1. PICK z \in LoopFrom(x) : y = Plain!Read(z)
  BY DEF ReadingFrom
<1>2. DOMAIN z = PlainFields /\ Extends(x.text, z.text)
  BY LoopExtends
<1>3. Listed(z.text)
  BY <1>2 DEF Extends
<1>4. DOMAIN y = PlainFields /\ Extends(z.text, y.text)
  BY <1>1, <1>2, <1>3, TurnExtends
<1> QED BY <1>2, <1>4, ExtendsOn

LEMMA LostExtends ==
    ASSUME NEW x, DOMAIN x = PlainFields
    PROVE  Plain!Lost(x).text = x.text
<1>1. Plain!Lost(x) = [x EXCEPT !.hand = NoToken, !.held = FALSE]
  BY NoTokenIs DEF Plain!Lost
<1> QED BY <1>1 DEF PlainFields

\* What a caller could have seen is never taken back, but by a reset.
RowsNeverLost == [][Seen' = Plain!Start \/ Extends(Seen.text, Seen'.text)]_Seen

\* A chunk or a jump that fails, is refused, abandoned or rolled back, and a row lost by
\* the one-row verbs, leave every row that the caller's text already had: between one
\* reset and the next the text only grows.
THEOREM RowsNeverLostHolds == Spec => RowsNeverLost
<1>1. ASSUME RInv, [Next]_vars PROVE Seen' = Plain!Start \/ Extends(Seen.text, Seen'.text)
  <2>1. Moves
    BY <1>1, StepMoves
  <2>2. DOMAIN Seen = PlainFields
    BY DEF Seen, PlainFields
  <2>3. Listed(Seen.text)
    <3>1. IInv
      BY <1>1 DEF RInv
    <3>2. PICK text : TextIs(text)
      BY <3>1, TheTextIs
    <3>3. Listed(text) /\ AtRest.len \in Nat /\ AtRest.len <= Len(text) /\ Seen.text = SubSeq(text, 1, AtRest.len)
      BY <3>1, <3>2, TextIsSo, SeenIs
    <3> DEFINE n == AtRest.len
    <3>4. n \in Nat /\ n <= Len(text)
      BY <3>3
    <3> HIDE DEF n
    <3>5. Listed(SubSeq(text, 1, n))
      BY <3>3, <3>4, Headed
    <3> QED BY <3>3, <3>5 DEF n
  <2>4. ASSUME NEW ts \in Plain!Prompts
        PROVE  DOMAIN FedTo(Seen, ts) = PlainFields /\ Extends(Seen.text, FedTo(Seen, ts).text)
    <3>1. Listed(ts)
      <4>1. PICK n \in 1 .. MostRows : ts \in [1 .. n -> 0 .. Vocab - 1]
        BY DEF Plain!Prompts, MostRows
      <4>2. n \in Nat
        BY <4>1, Mosts
      <4> DEFINE S == 0 .. Vocab - 1
      <4>3. ts \in [1 .. n -> S]
        BY <4>1
      <4> HIDE DEF S
      <4>4. ts \in Seq(S)
        BY ONLY <4>2, <4>3
      <4> QED BY <4>4, ListedIs
    <3>2. FedTo(Seen, ts) = [text |-> Seen.text \o ts, walk |-> Seen.walk, hand |-> NoToken, held |-> TRUE]
      BY FedToIs
    <3>3. DOMAIN FedTo(Seen, ts) = PlainFields /\ FedTo(Seen, ts).text = Seen.text \o ts
      BY ONLY <3>2 DEF PlainFields
    <3> QED BY <2>3, <3>1, <3>3, ExtendsBy
  <2>5. CASE Seen' = Seen \/ Seen' = Plain!Lost(Seen)
    BY <2>2, <2>3, <2>5, ExtendsItself, LostExtends
  <2>6. CASE Seen' \in LoopFrom(Seen) \cup ReadingFrom(Seen)
    BY <2>2, <2>3, <2>6, LoopExtends, ReadingExtends
  <2>7. CASE \E ts \in Plain!Prompts : Seen' = FedTo(Seen, ts) \/ Seen' = Plain!Lost(FedTo(Seen, ts))
    BY <2>4, <2>7, LostExtends
  <2>8. CASE Seen.held /\ Seen' = Plain!Answer(Seen)
    <3> DEFINE t == Finish(Seen.text, Seen.walk)
    <3>1. CASE t = Plain!DeadEnd
      BY <2>3, <2>8, <3>1, ExtendsItself DEF Plain!Answer
    <3>2. CASE t # Plain!DeadEnd
      <4>1. Seen' = [Seen EXCEPT !.hand = t, !.walk = Step(Seen.walk, t), !.held = FALSE]
        BY <2>8, <3>2 DEF Plain!Answer
      <4> HIDE DEF t
      <4>2. Seen'.text = Seen.text
        BY <2>2, <4>1 DEF PlainFields
      <4> QED BY <2>3, <4>2, ExtendsItself
    <3> QED BY <3>1, <3>2
  <2>9. CASE \E x \in ReadingFrom(Seen) : Seen' = Plain!Lost(x)
    BY <2>2, <2>3, <2>9, ReadingExtends, LostExtends
  <2> QED BY <2>1, <2>5, <2>6, <2>7, <2>8, <2>9 DEF Moves
<1>2. Init => RInv
  BY InitTells
<1>3. RInv /\ [Next]_vars => RInv'
  BY StepMoves
<1>4. RInv /\ [Next]_vars => [Seen' = Plain!Start \/ Extends(Seen.text, Seen'.text)]_Seen
  BY <1>1
<1> QED BY <1>2, <1>3, <1>4, PTL DEF Spec, RowsNeverLost
=============================================================================
