-------------------------- MODULE PagedKv_proofs --------------------------
(***************************************************************************)
(* Proofs about the sequence and prefix verbs over paged K/V, for any      *)
(* handles, pool, page size, cap, layers and budgets: what a handle has    *)
(* been promised of the pool it keeps, and its text stays within its       *)
(* limit.  They are about page counts: what the pages hold is the subject  *)
(* of PagedTexts_proofs.                                                   *)
(***************************************************************************)
EXTENDS PagedKv, TLAPS

-----------------------------------------------------------------------------
(* Page counts: a quotient is the only one that its remainder allows. *)

LEMMA Sizes ==
    /\ PagePositions \in Nat /\ PagePositions > 0
    /\ ContextCap \in Nat /\ ContextCap > 0
    /\ NumLayers \in Nat /\ NumLayers > 0
    /\ MaxFeed \in Nat
    /\ Budgets \subseteq Nat
BY SizesAssumption

LEMMA DivIs ==
    ASSUME NEW a \in Nat
    PROVE  /\ a \div PagePositions \in Nat
           /\ (a \div PagePositions) * PagePositions <= a
           /\ a < (a \div PagePositions) * PagePositions + PagePositions
BY Sizes

LEMMA NoMorePages ==
    ASSUME NEW p \in Int, NEW q \in Int, p * PagePositions < q * PagePositions + PagePositions
    PROVE  p <= q
<1>1. ASSUME p >= q + 1 PROVE FALSE
  <2>1. PICK d \in Nat : p = q + 1 + d
    <3>1. p - q - 1 \in Nat /\ p = q + 1 + (p - q - 1)
      BY <1>1
    <3> QED BY <3>1
  <2>2. p * PagePositions = q * PagePositions + PagePositions + d * PagePositions
    BY Sizes, <2>1
  <2>3. d * PagePositions >= 0
    BY Sizes
  <2> QED BY Sizes, <2>2, <2>3
<1> QED BY <1>1

LEMMA PagesOfIs ==
    ASSUME NEW n \in Nat
    PROVE  /\ PagesOf(n) \in Nat
           /\ n <= PagesOf(n) * PagePositions
           /\ PagesOf(n) * PagePositions < n + PagePositions
<1>1. n + PagePositions - 1 \in Nat
  BY Sizes
<1> QED BY <1>1, DivIs, Sizes DEF PagesOf

LEMMA FullPagesIs ==
    ASSUME NEW n \in Nat
    PROVE  /\ FullPages(n) \in Nat
           /\ FullPages(n) * PagePositions <= n
           /\ n < FullPages(n) * PagePositions + PagePositions
BY DivIs DEF FullPages

\* More positions take no fewer pages.
LEMMA MorePages ==
    ASSUME NEW m \in Nat, NEW n \in Nat, m <= n
    PROVE  PagesOf(m) <= PagesOf(n) /\ FullPages(m) <= FullPages(n)
<1>1. PagesOf(m) * PagePositions < PagesOf(n) * PagePositions + PagePositions
  BY PagesOfIs, Sizes
<1>2. FullPages(m) * PagePositions < FullPages(n) * PagePositions + PagePositions
  BY FullPagesIs, Sizes
<1>3. PagesOf(m) \in Int /\ PagesOf(n) \in Int /\ FullPages(m) \in Int /\ FullPages(n) \in Int
  BY PagesOfIs, FullPagesIs
<1> QED BY <1>1, <1>2, <1>3, NoMorePages

\* Beside its full pages a text has at most one.
LEMMA OneTail ==
    ASSUME NEW n \in Nat
    PROVE  FullPages(n) <= PagesOf(n) /\ PagesOf(n) <= FullPages(n) + 1
<1>0. PagesOf(n) \in Int /\ FullPages(n) \in Int /\ FullPages(n) + 1 \in Int
  BY PagesOfIs, FullPagesIs
<1>1. FullPages(n) * PagePositions < PagesOf(n) * PagePositions + PagePositions
  BY PagesOfIs, FullPagesIs, Sizes
<1>2. (FullPages(n) + 1) * PagePositions = FullPages(n) * PagePositions + PagePositions
  BY <1>0, Sizes
<1>3. PagesOf(n) * PagePositions < (FullPages(n) + 1) * PagePositions + PagePositions
  <2>1. PagesOf(n) * PagePositions < n + PagePositions /\ n < FullPages(n) * PagePositions + PagePositions
    BY PagesOfIs, FullPagesIs
  <2>2. PagePositions \in Int /\ PagesOf(n) * PagePositions \in Int /\ FullPages(n) * PagePositions \in Int
    BY <1>0, Sizes
  <2> QED BY ONLY <1>2, <2>1, <2>2, n \in Nat
<1> QED BY <1>0, <1>1, <1>3, NoMorePages

\* Positions behind a text take the pages they would take alone, and one for where
\* they begin.
LEMMA PagesBehind ==
    ASSUME NEW m \in Nat, NEW n \in Nat
    PROVE  PagesOf(m + n) <= FullPages(m) + PagesOf(n) + 1
<1>0. /\ PagesOf(m + n) \in Int /\ PagesOf(n) \in Int /\ FullPages(m) \in Int
      /\ FullPages(m) + PagesOf(n) + 1 \in Int /\ m + n \in Nat
  BY PagesOfIs, FullPagesIs
<1>1. (FullPages(m) + PagesOf(n) + 1) * PagePositions =
         FullPages(m) * PagePositions + PagesOf(n) * PagePositions + PagePositions
  BY <1>0, Sizes
<1>2. PagesOf(m + n) * PagePositions < (FullPages(m) + PagesOf(n) + 1) * PagePositions + PagePositions
  <2>1. PagesOf(m + n) * PagePositions < m + n + PagePositions
    BY <1>0, PagesOfIs
  <2>2. m < FullPages(m) * PagePositions + PagePositions
    BY FullPagesIs
  <2>3. n <= PagesOf(n) * PagePositions
    BY PagesOfIs
  <2> QED BY <1>0, <1>1, <2>1, <2>2, <2>3, Sizes
<1> QED BY <1>0, <1>2, NoMorePages

LEMMA PagesOfPages ==
    ASSUME NEW k \in Nat
    PROVE  k * PagePositions \in Nat /\ PagesOf(k * PagePositions) = k
<1>0. k * PagePositions \in Nat
  BY Sizes
<1>1. PagesOf(k * PagePositions) \in Int
  BY <1>0, PagesOfIs
<1>2. k * PagePositions < PagesOf(k * PagePositions) * PagePositions + PagePositions
  BY <1>0, PagesOfIs, Sizes
<1>3. PagesOf(k * PagePositions) * PagePositions < k * PagePositions + PagePositions
  BY <1>0, PagesOfIs
<1> QED BY <1>0, <1>1, <1>2, <1>3, NoMorePages

LEMMA Caps ==
    /\ CapPages \in Nat /\ CapPages >= 1
    /\ \A n \in Nat : n <= ContextCap => PagesOf(n) <= CapPages
<1>1. CapPages \in Nat /\ ContextCap <= CapPages * PagePositions
  BY PagesOfIs, Sizes DEF CapPages
<1>2. CapPages # 0
  <2>1. 0 * PagePositions = 0
    BY Sizes
  <2> QED BY <1>1, <2>1, Sizes
<1>3. \A n \in Nat : n <= ContextCap => PagesOf(n) <= CapPages
  BY MorePages, Sizes DEF CapPages
<1> QED BY <1>1, <1>2, <1>3

LEMMA Reservations ==
    ASSUME NEW mode, NEW budget \in Nat
    PROVE  /\ ReservationPages(mode, budget) \in Nat
           /\ ReservationPages(mode, budget) >= 1
           /\ ReservationPages(mode, budget) <= CapPages
BY Caps, PagesOfIs DEF ReservationPages, Least

LEMMA Limits ==
    ASSUME NEW x, x.budget \in Nat, x.origin \in Nat
    PROVE  HolderLimit(x) \in Nat /\ HolderLimit(x) <= ContextCap
BY Sizes DEF HolderLimit, Least

-----------------------------------------------------------------------------
(* The inductive invariant. *)

\* A table is a sequence, of whatever pages.
Pageful(table) == table \in Seq(Range(table))

Fields == {"mode", "budget", "origin", "table", "shared", "materialized", "reserve",
           "length", "layer", "hidden", "token", "ready", "frozen"}

Shaped(x) ==
    /\ DOMAIN x = Fields
    /\ x.mode \in {"none", "whole", "budget"}
    /\ {x.budget, x.origin, x.shared, x.materialized, x.reserve, x.length, x.layer} \subseteq Nat
    /\ Pageful(x.table)

\* The entries that go back to the pool are in the table, and the table covers the rows
\* of use.
Covers(x) == PoolPath(x) <= Len(x.table) /\ PagesOf(LiveRows(x)) <= Len(x.table)

\* Its text begins at or after its origin and ends within its limit.
Within(x) == x.origin <= x.length /\ LiveRows(x) <= HolderLimit(x)

\* The reservation is whole, in the reserve and in the entries that came from it.
Whole(x) == Len(x.table) + x.reserve = PoolPath(x) + ReservationPages(x.mode, x.budget)

\* The pages up to the origin are shared, or materialized in their place, as far as the
\* cap leaves room beside the reservation.
HeadKept(x) ==
    Least(FullPages(x.origin) + ReservationPages(x.mode, x.budget), CapPages)
        <= PoolPath(x) + ReservationPages(x.mode, x.budget)

Sound(x) ==
    /\ Shaped(x) /\ Covers(x) /\ Within(x)
    /\ x.mode # "none" /\ ~x.frozen => Whole(x) /\ HeadKept(x)

\* Only an open prefix is frozen, and no prefix is within a token.
KindOf(h, x) ==
    /\ x.frozen \in BOOLEAN
    /\ h \in Seqs => ~x.frozen
    /\ h \in Prefixes => x.layer = 0
    /\ x.frozen => x.mode # "none"

\* A blob is of a handle as these are.
BlobSound ==
    blob.of # "none" =>
        /\ blob.of \in {"seq", "prefix"}
        /\ blob.mode \in {"whole", "budget"}
        /\ {blob.budget, blob.origin, blob.length, blob.layer} \subseteq Nat
        /\ Within(blob)
        /\ blob.mode = "whole" => blob.origin = 0
        /\ blob.frozen = (blob.of = "prefix")
        /\ blob.of = "prefix" => blob.layer = 0 /\ blob.mode = "budget" /\ blob.budget = ContextCap

IInv ==
    /\ DOMAIN hd = Handles
    /\ \A h \in Handles : Sound(hd[h]) /\ KindOf(h, hd[h])
    /\ BlobSound

-----------------------------------------------------------------------------
(* Records and tables. *)

\* y is x but for some fields.
SameBut(x, y, S) == DOMAIN y = Fields /\ \A f \in Fields \ S : y[f] = x[f]

LEMMA PagefulIs ==
    ASSUME NEW S, NEW t \in Seq(S)
    PROVE  Pageful(t)
BY DEF Pageful, Range

LEMMA Joined ==
    ASSUME NEW s, NEW t, Pageful(s), Pageful(t)
    PROVE  Pageful(s \o t) /\ Len(s \o t) = Len(s) + Len(t)
<1>1. s \in Seq(Range(s) \cup Range(t)) /\ t \in Seq(Range(s) \cup Range(t))
  BY DEF Pageful
<1>2. s \o t \in Seq(Range(s) \cup Range(t)) /\ Len(s \o t) = Len(s) + Len(t)
  BY <1>1
<1> QED BY <1>2, PagefulIs

LEMMA Headed ==
    ASSUME NEW t, Pageful(t), NEW n \in Nat, n <= Len(t)
    PROVE  Pageful(SubSeq(t, 1, n)) /\ Len(SubSeq(t, 1, n)) = n
<1>1. t \in Seq(Range(t))
  BY DEF Pageful
<1>2. SubSeq(t, 1, n) \in Seq(Range(t)) /\ Len(SubSeq(t, 1, n)) = n
  BY <1>1
<1> QED BY <1>2, PagefulIs

LEMMA Empty ==
    Pageful(<<>>) /\ Len(<<>>) = 0
BY DEF Pageful, Range

\* What a shaped handle's fields are.
LEMMA ShapedIs ==
    ASSUME NEW x, Shaped(x)
    PROVE  /\ x.budget \in Nat /\ x.origin \in Nat /\ x.shared \in Nat /\ x.materialized \in Nat
           /\ x.reserve \in Nat /\ x.length \in Nat /\ x.layer \in Nat
           /\ Pageful(x.table) /\ Len(x.table) \in Nat
           /\ DOMAIN x = Fields /\ x.mode \in {"none", "whole", "budget"}
           /\ LiveRows(x) \in Nat /\ x.length <= LiveRows(x)
BY DEF Shaped, Pageful, LiveRows

\* MapPagesFor moves pages from the reserve to the end of the table.
LEMMA Maps ==
    ASSUME NEW h, NEW x, Shaped(x), NEW n \in Nat, Lacks(x, n) <= x.reserve
    PROVE  /\ Shaped(MapPagesFor(h, x, n))
           /\ SameBut(x, MapPagesFor(h, x, n), {"table", "reserve"})
           /\ Len(MapPagesFor(h, x, n).table) = Most(Len(x.table), PagesOf(n))
           /\ MapPagesFor(h, x, n).reserve = x.reserve - Lacks(x, n)
           /\ Len(MapPagesFor(h, x, n).table) + MapPagesFor(h, x, n).reserve = Len(x.table) + x.reserve
<1> DEFINE taken == Others(h) \cup Range(x.table)
           new == [i \in 1 .. Lacks(x, n) |-> NewPage(h, Len(x.table) + i, taken)]
           y == [x EXCEPT !.table = @ \o new, !.reserve = @ - Lacks(x, n)]
<1>1. MapPagesFor(h, x, n) = y
  BY DEF MapPagesFor
<1>0. Len(x.table) \in Nat /\ x.reserve \in Nat /\ PagesOf(n) \in Nat /\ DOMAIN x = Fields
  BY ShapedIs, PagesOfIs
<1>2. Lacks(x, n) \in Nat /\ Lacks(x, n) = Most(PagesOf(n) - Len(x.table), 0)
  BY <1>0 DEF Lacks, Most
<1>3. Pageful(new) /\ Len(new) = Lacks(x, n)
  <2> DEFINE S == {NewPage(h, Len(x.table) + i, taken) : i \in 1 .. Lacks(x, n)}
  <2>1. \A i \in 1 .. Lacks(x, n) : NewPage(h, Len(x.table) + i, taken) \in S
    OBVIOUS
  <2> HIDE DEF S
  <2>2. new \in [1 .. Lacks(x, n) -> S]
    BY <2>1
  <2>3. new \in Seq(S) /\ Len(new) = Lacks(x, n)
    <3> HIDE DEF new
    <3> QED BY <1>2, <2>2
  <2> QED BY <2>3, PagefulIs
<1> HIDE DEF new
<1>4. y.table = x.table \o new /\ y.reserve = x.reserve - Lacks(x, n)
  BY ShapedIs DEF Fields
<1>5. SameBut(x, y, {"table", "reserve"})
  BY ShapedIs DEF Fields, SameBut
<1> HIDE DEF y
<1>6. Pageful(y.table) /\ Len(y.table) = Len(x.table) + Lacks(x, n)
  <2>1. Pageful(x.table)
    BY ShapedIs
  <2> QED BY <1>3, <1>4, <2>1, Joined
<1>7. y.reserve \in Nat
  BY <1>0, <1>2, <1>4
<1>8. Shaped(y)
  BY <1>5, <1>6, <1>7, ShapedIs DEF Shaped, SameBut, Fields
<1>9. Len(y.table) = Most(Len(x.table), PagesOf(n))
  BY <1>0, <1>2, <1>6 DEF Most
<1>10. Len(y.table) + y.reserve = Len(x.table) + x.reserve
  BY <1>0, <1>2, <1>4, <1>6
<1> QED BY <1>1, <1>4, <1>5, <1>8, <1>9, <1>10

\* Sound is kept when pages move between table and reserve, the table keeping those
\* that are not the holder's own and those it needs.
LEMMA MovesSound ==
    ASSUME NEW x, Sound(x), NEW y, Shaped(y), SameBut(x, y, {"table", "reserve"}),
           Len(y.table) + y.reserve = Len(x.table) + x.reserve,
           PoolPath(x) <= Len(y.table), PagesOf(LiveRows(x)) <= Len(y.table)
    PROVE  Sound(y)
<1>1. /\ y.mode = x.mode /\ y.budget = x.budget /\ y.origin = x.origin /\ y.shared = x.shared
      /\ y.materialized = x.materialized /\ y.length = x.length /\ y.layer = x.layer
      /\ y.frozen = x.frozen
  BY DEF SameBut, Fields
<1>2. PoolPath(y) = PoolPath(x) /\ LiveRows(y) = LiveRows(x) /\ HolderLimit(y) = HolderLimit(x)
  BY <1>1 DEF PoolPath, LiveRows, HolderLimit
<1>3. Covers(y) /\ Within(y)
  BY <1>1, <1>2 DEF Covers, Within, Sound
<1>4. y.mode # "none" /\ ~y.frozen => Whole(y) /\ HeadKept(y)
  BY <1>1, <1>2 DEF Whole, HeadKept, Sound
<1> QED BY <1>3, <1>4 DEF Sound

LEMMA MapsSound ==
    ASSUME NEW h, NEW x, Sound(x), NEW n \in Nat, Lacks(x, n) <= x.reserve
    PROVE  /\ Sound(MapPagesFor(h, x, n))
           /\ SameBut(x, MapPagesFor(h, x, n), {"table", "reserve"})
           /\ PagesOf(n) <= Len(MapPagesFor(h, x, n).table)
           /\ Len(x.table) <= Len(MapPagesFor(h, x, n).table)
<1>0. Shaped(x)
  BY DEF Sound
<1> SUFFICES ASSUME NEW y, y = MapPagesFor(h, x, n)
             PROVE  /\ Sound(y) /\ SameBut(x, y, {"table", "reserve"})
                    /\ PagesOf(n) <= Len(y.table) /\ Len(x.table) <= Len(y.table)
  OBVIOUS
<1>1. /\ Shaped(y) /\ SameBut(x, y, {"table", "reserve"})
      /\ Len(y.table) = Most(Len(x.table), PagesOf(n))
      /\ Len(y.table) + y.reserve = Len(x.table) + x.reserve
  BY <1>0, Maps
<1>2. /\ Len(x.table) \in Nat /\ PagesOf(n) \in Nat /\ x.shared \in Nat /\ x.materialized \in Nat
      /\ PagesOf(LiveRows(x)) \in Nat
  BY <1>0, ShapedIs, PagesOfIs
<1>3. Len(x.table) <= Len(y.table) /\ PagesOf(n) <= Len(y.table) /\ Len(y.table) \in Nat
  BY <1>1, <1>2 DEF Most
<1>4. PoolPath(x) <= Len(y.table) /\ PagesOf(LiveRows(x)) <= Len(y.table)
  <2>1. PoolPath(x) \in Nat
    BY <1>2 DEF PoolPath
  <2> QED BY <1>2, <1>3, <2>1 DEF Sound, Covers
<1>5. Sound(y)
  BY <1>1, <1>4, MovesSound
<1> QED BY <1>1, <1>3, <1>5

\* Sound is kept when the text grows over pages that are mapped, within the limit.
LEMMA GrowsSound ==
    ASSUME NEW y, Sound(y), NEW z, SameBut(y, z, {"length", "layer", "hidden", "token", "ready"}),
           z.length \in Nat, z.layer \in Nat, y.origin <= z.length,
           LiveRows(z) <= HolderLimit(y), PagesOf(LiveRows(z)) <= Len(y.table)
    PROVE  Sound(z)
<1>1. /\ z.mode = y.mode /\ z.budget = y.budget /\ z.origin = y.origin /\ z.shared = y.shared
      /\ z.materialized = y.materialized /\ z.reserve = y.reserve /\ z.table = y.table
      /\ z.frozen = y.frozen
  BY DEF SameBut, Fields
<1>2. PoolPath(z) = PoolPath(y) /\ HolderLimit(z) = HolderLimit(y)
  BY <1>1 DEF PoolPath, HolderLimit
<1>3. Shaped(z)
  BY <1>1 DEF Sound, Shaped, SameBut
<1> QED BY <1>1, <1>2, <1>3 DEF Sound, Covers, Within, Whole, HeadKept

\* A rollback keeps it, if it keeps the pages of the rows of use.
LEMMA UnmapTailSound ==
    ASSUME NEW x, Sound(x), NEW keep \in Nat, PagesOf(LiveRows(x)) <= keep
    PROVE  Sound(UnmapTail(x, keep)) /\ SameBut(x, UnmapTail(x, keep), {"table", "reserve"})
<1> DEFINE floor == Least(Most(PoolPath(x), keep), Len(x.table))
           y == [x EXCEPT !.table = SubSeq(@, 1, floor), !.reserve = @ + Len(x.table) - floor]
<1>1. UnmapTail(x, keep) = y
  BY DEF UnmapTail
<1>2. /\ Len(x.table) \in Nat /\ x.reserve \in Nat /\ DOMAIN x = Fields /\ Pageful(x.table)
      /\ x.shared \in Nat /\ x.materialized \in Nat /\ PagesOf(LiveRows(x)) \in Nat
      /\ Shaped(x)
  BY ShapedIs, PagesOfIs DEF Sound
<1>3. /\ floor \in Nat /\ floor <= Len(x.table)
      /\ PoolPath(x) <= floor /\ PagesOf(LiveRows(x)) <= floor
  <2>1. PoolPath(x) \in Nat
    BY <1>2 DEF PoolPath
  <2>2. PoolPath(x) <= Len(x.table) /\ PagesOf(LiveRows(x)) <= Len(x.table)
    BY DEF Sound, Covers
  <2> QED BY <1>2, <2>1, <2>2 DEF Least, Most
<1> HIDE DEF floor
<1>4. y.table = SubSeq(x.table, 1, floor) /\ y.reserve = x.reserve + Len(x.table) - floor
  BY <1>2 DEF Fields
<1>5. SameBut(x, y, {"table", "reserve"})
  BY <1>2 DEF SameBut, Fields
<1> HIDE DEF y
<1>6. Pageful(y.table) /\ Len(y.table) = floor
  BY <1>2, <1>3, <1>4, Headed
<1>7. y.reserve \in Nat /\ Len(y.table) + y.reserve = Len(x.table) + x.reserve
  <2>1. \A a, b, c \in Nat : c <= b => a + b - c \in Nat /\ c + (a + b - c) = b + a
    OBVIOUS
  <2>2. x.reserve + Len(x.table) - floor \in Nat
    BY <1>2, <1>3, <2>1
  <2>3. floor + (x.reserve + Len(x.table) - floor) = Len(x.table) + x.reserve
    BY <1>2, <1>3, <2>1
  <2> QED BY <1>4, <1>6, <2>2, <2>3
<1>8. Shaped(y)
  BY <1>2, <1>5, <1>6, <1>7 DEF Shaped, SameBut, Fields
<1>9. Sound(y)
  BY <1>3, <1>5, <1>6, <1>7, <1>8, MovesSound
<1> QED BY <1>1, <1>5, <1>9

\* HolderUnmapAll: a holder with nothing mapped, its reservation in its reserve.
LEMMA UnmapAllIs ==
    ASSUME NEW x, Sound(x), x.mode # "none", ~x.frozen
    PROVE  /\ Shaped(UnmapAll(x))
           /\ SameBut(x, UnmapAll(x), {"table", "shared", "materialized", "reserve"})
           /\ UnmapAll(x).table = <<>> /\ UnmapAll(x).shared = 0 /\ UnmapAll(x).materialized = 0
           /\ UnmapAll(x).reserve = ReservationPages(x.mode, x.budget)
<1> SUFFICES ASSUME NEW y, y = UnmapAll(x)
             PROVE  /\ Shaped(y) /\ SameBut(x, y, {"table", "shared", "materialized", "reserve"})
                    /\ y.table = <<>> /\ y.shared = 0 /\ y.materialized = 0
                    /\ y.reserve = ReservationPages(x.mode, x.budget)
  OBVIOUS
<1>1. /\ Len(x.table) \in Nat /\ x.reserve \in Nat /\ DOMAIN x = Fields /\ x.budget \in Nat
      /\ x.shared \in Nat /\ x.materialized \in Nat /\ Shaped(x)
  BY ShapedIs DEF Sound
<1>2. y = [x EXCEPT !.table = <<>>, !.shared = 0, !.materialized = 0, !.reserve = @ + Private(x)]
  BY DEF UnmapAll
<1>3. /\ y.table = <<>> /\ y.shared = 0 /\ y.materialized = 0 /\ y.reserve = x.reserve + Private(x)
      /\ DOMAIN y = Fields
  BY <1>1, <1>2 DEF Fields
<1>4. SameBut(x, y, {"table", "shared", "materialized", "reserve"})
  BY <1>1, <1>2 DEF SameBut, Fields
<1>5. y.reserve = ReservationPages(x.mode, x.budget)
  <2>1. PoolPath(x) \in Nat
    BY <1>1 DEF PoolPath
  <2>2. Len(x.table) + x.reserve = PoolPath(x) + ReservationPages(x.mode, x.budget)
    BY DEF Sound, Whole
  <2>3. ReservationPages(x.mode, x.budget) \in Nat
    BY <1>1, Reservations
  <2>4. y.reserve = x.reserve + (Len(x.table) - PoolPath(x))
    BY <1>3 DEF Private
  <2> QED BY <1>1, <2>1, <2>2, <2>3, <2>4
<1>6. Shaped(y)
  <2>1. ReservationPages(x.mode, x.budget) \in Nat
    BY <1>1, Reservations
  <2>2. /\ y.mode = x.mode /\ y.budget = x.budget /\ y.origin = x.origin
        /\ y.length = x.length /\ y.layer = x.layer
    BY <1>4 DEF SameBut, Fields
  <2> QED BY <1>1, <1>3, <1>5, <2>1, <2>2, Empty DEF Shaped
<1> QED BY <1>3, <1>4, <1>5, <1>6

\* A holder made anew, or over a head it shares or materialized: mapped for the text it
\* takes over, and with that text.
LEMMA TakesOver ==
    ASSUME NEW h, NEW x, Shaped(x), PoolPath(x) <= Len(x.table),
           NEW n \in Nat, Lacks(x, n) <= x.reserve,
           NEW z, SameBut(MapPagesFor(h, x, n), z,
                          {"origin", "length", "layer", "hidden", "token", "ready", "frozen"}),
           z.origin \in Nat, z.length \in Nat, z.layer \in Nat, LiveRows(z) <= n, Within(z),
           ~z.frozen => Whole(x) /\ HeadKept(z)
    PROVE  Sound(z)
<1> SUFFICES ASSUME NEW y, y = MapPagesFor(h, x, n) PROVE Sound(z)
  OBVIOUS
<1>1. /\ Shaped(y) /\ SameBut(x, y, {"table", "reserve"})
      /\ Len(y.table) = Most(Len(x.table), PagesOf(n))
      /\ Len(y.table) + y.reserve = Len(x.table) + x.reserve
  BY Maps
<1>2. /\ z.mode = y.mode /\ z.budget = y.budget /\ z.shared = y.shared
      /\ z.materialized = y.materialized /\ z.reserve = y.reserve /\ z.table = y.table
      /\ DOMAIN z = Fields
  BY DEF SameBut, Fields
<1>3. /\ y.mode = x.mode /\ y.budget = x.budget /\ y.shared = x.shared
      /\ y.materialized = x.materialized
  BY <1>1 DEF SameBut, Fields
<1>4. PoolPath(z) = PoolPath(x)
  BY <1>2, <1>3 DEF PoolPath
<1>5. Shaped(z)
  BY <1>1, <1>2 DEF Shaped
<1>6. Covers(z)
  <2>1. /\ Len(x.table) \in Nat /\ PagesOf(n) \in Nat /\ x.shared \in Nat /\ x.materialized \in Nat
        /\ LiveRows(z) \in Nat
    BY <1>5, ShapedIs, PagesOfIs
  <2>2. PoolPath(x) \in Nat
    BY <2>1 DEF PoolPath
  <2>3. PagesOf(LiveRows(z)) \in Nat /\ PagesOf(LiveRows(z)) <= PagesOf(n)
    BY <2>1, MorePages, PagesOfIs
  <2>4. Len(x.table) <= Len(z.table) /\ PagesOf(n) <= Len(z.table) /\ Len(z.table) \in Nat
    BY <1>1, <1>2, <2>1 DEF Most
  <2> QED BY <1>4, <2>1, <2>2, <2>3, <2>4 DEF Covers
<1>7. ~z.frozen => Whole(z) /\ HeadKept(z)
  BY <1>1, <1>2, <1>3, <1>4 DEF Whole
<1> QED BY <1>5, <1>6, <1>7 DEF Sound

LEMMA HandleShaped ==
    ASSUME NEW mode \in {"none", "whole", "budget"}, NEW budget \in Nat, NEW reserve \in Nat
    PROVE  /\ Shaped(Handle(mode, budget, reserve))
           /\ PoolPath(Handle(mode, budget, reserve)) = 0
           /\ LiveRows(Handle(mode, budget, reserve)) = 0
           /\ Len(Handle(mode, budget, reserve).table) = 0
<1> DEFINE x == Handle(mode, budget, reserve)
<1>1. /\ DOMAIN x = Fields /\ x.mode = mode /\ x.budget = budget /\ x.reserve = reserve
      /\ x.origin = 0 /\ x.table = <<>> /\ x.shared = 0 /\ x.materialized = 0
      /\ x.length = 0 /\ x.layer = 0
  BY DEF Handle, Fields
<1> HIDE DEF x
<1>2. Pageful(x.table) /\ Len(x.table) = 0
  BY <1>1, Empty
<1>3. Shaped(x) /\ PoolPath(x) = 0 /\ LiveRows(x) = 0
  BY <1>1, <1>2 DEF Shaped, PoolPath, LiveRows
<1> QED BY <1>2, <1>3 DEF x

LEMMA NoPages == PagesOf(0) = 0 /\ FullPages(0) = 0
<1>1. 0 * PagePositions = 0
  BY Sizes
<1>2. PagesOf(0) = 0
  BY <1>1, PagesOfPages
<1>3. FullPages(0) \in Nat /\ FullPages(0) <= PagesOf(0)
  BY FullPagesIs, OneTail
<1> QED BY <1>2, <1>3

LEMMA CreatedSound ==
    ASSUME NEW mode \in {"whole", "budget"}, NEW budget \in Nat
    PROVE  Sound(Handle(mode, budget, ReservationPages(mode, budget)))
<1> DEFINE x == Handle(mode, budget, ReservationPages(mode, budget))
<1>1. ReservationPages(mode, budget) \in Nat
  BY Reservations
<1>2. /\ x.mode = mode /\ x.budget = budget /\ x.reserve = ReservationPages(mode, budget)
      /\ x.origin = 0 /\ x.length = 0
  BY DEF Handle, Fields
<1>3. Shaped(x) /\ PoolPath(x) = 0 /\ LiveRows(x) = 0 /\ Len(x.table) = 0
  BY <1>1, HandleShaped
<1> HIDE DEF x
<1>4. Covers(x)
  BY <1>3, NoPages DEF Covers
<1>5. Within(x)
  BY <1>2, <1>3, Limits DEF Within
<1>6. Whole(x) /\ HeadKept(x)
  BY <1>1, <1>2, <1>3, NoPages, Caps DEF Whole, HeadKept, Least
<1>7. Sound(x)
  BY <1>3, <1>4, <1>5, <1>6 DEF Sound
<1> QED BY <1>7 DEF x

LEMMA ClosedSound == Sound(NoHandle)
<1>2. NoHandle.mode = "none" /\ NoHandle.budget = 0 /\ NoHandle.origin = 0 /\ NoHandle.length = 0
  BY DEF Handle, NoHandle
<1>3. /\ Shaped(NoHandle) /\ PoolPath(NoHandle) = 0 /\ LiveRows(NoHandle) = 0
      /\ Len(NoHandle.table) = 0
  BY HandleShaped DEF NoHandle
<1>4. Covers(NoHandle)
  BY <1>3, NoPages DEF Covers
<1>5. Within(NoHandle)
  BY <1>2, <1>3, Limits DEF Within
<1> QED BY <1>2, <1>3, <1>4, <1>5 DEF Sound

-----------------------------------------------------------------------------
(* The verbs on one handle. *)

LEMMA StepKeeps ==
    ASSUME IInv, NEW h \in Handles, NEW x, NEW m, Step(h, x, m), blob' = blob,
           Sound(x), KindOf(h, x)
    PROVE  IInv'
<1>1. DOMAIN hd' = Handles /\ hd'[h] = x /\ \A g \in Handles \ {h} : hd'[g] = hd[g]
  BY DEF IInv, Step
<1>2. \A g \in Handles : Sound(hd'[g]) /\ KindOf(g, hd'[g])
  BY <1>1 DEF IInv
<1>3. BlobSound'
  BY DEF IInv, BlobSound
<1> QED BY <1>1, <1>2, <1>3 DEF IInv

\* A handle of the invariant, and what a verb may count on.
LEMMA OfHandle ==
    ASSUME IInv, NEW h \in Handles, NEW x, x = hd[h]
    PROVE  /\ Sound(x) /\ Shaped(x) /\ KindOf(h, x)
           /\ x.length \in Nat /\ x.layer \in Nat /\ x.origin \in Nat /\ x.budget \in Nat
           /\ LiveRows(x) \in Nat /\ x.origin <= x.length /\ x.length <= LiveRows(x)
           /\ LiveRows(x) <= HolderLimit(x) /\ HolderLimit(x) \in Nat /\ HolderLimit(x) <= ContextCap
BY ShapedIs, Limits DEF IInv, Sound, Within

LEMMA CreateKeeps ==
    ASSUME IInv, NEW h \in Handles, NEW m \in Modes, Create(h, m[1], m[2])
    PROVE  IInv'
<1> DEFINE x == Handle(m[1], m[2], ReservationPages(m[1], m[2]))
<1>1. m[1] \in {"whole", "budget"} /\ m[2] \in Nat
  <2>1. m = <<"whole", ContextCap>> \/ \E b \in Budgets : m = <<"budget", b>>
    BY DEF Modes
  <2>2. CASE m = <<"whole", ContextCap>>
    BY <2>2, Sizes
  <2>3. ASSUME NEW b \in Budgets, m = <<"budget", b>> PROVE m[1] \in {"whole", "budget"} /\ m[2] \in Nat
    BY <2>3, Sizes
  <2> QED BY <2>1, <2>2, <2>3
<1>2. Sound(x)
  BY <1>1, CreatedSound
<1>3. x.layer = 0 /\ x.frozen = FALSE
  BY DEF Handle
<1> HIDE DEF x
<1>4. KindOf(h, x)
  BY <1>3 DEF KindOf
<1>5. Step(h, x, mem) /\ blob' = blob
  BY DEF Create, x
<1> QED BY <1>2, <1>4, <1>5, StepKeeps

\* A span of positions read or tried behind the text.
LEMMA Behind ==
    ASSUME IInv, NEW h \in Handles, NEW n \in Nat, CanMap(hd[h], n)
    PROVE  /\ Sound(MapPagesFor(h, hd[h], n)) /\ KindOf(h, MapPagesFor(h, hd[h], n))
           /\ SameBut(hd[h], MapPagesFor(h, hd[h], n), {"table", "reserve"})
           /\ PagesOf(n) <= Len(MapPagesFor(h, hd[h], n).table)
           /\ Len(hd[h].table) <= Len(MapPagesFor(h, hd[h], n).table)
<1> SUFFICES ASSUME NEW x, x = hd[h], NEW y, y = MapPagesFor(h, x, n)
             PROVE  /\ Sound(y) /\ KindOf(h, y) /\ SameBut(x, y, {"table", "reserve"})
                    /\ PagesOf(n) <= Len(y.table) /\ Len(x.table) <= Len(y.table)
  OBVIOUS
<1>1. Sound(x) /\ KindOf(h, x) /\ Lacks(x, n) <= x.reserve
  BY OfHandle DEF CanMap
<1>2. /\ Sound(y) /\ SameBut(x, y, {"table", "reserve"})
      /\ PagesOf(n) <= Len(y.table) /\ Len(x.table) <= Len(y.table)
  BY <1>1, MapsSound
<1>3. y.frozen = x.frozen /\ y.layer = x.layer /\ y.mode = x.mode
  BY <1>2 DEF SameBut, Fields
<1>4. KindOf(h, y)
  BY <1>1, <1>3 DEF KindOf
<1> QED BY <1>2, <1>4

\* The handle with n positions mapped goes on with so many of them as its text.
LEMMA GoesOn ==
    ASSUME IInv, NEW h \in Handles, NEW n \in Nat, CanMap(hd[h], n),
           NEW z, SameBut(MapPagesFor(h, hd[h], n), z, {"length", "layer", "hidden", "token", "ready"}),
           z.length \in Nat, z.layer \in Nat, hd[h].length <= z.length,
           LiveRows(z) <= n, LiveRows(z) <= HolderLimit(hd[h]), h \in Prefixes => z.layer = 0
    PROVE  Sound(z) /\ KindOf(h, z)
<1> SUFFICES ASSUME NEW x, x = hd[h], NEW y, y = MapPagesFor(h, x, n)
             PROVE  Sound(z) /\ KindOf(h, z)
  OBVIOUS
<1>1. /\ Sound(y) /\ KindOf(h, y) /\ SameBut(x, y, {"table", "reserve"})
      /\ PagesOf(n) <= Len(y.table)
  BY Behind
<1>2. x.origin <= x.length /\ x.origin \in Nat /\ x.length \in Nat
  BY OfHandle
<1>3. y.mode = x.mode /\ y.budget = x.budget /\ y.origin = x.origin /\ y.frozen = x.frozen
  BY <1>1 DEF SameBut, Fields
<1>4. HolderLimit(y) = HolderLimit(x) /\ y.origin <= z.length
  BY <1>2, <1>3 DEF HolderLimit
<1>5. PagesOf(LiveRows(z)) <= Len(y.table)
  <2>1. LiveRows(z) \in Nat
    BY DEF LiveRows
  <2>2. PagesOf(LiveRows(z)) <= PagesOf(n) /\ PagesOf(LiveRows(z)) \in Nat /\ PagesOf(n) \in Nat
    BY <2>1, MorePages, PagesOfIs
  <2>3. Len(y.table) \in Nat
    BY <1>1, ShapedIs DEF Sound
  <2> QED BY <1>1, <2>2, <2>3
<1>6. Sound(z)
  BY <1>1, <1>4, <1>5, GrowsSound
<1>7. z.frozen = y.frozen /\ z.mode = y.mode
  BY DEF SameBut, Fields
<1> QED BY <1>1, <1>6, <1>7 DEF KindOf

LEMMA PrefillKeeps ==
    ASSUME IInv, NEW h \in Handles, NEW ts \in Feeds(h), Prefill(h, ts)
    PROVE  IInv'
<1> DEFINE x == hd[h]
           n == x.length + Len(ts)
           y == MapPagesFor(h, x, n)
           past == History(mem, y, x.length)
           m == Written(mem, y.table, RowsOf(past, x.length, ts))
           z == [y EXCEPT !.length = n, !.layer = 0, !.hidden = Grown(past, ts),
                          !.token = SX!Last(ts), !.ready = h \in Seqs]
<1>1. Step(h, z, m) /\ blob' = blob /\ n <= HolderLimit(x) /\ CanMap(x, n)
  BY DEF Prefill, Fits
<1>2. x.length \in Nat /\ Len(ts) \in Nat /\ n \in Nat /\ x.length <= n
  <2>1. x.length \in Nat
    BY OfHandle
  <2>2. Len(ts) \in Nat
    BY Sizes DEF Feeds
  <2> QED BY <2>1, <2>2
<1>3. DOMAIN y = Fields
  BY <1>1, <1>2, Behind DEF SameBut
<1> HIDE DEF y, n, past, m
<1>4. SameBut(y, z, {"length", "layer", "hidden", "token", "ready"}) /\ z.length = n /\ z.layer = 0
  BY <1>3 DEF SameBut, Fields
<1> HIDE DEF z
<1>5. LiveRows(z) = n
  BY <1>2, <1>4 DEF LiveRows
<1>6. Sound(z) /\ KindOf(h, z)
  BY <1>1, <1>2, <1>4, <1>5, GoesOn DEF y
<1> QED BY <1>1, <1>6, StepKeeps

LEMMA PrefillFailsKeeps ==
    ASSUME IInv, NEW h \in Handles, NEW n \in 1 .. MaxFeed, PrefillFails(h, n)
    PROVE  IInv'
<1> DEFINE x == hd[h]
           y == MapPagesFor(h, x, x.length + n)
           m == Written(mem, y.table, [pos \in x.length .. x.length + n - 1 |-> Junk])
<1>1. Step(h, y, m) /\ blob' = blob /\ CanMap(x, x.length + n)
  BY DEF PrefillFails, Fits
<1>2. x.length + n \in Nat
  BY OfHandle, Sizes
<1>3. Sound(y) /\ KindOf(h, y)
  BY <1>1, <1>2, Behind
<1> HIDE DEF y, m
<1> QED BY <1>1, <1>3, StepKeeps

LEMMA DecodeReadyKeeps ==
    ASSUME IInv, NEW s \in Seqs, DecodeReady(s, s)
    PROVE  IInv'
<1> DEFINE x == hd[s]
           z == [x EXCEPT !.token = s, !.ready = FALSE, !.hidden = <<>>]
<1>0. s \in Handles
  BY DEF Handles
<1>1. Step(s, z, mem) /\ blob' = blob
  BY DEF DecodeReady
<1>2. /\ Sound(x) /\ KindOf(s, x) /\ x.length \in Nat /\ x.layer \in Nat /\ x.origin <= x.length
      /\ LiveRows(x) <= HolderLimit(x)
  BY <1>0, OfHandle
<1>3. DOMAIN x = Fields
  BY <1>2, ShapedIs DEF Sound
<1> HIDE DEF x
<1>4. /\ SameBut(x, z, {"length", "layer", "hidden", "token", "ready"})
      /\ z.length = x.length /\ z.layer = x.layer /\ z.frozen = x.frozen /\ z.mode = x.mode
  BY <1>3 DEF SameBut, Fields
<1> HIDE DEF z
<1>5. LiveRows(z) = LiveRows(x)
  BY <1>4 DEF LiveRows
<1>6. Sound(z)
  BY <1>2, <1>4, <1>5, GrowsSound DEF Sound, Covers
<1>7. KindOf(s, z)
  BY <1>2, <1>4 DEF KindOf
<1> QED BY <1>0, <1>1, <1>6, <1>7, StepKeeps

LEMMA DecodeLayersKeeps ==
    ASSUME IInv, NEW s \in Seqs, NEW layers \in 0 .. NumLayers, NEW k, DecodeLayers(s, layers, k)
    PROVE  IInv'
<1> DEFINE x == hd[s]
           y == MapPagesFor(s, x, x.length + 1)
           past == History(mem, y, x.length)
           text == DecodeText(x, past)
           deep == Depth(x.layer, layers)
           whole == x.layer = 0 \/ RowAt(mem, y, x.length) = Row(text, x.layer)
           rows == [pos \in {x.length} |-> IF whole THEN Row(text, deep) ELSE Row(Garbage, deep)]
           m == Written(mem, y.table, rows)
           run == [y EXCEPT !.hidden = IF deep = 0 THEN @ ELSE text, !.layer = deep]
           rest == [y EXCEPT !.length = @ + 1, !.layer = 0, !.hidden = text, !.ready = TRUE]
           done == IF k = NoToken THEN rest
                   ELSE [rest EXCEPT !.hidden = <<>>, !.token = k, !.ready = FALSE]
           z == IF deep < NumLayers THEN run ELSE done
<1>0. s \in Handles
  BY DEF Handles
<1>1. /\ Step(s, z, m) /\ blob' = blob
      /\ x.layer = 0 => x.length < HolderLimit(x)
      /\ CanMap(x, x.length + 1)
  BY DEF DecodeLayers
<1>2. /\ x.length \in Nat /\ x.layer \in Nat /\ HolderLimit(x) \in Nat
      /\ LiveRows(x) <= HolderLimit(x)
  BY <1>0, OfHandle
<1>3. x.length + 1 \in Nat /\ x.length + 1 <= HolderLimit(x)
  BY <1>1, <1>2 DEF LiveRows
<1>4. SameBut(x, y, {"table", "reserve"})
  BY <1>0, <1>1, <1>3, Behind
<1>5. DOMAIN y = Fields /\ y.length = x.length
  BY <1>4 DEF SameBut, Fields
<1>6. deep \in Nat
  BY <1>2, Sizes DEF Depth, Least
<1> HIDE DEF y, past, text, deep, whole, rows, m
<1>7. /\ SameBut(y, run, {"length", "layer", "hidden", "token", "ready"})
      /\ run.length = x.length /\ run.layer = deep
  BY <1>5 DEF SameBut, Fields
<1>8. /\ SameBut(y, rest, {"length", "layer", "hidden", "token", "ready"})
      /\ rest.length = x.length + 1 /\ rest.layer = 0
  BY <1>5 DEF SameBut, Fields
<1> HIDE DEF run, rest
<1>9. /\ SameBut(y, done, {"length", "layer", "hidden", "token", "ready"})
      /\ done.length = x.length + 1 /\ done.layer = 0
  <2>1. CASE k = NoToken
    BY <1>8, <2>1
  <2>2. CASE k # NoToken
    <3>1. done = [rest EXCEPT !.hidden = <<>>, !.token = k, !.ready = FALSE]
      BY <2>2
    <3> QED BY <1>8, <3>1 DEF SameBut, Fields
  <2> QED BY <2>1, <2>2
<1> HIDE DEF done
<1>10. /\ SameBut(y, z, {"length", "layer", "hidden", "token", "ready"})
       /\ z.length \in Nat /\ z.layer \in Nat /\ x.length <= z.length /\ LiveRows(z) <= x.length + 1
       /\ LiveRows(z) \in Nat
  <2>1. CASE deep < NumLayers
    <3>1. z = run
      BY <2>1
    <3> HIDE DEF z
    <3> QED BY <1>2, <1>6, <1>7, <3>1 DEF LiveRows
  <2>2. CASE ~(deep < NumLayers)
    <3>1. z = done
      BY <2>2
    <3> HIDE DEF z
    <3> QED BY <1>2, <1>9, <3>1 DEF LiveRows
  <2> QED BY <2>1, <2>2
<1> HIDE DEF z
<1>11. LiveRows(z) <= HolderLimit(x) /\ s \notin Prefixes
  BY <1>2, <1>3, <1>10, HandlesAssumption
<1>12. Sound(z) /\ KindOf(s, z)
  BY <1>0, <1>1, <1>3, <1>10, <1>11, GoesOn DEF y
<1> QED BY <1>0, <1>1, <1>12, StepKeeps

LEMMA JumpKeeps ==
    ASSUME IInv, NEW s \in Seqs, NEW draft \in Feeds(s), NEW kept \in 0 .. Len(draft) + 1,
           JumpForward(s, draft, kept)
    PROVE  IInv'
<1> DEFINE x == hd[s]
           ts == <<x.token>> \o draft
           n == x.length + Len(ts)
           y == MapPagesFor(s, x, n)
           past == History(mem, y, x.length)
           read == SubSeq(ts, 1, kept)
           cover == Most(Len(x.table), PagesOf(x.length + kept))
           done == [y EXCEPT !.length = @ + kept, !.hidden = Grown(past, read),
                             !.token = SX!Last(read), !.ready = TRUE]
           z == IF kept = 0 THEN y ELSE done
           m == Written(mem, y.table, RowsOf(past, x.length, ts))
<1>0. s \in Handles
  BY DEF Handles
<1>1. /\ Step(s, UnmapTail(z, cover), m) /\ blob' = blob /\ x.layer = 0
      /\ n <= HolderLimit(x) /\ CanMap(x, n)
  BY DEF JumpForward, Fits
<1>2. x.length \in Nat /\ HolderLimit(x) \in Nat /\ Len(x.table) \in Nat
  BY <1>0, OfHandle, ShapedIs
<1>3. Len(draft) \in Nat /\ Len(ts) = Len(draft) + 1
  <2>1. draft \in Seq({s})
    BY Sizes DEF Feeds
  <2>2. <<x.token>> \in Seq({x.token}) /\ Len(<<x.token>>) = 1
    OBVIOUS
  <2>3. <<x.token>> \in Seq({s, x.token}) /\ draft \in Seq({s, x.token})
    BY <2>1, <2>2
  <2> QED BY <2>2, <2>3
<1>4. n \in Nat /\ kept \in Nat /\ x.length + kept <= n /\ x.length + kept \in Nat
  BY <1>2, <1>3
<1>5. /\ Sound(y) /\ KindOf(s, y) /\ SameBut(x, y, {"table", "reserve"})
      /\ PagesOf(n) <= Len(y.table)
  BY <1>0, <1>1, <1>4, Behind
<1>6. DOMAIN y = Fields /\ y.length = x.length /\ y.layer = 0
  BY <1>1, <1>5 DEF SameBut, Fields
<1>7. cover \in Nat /\ PagesOf(x.length + kept) <= cover
  <2>1. PagesOf(x.length + kept) \in Nat
    BY <1>4, PagesOfIs
  <2> HIDE DEF x
  <2> QED BY <1>2, <2>1 DEF Most
<1> HIDE DEF ts, n, y, past, read, cover, m
<1>8. Sound(z) /\ KindOf(s, z) /\ LiveRows(z) = x.length + kept
  <2>1. CASE kept = 0
    <3>1. z = y /\ x.length + kept = x.length
      BY <1>2, <2>1
    <3> HIDE DEF z
    <3> QED BY <1>5, <1>6, <1>2, <3>1 DEF LiveRows
  <2>2. CASE kept # 0
    <3>1. z = done
      BY <2>2
    <3>2. /\ SameBut(y, done, {"length", "layer", "hidden", "token", "ready"})
          /\ done.length = x.length + kept /\ done.layer = 0
      BY <1>6 DEF SameBut, Fields
    <3> HIDE DEF z, done
    <3>3. LiveRows(z) = x.length + kept
      BY <1>2, <1>4, <3>1, <3>2 DEF LiveRows
    <3>4. /\ SameBut(y, z, {"length", "layer", "hidden", "token", "ready"})
          /\ z.length = x.length + kept /\ z.layer = 0
      BY <3>1, <3>2
    <3>5. x.length <= z.length /\ LiveRows(z) <= n /\ LiveRows(z) <= HolderLimit(x)
      BY <1>1, <1>2, <1>4, <3>3, <3>4
    <3> QED BY <1>0, <1>1, <1>4, <3>3, <3>4, <3>5, GoesOn DEF y
  <2> QED BY <2>1, <2>2
<1> HIDE DEF z
<1>9. Sound(UnmapTail(z, cover)) /\ SameBut(z, UnmapTail(z, cover), {"table", "reserve"})
  BY <1>7, <1>8, UnmapTailSound
<1>10. KindOf(s, UnmapTail(z, cover))
  <2> DEFINE u == UnmapTail(z, cover)
  <2>1. u.frozen = z.frozen /\ u.layer = z.layer /\ u.mode = z.mode
    BY <1>9 DEF SameBut, Fields
  <2> HIDE DEF u
  <2>2. KindOf(s, u)
    BY <1>8, <2>1 DEF KindOf
  <2> QED BY <2>2 DEF u
<1> QED BY <1>0, <1>1, <1>9, <1>10, StepKeeps

LEMMA ResetKeeps ==
    ASSUME IInv, NEW s \in Seqs, Reset(s)
    PROVE  IInv'
<1> DEFINE x == hd[s]
           y == UnmapAll(x)
           z == [y EXCEPT !.origin = 0, !.length = 0, !.layer = 0, !.hidden = <<>>,
                          !.token = NoToken, !.ready = FALSE]
<1>0. s \in Handles
  BY DEF Handles
<1>1. Step(s, z, mem) /\ blob' = blob /\ x.mode # "none"
  BY DEF Reset, Live
<1>2. Sound(x) /\ KindOf(s, x) /\ x.budget \in Nat
  BY <1>0, OfHandle
<1>3. ~x.frozen
  BY <1>2 DEF KindOf
<1>4. /\ Shaped(y) /\ SameBut(x, y, {"table", "shared", "materialized", "reserve"})
      /\ y.table = <<>> /\ y.shared = 0 /\ y.materialized = 0
      /\ y.reserve = ReservationPages(x.mode, x.budget)
  BY <1>1, <1>2, <1>3, UnmapAllIs
<1>5. DOMAIN y = Fields /\ y.mode = x.mode /\ y.budget = x.budget /\ y.frozen = x.frozen
  BY <1>4 DEF SameBut, Fields
<1> HIDE DEF x, y
<1>6. /\ z.table = <<>> /\ z.shared = 0 /\ z.materialized = 0
      /\ z.reserve = ReservationPages(x.mode, x.budget)
      /\ z.origin = 0 /\ z.length = 0 /\ z.layer = 0
      /\ z.mode = x.mode /\ z.budget = x.budget /\ z.frozen = x.frozen /\ DOMAIN z = Fields
  BY <1>4, <1>5 DEF Fields
<1> HIDE DEF z
<1>7. ReservationPages(x.mode, x.budget) \in Nat /\ x.mode \in {"none", "whole", "budget"}
  BY <1>2, Reservations, ShapedIs DEF Sound
<1>8. PoolPath(z) = 0 /\ LiveRows(z) = 0 /\ Len(z.table) = 0
  BY <1>6, Empty DEF PoolPath, LiveRows
<1>9. Shaped(z)
  BY <1>2, <1>6, <1>7, Empty DEF Shaped
<1>10. Covers(z)
  BY <1>8, NoPages DEF Covers
<1>11. Within(z)
  BY <1>2, <1>6, <1>8, Limits DEF Within
<1>12. Whole(z) /\ HeadKept(z)
  BY <1>6, <1>7, <1>8, NoPages, Caps DEF Whole, HeadKept, Least
<1>13. Sound(z)
  BY <1>9, <1>10, <1>11, <1>12 DEF Sound
<1>14. KindOf(s, z)
  BY <1>2, <1>6 DEF KindOf
<1> QED BY <1>0, <1>1, <1>13, <1>14, StepKeeps

LEMMA FreezeKeeps ==
    ASSUME IInv, NEW q \in Prefixes, Freeze(q)
    PROVE  IInv'
<1> DEFINE x == hd[q]
           z == [x EXCEPT !.frozen = TRUE, !.reserve = 0]
<1>0. q \in Handles /\ q \notin Seqs
  BY HandlesAssumption DEF Handles
<1>1. Step(q, z, mem) /\ blob' = blob /\ x.mode # "none"
  BY DEF Freeze, Filling, Live
<1>2. Sound(x) /\ KindOf(q, x) /\ Shaped(x)
  BY <1>0, OfHandle
<1>3. DOMAIN x = Fields
  BY <1>2, ShapedIs
<1> HIDE DEF x
<1>4. SameBut(x, z, {"frozen", "reserve"}) /\ z.frozen = TRUE /\ z.reserve = 0
  BY <1>3 DEF SameBut, Fields
<1> HIDE DEF z
<1>5. /\ z.mode = x.mode /\ z.budget = x.budget /\ z.origin = x.origin /\ z.shared = x.shared
      /\ z.materialized = x.materialized /\ z.length = x.length /\ z.layer = x.layer
      /\ z.table = x.table /\ DOMAIN z = Fields
  BY <1>4 DEF SameBut, Fields
<1>6. PoolPath(z) = PoolPath(x) /\ LiveRows(z) = LiveRows(x) /\ HolderLimit(z) = HolderLimit(x)
  BY <1>5 DEF PoolPath, LiveRows, HolderLimit
<1>7. Shaped(z)
  BY <1>2, <1>4, <1>5 DEF Shaped
<1>8. Sound(z)
  BY <1>2, <1>4, <1>5, <1>6, <1>7 DEF Sound, Covers, Within
<1>9. KindOf(q, z)
  BY <1>0, <1>1, <1>2, <1>4, <1>5 DEF KindOf
<1> QED BY <1>0, <1>1, <1>8, <1>9, StepKeeps

LEMMA ReleaseKeeps ==
    ASSUME IInv, NEW h \in Handles, Release(h)
    PROVE  IInv'
<1>1. Step(h, NoHandle, mem) /\ blob' = blob
  BY DEF Release
<1>2. NoHandle.frozen = FALSE /\ NoHandle.layer = 0
  BY DEF NoHandle, Handle
<1>3. KindOf(h, NoHandle)
  BY <1>2 DEF KindOf
<1> QED BY <1>1, <1>3, ClosedSound, StepKeeps


-----------------------------------------------------------------------------
(* The verbs that build a holder over another one's pages, or over a blob. *)

\* The first n pages of a table shared by a holder that has none.
LEMMA SharesHead ==
    ASSUME NEW e, Shaped(e), e.materialized = 0, NEW t, Pageful(t), NEW n \in Nat, n <= Len(t),
           NEW x, SameBut(e, x, {"table", "shared"}), x.table = SubSeq(t, 1, n), x.shared = n
    PROVE  Shaped(x) /\ PoolPath(x) = n /\ Len(x.table) = n
<1>0. /\ DOMAIN e = Fields /\ e.mode \in {"none", "whole", "budget"} /\ e.budget \in Nat
      /\ e.origin \in Nat /\ e.reserve \in Nat /\ e.length \in Nat /\ e.layer \in Nat
  BY ShapedIs
<1>2. /\ x.mode = e.mode /\ x.budget = e.budget /\ x.origin = e.origin /\ x.reserve = e.reserve
      /\ x.materialized = 0 /\ x.length = e.length /\ x.layer = e.layer /\ DOMAIN x = Fields
  BY DEF SameBut, Fields
<1>3. Pageful(x.table) /\ Len(x.table) = n
  BY Headed
<1>4. PoolPath(x) = n
  BY <1>2 DEF PoolPath
<1>5. Shaped(x)
  BY <1>0, <1>2, <1>3 DEF Shaped
<1> QED BY <1>3, <1>4, <1>5

\* The head is kept when every full page up to the origin goes back to the pool, or when
\* the reservation is for the whole context.
LEMMA HeadIsKept ==
    ASSUME NEW z, Shaped(z), z.mode = "whole" \/ FullPages(z.origin) <= PoolPath(z)
    PROVE  HeadKept(z)
<1>1. /\ z.origin \in Nat /\ z.budget \in Nat /\ z.shared \in Nat /\ z.materialized \in Nat
  BY ShapedIs
<1>2. /\ FullPages(z.origin) \in Nat /\ PoolPath(z) \in Nat
      /\ ReservationPages(z.mode, z.budget) \in Nat /\ CapPages \in Nat
  BY <1>1, FullPagesIs, Reservations, Caps DEF PoolPath
<1>3. z.mode = "whole" => ReservationPages(z.mode, z.budget) = CapPages
  BY DEF ReservationPages
<1> HIDE DEF FullPages
<1> QED BY <1>2, <1>3 DEF HeadKept, Least

\* What a holder over a prefix takes: its full pages, and one for the tail.
LEMMA OfFrozen ==
    ASSUME IInv, NEW q \in Prefixes, hd[q].frozen
    PROVE  /\ hd[q].layer = 0 /\ hd[q].length \in Nat /\ hd[q].length <= ContextCap
           /\ Pageful(hd[q].table) /\ FullPages(hd[q].length) \in Nat
           /\ FullPages(hd[q].length) <= Len(hd[q].table)
<1> SUFFICES ASSUME NEW x, x = hd[q]
             PROVE  /\ x.layer = 0 /\ x.length \in Nat /\ x.length <= ContextCap
                    /\ Pageful(x.table) /\ FullPages(x.length) \in Nat
                    /\ FullPages(x.length) <= Len(x.table)
  OBVIOUS
<1>1. /\ Sound(x) /\ Shaped(x) /\ KindOf(q, x) /\ x.length \in Nat /\ LiveRows(x) \in Nat
      /\ x.length <= LiveRows(x) /\ LiveRows(x) <= HolderLimit(x)
      /\ HolderLimit(x) \in Nat /\ HolderLimit(x) <= ContextCap
  BY OfHandle DEF Handles
<1>2. x.layer = 0 /\ Pageful(x.table) /\ Len(x.table) \in Nat
  BY <1>1, ShapedIs DEF KindOf
<1>3. x.length <= ContextCap
  BY <1>1, Sizes
<1>4. /\ FullPages(x.length) \in Nat /\ FullPages(x.length) <= PagesOf(x.length)
      /\ PagesOf(x.length) \in Nat
  BY <1>1, FullPagesIs, OneTail, PagesOfIs
<1>5. PagesOf(x.length) <= Len(x.table)
  <2>1. LiveRows(x) = x.length
    BY <1>1, <1>2 DEF LiveRows
  <2> QED BY <1>1, <2>1 DEF Sound, Covers
<1> QED BY <1>1, <1>2, <1>3, <1>4, <1>5

\* A holder x mapped for a frozen prefix's text, and following it.
FollowsFrom(h, x, q, z) ==
    /\ IInv /\ q \in Prefixes /\ hd[q].frozen
    /\ Shaped(x) /\ PoolPath(x) <= Len(x.table) /\ Whole(x) /\ x.mode \in {"whole", "budget"}
    /\ x.mode = "whole" \/ FullPages(hd[q].length) <= PoolPath(x)
    /\ Lacks(x, hd[q].length) <= x.reserve /\ x.frozen = FALSE
    /\ SameBut(Follows(MapPagesFor(h, x, hd[q].length), q), z, {"ready"})

AsFollower(z) == Sound(z) /\ z.frozen = FALSE /\ z.layer = 0 /\ z.mode # "none"

LEMMA FollowsSound ==
    ASSUME NEW h, NEW q, NEW x, NEW z, FollowsFrom(h, x, q, z)
    PROVE  AsFollower(z)
<1>0. /\ IInv /\ q \in Prefixes /\ hd[q].frozen
      /\ Shaped(x) /\ PoolPath(x) <= Len(x.table) /\ Whole(x) /\ x.mode \in {"whole", "budget"}
      /\ x.mode = "whole" \/ FullPages(hd[q].length) <= PoolPath(x)
      /\ Lacks(x, hd[q].length) <= x.reserve /\ x.frozen = FALSE
      /\ SameBut(Follows(MapPagesFor(h, x, hd[q].length), q), z, {"ready"})
  BY DEF FollowsFrom
<1> USE <1>0
<1> SUFFICES ASSUME NEW n, n = hd[q].length, NEW y, y = MapPagesFor(h, x, n)
             PROVE  Sound(z) /\ z.frozen = FALSE /\ z.layer = 0 /\ z.mode # "none"
  BY DEF AsFollower
<1>1. n \in Nat /\ n <= ContextCap /\ hd[q].layer = 0
  BY OfFrozen
<1>2. Shaped(y) /\ SameBut(x, y, {"table", "reserve"})
  BY <1>1, Maps
<1>3. /\ y.mode = x.mode /\ y.budget = x.budget /\ y.shared = x.shared
      /\ y.materialized = x.materialized /\ y.frozen = x.frozen /\ DOMAIN y = Fields
  BY <1>2 DEF SameBut, Fields
<1> DEFINE f == Follows(y, q)
<1>4. /\ f.origin = n /\ f.length = n /\ f.layer = 0
      /\ SameBut(y, f, {"origin", "length", "layer", "hidden", "token"})
  BY <1>1, <1>3 DEF Follows, SameBut, Fields
<1>5. SameBut(f, z, {"ready"})
  OBVIOUS
<1> HIDE DEF f
<1>6. /\ z.origin = n /\ z.length = n /\ z.layer = 0
      /\ SameBut(y, z, {"origin", "length", "layer", "hidden", "token", "ready", "frozen"})
      /\ z.frozen = y.frozen /\ z.mode = y.mode /\ z.budget = y.budget /\ z.shared = y.shared
      /\ z.materialized = y.materialized /\ z.table = y.table /\ z.reserve = y.reserve
      /\ DOMAIN z = Fields
  BY <1>4, <1>5 DEF SameBut, Fields
<1>7. LiveRows(z) = n
  BY <1>1, <1>6 DEF LiveRows
<1>8. z.budget \in Nat
  BY <1>3, <1>6, ShapedIs
<1>9. Within(z)
  BY <1>1, <1>6, <1>7, <1>8, Sizes DEF Within, HolderLimit, Least
<1>10. HeadKept(z)
  <2>1. Shaped(z)
    BY <1>1, <1>2, <1>6 DEF Shaped
  <2>2. PoolPath(z) = PoolPath(x)
    BY <1>3, <1>6 DEF PoolPath
  <2> QED BY <1>3, <1>6, <2>1, <2>2, HeadIsKept
<1>11. LiveRows(z) <= n /\ z.origin \in Nat /\ z.length \in Nat /\ z.layer \in Nat
  BY <1>1, <1>6, <1>7
<1>12. Sound(z)
  BY <1>1, <1>6, <1>9, <1>10, <1>11, TakesOver
<1> QED BY <1>3, <1>6, <1>12

LEMMA BeginFromKeeps ==
    ASSUME IInv, NEW q \in Prefixes, NEW p \in Prefixes, NEW b \in Budgets, BeginFrom(q, p, b)
    PROVE  IInv'
<1> DEFINE R == ReservationPages("budget", b)
           e == Handle("budget", b, R)
           n == hd[p].length
           x == Sharing(e, p)
           y == MapPagesFor(q, x, n)
           z == Follows(y, p)
           m == TailCopied(y, p)
<1>0. q \in Handles /\ b \in Nat /\ q \notin Seqs
  BY Sizes, HandlesAssumption DEF Handles
<1>1. Step(q, z, m) /\ blob' = blob /\ hd[p].frozen
  BY DEF BeginFrom, WithTail
<1>2. /\ hd[p].layer = 0 /\ n \in Nat /\ n <= ContextCap
      /\ Pageful(hd[p].table) /\ FullPages(n) \in Nat /\ FullPages(n) <= Len(hd[p].table)
  BY <1>1, OfFrozen
<1>3. R \in Nat /\ R >= 1
  BY <1>0, Reservations
<1>4. /\ Shaped(e) /\ e.materialized = 0 /\ e.mode = "budget" /\ e.budget = b /\ e.reserve = R
      /\ e.frozen = FALSE
  BY <1>0, <1>3, HandleShaped DEF Handle
<1> HIDE DEF e
<1>5. /\ SameBut(e, x, {"table", "shared"})
      /\ x.table = SubSeq(hd[p].table, 1, FullPages(n)) /\ x.shared = FullPages(n)
  BY <1>4, ShapedIs DEF Sharing, SameBut, Fields
<1> HIDE DEF x
<1>6. Shaped(x) /\ PoolPath(x) = FullPages(n) /\ Len(x.table) = FullPages(n)
  <2> HIDE DEF n
  <2> DEFINE t == hd[p].table
             k == FullPages(n)
  <2>1. Pageful(t) /\ k \in Nat /\ k <= Len(t) /\ x.table = SubSeq(t, 1, k) /\ x.shared = k
    BY <1>2, <1>5
  <2> HIDE DEF t, k
  <2>2. Shaped(x) /\ PoolPath(x) = k /\ Len(x.table) = k
    BY <1>4, <1>5, <2>1, SharesHead
  <2> QED BY <2>2 DEF k
<1>7. x.mode = "budget" /\ x.budget = b /\ x.reserve = R /\ x.frozen = FALSE
  BY <1>4, <1>5 DEF SameBut, Fields
<1>8. Lacks(x, n) <= x.reserve
  <2>1. PagesOf(n) \in Nat /\ PagesOf(n) <= FullPages(n) + 1
    BY <1>2, PagesOfIs, OneTail
  <2> HIDE DEF n, R
  <2> QED BY <1>2, <1>3, <1>6, <1>7, <2>1 DEF Lacks, Most
<1>9. Whole(x)
  BY <1>6, <1>7 DEF Whole
<1>10. DOMAIN z = Fields
  <2>1. DOMAIN y = Fields
    BY <1>2, <1>6, <1>8, Maps DEF SameBut
  <2> HIDE DEF y
  <2> QED BY <2>1 DEF Follows
<1>11. SameBut(z, z, {"ready"})
  BY <1>10 DEF SameBut
<1>12. PoolPath(x) <= Len(x.table) /\ FullPages(n) <= PoolPath(x)
  BY <1>2, <1>6
<1>13. Sound(z) /\ z.frozen = FALSE /\ z.layer = 0
  <2>1. SameBut(Follows(MapPagesFor(q, x, hd[p].length), p), z, {"ready"})
    BY <1>11
  <2>2. /\ Shaped(x) /\ PoolPath(x) <= Len(x.table) /\ Whole(x) /\ x.mode \in {"whole", "budget"}
        /\ x.mode = "whole" \/ FullPages(hd[p].length) <= PoolPath(x)
        /\ Lacks(x, hd[p].length) <= x.reserve /\ x.frozen = FALSE
    BY <1>6, <1>7, <1>8, <1>9, <1>12
  <2>3. IInv /\ p \in Prefixes /\ hd[p].frozen
    BY <1>1
  <2>4. FollowsFrom(q, x, p, z)
    BY ONLY <2>1, <2>2, <2>3 DEF FollowsFrom
  <2> HIDE DEF z
  <2>5. AsFollower(z)
    BY ONLY <2>4, FollowsSound, Zenon
  <2> QED BY ONLY <2>5 DEF AsFollower
<1> HIDE DEF z, m
<1>14. KindOf(q, z)
  BY <1>0, <1>13 DEF KindOf
<1> QED BY <1>0, <1>1, <1>13, <1>14, StepKeeps

LEMMA AdoptKeeps ==
    ASSUME IInv, NEW s \in Seqs, NEW q \in Prefixes, AdoptPrefix(s, q)
    PROVE  IInv'
<1> DEFINE e == UnmapAll(hd[s])
           n == hd[q].length
           x == IF hd[s].mode = "budget" THEN Sharing(e, q) ELSE e
           y == MapPagesFor(s, x, n)
           z == [Follows(y, q) EXCEPT !.ready = hd[q].token # NoToken]
<1>0. s \in Handles /\ s \notin Prefixes
  BY HandlesAssumption DEF Handles
<1>1. /\ \E m : Step(s, z, m)
      /\ blob' = blob /\ hd[s].mode # "none" /\ hd[q].frozen /\ CanAdopt(s, q)
  <2>1. blob' = blob /\ hd[s].mode # "none" /\ hd[q].frozen /\ CanAdopt(s, q)
    BY DEF AdoptPrefix, Live
  <2>2. CASE hd[s].mode = "budget"
    BY <2>2 DEF AdoptPrefix, WithTail
  <2>3. CASE hd[s].mode # "budget"
    <3>1. Step(s, [Follows(MapPagesFor(s, e, n), q) EXCEPT !.ready = hd[q].token # NoToken],
               Copied(mem, SubSeq(MapPagesFor(s, e, n).table, 1, CopiedPages(q)), hd[q].table))
      BY <2>3 DEF AdoptPrefix
    <3>2. x = e
      BY <2>3
    <3> HIDE DEF x, e
    <3> QED BY <2>1, <3>1, <3>2, Zenon
  <2> QED BY <2>1, <2>2, <2>3
<1>2. /\ hd[q].layer = 0 /\ n \in Nat /\ n <= ContextCap
      /\ Pageful(hd[q].table) /\ FullPages(n) \in Nat /\ FullPages(n) <= Len(hd[q].table)
  BY <1>1, OfFrozen
<1>3. /\ Sound(hd[s]) /\ KindOf(s, hd[s]) /\ Shaped(hd[s])
  BY <1>0, OfHandle
<1>4. hd[s].mode \in {"whole", "budget"} /\ hd[s].budget \in Nat /\ ~hd[s].frozen /\ hd[s].frozen = FALSE
  BY <1>1, <1>3, ShapedIs DEF KindOf
<1>5. /\ Shaped(e) /\ SameBut(hd[s], e, {"table", "shared", "materialized", "reserve"})
      /\ e.table = <<>> /\ e.shared = 0 /\ e.materialized = 0
      /\ e.reserve = ReservationPages(hd[s].mode, hd[s].budget)
  BY <1>1, <1>3, <1>4, UnmapAllIs
<1>6. e.mode = hd[s].mode /\ e.budget = hd[s].budget /\ e.frozen = FALSE
  BY <1>4, <1>5 DEF SameBut, Fields
<1>7. /\ AdoptNeeds(s, q) = PagesOf(n) - (IF hd[s].mode = "budget" THEN FullPages(n) ELSE 0)
      /\ AdoptNeeds(s, q) <= e.reserve
  BY <1>1 DEF CanAdopt, AdoptNeeds
<1>8. PagesOf(n) \in Nat /\ FullPages(n) <= PagesOf(n) /\ e.reserve \in Nat
  BY <1>2, <1>5, PagesOfIs, OneTail, ShapedIs
<1> HIDE DEF e
<1>9. /\ Shaped(x) /\ PoolPath(x) <= Len(x.table) /\ x.mode = hd[s].mode /\ Whole(x)
      /\ x.mode = "whole" \/ FullPages(n) <= PoolPath(x)
      /\ Lacks(x, n) <= x.reserve /\ x.frozen = FALSE
  <2>1. CASE hd[s].mode = "budget"
    <3>0. x = Sharing(e, q)
      BY <2>1
    <3> HIDE DEF x
    <3>1. /\ SameBut(e, x, {"table", "shared"})
          /\ x.table = SubSeq(hd[q].table, 1, FullPages(n)) /\ x.shared = FullPages(n)
      BY <1>5, <3>0, ShapedIs DEF Sharing, SameBut, Fields
    <3> HIDE DEF n
    <3>2. Shaped(x) /\ PoolPath(x) = FullPages(n) /\ Len(x.table) = FullPages(n)
      <4> DEFINE t == hd[q].table
                 k == FullPages(n)
      <4>1. Pageful(t) /\ k \in Nat /\ k <= Len(t) /\ x.table = SubSeq(t, 1, k) /\ x.shared = k
        BY <1>2, <3>1
      <4> HIDE DEF t, k
      <4>2. Shaped(x) /\ PoolPath(x) = k /\ Len(x.table) = k
        BY <1>5, <3>1, <4>1, SharesHead
      <4> QED BY <4>2 DEF k
    <3>3. x.mode = e.mode /\ x.budget = e.budget /\ x.reserve = e.reserve /\ x.frozen = e.frozen
      BY <3>1 DEF SameBut, Fields
    <3>4. Whole(x)
      BY <1>5, <1>6, <3>2, <3>3 DEF Whole
    <3>5. Lacks(x, n) <= x.reserve
      BY <1>2, <1>7, <1>8, <2>1, <3>2, <3>3 DEF Lacks, Most
    <3> QED BY <1>2, <1>6, <3>2, <3>3, <3>4, <3>5
  <2>2. CASE hd[s].mode # "budget"
    <3>1. x = e
      BY <2>2
    <3> HIDE DEF x, n
    <3>2. PoolPath(x) = 0 /\ Len(x.table) = 0
      BY <1>5, <3>1, Empty DEF PoolPath
    <3>3. Whole(x)
      BY <1>5, <1>6, <1>8, <3>1, <3>2 DEF Whole
    <3>4. Lacks(x, n) <= x.reserve
      BY <1>7, <1>8, <2>2, <3>1, <3>2 DEF Lacks, Most
    <3> QED BY <1>4, <1>5, <1>6, <2>2, <3>1, <3>2, <3>3, <3>4
  <2> QED BY <2>1, <2>2
<1> HIDE DEF x
<1>10. DOMAIN y = Fields
  BY <1>2, <1>9, Maps DEF SameBut
<1>11. SameBut(Follows(y, q), z, {"ready"})
  <2> HIDE DEF y
  <2>1. DOMAIN Follows(y, q) = Fields
    BY <1>10 DEF Follows
  <2> QED BY <2>1 DEF SameBut, Fields
<1> HIDE DEF z
<1>12. Sound(z) /\ z.frozen = FALSE
  <2>1. SameBut(Follows(MapPagesFor(s, x, hd[q].length), q), z, {"ready"})
    BY <1>11
  <2>2. /\ Shaped(x) /\ PoolPath(x) <= Len(x.table) /\ Whole(x) /\ x.mode \in {"whole", "budget"}
        /\ x.mode = "whole" \/ FullPages(hd[q].length) <= PoolPath(x)
        /\ Lacks(x, hd[q].length) <= x.reserve /\ x.frozen = FALSE
    BY <1>4, <1>9
  <2>3. IInv /\ q \in Prefixes /\ hd[q].frozen
    BY <1>1
  <2>4. FollowsFrom(s, x, q, z)
    BY ONLY <2>1, <2>2, <2>3 DEF FollowsFrom
  <2>5. AsFollower(z)
    BY ONLY <2>4, FollowsSound, Zenon
  <2> QED BY ONLY <2>5 DEF AsFollower
<1>13. KindOf(s, z)
  BY <1>0, <1>12 DEF KindOf
<1> QED BY <1>0, <1>1, <1>12, <1>13, StepKeeps

\* The handle that a blob is made into, over a head that fits it.
LEMMA RestoredSound ==
    ASSUME NEW h, NEW b, {b.origin, b.length, b.layer} \subseteq Nat, Within(b), b.frozen \in BOOLEAN,
           NEW x, Shaped(x), PoolPath(x) <= Len(x.table), x.mode = b.mode, x.budget = b.budget,
           x.mode # "none",
           Lacks(x, LiveRows(b)) <= x.reserve,
           ~b.frozen => /\ Whole(x)
                        /\ Least(FullPages(b.origin) + ReservationPages(b.mode, b.budget), CapPages)
                               <= PoolPath(x) + ReservationPages(b.mode, b.budget),
           NEW from, Restored(h, x, b, from)
    PROVE  \E z, m : /\ Step(h, z, m) /\ Sound(z) /\ z.frozen = b.frozen /\ z.layer = b.layer
                     /\ z.mode # "none"
<1> DEFINE n == LiveRows(b)
           y == MapPagesFor(h, x, n)
           z == [y EXCEPT !.origin = b.origin, !.length = b.length, !.layer = b.layer,
                          !.hidden = b.hidden, !.token = b.token, !.ready = b.ready, !.frozen = b.frozen]
           m == Written(mem, y.table, [pos \in from .. LiveRows(b) - 1 |-> b.rows[pos]])
<1>1. Step(h, z, m)
  BY DEF Restored
<1>2. b.origin \in Nat /\ b.length \in Nat /\ b.layer \in Nat /\ n \in Nat
  BY DEF LiveRows
<1>3. Shaped(y) /\ SameBut(x, y, {"table", "reserve"}) /\ DOMAIN y = Fields
  <2>1. Lacks(x, n) <= x.reserve
    OBVIOUS
  <2> HIDE DEF n
  <2>2. Shaped(y) /\ SameBut(x, y, {"table", "reserve"})
    BY <1>2, <2>1, Maps
  <2> QED BY <2>2 DEF SameBut
<1> HIDE DEF y, m
<1>4. /\ SameBut(y, z, {"origin", "length", "layer", "hidden", "token", "ready", "frozen"})
      /\ z.origin = b.origin /\ z.length = b.length /\ z.layer = b.layer /\ z.frozen = b.frozen
  BY <1>3 DEF SameBut, Fields
<1> HIDE DEF z
<1>5. /\ z.mode = x.mode /\ z.budget = x.budget /\ z.shared = x.shared
      /\ z.materialized = x.materialized
  BY <1>3, <1>4 DEF SameBut, Fields
<1>6. LiveRows(z) = n /\ HolderLimit(z) = HolderLimit(b) /\ PoolPath(z) = PoolPath(x)
  BY <1>4, <1>5 DEF LiveRows, HolderLimit, PoolPath
<1>7. Within(z) /\ LiveRows(z) <= n
  BY <1>2, <1>4, <1>6 DEF Within
<1>8. ~z.frozen => Whole(x) /\ HeadKept(z)
  BY <1>4, <1>5, <1>6 DEF HeadKept
<1>9. z.origin \in Nat /\ z.length \in Nat /\ z.layer \in Nat
  BY <1>2, <1>4
<1>10. Sound(z)
  BY <1>2, <1>4, <1>7, <1>8, <1>9, TakesOver DEF y
<1> QED BY <1>1, <1>4, <1>5, <1>10

\* What a hint that matches has to share.
LEMMA SharedIs ==
    ASSUME IInv, NEW hint \in Hints, NEW b, b.origin \in Nat, SharedBy(hint, b) > 0,
           NEW q, q = CHOOSE r \in hint : TRUE
    PROVE  /\ SharedBy(hint, b) = FullPages(b.origin)
           /\ Pageful(hd[q].table) /\ FullPages(b.origin) \in Nat
           /\ FullPages(b.origin) <= Len(hd[q].table)
<1>1. PICK p \in hint : Matches(p, b)
  BY DEF SharedBy
<1>2. SharedBy(hint, b) = FullPages(b.origin)
  BY <1>1 DEF SharedBy
<1>3. hint = {p} /\ p \in Prefixes
  BY <1>1 DEF Hints
<1>4. q = p
  BY <1>3
<1>5. hd[q].frozen /\ hd[q].length = b.origin
  BY <1>1, <1>4 DEF Matches
<1> QED BY <1>2, <1>3, <1>4, <1>5, OfFrozen

\* A holder with nothing mapped, over that head.
LEMMA SharedHeadIs ==
    ASSUME IInv, NEW hint \in Hints, NEW b, b.origin \in Nat, SharedBy(hint, b) > 0,
           NEW e, Shaped(e), e.materialized = 0,
           NEW x, x = SharedHead(e, hint, SharedBy(hint, b))
    PROVE  /\ Shaped(x) /\ SameBut(e, x, {"table", "shared"})
           /\ PoolPath(x) = FullPages(b.origin) /\ Len(x.table) = FullPages(b.origin)
           /\ SharedBy(hint, b) = FullPages(b.origin) /\ FullPages(b.origin) \in Nat
<1> DEFINE q == CHOOSE q \in hint : TRUE
           t == hd[q].table
           k == FullPages(b.origin)
<1>1. /\ SharedBy(hint, b) = k
      /\ Pageful(t) /\ k \in Nat /\ k <= Len(t)
  BY SharedIs
<1>2. SharedBy(hint, b) # 0
  BY <1>1
<1>3. x = [e EXCEPT !.table = SubSeq(t, 1, SharedBy(hint, b)), !.shared = SharedBy(hint, b)]
  BY <1>2 DEF SharedHead
<1> HIDE DEF t, k
<1>4. SameBut(e, x, {"table", "shared"}) /\ x.table = SubSeq(t, 1, k) /\ x.shared = k
  BY <1>1, <1>3, ShapedIs DEF SameBut, Fields
<1>5. Shaped(x) /\ PoolPath(x) = k /\ Len(x.table) = k
  BY <1>1, <1>4, SharesHead
<1> QED BY <1>1, <1>4, <1>5 DEF k

\* A holder with nothing mapped, over pages of its own in place of that head.
LEMMA MaterializedHeadIs ==
    ASSUME NEW h, NEW e, Shaped(e), Len(e.table) = 0, e.shared = 0, NEW n \in Nat, n <= e.reserve,
           NEW x, x = MaterializedHead(h, e, n)
    PROVE  /\ Shaped(x) /\ SameBut(e, x, {"table", "reserve", "materialized"})
           /\ PoolPath(x) = n /\ Len(x.table) = n /\ Len(x.table) + x.reserve = e.reserve
<1>1. n * PagePositions \in Nat /\ PagesOf(n * PagePositions) = n
  BY PagesOfPages
<1>2. e.reserve \in Nat
  BY ShapedIs
<1>3. Lacks(e, n * PagePositions) = n
  BY <1>1 DEF Lacks, Most
<1> DEFINE y == MapPagesFor(h, e, n * PagePositions)
<1>4. /\ Shaped(y) /\ SameBut(e, y, {"table", "reserve"})
      /\ Len(y.table) = Most(Len(e.table), n)
      /\ Len(y.table) + y.reserve = Len(e.table) + e.reserve
  BY <1>1, <1>3, Maps
<1>5. x = [y EXCEPT !.materialized = n]
  BY DEF MaterializedHead
<1> HIDE DEF y
<1>6. SameBut(y, x, {"materialized"}) /\ x.materialized = n
  BY <1>4, <1>5 DEF SameBut, Fields
<1>7. /\ x.table = y.table /\ x.shared = e.shared /\ x.reserve = y.reserve /\ x.mode = y.mode
      /\ x.budget = y.budget /\ x.origin = y.origin /\ x.length = y.length /\ x.layer = y.layer
      /\ DOMAIN x = Fields
  BY <1>4, <1>6 DEF SameBut, Fields
<1>8. SameBut(e, x, {"table", "reserve", "materialized"})
  BY <1>4, <1>6 DEF SameBut
<1>9. Len(y.table) = n
  BY <1>4 DEF Most
<1>10. Shaped(x)
  BY <1>4, <1>6, <1>7 DEF Shaped
<1>11. PoolPath(x) = n
  BY <1>6, <1>7 DEF PoolPath
<1> QED BY <1>2, <1>4, <1>7, <1>8, <1>9, <1>10, <1>11

LEMMA RestoreKeeps ==
    ASSUME IInv, NEW s \in Seqs, NEW hint \in Hints, Restore(s, hint)
    PROVE  IInv'
<1> DEFINE b == blob
           R == ReservationPages(b.mode, b.budget)
           share == IF b.mode = "budget" THEN SharedBy(hint, b) ELSE 0
           own == OwnPages(b, share)
           drawn == Handle(b.mode, b.budget, R + own)
           x == IF share > 0 THEN SharedHead(drawn, hint, share) ELSE MaterializedHead(s, drawn, own)
<1>0. s \in Handles /\ s \notin Prefixes
  BY HandlesAssumption DEF Handles
<1>1. /\ Restored(s, x, b, share * PagePositions) /\ CanMap(x, LiveRows(b)) /\ blob' = blob
      /\ b.of = "seq"
  BY DEF Restore
<1>2. /\ b.mode \in {"whole", "budget"} /\ b.budget \in Nat /\ b.origin \in Nat
      /\ b.length \in Nat /\ b.layer \in Nat /\ Within(b) /\ b.frozen = FALSE
      /\ b.mode = "whole" => b.origin = 0
  BY <1>1 DEF IInv, BlobSound
<1> HIDE DEF b
<1>3. R \in Nat /\ R >= 1 /\ R <= CapPages /\ CapPages \in Nat
  BY <1>2, Reservations, Caps
<1>4. FullPages(b.origin) \in Nat
  BY <1>2, FullPagesIs
<1>5. /\ own \in Nat
      /\ share > 0 => own = 0
      /\ ~(share > 0) => Least(FullPages(b.origin) + R, CapPages) <= own + R
  <2>0. own = OwnPages(b, share)
    OBVIOUS
  <2>1. CASE share > 0
    <3>1. own = 0
      BY <2>1 DEF OwnPages
    <3> QED BY <2>1, <3>1
  <2>2. CASE ~(share > 0) /\ b.mode = "whole"
    <3>1. own = 0
      BY <2>2 DEF OwnPages
    <3>2. FullPages(b.origin) = 0
      BY <1>2, <2>2, NoPages
    <3> HIDE DEF own, share, R
    <3> QED BY <1>3, <2>2, <3>1, <3>2 DEF Least
  <2>3. CASE ~(share > 0) /\ b.mode # "whole"
    <3>1. own = Least(FullPages(b.origin), CapPages - R)
      BY <2>3 DEF OwnPages
    <3> HIDE DEF own, share, R
    <3> QED BY <1>3, <1>4, <2>3, <3>1 DEF Least
  <2> QED BY <2>1, <2>2, <2>3
<1> HIDE DEF own
<1>6. /\ Shaped(drawn) /\ Len(drawn.table) = 0 /\ drawn.mode = b.mode /\ drawn.budget = b.budget
      /\ drawn.shared = 0 /\ drawn.materialized = 0 /\ drawn.reserve = R + own
      /\ drawn.frozen = FALSE
  <2>1. R + own \in Nat /\ b.mode \in {"none", "whole", "budget"}
    BY <1>2, <1>3, <1>5
  <2>2. Shaped(drawn) /\ Len(drawn.table) = 0
    BY <1>2, <2>1, HandleShaped
  <2>3. /\ drawn.mode = b.mode /\ drawn.budget = b.budget /\ drawn.shared = 0
        /\ drawn.materialized = 0 /\ drawn.reserve = R + own /\ drawn.frozen = FALSE
    BY DEF Handle
  <2> QED BY <2>2, <2>3
<1> HIDE DEF drawn
<1>7. /\ Shaped(x) /\ PoolPath(x) <= Len(x.table) /\ x.mode = b.mode /\ x.budget = b.budget
      /\ Len(x.table) + x.reserve = PoolPath(x) + R
      /\ Least(FullPages(b.origin) + R, CapPages) <= PoolPath(x) + R
  <2>1. CASE share > 0
    <3>1. b.mode = "budget" /\ share = SharedBy(hint, b) /\ SharedBy(hint, b) > 0
      BY <2>1
    <3>2. x = SharedHead(drawn, hint, SharedBy(hint, b))
      BY <2>1, <3>1
    <3> HIDE DEF x
    <3>3. /\ Shaped(x) /\ SameBut(drawn, x, {"table", "shared"})
          /\ PoolPath(x) = FullPages(b.origin) /\ Len(x.table) = FullPages(b.origin)
      BY <1>2, <1>6, <3>1, <3>2, SharedHeadIs
    <3>4. x.mode = b.mode /\ x.budget = b.budget /\ x.reserve = R
      <4>1. x.mode = drawn.mode /\ x.budget = drawn.budget /\ x.reserve = drawn.reserve
        BY <3>3 DEF SameBut, Fields
      <4> QED BY <1>3, <1>5, <1>6, <2>1, <4>1
    <3> HIDE DEF R
    <3>5. Least(FullPages(b.origin) + R, CapPages) <= FullPages(b.origin) + R
      BY <1>3, <1>4 DEF Least
    <3> QED BY <1>3, <1>4, <3>3, <3>4, <3>5
  <2>2. CASE ~(share > 0)
    <3>1. x = MaterializedHead(s, drawn, own)
      BY <2>2
    <3> HIDE DEF x
    <3>0. own <= drawn.reserve
      BY <1>3, <1>5, <1>6
    <3>2. /\ Shaped(x) /\ SameBut(drawn, x, {"table", "reserve", "materialized"})
          /\ PoolPath(x) = own /\ Len(x.table) = own /\ Len(x.table) + x.reserve = drawn.reserve
      BY <1>5, <1>6, <3>0, <3>1, MaterializedHeadIs
    <3>3. x.mode = b.mode /\ x.budget = b.budget
      <4>1. x.mode = drawn.mode /\ x.budget = drawn.budget
        BY <3>2 DEF SameBut, Fields
      <4> QED BY <1>6, <4>1
    <3>4. Len(x.table) + x.reserve = PoolPath(x) + R
      BY <1>3, <1>5, <1>6, <3>2
    <3>5. Least(FullPages(b.origin) + R, CapPages) <= PoolPath(x) + R
      BY <1>5, <2>2, <3>2
    <3> QED BY <1>5, <3>2, <3>3, <3>4, <3>5
  <2> QED BY <2>1, <2>2
<1> HIDE DEF x, share
<1>8. Whole(x)
  BY <1>7 DEF Whole
<1>9. Lacks(x, LiveRows(b)) <= x.reserve /\ x.mode # "none"
  BY <1>1, <1>2, <1>7 DEF CanMap
<1>10. PICK z, m : /\ Step(s, z, m) /\ Sound(z) /\ z.frozen = b.frozen /\ z.layer = b.layer
                   /\ z.mode # "none"
  BY <1>1, <1>2, <1>7, <1>8, <1>9, RestoredSound
<1>11. KindOf(s, z)
  BY <1>0, <1>2, <1>10 DEF KindOf
<1> QED BY <1>0, <1>1, <1>10, <1>11, StepKeeps

LEMMA RestorePrefixKeeps ==
    ASSUME IInv, NEW q \in Prefixes, NEW hint \in Hints, RestorePrefix(q, hint)
    PROVE  IInv'
<1> DEFINE b == blob
           share == IF b.origin > 0 THEN SharedBy(hint, b) ELSE 0
           drawn == Handle(b.mode, b.budget, PagesOf(b.length) - share)
           x == SharedHead(drawn, hint, share)
<1>0. q \in Handles /\ q \notin Seqs
  BY HandlesAssumption DEF Handles
<1>1. Restored(q, x, b, share * PagePositions) /\ blob' = blob /\ b.of = "prefix"
  BY DEF RestorePrefix
<1>2. /\ b.mode = "budget" /\ b.budget \in Nat /\ b.origin \in Nat
      /\ b.length \in Nat /\ b.layer = 0 /\ Within(b) /\ b.frozen = TRUE
  BY <1>1 DEF IInv, BlobSound
<1> HIDE DEF b
<1>3. LiveRows(b) = b.length /\ b.origin <= b.length
  BY <1>2 DEF LiveRows, Within
<1>4. /\ FullPages(b.origin) \in Nat /\ PagesOf(b.length) \in Nat
      /\ FullPages(b.origin) <= PagesOf(b.length)
  <2>1. /\ FullPages(b.origin) \in Nat /\ PagesOf(b.origin) \in Nat /\ PagesOf(b.length) \in Nat
        /\ FullPages(b.origin) <= PagesOf(b.origin)
    BY <1>2, FullPagesIs, PagesOfIs, OneTail
  <2>2. PagesOf(b.origin) <= PagesOf(b.length)
    BY <1>2, <1>3, MorePages
  <2> QED BY <2>1, <2>2
<1>5. share = 0 \/ (share > 0 /\ share = SharedBy(hint, b) /\ share = FullPages(b.origin))
  BY <1>4 DEF SharedBy
<1>6. share \in Nat /\ share <= PagesOf(b.length) /\ PagesOf(b.length) - share \in Nat
  BY <1>4, <1>5
<1> HIDE DEF share
<1>7. /\ Shaped(drawn) /\ drawn.mode = "budget" /\ drawn.budget = b.budget
      /\ drawn.materialized = 0 /\ drawn.reserve = PagesOf(b.length) - share
      /\ Len(drawn.table) = 0 /\ PoolPath(drawn) = 0
  <2>1. Shaped(drawn) /\ Len(drawn.table) = 0 /\ PoolPath(drawn) = 0
    BY <1>2, <1>6, HandleShaped
  <2>2. /\ drawn.mode = "budget" /\ drawn.budget = b.budget
        /\ drawn.materialized = 0 /\ drawn.reserve = PagesOf(b.length) - share
    BY <1>2 DEF Handle
  <2> QED BY <2>1, <2>2
<1> HIDE DEF drawn
<1>8. /\ Shaped(x) /\ PoolPath(x) = share /\ Len(x.table) = share /\ x.mode = "budget"
      /\ x.budget = b.budget /\ x.reserve = PagesOf(b.length) - share
  <2>1. CASE share = 0
    <3>1. x = drawn
      BY <2>1 DEF SharedHead
    <3> HIDE DEF x
    <3> QED BY <1>7, <2>1, <3>1
  <2>2. CASE share # 0
    <3>1. share = SharedBy(hint, b) /\ SharedBy(hint, b) > 0 /\ share = FullPages(b.origin)
      BY <1>5, <2>2
    <3>2. x = SharedHead(drawn, hint, SharedBy(hint, b))
      BY <3>1
    <3> HIDE DEF x
    <3>3. /\ Shaped(x) /\ SameBut(drawn, x, {"table", "shared"})
          /\ PoolPath(x) = FullPages(b.origin) /\ Len(x.table) = FullPages(b.origin)
      BY <1>2, <1>7, <3>1, <3>2, SharedHeadIs
    <3>4. x.mode = drawn.mode /\ x.budget = drawn.budget /\ x.reserve = drawn.reserve
      BY <3>3 DEF SameBut, Fields
    <3> QED BY <1>7, <3>1, <3>3, <3>4
  <2> QED BY <2>1, <2>2
<1> HIDE DEF x
<1>9. Lacks(x, LiveRows(b)) <= x.reserve
  BY <1>3, <1>4, <1>6, <1>8 DEF Lacks, Most
<1>10. PICK z, m : /\ Step(q, z, m) /\ Sound(z) /\ z.frozen = b.frozen /\ z.layer = b.layer
                   /\ z.mode # "none"
  <2>1. {b.origin, b.length, b.layer} \subseteq Nat /\ Within(b)
    BY <1>2
  <2>2. /\ PoolPath(x) <= Len(x.table) /\ x.mode = b.mode /\ x.budget = b.budget
        /\ x.mode # "none" /\ Shaped(x)
    BY <1>2, <1>6, <1>8
  <2>3. b.frozen /\ b.frozen \in BOOLEAN
    BY <1>2, Zenon
  <2> QED BY <1>1, <1>9, <2>1, <2>2, <2>3, RestoredSound
<1>11. KindOf(q, z)
  BY <1>0, <1>2, <1>10 DEF KindOf
<1> QED BY <1>0, <1>1, <1>10, <1>11, StepKeeps

LEMMA SaveKeeps ==
    ASSUME IInv, NEW s \in Seqs, Save(s)
    PROVE  IInv'
<1> DEFINE x == hd[s]
<1>0. s \in Handles
  BY DEF Handles
<1>1. hd' = hd /\ x.mode # "none"
  BY DEF Save, Live
<1>2. /\ blob'.of = "seq" /\ blob'.mode = x.mode /\ blob'.budget = x.budget
      /\ blob'.origin = (IF x.mode = "whole" THEN 0 ELSE x.origin)
      /\ blob'.length = x.length /\ blob'.layer = x.layer /\ blob'.frozen = FALSE
  BY DEF Save
<1>3. /\ Sound(x) /\ x.length \in Nat /\ x.layer \in Nat /\ x.origin \in Nat /\ x.budget \in Nat
      /\ x.origin <= x.length /\ LiveRows(x) <= HolderLimit(x)
      /\ x.mode \in {"none", "whole", "budget"}
  BY <1>0, OfHandle, ShapedIs
<1> HIDE DEF x
<1>4. LiveRows(blob') = LiveRows(x) /\ HolderLimit(blob') = HolderLimit(x)
  BY <1>2 DEF LiveRows, HolderLimit
<1>5. Within(blob')
  BY <1>2, <1>3, <1>4 DEF Within
<1>6. BlobSound'
  <2>1. /\ blob'.of \in {"seq", "prefix"} /\ blob'.mode \in {"whole", "budget"}
        /\ {blob'.budget, blob'.origin, blob'.length, blob'.layer} \subseteq Nat
        /\ blob'.mode = "whole" => blob'.origin = 0
    BY <1>1, <1>2, <1>3
  <2>2. blob'.frozen = (blob'.of = "prefix") /\ blob'.of # "prefix"
    BY <1>2
  <2> QED BY <1>5, <2>1, <2>2, Zenon DEF BlobSound
<1>7. DOMAIN hd' = Handles /\ \A h \in Handles : Sound(hd'[h]) /\ KindOf(h, hd'[h])
  BY <1>1 DEF IInv
<1> QED BY <1>6, <1>7 DEF IInv

LEMMA SavePrefixKeeps ==
    ASSUME IInv, NEW q \in Prefixes, SavePrefix(q)
    PROVE  IInv'
<1> DEFINE x == hd[q]
<1>0. q \in Handles
  BY DEF Handles
<1>1. hd' = hd /\ x.frozen
  BY DEF SavePrefix
<1>2. /\ blob'.of = "prefix" /\ blob'.mode = "budget" /\ blob'.budget = ContextCap
      /\ blob'.origin = x.origin /\ blob'.length = x.length /\ blob'.layer = 0
      /\ blob'.frozen = TRUE
  BY DEF SavePrefix
<1>3. /\ x.length \in Nat /\ x.origin \in Nat /\ x.origin <= x.length
      /\ x.length <= LiveRows(x) /\ LiveRows(x) \in Nat /\ LiveRows(x) <= HolderLimit(x)
      /\ HolderLimit(x) \in Nat /\ HolderLimit(x) <= ContextCap
  BY <1>0, OfHandle
<1> HIDE DEF x
<1>4. Within(blob')
  <2>1. LiveRows(blob') = x.length /\ HolderLimit(blob') = ContextCap
    BY <1>2, <1>3, Sizes DEF LiveRows, HolderLimit, Least
  <2> QED BY <1>2, <1>3, <2>1, Sizes DEF Within
<1>5. BlobSound'
  <2>1. /\ blob'.of \in {"seq", "prefix"} /\ blob'.mode \in {"whole", "budget"}
        /\ {blob'.budget, blob'.origin, blob'.length, blob'.layer} \subseteq Nat
        /\ blob'.mode # "whole"
    BY <1>2, <1>3, Sizes
  <2>2. blob'.frozen = (blob'.of = "prefix")
    BY <1>2
  <2> QED BY <1>2, <1>4, <2>1, <2>2, Zenon DEF BlobSound
<1>6. DOMAIN hd' = Handles /\ \A h \in Handles : Sound(hd'[h]) /\ KindOf(h, hd'[h])
  BY <1>1 DEF IInv
<1> QED BY <1>5, <1>6 DEF IInv

-----------------------------------------------------------------------------
(* The theorems. *)

LEMMA InitKeeps ==
    ASSUME Init
    PROVE  IInv
<1>1. DOMAIN hd = Handles /\ \A h \in Handles : hd[h] = NoHandle
  BY DEF Init
<1>2. NoHandle.frozen = FALSE /\ NoHandle.layer = 0
  BY DEF NoHandle, Handle
<1>3. \A h \in Handles : Sound(hd[h]) /\ KindOf(h, hd[h])
  BY <1>1, <1>2, ClosedSound DEF KindOf
<1>4. BlobSound
  BY DEF Init, NoBlob, BlobSound
<1> QED BY <1>1, <1>3, <1>4 DEF IInv

LEMMA StutterKeeps ==
    ASSUME IInv, UNCHANGED vars
    PROVE  IInv'
BY DEF IInv, BlobSound, vars

\* Every page count of the verbs holds in every state: what is reserved, mapped and
\* taken back adds up for each handle, and for the blob that one is made from.
THEOREM Invariance == Spec => []IInv
<1>1. Init => IInv
  BY InitKeeps
<1>2. IInv /\ [Next]_vars => IInv'
  <2> SUFFICES ASSUME IInv, [Next]_vars PROVE IInv'
    OBVIOUS
  <2>1. ASSUME NEW h \in Handles, NEW m \in Modes, Create(h, m[1], m[2]) PROVE IInv'
    BY <2>1, CreateKeeps
  <2>2. ASSUME NEW h \in Handles, NEW ts \in Feeds(h), Prefill(h, ts) PROVE IInv'
    BY <2>2, PrefillKeeps
  <2>3. ASSUME NEW h \in Handles, NEW n \in 1 .. MaxFeed, PrefillFails(h, n) PROVE IInv'
    BY <2>3, PrefillFailsKeeps
  <2>4. ASSUME NEW h \in Handles, Release(h) PROVE IInv'
    BY <2>4, ReleaseKeeps
  <2>5. ASSUME NEW s \in Seqs, DecodeReady(s, s) PROVE IInv'
    BY <2>5, DecodeReadyKeeps
  <2>6. ASSUME NEW s \in Seqs, NEW n \in 0 .. NumLayers, NEW k \in {s, NoToken}, DecodeLayers(s, n, k)
        PROVE IInv'
    BY <2>6, DecodeLayersKeeps
  <2>7. ASSUME NEW s \in Seqs, NEW draft \in Feeds(s), NEW kept \in 0 .. Len(draft) + 1,
               JumpForward(s, draft, kept)
        PROVE IInv'
    BY <2>7, JumpKeeps
  <2>8. ASSUME NEW s \in Seqs, Reset(s) PROVE IInv'
    BY <2>8, ResetKeeps
  <2>9. ASSUME NEW s \in Seqs, Save(s) PROVE IInv'
    BY <2>9, SaveKeeps
  <2>10. ASSUME NEW s \in Seqs, NEW q \in Prefixes, AdoptPrefix(s, q) PROVE IInv'
    BY <2>10, AdoptKeeps
  <2>11. ASSUME NEW s \in Seqs, NEW hint \in Hints, Restore(s, hint) PROVE IInv'
    BY <2>11, RestoreKeeps
  <2>12. ASSUME NEW q \in Prefixes, Freeze(q) PROVE IInv'
    BY <2>12, FreezeKeeps
  <2>13. ASSUME NEW q \in Prefixes, SavePrefix(q) PROVE IInv'
    BY <2>13, SavePrefixKeeps
  <2>14. ASSUME NEW q \in Prefixes, NEW p \in Prefixes, NEW b \in Budgets, BeginFrom(q, p, b)
         PROVE IInv'
    BY <2>14, BeginFromKeeps
  <2>15. ASSUME NEW q \in Prefixes, NEW hint \in Hints, RestorePrefix(q, hint) PROVE IInv'
    BY <2>15, RestorePrefixKeeps
  <2>16. CASE UNCHANGED vars
    BY <2>16, StutterKeeps
  <2>17. CASE Next
    <3>1. CASE \E h \in Handles :
                  \/ \E m \in Modes : Create(h, m[1], m[2])
                  \/ \E ts \in Feeds(h) : Prefill(h, ts)
                  \/ \E n \in 1 .. MaxFeed : PrefillFails(h, n)
                  \/ Release(h)
      BY <2>1, <2>2, <2>3, <2>4, <3>1
    <3>2. CASE \E s \in Seqs :
                  \/ DecodeReady(s, s)
                  \/ \E n \in 0 .. NumLayers, k \in {s, NoToken} : DecodeLayers(s, n, k)
                  \/ \E draft \in Feeds(s) : \E kept \in 0 .. Len(draft) + 1 : JumpForward(s, draft, kept)
                  \/ Reset(s) \/ Save(s)
                  \/ \E q \in Prefixes : AdoptPrefix(s, q)
                  \/ \E hint \in Hints : Restore(s, hint)
      BY <2>5, <2>6, <2>7, <2>8, <2>9, <2>10, <2>11, <3>2
    <3>3. CASE \E q \in Prefixes :
                  \/ Freeze(q) \/ SavePrefix(q)
                  \/ \E p \in Prefixes, b \in Budgets : BeginFrom(q, p, b)
                  \/ \E hint \in Hints : RestorePrefix(q, hint)
      BY <2>12, <2>13, <2>14, <2>15, <3>3
    <3> QED BY <2>17, <3>1, <3>2, <3>3, Zenon DEF Next
  <2> QED BY <2>16, <2>17
<1> QED BY <1>1, <1>2, PTL DEF Spec

\* A sequence keeps its reservation whole, in its reserve and in the pages it mapped from
\* it, through every share, copy, rollback, reset and restore.
THEOREM ReservationWholeHolds == Spec => []ReservationWhole
<1>1. IInv => ReservationWhole
  <2> SUFFICES ASSUME IInv, NEW h \in Handles, Filling(h), NEW x, x = hd[h]
               PROVE  x.reserve + Private(x) = ReservationPages(x.mode, x.budget)
    BY DEF ReservationWhole
  <2>1. Sound(x) /\ Shaped(x) /\ Whole(x)
    BY DEF IInv, Sound, Filling, Live
  <2>2. /\ Len(x.table) \in Nat /\ x.reserve \in Nat /\ x.shared \in Nat /\ x.materialized \in Nat
        /\ x.budget \in Nat
    BY <2>1, ShapedIs
  <2>3. ReservationPages(x.mode, x.budget) \in Nat /\ PoolPath(x) \in Nat
    BY <2>2, Reservations DEF PoolPath
  <2>4. \A a, b, p, r \in Nat : a + b = p + r => b + (a - p) = r
    OBVIOUS
  <2>5. Len(x.table) + x.reserve = PoolPath(x) + ReservationPages(x.mode, x.budget)
    BY <2>1 DEF Whole
  <2>6. x.reserve + (Len(x.table) - PoolPath(x)) = ReservationPages(x.mode, x.budget)
    BY ONLY <2>2, <2>3, <2>4, <2>5
  <2> QED BY <2>6 DEF Private
<1> QED BY <1>1, Invariance, PTL

\* A text, with the token half read, ends within its holder's limit, and the prefix it
\* began from within the text.
THEOREM WithinLimitHolds == Spec => []WithinLimit
<1>1. IInv => WithinLimit
  BY DEF IInv, WithinLimit, Sound, Within
<1> QED BY <1>1, Invariance, PTL

\* The table and the reserve of a handle that may still be written have a page for every
\* position up to its limit: no verb below the limit can be refused by the pool.
THEOREM ReserveCoversHolds == Spec => []ReserveCovers
<1>1. IInv => ReserveCovers
  <2> SUFFICES ASSUME IInv, NEW h \in Handles, Filling(h), NEW x, x = hd[h]
               PROVE  PagesOf(HolderLimit(x)) <= Len(x.table) + x.reserve
    BY DEF ReserveCovers
  <2> DEFINE R == ReservationPages(x.mode, x.budget)
  <2>1. Sound(x) /\ Shaped(x) /\ Whole(x) /\ HeadKept(x) /\ x.mode # "none"
    BY DEF IInv, Sound, Filling, Live
  <2>2. /\ Len(x.table) \in Nat /\ x.reserve \in Nat /\ x.shared \in Nat /\ x.materialized \in Nat
        /\ x.budget \in Nat /\ x.origin \in Nat /\ x.mode \in {"whole", "budget"}
    BY <2>1, ShapedIs
  <2>3. R \in Nat /\ R <= CapPages /\ PoolPath(x) \in Nat /\ CapPages \in Nat
    BY <2>2, Reservations, Caps DEF PoolPath
  <2>4. HolderLimit(x) \in Nat /\ HolderLimit(x) <= ContextCap
    BY <2>2, Limits
  <2>5. PagesOf(HolderLimit(x)) \in Nat /\ PagesOf(HolderLimit(x)) <= CapPages
    BY <2>4, Caps, PagesOfIs
  <2>6. PagesOf(HolderLimit(x)) <= PoolPath(x) + R
    <3>1. CASE x.mode = "whole"
      <4>1. R = CapPages
        BY <3>1 DEF ReservationPages
      <4> HIDE DEF R
      <4> QED BY <2>3, <2>5, <4>1
    <3>2. CASE x.mode = "budget"
      <4>1. R = Least(PagesOf(x.budget) + 1, CapPages)
        BY <3>2 DEF ReservationPages
      <4>2. HolderLimit(x) <= x.origin + x.budget /\ x.origin + x.budget \in Nat
        BY <2>2, <3>2, Sizes DEF HolderLimit, Least
      <4>3. PagesOf(HolderLimit(x)) <= PagesOf(x.origin + x.budget)
        BY <2>4, <4>2, MorePages
      <4>4. PagesOf(x.origin + x.budget) <= FullPages(x.origin) + PagesOf(x.budget) + 1
        BY <2>2, PagesBehind
      <4>5. /\ FullPages(x.origin) \in Nat /\ PagesOf(x.budget) \in Nat
            /\ PagesOf(x.origin + x.budget) \in Nat
        BY <2>2, <4>2, FullPagesIs, PagesOfIs
      <4>6. Least(FullPages(x.origin) + R, CapPages) <= PoolPath(x) + R
        BY <2>1 DEF HeadKept
      <4> HIDE DEF R
      <4> QED BY <2>3, <2>5, <4>1, <4>3, <4>4, <4>5, <4>6 DEF Least
    <3> QED BY <2>2, <3>1, <3>2
  <2>7. Len(x.table) + x.reserve = PoolPath(x) + R
    BY <2>1 DEF Whole
  <2> QED BY <2>6, <2>7
<1> QED BY <1>1, Invariance, PTL
=============================================================================
