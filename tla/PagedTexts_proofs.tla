------------------------- MODULE PagedTexts_proofs -------------------------
(***************************************************************************)
(* Proofs about what the pages hold, on top of the page counts of          *)
(* PagedKv_proofs: through every sharing, copy, rollback, save, restore    *)
(* and release each handle's rows are the rows of one text, its own, and   *)
(* the residual it would go on from is that text's.                        *)
(*                                                                         *)
(* A page is written by one handle only, the one that mapped it, and only  *)
(* behind what it shares.  So a write, or a copy into pages just mapped,   *)
(* spares the rows of all others, and a text is what its handle's own      *)
(* calls have made it.                                                     *)
(***************************************************************************)
EXTENDS PagedKv_proofs, FiniteSetTheorems, WellFoundedInduction

-----------------------------------------------------------------------------
(* The inductive invariant. *)

\* Each page of a table has the table's place in its name.
Placed(table) == \A k \in 1 .. Len(table) : table[k][2] = k

\* May another table have this holder's k-th page.
SharesAt(x, k) == x.frozen \/ k <= x.shared

\* What two tables have in common both may share.
Apart(h, x) ==
    /\ Placed(x.table)
    /\ \A g \in Handles \ {h} : \A k \in 1 .. Len(x.table) :
          k <= Len(hd[g].table) /\ x.table[k] = hd[g].table[k]
              => SharesAt(x, k) /\ SharesAt(hd[g], k)

\* Shared pages are full of the text.
HeadFull(x) == x.shared * PagePositions <= x.length

PagesApart ==
    /\ \A h \in Handles : Apart(h, hd[h]) /\ HeadFull(hd[h])
    /\ \A h \in Handles : \A k \in 1 .. Len(hd[h].table) : hd[h].table[k] \in DOMAIN mem

\* The row at a position, in a memory that a page may just have come to.
Found(m, x, pos) == At(m, x.table[(pos \div PagePositions) + 1], pos % PagePositions)

\* A handle's rows of use.
LiveIn(m, x) == [pos \in 0 .. LiveRows(x) - 1 |-> Found(m, x, pos)]

\* A token half read: its row so far, and the residual to go on from.
HalfRead(x, rows, t) ==
    /\ x.hidden \in Seq(Handles) /\ Len(x.hidden) = x.length + 1
    /\ SubSeq(x.hidden, 1, x.length) = t
    /\ rows[x.length] = Row(x.hidden, x.layer)

\* These rows, of a handle or of a blob, tell the text t.
TellsRows(rows, t) == \A i \in 0 .. Len(t) - 1 : rows[i] = Row(SubSeq(t, 1, i + 1), NumLayers)
Tells(x, rows, t) ==
    /\ t \in Seq(Handles) /\ Len(t) = x.length
    /\ TellsRows(rows, t)
    /\ x.layer > 0 => HalfRead(x, rows, t)
    /\ x.ready => x.hidden = t /\ t # <<>> /\ x.layer = 0
    /\ x.ready \in BOOLEAN
    /\ x.token \in Handles \cup {NoToken}

\* A prefix keeps the residual of its text for those who go on from it.
Leads(x, t) == x.hidden = t /\ (x.token # NoToken => t # <<>>) /\ x.ready = FALSE

TextIs(h, x, rows, t) == Tells(x, rows, t) /\ (h \in Prefixes => Leads(x, t))

Texts ==
    \A h \in Handles :
        /\ \E t : TextIs(h, hd[h], LiveIn(mem, hd[h]), t)
        /\ ~Live(h) => hd[h] = NoHandle

BlobTold ==
    IF blob.of = "none" THEN blob = NoBlob
    ELSE \E t : Tells(blob, blob.rows, t) /\ (blob.of = "prefix" => Leads(blob, t))

TInv == IInv /\ PagesApart /\ Texts /\ BlobTold

-----------------------------------------------------------------------------
(* New pages. *)

LEMMA LeastOf ==
    ASSUME NEW T, T \subseteq Nat, T # {}
    PROVE  \E n \in T : \A m \in T : n <= m
<1> DEFINE R == OpToRel(<, Nat)
<1>1. IsWellFoundedOn(R, Nat) /\ \A x, y \in Nat : y < x => <<y, x>> \in R
  BY NatLessThanWellFounded DEF OpToRel
<1> HIDE DEF R
<1>2. PICK x \in T : \A y \in T : ~(<<y, x>> \in R)
  BY <1>1, WFMin
<1>3. \A y \in T : ~(y < x)
  BY <1>1, <1>2
<1> QED BY <1>3

\* There is a name left for each place: the other tables have at most one page of it each.
LEMMA NameLeft ==
    ASSUME PagesApart, NEW h \in Handles, NEW k \in Nat,
           \A g \in Handles : Pageful(hd[g].table),
           NEW own, \A p \in own : p[2] # k
    PROVE  \E n \in 1 .. Cardinality(Handles) : <<h, k, n>> \notin Others(h) \cup own
<1> DEFINE C == Cardinality(Handles)
           S == Handles \ {h}
           N == 1 .. C
<1> SUFFICES ASSUME \A n \in N : <<h, k, n>> \in Others(h) \cup own PROVE FALSE
  OBVIOUS
<1>1. /\ IsFiniteSet(Handles) /\ C \in Nat /\ IsFiniteSet(S) /\ Cardinality(S) = C - 1
  BY HandlesAssumption, FS_CardinalityType, FS_RemoveElement
<1>2. IsFiniteSet(N) /\ Cardinality(N) = C
  BY <1>1, FS_Interval
<1>3. \A n \in N : \E g \in S : hd[g].table[k] = <<h, k, n>>
  <2> TAKE n \in N
  <2>1. <<h, k, n>> \in Others(h)
    OBVIOUS
  <2>2. PICK g \in S : <<h, k, n>> \in Range(hd[g].table)
    BY <2>1 DEF Others
  <2>3. PICK j \in DOMAIN hd[g].table : hd[g].table[j] = <<h, k, n>>
    BY <2>2 DEF Range
  <2>4. j \in 1 .. Len(hd[g].table)
    BY DEF Pageful
  <2>5. hd[g].table[j][2] = j
    BY <2>4 DEF PagesApart, Apart, Placed
  <2> QED BY <2>3, <2>5
<1> DEFINE f == [n \in N |-> CHOOSE g \in S : hd[g].table[k] = <<h, k, n>>]
<1>4. \A n \in N : f[n] \in S /\ hd[f[n]].table[k] = <<h, k, n>>
  BY <1>3
<1>5. f \in [N -> S]
  BY <1>4
<1> HIDE DEF f, N, S, C
<1>6. PICK m, n \in N : m # n /\ f[m] = f[n]
  <2>1. Cardinality(S) < Cardinality(N)
    BY <1>1, <1>2
  <2> QED BY <1>1, <1>2, <1>5, <2>1, FS_PigeonHole
<1> QED BY <1>4, <1>6

\* A page just mapped carries its place and is no one's yet.
LEMMA NewPageIs ==
    ASSUME PagesApart, NEW h \in Handles, NEW k \in Nat,
           \A g \in Handles : Pageful(hd[g].table),
           NEW own, \A p \in own : p[2] # k
    PROVE  /\ NewPage(h, k, Others(h) \cup own)[2] = k
           /\ NewPage(h, k, Others(h) \cup own) \notin Others(h) \cup own
<1> DEFINE taken == Others(h) \cup own
           all == {<<h, k, n>> : n \in 1 .. Cardinality(Handles)}
           names == all \ taken
           T == {n \in Nat : <<h, k, n>> \in names}
<1>0. \A p \in names : \E n \in Nat : p = <<h, k, n>> /\ n \in T
  OBVIOUS
<1>1. T \subseteq Nat /\ T # {}
  <2>1. PICK n \in 1 .. Cardinality(Handles) : <<h, k, n>> \notin taken
    BY NameLeft
  <2>2. <<h, k, n>> \in names /\ n \in Nat
    BY <2>1
  <2> HIDE DEF names
  <2> QED BY <2>2
<1> HIDE DEF names
<1>2. PICK n \in T : \A m \in T : n <= m
  <2> HIDE DEF T
  <2> QED BY <1>1, LeastOf
<1>3. <<h, k, n>> \in names /\ \A q \in names : <<h, k, n>>[3] <= q[3]
  <2>1. <<h, k, n>> \in names
    BY <1>2
  <2>2. ASSUME NEW q \in names PROVE <<h, k, n>>[3] <= q[3]
    <3>1. PICK m \in Nat : q = <<h, k, m>> /\ m \in T
      BY <1>0
    <3>2. n <= m /\ q[3] = m /\ <<h, k, n>>[3] = n
      BY <1>2, <3>1
    <3> QED BY <3>2
  <2> QED BY <2>1, <2>2
<1>4. NewPage(h, k, taken) \in names
  <2>1. NewPage(h, k, taken) = CHOOSE p \in names : \A q \in names : p[3] <= q[3]
    BY DEF NewPage, names
  <2> QED BY <1>3, <2>1
<1> QED BY <1>4 DEF names

-----------------------------------------------------------------------------
(* Places and positions. *)

LEMMA PlaceIs ==
    ASSUME NEW pos \in Nat
    PROVE  /\ (pos \div PagePositions) + 1 \in Nat /\ (pos \div PagePositions) + 1 >= 1
           /\ pos % PagePositions \in Slots
           /\ Position((pos \div PagePositions) + 1, pos % PagePositions) = pos
<1>1. /\ pos \div PagePositions \in Nat /\ pos % PagePositions \in Nat
      /\ pos % PagePositions < PagePositions
      /\ (pos \div PagePositions) * PagePositions + (pos % PagePositions) = pos
  BY Sizes
<1> DEFINE d == pos \div PagePositions
           r == pos % PagePositions
<1>2. d + 1 \in Nat /\ d + 1 >= 1 /\ (d + 1) - 1 = d /\ r \in Slots
  <2> HIDE DEF d, r
  <2> QED BY <1>1, Sizes DEF d, r, Slots
<1>3. Position(d + 1, r) = d * PagePositions + r
  <2> HIDE DEF d, r
  <2>1. Position(d + 1, r) = ((d + 1) - 1) * PagePositions + r
    BY Zenon DEF Position
  <2> QED BY <1>2, <2>1
<1> QED BY <1>1, <1>2, <1>3

\* A position is in the first k pages just when they hold more positions than it.
LEMMA PlaceWithin ==
    ASSUME NEW pos \in Nat, NEW k \in Nat
    PROVE  (pos \div PagePositions) + 1 <= k <=> pos < k * PagePositions
<1> DEFINE d == pos \div PagePositions
<1>1. d \in Nat /\ d * PagePositions <= pos /\ pos < d * PagePositions + PagePositions
  BY DivIs
<1> HIDE DEF d
<1>2. k * PagePositions \in Nat /\ (d + 1) * PagePositions = d * PagePositions + PagePositions
      /\ d * PagePositions \in Nat
  BY <1>1, Sizes
<1>3. ASSUME pos < k * PagePositions PROVE d + 1 <= k
  <2>1. (d + 1) * PagePositions < k * PagePositions + PagePositions
    BY <1>1, <1>2, <1>3, Sizes
  <2> QED BY <1>1, <2>1, NoMorePages
<1>4. ASSUME ~(pos < k * PagePositions) PROVE k <= d
  <2>1. k * PagePositions < d * PagePositions + PagePositions
    BY <1>1, <1>2, <1>4, Sizes
  <2> QED BY <1>1, <2>1, NoMorePages
<1>5. d + 1 <= k <=> pos < k * PagePositions
  BY <1>1, <1>3, <1>4
<1> QED BY <1>5 DEF d

\* A table with the pages of n rows has the page of each of them.
LEMMA PlaceCovered ==
    ASSUME NEW pos \in Nat, NEW n \in Nat, pos < n, NEW l \in Nat, PagesOf(n) <= l
    PROVE  (pos \div PagePositions) + 1 \in 1 .. l
<1>1. PagesOf(n) \in Nat /\ n <= PagesOf(n) * PagePositions
  BY PagesOfIs
<1>2. pos < PagesOf(n) * PagePositions
  <2>1. PagesOf(n) * PagePositions \in Nat
    BY <1>1, Sizes
  <2> QED BY <1>1, <2>1
<1>3. (pos \div PagePositions) + 1 <= PagesOf(n)
  BY <1>1, <1>2, PlaceWithin
<1> QED BY <1>1, <1>3, PlaceIs

-----------------------------------------------------------------------------
(* Tables. *)

LEMMA TablesIs ==
    ASSUME IInv, NEW h \in Handles
    PROVE  /\ Pageful(hd[h].table) /\ Len(hd[h].table) \in Nat
           /\ DOMAIN hd[h].table = 1 .. Len(hd[h].table)
<1>1. Shaped(hd[h])
  BY DEF IInv, Sound
<1>2. Pageful(hd[h].table)
  BY <1>1, ShapedIs
<1> QED BY <1>2 DEF Pageful

\* The pages others have are those of their tables.
LEMMA OfOthers ==
    ASSUME IInv, NEW h \in Handles, NEW p
    PROVE  p \in Others(h) <=> \E g \in Handles \ {h} : \E k \in 1 .. Len(hd[g].table) : p = hd[g].table[k]
BY TablesIs DEF Others, Range

\* What two tables joined have at each place.
LEMMA JoinedAt ==
    ASSUME NEW s, NEW t, Pageful(s), Pageful(t)
    PROVE  /\ \A k \in 1 .. Len(s) : (s \o t)[k] = s[k]
           /\ \A k \in Len(s) + 1 .. Len(s) + Len(t) : (s \o t)[k] = t[k - Len(s)]
<1>1. s \in Seq(Range(s) \cup Range(t)) /\ t \in Seq(Range(s) \cup Range(t))
  BY DEF Pageful
<1> QED BY <1>1

\* A table with pages mapped: what it was, and behind it pages that no other table has.
LEMMA MapsTable ==
    ASSUME NEW h, NEW x, Shaped(x), NEW n \in Nat, Lacks(x, n) <= x.reserve
    PROVE  /\ \A k \in 1 .. Len(x.table) : MapPagesFor(h, x, n).table[k] = x.table[k]
           /\ \A k \in Len(x.table) + 1 .. Len(MapPagesFor(h, x, n).table) :
                 MapPagesFor(h, x, n).table[k] = NewPage(h, k, Others(h) \cup Range(x.table))
<1> DEFINE taken == Others(h) \cup Range(x.table)
           new == [i \in 1 .. Lacks(x, n) |-> NewPage(h, Len(x.table) + i, taken)]
           y == MapPagesFor(h, x, n)
<1>0. /\ Len(x.table) \in Nat /\ x.reserve \in Nat /\ PagesOf(n) \in Nat /\ DOMAIN x = Fields
      /\ Pageful(x.table)
  BY ShapedIs, PagesOfIs
<1>1. y.table = x.table \o new
  BY <1>0 DEF MapPagesFor, Fields
<1>2. Lacks(x, n) \in Nat
  BY <1>0 DEF Lacks, Most
<1>3. Pageful(new) /\ Len(new) = Lacks(x, n)
  <2> DEFINE S == {NewPage(h, Len(x.table) + i, taken) : i \in 1 .. Lacks(x, n)}
  <2>1. \A i \in 1 .. Lacks(x, n) : NewPage(h, Len(x.table) + i, taken) \in S
    OBVIOUS
  <2> HIDE DEF S
  <2>2. new \in [1 .. Lacks(x, n) -> S]
    BY <2>1
  <2>3. new \in Seq(S) /\ Len(new) = Lacks(x, n)
    <3> HIDE DEF new
    <3> QED BY <1>2, <2>2
  <2> QED BY <2>3, PagefulIs
<1>4. \A i \in 1 .. Lacks(x, n) : new[i] = NewPage(h, Len(x.table) + i, taken)
  OBVIOUS
<1> HIDE DEF new, y
<1>5. /\ \A k \in 1 .. Len(x.table) : y.table[k] = x.table[k]
      /\ \A k \in Len(x.table) + 1 .. Len(x.table) + Lacks(x, n) : y.table[k] = new[k - Len(x.table)]
      /\ Len(y.table) = Len(x.table) + Lacks(x, n)
  <2> DEFINE t == x.table
  <2>1. Pageful(t) /\ y.table = t \o new
    BY <1>0, <1>1
  <2> HIDE DEF t
  <2>2. /\ \A k \in 1 .. Len(t) : y.table[k] = t[k]
        /\ \A k \in Len(t) + 1 .. Len(t) + Len(new) : y.table[k] = new[k - Len(t)]
        /\ Len(y.table) = Len(t) + Len(new)
    <3>1. Len(t \o new) = Len(t) + Len(new)
      BY <1>3, <2>1, Joined
    <3>2. /\ \A k \in 1 .. Len(t) : (t \o new)[k] = t[k]
          /\ \A k \in Len(t) + 1 .. Len(t) + Len(new) : (t \o new)[k] = new[k - Len(t)]
      BY <1>3, <2>1, JoinedAt
    <3> QED BY <2>1, <3>1, <3>2, Zenon
  <2> QED BY <1>3, <2>2 DEF t
<1>6. ASSUME NEW k \in Len(x.table) + 1 .. Len(y.table) PROVE y.table[k] = NewPage(h, k, taken)
  <2>1. k - Len(x.table) \in 1 .. Lacks(x, n) /\ Len(x.table) + (k - Len(x.table)) = k
    BY <1>0, <1>2, <1>5
  <2>2. y.table[k] = new[k - Len(x.table)]
    BY <1>5
  <2> QED BY <1>4, <2>1, <2>2
<1> QED BY <1>5, <1>6 DEF y

\* Mapping fresh pages keeps a table apart, leaves its head and adds nothing of others.
LEMMA MapsApart ==
    ASSUME IInv, PagesApart, NEW h \in Handles, NEW x, Shaped(x), Apart(h, x),
           NEW n \in Nat, Lacks(x, n) <= x.reserve
    PROVE  /\ Apart(h, MapPagesFor(h, x, n))
           /\ \A k \in 1 .. Len(x.table) : MapPagesFor(h, x, n).table[k] = x.table[k]
           /\ \A k \in Len(x.table) + 1 .. Len(MapPagesFor(h, x, n).table) :
                 MapPagesFor(h, x, n).table[k] \notin Others(h)
<1> SUFFICES ASSUME NEW y, y = MapPagesFor(h, x, n)
             PROVE  /\ Apart(h, y)
                    /\ \A k \in 1 .. Len(x.table) : y.table[k] = x.table[k]
                    /\ \A k \in Len(x.table) + 1 .. Len(y.table) : y.table[k] \notin Others(h)
  OBVIOUS
<1>1. /\ \A k \in 1 .. Len(x.table) : y.table[k] = x.table[k]
      /\ \A k \in Len(x.table) + 1 .. Len(y.table) : y.table[k] = NewPage(h, k, Others(h) \cup Range(x.table))
      /\ Shaped(y) /\ SameBut(x, y, {"table", "reserve"})
  <2>1. /\ \A k \in 1 .. Len(x.table) : MapPagesFor(h, x, n).table[k] = x.table[k]
        /\ \A k \in Len(x.table) + 1 .. Len(MapPagesFor(h, x, n).table) :
              MapPagesFor(h, x, n).table[k] = NewPage(h, k, Others(h) \cup Range(x.table))
    BY MapsTable
  <2>2. Shaped(MapPagesFor(h, x, n)) /\ SameBut(x, MapPagesFor(h, x, n), {"table", "reserve"})
    BY Maps
  <2> QED BY <2>1, <2>2
<1>2. /\ Len(x.table) \in Nat /\ Len(y.table) \in Nat /\ Pageful(x.table)
  BY <1>1, ShapedIs
<1>3. ASSUME NEW k \in Len(x.table) + 1 .. Len(y.table)
      PROVE  y.table[k][2] = k /\ y.table[k] \notin Others(h)
  <2> DEFINE own == Range(x.table)
  <2>1. \A p \in own : p[2] # k
    <3> TAKE p \in own
    <3>1. PICK j \in 1 .. Len(x.table) : p = x.table[j]
      BY <1>2 DEF Range, Pageful
    <3>2. p[2] = j
      BY <3>1 DEF Apart, Placed
    <3> QED BY <1>2, <3>2
  <2>2. k \in Nat /\ \A g \in Handles : Pageful(hd[g].table)
    BY <1>2, TablesIs
  <2> HIDE DEF own
  <2>3. /\ NewPage(h, k, Others(h) \cup own)[2] = k
        /\ NewPage(h, k, Others(h) \cup own) \notin Others(h) \cup own
    BY <2>1, <2>2, NewPageIs
  <2> QED BY <1>1, <2>3 DEF own
<1>4. Placed(y.table)
  <2> SUFFICES ASSUME NEW k \in 1 .. Len(y.table) PROVE y.table[k][2] = k
    BY DEF Placed
  <2>1. CASE k <= Len(x.table)
    <3>1. k \in 1 .. Len(x.table)
      BY <1>2, <2>1
    <3> QED BY <1>1, <3>1 DEF Apart, Placed
  <2>2. CASE ~(k <= Len(x.table))
    <3>1. k \in Len(x.table) + 1 .. Len(y.table)
      BY <1>2, <2>2
    <3> QED BY <1>3, <3>1
  <2> QED BY <2>1, <2>2
<1>5. y.shared = x.shared /\ y.frozen = x.frozen
  BY <1>1 DEF SameBut, Fields
<1>6. ASSUME NEW g \in Handles \ {h}, NEW k \in 1 .. Len(y.table),
             k <= Len(hd[g].table), y.table[k] = hd[g].table[k]
      PROVE  SharesAt(y, k) /\ SharesAt(hd[g], k)
  <2>1. k \in 1 .. Len(hd[g].table)
    BY <1>2, <1>6, TablesIs
  <2>2. y.table[k] \in Others(h)
    BY <1>6, <2>1, OfOthers
  <2>3. k \in 1 .. Len(x.table)
    BY <1>2, <1>3, <2>2
  <2>4. x.table[k] = hd[g].table[k]
    BY <1>1, <1>6, <2>3
  <2>5. SharesAt(x, k) /\ SharesAt(hd[g], k)
    BY <1>6, <2>3, <2>4 DEF Apart
  <2> QED BY <1>5, <2>5 DEF SharesAt
<1> QED BY <1>1, <1>3, <1>4, <1>6 DEF Apart

-----------------------------------------------------------------------------
(* What is found in the memory after a write or a copy. *)

\* The rows a write gives are found at their positions of its own table ...
LEMMA WrittenAt ==
    ASSUME NEW m, NEW table, Pageful(table), Placed(table), NEW rows,
           NEW k \in 1 .. Len(table), NEW i \in Slots,
           NEW p, p = table[k], NEW pos, pos = Position(k, i), pos \in DOMAIN rows
    PROVE  At(Written(m, table, rows), p, i) = rows[pos]
<1> DEFINE at == {l \in DOMAIN table : table[l] = p /\ Position(l, i) \in DOMAIN rows}
           w == Written(m, table, rows)
<1>1. DOMAIN table = 1 .. Len(table)
  BY DEF Pageful
<1>2. p \in DOMAIN w /\ (at # {} => w[p][i] = rows[Position(CHOOSE l \in at : TRUE, i)])
  <2>1. p \in DOMAIN m \cup Range(table)
    BY <1>1 DEF Range
  <2> QED BY <2>1 DEF Written
<1>3. \A l \in at : l = k
  <2>1. \A l \in 1 .. Len(table) : table[l] = p => l = k
    BY DEF Placed
  <2> QED BY <1>1, <2>1
<1>4. At(w, p, i) = w[p][i]
  BY <1>2 DEF At
<1>5. k \in at
  BY <1>1
<1> HIDE DEF at, w
<1>6. at # {} /\ (CHOOSE l \in at : TRUE) = k
  BY <1>3, <1>5
<1> QED BY <1>2, <1>4, <1>6 DEF w

\* ... and what was there anywhere else.
LEMMA WrittenElse ==
    ASSUME NEW m, NEW table, Pageful(table), NEW rows, NEW p, NEW i \in Slots,
           p \in DOMAIN m \cup Range(table),
           \A k \in 1 .. Len(table) : table[k] = p => Position(k, i) \notin DOMAIN rows
    PROVE  At(Written(m, table, rows), p, i) = At(m, p, i)
<1>1. DOMAIN table = 1 .. Len(table)
  BY DEF Pageful
<1>2. {l \in DOMAIN table : table[l] = p /\ Position(l, i) \in DOMAIN rows} = {}
  BY <1>1
<1> QED BY <1>2 DEF Written, At

\* A position that the table covers.
Here(x, pos) == pos \in Nat /\ (pos \div PagePositions) + 1 \in 1 .. Len(x.table)

\* A row written is the row found there,
LEMMA FoundWritten ==
    ASSUME NEW m, NEW x, Pageful(x.table), Placed(x.table), NEW rows,
           NEW pos, Here(x, pos), pos \in DOMAIN rows
    PROVE  Found(Written(m, x.table, rows), x, pos) = rows[pos]
<1> DEFINE k == (pos \div PagePositions) + 1
           i == pos % PagePositions
           t == x.table
           p == t[k]
<1>1. k \in 1 .. Len(t) /\ i \in Slots /\ pos = Position(k, i)
  BY PlaceIs DEF Here
<1>2. Found(Written(m, x.table, rows), x, pos) = At(Written(m, t, rows), p, i)
  BY DEF Found
<1>3. Pageful(t) /\ Placed(t) /\ p = t[k]
  OBVIOUS
<1> HIDE DEF k, i, t, p
<1>4. At(Written(m, t, rows), p, i) = rows[pos]
  BY <1>1, <1>3, WrittenAt
<1> QED BY <1>2, <1>4

\* and a row not written is the one that was there.
LEMMA FoundUnwritten ==
    ASSUME NEW m, NEW x, Pageful(x.table), Placed(x.table), NEW rows,
           NEW pos, Here(x, pos), pos \notin DOMAIN rows
    PROVE  Found(Written(m, x.table, rows), x, pos) = Found(m, x, pos)
<1> DEFINE k == (pos \div PagePositions) + 1
           i == pos % PagePositions
           t == x.table
           p == t[k]
<1>1. k \in 1 .. Len(t) /\ i \in Slots /\ pos = Position(k, i)
  BY PlaceIs DEF Here
<1>2. Found(Written(m, x.table, rows), x, pos) = At(Written(m, t, rows), p, i)
      /\ Found(m, x, pos) = At(m, p, i)
  BY DEF Found
<1>3. Pageful(t) /\ p \in DOMAIN m \cup Range(t)
  BY <1>1 DEF Range, Pageful
<1>4. \A l \in 1 .. Len(t) : t[l] = p => Position(l, i) \notin DOMAIN rows
  BY <1>1 DEF Placed
<1> HIDE DEF k, i, t, p
<1>5. At(Written(m, t, rows), p, i) = At(m, p, i)
  BY <1>1, <1>3, <1>4, WrittenElse
<1> QED BY <1>2, <1>5

\* What others find in a memory is what they found before.
Spares(h, m) ==
    \A g \in Handles \ {h} : \A pos \in 0 .. LiveRows(hd[g]) - 1 :
        Found(m, hd[g], pos) = Found(mem, hd[g], pos)

\* A memory that stays as it is spares all rows.
LEMMA SparesItself ==
    ASSUME NEW h
    PROVE  Spares(h, mem)
BY DEF Spares

\* Where a handle finds its rows.
LEMMA LiveAt ==
    ASSUME NEW x, Sound(x), NEW pos \in 0 .. LiveRows(x) - 1
    PROVE  /\ pos \in Nat /\ Pageful(x.table) /\ Len(x.table) \in Nat
           /\ (pos \div PagePositions) + 1 \in 1 .. Len(x.table) /\ pos % PagePositions \in Slots
           /\ Position((pos \div PagePositions) + 1, pos % PagePositions) = pos
<1>1. /\ LiveRows(x) \in Nat /\ Pageful(x.table) /\ Len(x.table) \in Nat
      /\ PagesOf(LiveRows(x)) <= Len(x.table)
  BY ShapedIs DEF Sound, Covers
<1>2. pos \in Nat /\ pos < LiveRows(x)
  BY <1>1
<1> QED BY <1>1, <1>2, PlaceCovered, PlaceIs

\* A write behind what its holder shares spares all others.
LEMMA SparesWritten ==
    ASSUME IInv, PagesApart, NEW h \in Handles, NEW x, Shaped(x), Apart(h, x), x.frozen = FALSE,
           NEW rows, \A pos \in DOMAIN rows : pos \in Nat /\ x.shared * PagePositions <= pos
    PROVE  Spares(h, Written(mem, x.table, rows))
<1> SUFFICES ASSUME NEW g \in Handles \ {h}, NEW pos \in 0 .. LiveRows(hd[g]) - 1
             PROVE  Found(Written(mem, x.table, rows), hd[g], pos) = Found(mem, hd[g], pos)
  BY DEF Spares
<1> DEFINE k == (pos \div PagePositions) + 1
           i == pos % PagePositions
           p == hd[g].table[k]
<1>1. /\ pos \in Nat /\ k \in 1 .. Len(hd[g].table) /\ i \in Slots /\ Position(k, i) = pos
  BY LiveAt DEF IInv
<1>2. p \in DOMAIN mem /\ p[2] = k
  BY <1>1 DEF PagesApart, Apart, Placed
<1>3. Pageful(x.table) /\ x.shared \in Nat /\ Len(hd[g].table) \in Nat
  BY ShapedIs, TablesIs
<1>4. ASSUME NEW l \in 1 .. Len(x.table), x.table[l] = p, Position(l, i) \in DOMAIN rows
      PROVE  FALSE
  <2>1. l = k
    BY <1>2, <1>4 DEF Apart, Placed
  <2>2. SharesAt(x, k)
    <3>1. k <= Len(hd[g].table)
      BY <1>1, <1>3
    <3>2. x.table[k] = hd[g].table[k] /\ k \in 1 .. Len(x.table)
      BY <1>4, <2>1
    <3> HIDE DEF k
    <3> QED BY <3>1, <3>2 DEF Apart
  <2>3. k <= x.shared
    BY <2>2 DEF SharesAt
  <2>4. pos < x.shared * PagePositions
    BY <1>1, <1>3, <2>3, PlaceWithin
  <2>5. pos \in DOMAIN rows
    BY <1>1, <1>4, <2>1
  <2>6. x.shared * PagePositions <= pos /\ x.shared * PagePositions \in Nat
    BY <1>3, <2>5, Sizes
  <2> QED BY <1>1, <2>4, <2>6
<1>5. At(Written(mem, x.table, rows), p, i) = At(mem, p, i)
  <2> HIDE DEF p, i
  <2> QED BY <1>1, <1>2, <1>3, <1>4, WrittenElse
<1> QED BY <1>5 DEF Found

\* So does a copy into pages that no other table has.
LEMMA SparesCopied ==
    ASSUME IInv, PagesApart, NEW h \in Handles,
           NEW to, NEW from, \A i \in DOMAIN to : to[i] \notin Others(h)
    PROVE  Spares(h, Copied(mem, to, from))
<1> SUFFICES ASSUME NEW g \in Handles \ {h}, NEW pos \in 0 .. LiveRows(hd[g]) - 1
             PROVE  Found(Copied(mem, to, from), hd[g], pos) = Found(mem, hd[g], pos)
  BY DEF Spares
<1> DEFINE k == (pos \div PagePositions) + 1
           p == hd[g].table[k]
<1>1. k \in 1 .. Len(hd[g].table)
  BY LiveAt DEF IInv
<1>2. p \in DOMAIN mem
  BY <1>1 DEF PagesApart
<1>3. p \in Others(h)
  BY <1>1, OfOthers
<1>4. {i \in DOMAIN to : to[i] = p} = {}
  BY <1>3
<1> HIDE DEF p
<1>5. p \in DOMAIN Copied(mem, to, from) /\ Copied(mem, to, from)[p] = mem[p]
  BY <1>2, <1>4 DEF Copied
<1> QED BY <1>2, <1>5 DEF Found, At, p

\* A page copied whole.
LEMMA CopiedIs ==
    ASSUME NEW m, NEW to, NEW from, NEW i \in DOMAIN to, \A j \in DOMAIN to : to[j] = to[i] => j = i
    PROVE  to[i] \in DOMAIN Copied(m, to, from) /\ Copied(m, to, from)[to[i]] = m[from[i]]
<1> DEFINE p == to[i]
           at == {j \in DOMAIN to : to[j] = p}
<1>1. at = {i}
  OBVIOUS
<1>2. p \in DOMAIN m \cup Range(to)
  BY DEF Range
<1>3. at # {} /\ (CHOOSE j \in at : TRUE) = i
  BY <1>1
<1>4. p \in DOMAIN Copied(m, to, from)
      /\ Copied(m, to, from)[p] = IF at # {} THEN m[from[CHOOSE j \in at : TRUE]] ELSE m[p]
  BY <1>2 DEF Copied
<1> HIDE DEF p, at
<1> QED BY <1>3, <1>4 DEF p

-----------------------------------------------------------------------------
(* Texts. *)

LEMMA HeadOf ==
    ASSUME NEW S, NEW t \in Seq(S), NEW n \in 0 .. Len(t)
    PROVE  SubSeq(t, 1, n) \in Seq(S) /\ Len(SubSeq(t, 1, n)) = n
           /\ \A i \in 1 .. n : SubSeq(t, 1, n)[i] = t[i]
OBVIOUS

\* Sequences that agree in length and at every place are one.
LEMMA SameSeq ==
    ASSUME NEW S, NEW s \in Seq(S), NEW t \in Seq(S), Len(s) = Len(t),
           \A i \in 1 .. Len(s) : s[i] = t[i]
    PROVE  s = t
OBVIOUS

\* The head of a text's own length is the text.
LEMMA WholeHead ==
    ASSUME NEW S, NEW t \in Seq(S)
    PROVE  SubSeq(t, 1, Len(t)) = t
<1>1. /\ SubSeq(t, 1, Len(t)) \in Seq(S) /\ Len(SubSeq(t, 1, Len(t))) = Len(t)
      /\ \A i \in 1 .. Len(t) : SubSeq(t, 1, Len(t))[i] = t[i]
  BY HeadOf
<1> DEFINE s == SubSeq(t, 1, Len(t))
<1> HIDE DEF s
<1>2. s = t
  BY <1>1, SameSeq DEF s
<1> QED BY <1>2 DEF s

\* Rows that tell a text have it as their history.
LEMMA HistoryIs ==
    ASSUME NEW m, NEW x, NEW t \in Seq(Handles),
           \A i \in 0 .. Len(t) - 1 : RowAt(m, x, i) = Row(SubSeq(t, 1, i + 1), NumLayers)
    PROVE  History(m, x, Len(t)) = t
<1>1. CASE Len(t) = 0
  BY <1>1 DEF History
<1>2. CASE Len(t) # 0
  <2> DEFINE n == Len(t)
  <2>1. n \in Nat /\ n - 1 \in 0 .. n - 1 /\ (n - 1) + 1 = n /\ n # 0
    BY <1>2
  <2>2. RowAt(m, x, n - 1) = Row(SubSeq(t, 1, (n - 1) + 1), NumLayers)
    BY <2>1
  <2>3. SubSeq(t, 1, (n - 1) + 1) = t
    BY <2>1, WholeHead
  <2>4. RowAt(m, x, n - 1).text = t
    BY <2>2, <2>3 DEF Row
  <2>5. Len(t) = n /\ \A i \in 0 .. n - 1 : RowAt(m, x, i) = Row(SubSeq(t, 1, i + 1), NumLayers)
    OBVIOUS
  <2> HIDE DEF n
  <2> QED BY <2>1, <2>4, <2>5 DEF History, n
<1> QED BY <1>1, <1>2

\* Where the pages of a table are in the memory, a row is what is found.
InMemory(m, x) == \A k \in 1 .. Len(x.table) : x.table[k] \in DOMAIN m

\* Reading a mapped position is finding its row.
LEMMA RowsFound ==
    ASSUME NEW m, NEW x, InMemory(m, x), NEW pos, (pos \div PagePositions) + 1 \in 1 .. Len(x.table)
    PROVE  RowAt(m, x, pos) = Found(m, x, pos)
<1> DEFINE k == (pos \div PagePositions) + 1
<1>1. k \in 1 .. Len(x.table)
  OBVIOUS
<1>2. x.table[k] \in DOMAIN m
  <2> HIDE DEF k
  <2> QED BY <1>1 DEF InMemory
<1> QED BY <1>2 DEF RowAt, Found, At

\* A live row is the one found at its position.
LEMMA LiveInAt ==
    ASSUME NEW m, NEW x, NEW pos \in 0 .. LiveRows(x) - 1
    PROVE  LiveIn(m, x)[pos] = Found(m, x, pos)
BY DEF LiveIn

\* The history of a handle whose rows tell a text is that text.
LEMMA PastIs ==
    ASSUME NEW m, NEW x, Sound(x), InMemory(m, x), NEW t, Tells(x, LiveIn(m, x), t)
    PROVE  History(m, x, x.length) = t
<1>1. t \in Seq(Handles) /\ Len(t) = x.length /\ x.length \in Nat /\ LiveRows(x) \in Nat
      /\ x.length <= LiveRows(x)
  BY ShapedIs DEF Sound, Tells
<1>2. ASSUME NEW i \in 0 .. Len(t) - 1 PROVE RowAt(m, x, i) = Row(SubSeq(t, 1, i + 1), NumLayers)
  <2>1. i \in 0 .. LiveRows(x) - 1
    BY <1>1
  <2>2. (i \div PagePositions) + 1 \in 1 .. Len(x.table)
    BY <2>1, LiveAt
  <2>3. RowAt(m, x, i) = LiveIn(m, x)[i]
    BY <2>1, <2>2, RowsFound, LiveInAt
  <2> QED BY <2>3 DEF Tells, TellsRows
<1> QED BY <1>1, <1>2, HistoryIs

\* So the text of a handle is the one its rows tell.
LEMMA TextOfIs ==
    ASSUME TInv, NEW h \in Handles, NEW t, TextIs(h, hd[h], LiveIn(mem, hd[h]), t)
    PROVE  TextOf(hd[h], mem) = t
<1>1. Sound(hd[h]) /\ InMemory(mem, hd[h])
  BY DEF TInv, IInv, PagesApart, InMemory
<1> QED BY <1>1, PastIs DEF TextIs, TextOf

-----------------------------------------------------------------------------
(* One step of one handle. *)

\* After a step everybody finds in its rows what the step left there for it.
LEMMA StepFound ==
    ASSUME IInv, IInv', PagesApart, NEW h \in Handles, NEW x, NEW m, Step(h, x, m), Spares(h, m)
    PROVE  /\ hd'[h] = x /\ \A g \in Handles \ {h} : hd'[g] = hd[g]
           /\ \A g \in Handles : InMemory(mem', hd'[g])
           /\ LiveIn(mem', x) = LiveIn(m, x)
           /\ \A g \in Handles \ {h} : LiveIn(mem', hd[g]) = LiveIn(mem, hd[g])
<1>1. hd'[h] = x /\ \A g \in Handles \ {h} : hd'[g] = hd[g]
  BY DEF IInv, Step
<1>2. mem' = [p \in Others(h) \cup Range(x.table) |->
                  [i \in Slots |-> IF InUse(hd', p, i) THEN At(m, p, i) ELSE Junk]]
  BY DEF Step
<1>3. \A g \in Handles : Sound(hd'[g])
  BY DEF IInv
<1>4. ASSUME NEW g \in Handles, NEW k \in 1 .. Len(hd'[g].table)
      PROVE  hd'[g].table[k] \in DOMAIN mem'
  <2>1. CASE g = h
    <3>1. Pageful(x.table) /\ k \in 1 .. Len(x.table)
      BY <1>1, <1>3, <1>4, <2>1, ShapedIs DEF Sound
    <3>2. x.table[k] \in Range(x.table)
      BY <3>1 DEF Range, Pageful
    <3> QED BY <1>1, <1>2, <2>1, <3>2
  <2>2. CASE g # h
    <3>1. hd'[g].table[k] \in Others(h)
      BY <1>1, <1>4, <2>2, OfOthers
    <3> QED BY <1>2, <3>1
  <2> QED BY <2>1, <2>2
<1>5. ASSUME NEW g \in Handles, NEW pos \in 0 .. LiveRows(hd'[g]) - 1
      PROVE  Found(mem', hd'[g], pos) = Found(m, hd'[g], pos)
  <2> DEFINE k == (pos \div PagePositions) + 1
             i == pos % PagePositions
             p == hd'[g].table[k]
  <2>1. pos \in Nat /\ k \in 1 .. Len(hd'[g].table) /\ i \in Slots /\ Position(k, i) = pos
        /\ Pageful(hd'[g].table) /\ LiveRows(hd'[g]) \in Nat
    BY <1>3, LiveAt, ShapedIs DEF Sound
  <2>2. p \in DOMAIN mem'
    BY <1>4, <2>1
  <2>3. InUse(hd', p, i)
    <3>1. k \in DOMAIN hd'[g].table
      BY <2>1 DEF Pageful
    <3>2. Position(k, i) < LiveRows(hd'[g])
      BY <2>1
    <3> HIDE DEF k, i
    <3> QED BY <3>1, <3>2 DEF InUse
  <2> HIDE DEF k, i, p
  <2>4. mem'[p][i] = At(m, p, i)
    BY <1>2, <2>1, <2>2, <2>3
  <2>5. At(mem', p, i) = At(m, p, i)
    BY <2>2, <2>4 DEF At
  <2> QED BY <2>5 DEF Found, k, i, p
<1>6. LiveIn(mem', x) = LiveIn(m, x)
  BY <1>1, <1>5 DEF LiveIn
<1>7. ASSUME NEW g \in Handles \ {h} PROVE LiveIn(mem', hd[g]) = LiveIn(mem, hd[g])
  <2>1. \A pos \in 0 .. LiveRows(hd[g]) - 1 : Found(mem', hd[g], pos) = Found(m, hd[g], pos)
    BY <1>1, <1>5
  <2>2. \A pos \in 0 .. LiveRows(hd[g]) - 1 : Found(m, hd[g], pos) = Found(mem, hd[g], pos)
    BY DEF Spares
  <2> QED BY <2>1, <2>2 DEF LiveIn
<1> QED BY <1>1, <1>4, <1>6, <1>7 DEF InMemory

\* What a handle is seen to be.
See(h) == ViewOf(hd[h], TextOf(hd[h], mem))
Views == [h \in Handles |-> See(h)]

\* What is seen of a handle is the view of its text.
LEMMA SeeIs ==
    ASSUME TInv, NEW h \in Handles, NEW t, TextIs(h, hd[h], LiveIn(mem, hd[h]), t)
    PROVE  See(h) = ViewOf(hd[h], t) /\ Views[h] = ViewOf(hd[h], t)
BY TextOfIs DEF See, Views

\* A handle that becomes x over a memory that spares the others, with rows that tell t:
\* t is its text then, and all other texts are what they were.
LEMMA StepTexts ==
    ASSUME TInv, IInv', NEW h \in Handles, NEW x, NEW m, Step(h, x, m), blob' = blob,
           Spares(h, m), Apart(h, x), HeadFull(x), NEW t, TextIs(h, x, LiveIn(m, x), t),
           x.mode = "none" => x = NoHandle
    PROVE  TInv' /\ Views' = [Views EXCEPT ![h] = ViewOf(x, t)]
<1>0. IInv /\ PagesApart /\ Texts /\ BlobTold
  BY DEF TInv
<1>1. /\ hd'[h] = x /\ \A g \in Handles \ {h} : hd'[g] = hd[g]
      /\ \A g \in Handles : InMemory(mem', hd'[g])
      /\ LiveIn(mem', x) = LiveIn(m, x)
      /\ \A g \in Handles \ {h} : LiveIn(mem', hd[g]) = LiveIn(mem, hd[g])
  BY <1>0, StepFound
<1>2. PagesApart'
  <2>1. \A g \in Handles : \A k \in 1 .. Len(hd'[g].table) : hd'[g].table[k] \in DOMAIN mem'
    BY <1>1 DEF InMemory
  <2>2. \A g \in Handles : HeadFull(hd'[g])
    BY <1>0, <1>1 DEF PagesApart
  <2>3. \A g \in Handles : Placed(hd'[g].table)
    BY <1>0, <1>1 DEF PagesApart, Apart
  <2>4. ASSUME NEW f \in Handles, NEW g \in Handles \ {f}, NEW k \in 1 .. Len(hd'[f].table),
               k <= Len(hd'[g].table), hd'[f].table[k] = hd'[g].table[k]
        PROVE  SharesAt(hd'[f], k) /\ SharesAt(hd'[g], k)
    <3>1. CASE f = h
      <4>1. hd'[f] = x /\ hd'[g] = hd[g] /\ g \in Handles \ {h}
        BY <1>1, <3>1
      <4> QED BY <2>4, <4>1 DEF Apart
    <3>2. CASE g = h
      <4>1. hd'[g] = x /\ hd'[f] = hd[f] /\ f \in Handles \ {h}
        BY <1>1, <3>2
      <4>2. Len(x.table) \in Nat
        BY <4>1, ShapedIs DEF IInv, Sound
      <4>3. k \in 1 .. Len(x.table) /\ k <= Len(hd[f].table)
        BY <2>4, <4>1, <4>2, <1>0, TablesIs
      <4>4. x.table[k] = hd[f].table[k]
        BY <2>4, <4>1
      <4> QED BY <4>1, <4>3, <4>4 DEF Apart
    <3>3. CASE f # h /\ g # h
      <4>1. hd'[f] = hd[f] /\ hd'[g] = hd[g]
        BY <1>1, <3>3
      <4> QED BY <1>0, <2>4, <4>1 DEF PagesApart, Apart
    <3> QED BY <3>1, <3>2, <3>3
  <2>5. \A f \in Handles : Apart(f, hd[f])'
    BY <2>3, <2>4 DEF Apart
  <2> QED BY <2>1, <2>2, <2>5 DEF PagesApart
<1>3. \A g \in Handles \ {h} : \E s : /\ TextIs(g, hd[g], LiveIn(mem, hd[g]), s)
                                      /\ TextIs(g, hd'[g], LiveIn(mem', hd'[g]), s)
  <2> TAKE g \in Handles \ {h}
  <2>1. PICK s : TextIs(g, hd[g], LiveIn(mem, hd[g]), s)
    BY <1>0 DEF Texts
  <2>2. hd'[g] = hd[g] /\ LiveIn(mem', hd'[g]) = LiveIn(mem, hd[g])
    BY <1>1
  <2> QED BY <2>1, <2>2
<1>4. TextIs(h, hd'[h], LiveIn(mem', hd'[h]), t)
  <2>1. hd'[h] = x /\ LiveIn(mem', hd'[h]) = LiveIn(m, x)
    BY <1>1
  <2> QED BY <2>1
<1>5. Texts'
  <2>1. ASSUME NEW g \in Handles
        PROVE  (\E s : TextIs(g, hd[g], LiveIn(mem, hd[g]), s))' /\ (hd'[g].mode = "none" => hd'[g] = NoHandle)
    <3>1. CASE g = h
      BY <1>1, <1>4, <3>1
    <3>2. CASE g # h
      <4>1. hd[g].mode = "none" => hd[g] = NoHandle
        BY <1>0 DEF Texts, Live
      <4> QED BY <1>1, <1>3, <3>2, <4>1
    <3> QED BY <3>1, <3>2
  <2> QED BY <2>1 DEF Texts, Live
<1>6. BlobTold'
  BY <1>0 DEF BlobTold
<1>7. TInv'
  BY <1>2, <1>5, <1>6 DEF TInv
<1>8. \A g \in Handles : \A s : TextIs(g, hd'[g], LiveIn(mem', hd'[g]), s) => TextOf(hd'[g], mem') = s
  <2> SUFFICES ASSUME NEW g \in Handles, NEW s, TextIs(g, hd'[g], LiveIn(mem', hd'[g]), s)
               PROVE  TextOf(hd'[g], mem') = s
    OBVIOUS
  <2>1. Sound(hd'[g]) /\ InMemory(mem', hd'[g])
    BY <1>1 DEF IInv
  <2> QED BY <2>1, PastIs DEF TextIs, TextOf
<1>9. See(h)' = ViewOf(x, t)
  <2>1. TextOf(hd'[h], mem') = t
    BY <1>4, <1>8
  <2> QED BY <1>1, <2>1 DEF See
<1>10. ASSUME NEW g \in Handles \ {h} PROVE See(g)' = See(g)
  <2>1. PICK s : /\ TextIs(g, hd[g], LiveIn(mem, hd[g]), s)
                 /\ TextIs(g, hd'[g], LiveIn(mem', hd'[g]), s)
    BY <1>3
  <2>2. TextOf(hd[g], mem) = s
    BY <2>1, TextOfIs
  <2>3. TextOf(hd'[g], mem') = s
    BY <1>8, <2>1
  <2> QED BY <1>1, <2>2, <2>3 DEF See
<1>11. Views' = [Views EXCEPT ![h] = ViewOf(x, t)]
  <2> HIDE DEF See
  <2>1. Views' = [g \in Handles |-> See(g)']
    BY DEF Views
  <2> QED BY <1>9, <1>10, <2>1 DEF Views
<1> QED BY <1>7, <1>11

\* The abstract step that changes one view.
LEMMA BecomesIs ==
    ASSUME NEW h \in Handles, NEW v, Views' = [Views EXCEPT ![h] = v], blob' = blob
    PROVE  Gen!Becomes(h, v)
<1>1. Views'[h] = v
  BY DEF Views
<1>2. BlobView(blob') = BlobView(blob)
  OBVIOUS
<1> QED BY <1>1, <1>2 DEF Gen!Becomes, Views, See

\* A step that leaves the view of its handle stutters.
LEMMA StaysIs ==
    ASSUME TInv, NEW h \in Handles, NEW t, TextIs(h, hd[h], LiveIn(mem, hd[h]), t),
           Views' = [Views EXCEPT ![h] = ViewOf(hd[h], t)], blob' = blob
    PROVE  UNCHANGED Gen!generationVars
<1>1. Views[h] = ViewOf(hd[h], t)
  BY SeeIs
<1>2. Views' = Views
  BY <1>1 DEF Views
<1>3. BlobView(blob') = BlobView(blob)
  OBVIOUS
<1> QED BY <1>2, <1>3 DEF Gen!generationVars, Views, See

-----------------------------------------------------------------------------
(* A text that grows. *)

LEMMA JoinedSeq ==
    ASSUME NEW S, NEW s \in Seq(S), NEW t \in Seq(S)
    PROVE  /\ s \o t \in Seq(S) /\ Len(s \o t) = Len(s) + Len(t)
           /\ \A i \in 1 .. Len(s) : (s \o t)[i] = s[i]
           /\ \A i \in 1 .. Len(t) : (s \o t)[Len(s) + i] = t[i]
OBVIOUS

\* A head of a head is a head.
LEMMA HeadOfHead ==
    ASSUME NEW S, NEW t \in Seq(S), NEW m \in 0 .. Len(t), NEW n \in 0 .. m
    PROVE  SubSeq(SubSeq(t, 1, m), 1, n) = SubSeq(t, 1, n)
<1> DEFINE u == SubSeq(t, 1, m)
           a == SubSeq(u, 1, n)
           b == SubSeq(t, 1, n)
<1>1. u \in Seq(S) /\ Len(u) = m /\ \A i \in 1 .. m : u[i] = t[i]
  BY HeadOf
<1>2. n \in 0 .. Len(t) /\ n \in 0 .. Len(u)
  BY <1>1
<1>3. b \in Seq(S) /\ Len(b) = n /\ \A i \in 1 .. n : b[i] = t[i]
  BY <1>2, HeadOf
<1> HIDE DEF u, b
<1>4. a \in Seq(S) /\ Len(a) = n /\ \A i \in 1 .. n : a[i] = u[i]
  BY <1>1, <1>2, HeadOf
<1> HIDE DEF a
<1>5. \A i \in 1 .. n : a[i] = b[i]
  BY <1>1, <1>3, <1>4
<1>6. a = b
  BY <1>3, <1>4, <1>5, SameSeq
<1> QED BY <1>6 DEF a, b, u

\* A head of two texts joined, within the first,
LEMMA JoinedHead ==
    ASSUME NEW S, NEW s \in Seq(S), NEW t \in Seq(S), NEW n \in 0 .. Len(s)
    PROVE  SubSeq(s \o t, 1, n) = SubSeq(s, 1, n)
<1> DEFINE u == s \o t
           a == SubSeq(u, 1, n)
           b == SubSeq(s, 1, n)
<1>1. u \in Seq(S) /\ Len(u) = Len(s) + Len(t) /\ \A i \in 1 .. Len(s) : u[i] = s[i]
  BY JoinedSeq
<1>2. b \in Seq(S) /\ Len(b) = n /\ \A i \in 1 .. n : b[i] = s[i]
  BY HeadOf
<1> HIDE DEF u, b
<1>3. n \in 0 .. Len(u)
  BY <1>1
<1>4. a \in Seq(S) /\ Len(a) = n /\ \A i \in 1 .. n : a[i] = u[i]
  BY <1>1, <1>3, HeadOf
<1> HIDE DEF a
<1>5. \A i \in 1 .. n : a[i] = b[i]
  <2> TAKE i \in 1 .. n
  <2>1. i \in 1 .. Len(s)
    OBVIOUS
  <2>2. u[i] = s[i]
    BY <1>1, <2>1
  <2> QED BY <1>2, <1>4, <2>2
<1>6. a = b
  BY <1>2, <1>4, <1>5, SameSeq
<1> QED BY <1>6 DEF a, b, u

\* and one that ends in the second.
LEMMA JoinedMore ==
    ASSUME NEW S, NEW s \in Seq(S), NEW t \in Seq(S), NEW n \in 0 .. Len(t)
    PROVE  SubSeq(s \o t, 1, Len(s) + n) = s \o SubSeq(t, 1, n)
<1> DEFINE u == s \o t
           m == Len(s)
           c == SubSeq(t, 1, n)
           a == SubSeq(u, 1, m + n)
           b == s \o c
<1>1. /\ u \in Seq(S) /\ Len(u) = m + Len(t) /\ \A i \in 1 .. m : u[i] = s[i]
      /\ \A i \in 1 .. Len(t) : u[m + i] = t[i]
  BY JoinedSeq
<1>2. c \in Seq(S) /\ Len(c) = n /\ \A i \in 1 .. n : c[i] = t[i]
  BY HeadOf
<1> HIDE DEF u, c
<1>3. /\ b \in Seq(S) /\ Len(b) = m + Len(c) /\ \A i \in 1 .. m : b[i] = s[i]
      /\ \A i \in 1 .. Len(c) : b[m + i] = c[i]
  <2>1. /\ s \o c \in Seq(S) /\ Len(s \o c) = Len(s) + Len(c)
        /\ \A i \in 1 .. Len(s) : (s \o c)[i] = s[i]
        /\ \A i \in 1 .. Len(c) : (s \o c)[Len(s) + i] = c[i]
    <3>1. c \in Seq(S)
      BY <1>2
    <3> QED BY <3>1, JoinedSeq
  <2> QED BY <2>1
<1>0. m \in Nat /\ Len(t) \in Nat /\ n \in Nat
  OBVIOUS
<1> HIDE DEF m, b
<1>4. m + n \in 0 .. Len(u)
  BY <1>0, <1>1
<1>5. a \in Seq(S) /\ Len(a) = m + n /\ \A i \in 1 .. m + n : a[i] = u[i]
  BY <1>1, <1>4, HeadOf
<1> HIDE DEF a
<1>6. ASSUME NEW i \in 1 .. m + n PROVE a[i] = b[i]
  <2>1. CASE i <= m
    BY <1>0, <1>1, <1>3, <1>5, <2>1
  <2>2. CASE ~(i <= m)
    <3>1. i - m \in 1 .. n /\ i - m \in 1 .. Len(t) /\ m + (i - m) = i
      BY <1>0, <2>2
    <3>2. u[i] = t[i - m] /\ b[i] = c[i - m] /\ c[i - m] = t[i - m]
      BY <1>1, <1>2, <1>3, <3>1
    <3> QED BY <1>5, <3>2
  <2> QED BY <2>1, <2>2
<1>7. a = b
  BY <1>2, <1>3, <1>5, <1>6, SameSeq
<1> QED BY <1>7 DEF a, b, c, u, m

\* A text of tokens is not a torn row, so it grows by what is read.
LEMMA NotGarbage ==
    ASSUME NEW t \in Seq(Handles)
    PROVE  t # Garbage /\ \A ts : Grown(t, ts) = t \o ts
<1>1. t # Garbage
  <2>1. Garbage[1] = NoToken /\ Len(Garbage) = 1
    BY DEF Garbage
  <2>2. Len(t) = 1 => t[1] \in Handles
    OBVIOUS
  <2> QED BY <2>1, <2>2, SizesAssumption
<1> QED BY <1>1 DEF Grown

\* Rows that tell a text, and behind it those of tokens read, tell the two together.
LEMMA GrownTells ==
    ASSUME NEW t \in Seq(Handles), NEW ts \in Seq(Handles), NEW k \in 0 .. Len(ts), NEW r,
           TellsRows(r, t),
           \A i \in Len(t) .. Len(t) + k - 1 : r[i] = RowsOf(t, Len(t), ts)[i]
    PROVE  TellsRows(r, t \o SubSeq(ts, 1, k))
<1> DEFINE n == Len(t)
           c == SubSeq(ts, 1, k)
           u == t \o c
<1>0. n \in Nat /\ k \in Nat /\ Len(ts) \in Nat /\ k <= Len(ts)
  OBVIOUS
<1>1. c \in Seq(Handles) /\ Len(c) = k
  BY HeadOf
<1>2. u \in Seq(Handles) /\ Len(u) = n + k
  BY <1>1, JoinedSeq
<1> SUFFICES ASSUME NEW i \in 0 .. n + k - 1 PROVE r[i] = Row(SubSeq(u, 1, i + 1), NumLayers)
  <2>1. TellsRows(r, u) <=> \A i \in 0 .. Len(u) - 1 : r[i] = Row(SubSeq(u, 1, i + 1), NumLayers)
    BY DEF TellsRows
  <2>2. Len(u) - 1 = n + k - 1
    BY <1>2
  <2>3. TellsRows(r, u)
    <3> HIDE DEF u, n
    <3> QED BY <2>1, <2>2
  <2> QED BY <2>3
<1>3. CASE i < n
  <2>1. i + 1 \in 0 .. n /\ i \in 0 .. n - 1
    BY <1>0, <1>3
  <2>2. SubSeq(u, 1, i + 1) = SubSeq(t, 1, i + 1)
    <3> HIDE DEF c
    <3> QED BY <1>1, <2>1, JoinedHead
  <2> QED BY <2>1, <2>2 DEF TellsRows
<1>4. CASE ~(i < n)
  <2> DEFINE j == i - n + 1
  <2>1. /\ j \in 0 .. k /\ j \in 0 .. Len(c) /\ n + j = i + 1
        /\ i \in n .. n + k - 1 /\ i \in n .. n + Len(ts) - 1 /\ k \in 0 .. Len(ts)
    BY <1>0, <1>1, <1>4
  <2>2. r[i] = RowsOf(t, n, ts)[i]
    BY <2>1
  <2>3. RowsOf(t, n, ts)[i] = Row(Grown(t, SubSeq(ts, 1, j)), NumLayers)
    BY <2>1 DEF RowsOf
  <2>4. Grown(t, SubSeq(ts, 1, j)) = t \o SubSeq(ts, 1, j)
    BY NotGarbage
  <2>5. SubSeq(c, 1, j) = SubSeq(ts, 1, j)
    BY <2>1, HeadOfHead
  <2>6. SubSeq(u, 1, n + j) = t \o SubSeq(c, 1, j)
    <3> HIDE DEF c, j
    <3> QED BY <1>1, <2>1, JoinedMore
  <2> QED BY <2>1, <2>2, <2>3, <2>4, <2>5, <2>6
<1> QED BY <1>0, <1>3, <1>4

\* One row more.
LEMMA OneMoreTells ==
    ASSUME NEW t, NEW u \in Seq(Handles), NEW n \in Nat, Len(u) = n + 1, SubSeq(u, 1, n) = t,
           NEW r, TellsRows(r, t), r[n] = Row(u, NumLayers)
    PROVE  TellsRows(r, u)
<1>1. n \in 0 .. Len(u)
  OBVIOUS
<1>2. Len(t) = n
  BY <1>1, HeadOf
<1> SUFFICES ASSUME NEW i \in 0 .. n PROVE r[i] = Row(SubSeq(u, 1, i + 1), NumLayers)
  BY DEF TellsRows
<1>3. CASE i = n
  <2>1. SubSeq(u, 1, i + 1) = u
    BY <1>3, WholeHead
  <2> QED BY <1>3, <2>1
<1>4. CASE i # n
  <2>1. i \in 0 .. n - 1 /\ i + 1 \in 0 .. n
    BY <1>4
  <2>2. SubSeq(t, 1, i + 1) = SubSeq(u, 1, i + 1)
    BY <1>1, <2>1, HeadOfHead
  <2> QED BY <1>2, <2>1, <2>2 DEF TellsRows
<1> QED BY <1>3, <1>4

-----------------------------------------------------------------------------
(* The verbs that read tokens. *)

LEMMA TextFacts ==
    ASSUME TInv, NEW h \in Handles, NEW x, x = hd[h]
    PROVE  /\ IInv /\ PagesApart /\ Sound(x) /\ Shaped(x) /\ KindOf(h, x) /\ Apart(h, x) /\ HeadFull(x)
           /\ InMemory(mem, x) /\ DOMAIN x = Fields
           /\ x.length \in Nat /\ x.layer \in Nat /\ x.shared \in Nat /\ LiveRows(x) \in Nat
           /\ x.length <= LiveRows(x) /\ x.frozen \in BOOLEAN /\ Len(x.table) \in Nat
           /\ \E t : TextIs(h, x, LiveIn(mem, x), t)
<1>1. IInv /\ PagesApart /\ Texts
  BY DEF TInv
<1>2. Sound(x) /\ Shaped(x) /\ KindOf(h, x) /\ x.length \in Nat /\ x.layer \in Nat
      /\ LiveRows(x) \in Nat /\ x.length <= LiveRows(x)
  BY <1>1, OfHandle
<1>3. DOMAIN x = Fields /\ x.shared \in Nat /\ Len(x.table) \in Nat /\ x.frozen \in BOOLEAN
  BY <1>2, ShapedIs DEF KindOf
<1>4. Apart(h, x) /\ HeadFull(x) /\ InMemory(mem, x)
  BY <1>1 DEF PagesApart, InMemory
<1>5. \E t : TextIs(h, x, LiveIn(mem, x), t)
  BY <1>1 DEF Texts
<1> QED BY <1>1, <1>2, <1>3, <1>4, <1>5

\* With pages mapped for n positions the handle finds in its rows what it had there.
LEMMA Mapped ==
    ASSUME TInv, NEW h \in Handles, NEW x, x = hd[h], NEW n \in Nat, CanMap(x, n),
           NEW y, y = MapPagesFor(h, x, n)
    PROVE  /\ Sound(y) /\ KindOf(h, y) /\ Apart(h, y) /\ HeadFull(y) /\ SameBut(x, y, {"table", "reserve"})
           /\ DOMAIN y = Fields /\ Pageful(y.table) /\ Placed(y.table) /\ PagesOf(n) <= Len(y.table)
           /\ Len(y.table) \in Nat /\ Len(x.table) <= Len(y.table)
           /\ y.length = x.length /\ y.layer = x.layer /\ y.shared = x.shared /\ y.frozen = x.frozen
           /\ y.token = x.token /\ y.ready = x.ready /\ y.hidden = x.hidden /\ y.mode = x.mode
           /\ LiveRows(y) = LiveRows(x)
           /\ \A pos \in 0 .. LiveRows(x) - 1 :
                 Found(mem, y, pos) = Found(mem, x, pos) /\ RowAt(mem, y, pos) = Found(mem, x, pos)
<1>1. /\ IInv /\ PagesApart /\ Sound(x) /\ Shaped(x) /\ Apart(h, x) /\ HeadFull(x)
      /\ InMemory(mem, x) /\ Len(x.table) \in Nat
  BY TextFacts
<1>2. /\ Sound(y) /\ KindOf(h, y) /\ SameBut(x, y, {"table", "reserve"})
      /\ PagesOf(n) <= Len(y.table) /\ Len(x.table) <= Len(y.table)
  BY <1>1, Behind
<1>3. Lacks(x, n) <= x.reserve
  BY DEF CanMap
<1>4. /\ Apart(h, MapPagesFor(h, x, n))
      /\ \A k \in 1 .. Len(x.table) : MapPagesFor(h, x, n).table[k] = x.table[k]
  BY <1>1, <1>3, MapsApart
<1>5. Apart(h, y) /\ \A k \in 1 .. Len(x.table) : y.table[k] = x.table[k]
  BY <1>4
<1>6. /\ y.length = x.length /\ y.layer = x.layer /\ y.shared = x.shared /\ y.frozen = x.frozen
      /\ y.token = x.token /\ y.ready = x.ready /\ y.hidden = x.hidden /\ y.mode = x.mode
      /\ DOMAIN y = Fields
  BY <1>2 DEF SameBut, Fields
<1>7. HeadFull(y) /\ LiveRows(y) = LiveRows(x) /\ Placed(y.table)
  BY <1>1, <1>5, <1>6 DEF HeadFull, LiveRows, Apart
<1>8. Pageful(y.table) /\ Len(y.table) \in Nat
  BY <1>2, ShapedIs DEF Sound
<1>9. ASSUME NEW pos \in 0 .. LiveRows(x) - 1
      PROVE  Found(mem, y, pos) = Found(mem, x, pos) /\ RowAt(mem, y, pos) = Found(mem, x, pos)
  <2> DEFINE k == (pos \div PagePositions) + 1
  <2>1. k \in 1 .. Len(x.table)
    BY <1>1, LiveAt
  <2>2. y.table[k] = x.table[k]
    BY <1>5, <2>1
  <2>3. x.table[k] \in DOMAIN mem
    BY <1>1, <2>1 DEF InMemory
  <2> QED BY <2>2, <2>3 DEF Found, RowAt, At
<1> QED BY <1>2, <1>5, <1>6, <1>7, <1>8, <1>9

\* The text so far, as a call that has mapped its pages finds it.
LEMMA MappedPast ==
    ASSUME TInv, NEW h \in Handles, NEW x, x = hd[h], NEW n \in Nat, CanMap(x, n),
           NEW y, y = MapPagesFor(h, x, n), NEW t, TextIs(h, x, LiveIn(mem, x), t)
    PROVE  History(mem, y, x.length) = t
<1>1. \A pos \in 0 .. LiveRows(x) - 1 : RowAt(mem, y, pos) = Found(mem, x, pos)
  BY Mapped
<1>2. LiveRows(x) \in Nat /\ x.length \in Nat /\ x.length <= LiveRows(x)
  BY TextFacts
<1>3. t \in Seq(Handles) /\ Len(t) = x.length /\ TellsRows(LiveIn(mem, x), t)
  BY DEF TextIs, Tells
<1>4. ASSUME NEW i \in 0 .. Len(t) - 1 PROVE RowAt(mem, y, i) = Row(SubSeq(t, 1, i + 1), NumLayers)
  <2>1. i \in 0 .. LiveRows(x) - 1
    BY <1>2, <1>3
  <2>2. LiveIn(mem, x)[i] = Found(mem, x, i)
    BY <2>1, LiveInAt
  <2> QED BY <1>1, <1>3, <2>1, <2>2 DEF TellsRows
<1> QED BY <1>3, <1>4, HistoryIs

\* Rows written behind the text, over the pages mapped for it.
LEMMA WrittenBehind ==
    ASSUME TInv, NEW h \in Handles, NEW x, x = hd[h], ~x.frozen, NEW n \in Nat, CanMap(x, n),
           NEW y, y = MapPagesFor(h, x, n),
           NEW rows, \A pos \in DOMAIN rows : pos \in Nat /\ x.length <= pos,
           NEW m, m = Written(mem, y.table, rows)
    PROVE  /\ Spares(h, m)
           /\ \A pos \in Nat : pos < n /\ pos \in DOMAIN rows => Found(m, y, pos) = rows[pos]
           /\ \A pos \in 0 .. LiveRows(x) - 1 : pos \notin DOMAIN rows => Found(m, y, pos) = Found(mem, x, pos)
<1>1. /\ Sound(y) /\ Apart(h, y) /\ HeadFull(y) /\ Pageful(y.table) /\ Placed(y.table)
      /\ PagesOf(n) <= Len(y.table) /\ Len(y.table) \in Nat
      /\ y.length = x.length /\ y.frozen = x.frozen /\ LiveRows(y) = LiveRows(x)
      /\ \A pos \in 0 .. LiveRows(x) - 1 : Found(mem, y, pos) = Found(mem, x, pos)
  <2>1. /\ Sound(y) /\ Apart(h, y) /\ HeadFull(y) /\ Pageful(y.table) /\ Placed(y.table)
        /\ PagesOf(n) <= Len(y.table) /\ Len(y.table) \in Nat
        /\ y.length = x.length /\ y.frozen = x.frozen /\ LiveRows(y) = LiveRows(x)
    BY Mapped
  <2>2. \A pos \in 0 .. LiveRows(x) - 1 : Found(mem, y, pos) = Found(mem, x, pos)
    BY Mapped
  <2> QED BY <2>1, <2>2
<1>2. x.frozen \in BOOLEAN /\ IInv /\ PagesApart /\ Shaped(y) /\ x.length \in Nat
  BY <1>1, TextFacts DEF Sound
<1>3. y.frozen = FALSE
  BY <1>1, <1>2, Zenon
<1>4. \A pos \in DOMAIN rows : pos \in Nat /\ y.shared * PagePositions <= pos
  <2>1. y.shared * PagePositions <= x.length /\ y.shared * PagePositions \in Nat
    BY <1>1, <1>2, Sizes, ShapedIs DEF HeadFull
  <2> QED BY <1>2, <2>1
<1>5. Spares(h, m)
  BY <1>1, <1>2, <1>3, <1>4, SparesWritten
<1>6. Pageful(y.table) /\ Placed(y.table)
  BY <1>1
<1>7. ASSUME NEW pos \in Nat, pos < n, pos \in DOMAIN rows PROVE Found(m, y, pos) = rows[pos]
  <2>1. Here(y, pos)
    BY <1>1, <1>7, PlaceCovered DEF Here
  <2> QED BY <1>6, <1>7, <2>1, FoundWritten
<1>8. ASSUME NEW pos \in 0 .. LiveRows(x) - 1, pos \notin DOMAIN rows
      PROVE  Found(m, y, pos) = Found(mem, x, pos)
  <2>1. Here(y, pos)
    BY <1>1, LiveAt DEF Here
  <2>2. Found(Written(mem, y.table, rows), y, pos) = Found(mem, y, pos)
    BY <1>6, <1>8, <2>1, FoundUnwritten
  <2> QED BY <1>1, <2>2
<1> QED BY <1>5, <1>7, <1>8

\* A feed is some of its handle's own tokens.
LEMMA FeedIs ==
    ASSUME NEW h \in Handles, NEW ts \in Feeds(h)
    PROVE  /\ ts \in Seq(Handles) /\ Len(ts) \in Nat /\ Len(ts) >= 1
           /\ \A i \in 1 .. Len(ts) : ts[i] = h
<1>1. PICK n \in 1 .. MaxFeed : ts = [i \in 1 .. n |-> h]
  BY DEF Feeds
<1>2. n \in Nat /\ n >= 1 /\ ts \in [1 .. n -> Handles]
  BY <1>1, Sizes
<1>3. ts \in Seq(Handles) /\ Len(ts) = n
  BY <1>2
<1> QED BY <1>1, <1>2, <1>3

\* Tokens ts read behind the text t, by a pass over the pages mapped for them.
ReadsBehind(h, x, n, t, ts, y, m) ==
    /\ x = hd[h] /\ ~x.frozen /\ TextIs(h, x, LiveIn(mem, x), t)
    /\ n = x.length + Len(ts) /\ CanMap(x, n)
    /\ y = MapPagesFor(h, x, n)
    /\ m = Written(mem, y.table, RowsOf(t, x.length, ts))
FoundTo(n, r, m, y) == \A i \in 0 .. n - 1 : r[i] = Found(m, y, i)

\* With the first k of them the rows tell as much of the text.
LEMMA ReadsOn ==
    ASSUME TInv, NEW h \in Handles, NEW x, NEW n, NEW t, NEW ts \in Seq(Handles), NEW y, NEW m,
           ReadsBehind(h, x, n, t, ts, y, m),
           NEW k \in 0 .. Len(ts), NEW r, FoundTo(x.length + k, r, m, y)
    PROVE  Spares(h, m) /\ TellsRows(r, t \o SubSeq(ts, 1, k))
<1>0. /\ x = hd[h] /\ ~x.frozen /\ TextIs(h, x, LiveIn(mem, x), t)
      /\ n = x.length + Len(ts) /\ CanMap(x, n) /\ y = MapPagesFor(h, x, n)
      /\ m = Written(mem, y.table, RowsOf(t, x.length, ts))
  BY DEF ReadsBehind
<1>00. \A i \in 0 .. x.length + k - 1 : r[i] = Found(m, y, i)
  <2>1. x.length \in Nat
    BY <1>0, TextFacts
  <2>2. (x.length + k) - 1 = x.length + k - 1
    BY <2>1
  <2> QED BY <2>2 DEF FoundTo
<1> SUFFICES ASSUME x = hd[h], ~x.frozen, TextIs(h, x, LiveIn(mem, x), t),
                    n = x.length + Len(ts), CanMap(x, n), y = MapPagesFor(h, x, n),
                    m = Written(mem, y.table, RowsOf(t, x.length, ts)),
                    \A i \in 0 .. x.length + k - 1 : r[i] = Found(m, y, i)
             PROVE  Spares(h, m) /\ TellsRows(r, t \o SubSeq(ts, 1, k))
  BY <1>0, <1>00
<1> DEFINE rows == RowsOf(t, x.length, ts)
<1>1. /\ x.length \in Nat /\ LiveRows(x) \in Nat /\ x.length <= LiveRows(x)
      /\ Len(ts) \in Nat /\ n \in Nat /\ k \in Nat /\ k <= Len(ts)
  BY TextFacts
<1>2. DOMAIN rows = x.length .. x.length + Len(ts) - 1
  BY DEF RowsOf
<1>3. \A pos \in DOMAIN rows : pos \in Nat /\ x.length <= pos
  BY <1>1, <1>2
<1>4. t \in Seq(Handles) /\ Len(t) = x.length /\ TellsRows(LiveIn(mem, x), t)
  BY DEF TextIs, Tells
<1> HIDE DEF rows
<1>5. m = Written(mem, y.table, rows)
  BY DEF rows
<1>6. /\ Spares(h, m)
      /\ \A pos \in Nat : pos < n /\ pos \in DOMAIN rows => Found(m, y, pos) = rows[pos]
      /\ \A pos \in 0 .. LiveRows(x) - 1 : pos \notin DOMAIN rows => Found(m, y, pos) = Found(mem, x, pos)
  <2>1. n \in Nat
    BY <1>1
  <2> QED BY ONLY TInv, h \in Handles, x = hd[h], ~x.frozen, <2>1, CanMap(x, n), y = MapPagesFor(h, x, n),
                  <1>3, <1>5, WrittenBehind
<1>7. TellsRows(r, t)
  <2> SUFFICES ASSUME NEW i \in 0 .. Len(t) - 1 PROVE r[i] = Row(SubSeq(t, 1, i + 1), NumLayers)
    BY DEF TellsRows
  <2>1. i \in 0 .. LiveRows(x) - 1 /\ i \notin DOMAIN rows /\ i \in 0 .. x.length + k - 1
    <3>1. i \in 0 .. x.length - 1
      BY <1>4
    <3> QED BY ONLY <1>1, <1>2, <3>1
  <2>2. r[i] = LiveIn(mem, x)[i]
    BY <1>6, <2>1, LiveInAt
  <2> QED BY <1>4, <2>2 DEF TellsRows
<1>8. \A i \in Len(t) .. Len(t) + k - 1 : r[i] = RowsOf(t, Len(t), ts)[i]
  <2> TAKE i \in Len(t) .. Len(t) + k - 1
  <2>1. i \in Nat /\ i < n /\ i \in DOMAIN rows /\ i \in 0 .. x.length + k - 1
    <3>1. i \in x.length .. x.length + k - 1
      BY <1>4
    <3> QED BY ONLY <1>1, <1>2, <3>1, n = x.length + Len(ts)
  <2>2. r[i] = rows[i]
    BY <1>6, <2>1
  <2> QED BY <1>4, <2>2 DEF rows
<1> QED BY <1>4, <1>6, <1>7, <1>8, GrownTells

\* What is seen of a handle that has read tokens.
LEMMA ReadIs ==
    ASSUME TInv, NEW h \in Handles, Filling(h), NEW t, TextIs(h, hd[h], LiveIn(mem, hd[h]), t),
           NEW ts \in Seq(Handles), Len(ts) >= 1, NEW u, u = t \o ts,
           Views' = [Views EXCEPT ![h] = Gen!View(u, <<>>, ts[Len(ts)], h \in Seqs, FALSE)],
           blob' = blob
    PROVE  Gen!Read(h)
<1> DEFINE v == Gen!View(u, <<>>, ts[Len(ts)], h \in Seqs, FALSE)
           w == ViewOf(hd[h], t)
<1>1. t \in Seq(Handles) /\ Views[h] = w
  BY SeeIs DEF TextIs, Tells
<1>2. w.open /\ ~w.frozen /\ w.text = t
  BY DEF ViewOf, Filling, Live
<1>3. v.text = u
  BY DEF Gen!View
<1>4. /\ u \in Seq(Handles) /\ Len(u) = Len(t) + Len(ts)
      /\ \A i \in 1 .. Len(ts) : u[Len(t) + i] = ts[i]
  BY <1>1, JoinedSeq
<1>5. Len(t) \in Nat /\ Len(ts) \in Nat /\ Len(t) < Len(u)
  BY <1>1, <1>4
<1>6. u[Len(u)] = ts[Len(ts)]
  BY <1>4, <1>5
<1>7. SubSeq(u, 1, Len(t)) = t
  <2>1. SubSeq(t \o ts, 1, Len(t)) = SubSeq(t, 1, Len(t))
    BY <1>1, JoinedHead
  <2> QED BY <1>1, <2>1, WholeHead
<1>8. \A i \in Len(t) + 1 .. Len(u) : u[i] \in Tokens
  BY <1>4, <1>5 DEF Tokens
<1>9. Views'[h] = v
  BY DEF Views
<1>10. Gen!Becomes(h, v)
  BY BecomesIs
<1> HIDE DEF v, w
<1>11. /\ Views[h].open /\ ~Views[h].frozen
       /\ Len(Views[h].text) < Len(Views'[h].text)
       /\ SubSeq(Views'[h].text, 1, Len(Views[h].text)) = Views[h].text
       /\ \A i \in Len(Views[h].text) + 1 .. Len(Views'[h].text) : Views'[h].text[i] \in Tokens
  BY <1>1, <1>2, <1>3, <1>5, <1>7, <1>8, <1>9
<1>12. Gen!Becomes(h, Gen!View(Views'[h].text, <<>>, Views'[h].text[Len(Views'[h].text)], h \in Seqs, FALSE))
  BY <1>3, <1>6, <1>9, <1>10 DEF v
<1> QED BY <1>11, <1>12 DEF Gen!Read, Gen!Filling, Views, See

\* A head of a table stays apart, and may share no less.
LEMMA ApartHead ==
    ASSUME NEW h \in Handles, NEW y, Apart(h, y), Len(y.table) \in Nat,
           NEW z, Len(z.table) \in Nat, Len(z.table) <= Len(y.table),
           \A k \in 1 .. Len(z.table) : z.table[k] = y.table[k],
           \A k \in 1 .. Len(z.table) : SharesAt(y, k) => SharesAt(z, k)
    PROVE  Apart(h, z)
<1>1. Placed(z.table)
  <2> SUFFICES ASSUME NEW k \in 1 .. Len(z.table) PROVE z.table[k][2] = k
    BY DEF Placed
  <2>1. k \in 1 .. Len(y.table) /\ z.table[k] = y.table[k]
    OBVIOUS
  <2> QED BY <2>1 DEF Apart, Placed
<1>2. ASSUME NEW g \in Handles \ {h}, NEW k \in 1 .. Len(z.table),
             k <= Len(hd[g].table), z.table[k] = hd[g].table[k]
      PROVE  SharesAt(z, k) /\ SharesAt(hd[g], k)
  <2>1. k \in 1 .. Len(y.table) /\ y.table[k] = hd[g].table[k]
    BY <1>2
  <2> QED BY <1>2, <2>1 DEF Apart
<1> QED BY <1>1, <1>2 DEF Apart

\* A handle that goes on from a table, or the head of it.
LEMMA StepsOn ==
    ASSUME TInv, IInv', NEW h \in Handles,
           NEW y, Apart(h, y), HeadFull(y), Len(y.table) \in Nat, y.length \in Nat, y.shared \in Nat,
           NEW z, Len(z.table) \in Nat, Len(z.table) <= Len(y.table),
           \A k \in 1 .. Len(z.table) : z.table[k] = y.table[k],
           z.shared = y.shared, y.frozen => z.frozen, z.mode # "none",
           z.length \in Nat, y.length <= z.length,
           NEW m, Step(h, z, m), blob' = blob, Spares(h, m), NEW u, TextIs(h, z, LiveIn(m, z), u)
    PROVE  TInv' /\ Views' = [Views EXCEPT ![h] = ViewOf(z, u)]
<1>1. y.shared * PagePositions \in Nat
  BY Sizes
<1>2. \A k \in 1 .. Len(z.table) : SharesAt(y, k) => SharesAt(z, k)
  BY DEF SharesAt
<1>3. Apart(h, z)
  BY <1>2, ApartHead
<1>4. HeadFull(z)
  BY <1>1 DEF HeadFull
<1>5. z.mode = "none" => z = NoHandle
  OBVIOUS
<1> QED BY <1>3, <1>4, <1>5, StepTexts

\* A table is another one's head.
HeadsOf(z, y) ==
    /\ Len(z.table) \in Nat /\ Len(z.table) <= Len(y.table)
    /\ \A k \in 1 .. Len(z.table) : z.table[k] = y.table[k]

\* A handle that goes on from its mapped pages, or some of them.
Advances(h, x, n, y, z, m) ==
    /\ x = hd[h] /\ n \in Nat /\ CanMap(x, n) /\ y = MapPagesFor(h, x, n)
    /\ HeadsOf(z, y) /\ z.shared = x.shared /\ z.frozen = x.frozen /\ z.mode # "none"
    /\ z.length \in Nat /\ x.length <= z.length
    /\ Step(h, z, m) /\ blob' = blob /\ Spares(h, m)

\* A handle whose rows go on behind its text tells the longer text, and no other's changes.
LEMMA GoesOnTexts ==
    ASSUME TInv, IInv', NEW h \in Handles, NEW x, NEW n, NEW y, NEW z, NEW m,
           Advances(h, x, n, y, z, m), NEW u, TextIs(h, z, LiveIn(m, z), u)
    PROVE  TInv' /\ Views' = [Views EXCEPT ![h] = ViewOf(z, u)]
<1>0. /\ x = hd[h] /\ n \in Nat /\ CanMap(x, n) /\ y = MapPagesFor(h, x, n)
      /\ Len(z.table) \in Nat /\ Len(z.table) <= Len(y.table)
      /\ \A k \in 1 .. Len(z.table) : z.table[k] = y.table[k]
      /\ z.shared = x.shared /\ z.frozen = x.frozen /\ z.mode # "none"
      /\ z.length \in Nat /\ x.length <= z.length
      /\ Step(h, z, m) /\ blob' = blob /\ Spares(h, m)
  BY DEF Advances, HeadsOf
<1>1. /\ Apart(h, y) /\ HeadFull(y) /\ Len(y.table) \in Nat
      /\ y.length = x.length /\ y.shared = x.shared /\ y.frozen = x.frozen
  BY <1>0, Mapped
<1>2. x.length \in Nat /\ x.shared \in Nat
  BY <1>0, TextFacts
<1>3. y.length \in Nat /\ y.shared \in Nat /\ z.shared = y.shared /\ y.length <= z.length
  BY <1>0, <1>1, <1>2
<1>4. y.frozen => z.frozen
  BY <1>0, <1>1, Zenon
<1> QED BY <1>0, <1>1, <1>3, <1>4, StepsOn

\* A prefill reads its tokens, or fails and leaves text and view.
LEMMA PrefillTexts ==
    ASSUME TInv, IInv', NEW h \in Handles, NEW ts \in Feeds(h), Prefill(h, ts)
    PROVE  TInv' /\ Gen!Read(h)
<1> SUFFICES ASSUME NEW x, x = hd[h], NEW n, n = x.length + Len(ts), NEW y, y = MapPagesFor(h, x, n)
             PROVE  TInv' /\ Gen!Read(h)
  OBVIOUS
<1>1. /\ x.length \in Nat /\ x.frozen \in BOOLEAN /\ IInv /\ LiveRows(x) \in Nat
  BY TextFacts
<1>2. /\ ts \in Seq(Handles) /\ Len(ts) \in Nat /\ Len(ts) >= 1 /\ ts[Len(ts)] = h
      /\ n \in Nat /\ x.length < n
  BY <1>1, FeedIs
<1>3. PICK t : TextIs(h, x, LiveIn(mem, x), t)
  BY TextFacts
<1>4. CanMap(x, n) /\ ~x.frozen /\ x.mode # "none" /\ blob' = blob /\ Filling(h)
  BY DEF Prefill, Fits, Filling, Live
<1>5. t \in Seq(Handles) /\ Len(t) = x.length
  BY <1>3 DEF TextIs, Tells
<1>6. History(mem, y, x.length) = t
  <2>1. n \in Nat
    BY <1>2
  <2>2. CanMap(x, n)
    BY <1>4
  <2> QED BY <1>3, <2>1, <2>2, MappedPast
<1> DEFINE m == Written(mem, y.table, RowsOf(t, x.length, ts))
           u == t \o ts
           z == [y EXCEPT !.length = n, !.layer = 0, !.hidden = u, !.token = h, !.ready = h \in Seqs]
<1>7. Step(h, z, m)
  <2>1. Grown(t, ts) = u /\ SX!Last(ts) = h
    BY <1>2, <1>5, NotGarbage DEF SX!Last
  <2>2. Step(h, [y EXCEPT !.length = n, !.layer = 0, !.hidden = Grown(t, ts),
                          !.token = SX!Last(ts), !.ready = h \in Seqs], m)
    BY <1>6 DEF Prefill
  <2> QED BY <2>1, <2>2
<1>8. /\ DOMAIN y = Fields /\ Len(y.table) \in Nat
      /\ y.shared = x.shared /\ y.frozen = x.frozen /\ y.mode = x.mode
  BY <1>2, <1>4, Mapped
<1>9. /\ z.table = y.table /\ z.shared = x.shared /\ z.frozen = x.frozen /\ z.length = n /\ z.layer = 0
      /\ z.hidden = u /\ z.token = h /\ z.ready = (h \in Seqs) /\ z.mode = x.mode
  BY <1>8 DEF Fields
<1> HIDE DEF z
<1>10. LiveRows(z) = n
  BY <1>2, <1>9 DEF LiveRows
<1>11. \A i \in 0 .. n - 1 : LiveIn(m, z)[i] = Found(m, y, i)
  BY <1>9, <1>10 DEF LiveIn, Found
<1>12. Spares(h, m) /\ TellsRows(LiveIn(m, z), u)
  <2>1. Len(ts) \in 0 .. Len(ts) /\ SubSeq(ts, 1, Len(ts)) = ts
    BY <1>2, WholeHead
  <2> DEFINE r == LiveIn(m, z)
             k == Len(ts)
  <2>2. /\ ReadsBehind(h, x, n, t, ts, y, m) /\ k \in 0 .. Len(ts)
        /\ x.length + k = n
    BY <1>2, <1>3, <1>4 DEF ReadsBehind
  <2>3. FoundTo(n, r, m, y)
    BY <1>11 DEF FoundTo
  <2> HIDE DEF r, m, k
  <2>4. Spares(h, m) /\ TellsRows(r, t \o SubSeq(ts, 1, k))
    BY <1>2, <2>2, <2>3, ReadsOn
  <2> QED BY <2>1, <2>4 DEF r, k
<1>13. u \in Seq(Handles) /\ Len(u) = n /\ u # <<>>
  <2>1. t \o ts \in Seq(Handles) /\ Len(t \o ts) = Len(t) + Len(ts)
    BY <1>2, <1>5, JoinedSeq
  <2> QED BY <1>2, <1>5, <2>1
<1> HIDE DEF u, m
<1>14. TextIs(h, z, LiveIn(m, z), u)
  <2>1. z.ready \in BOOLEAN /\ z.token \in Handles \cup {NoToken}
    BY <1>9
  <2>2. h \in Prefixes => z.ready = FALSE
    <3>1. h \in Prefixes => h \notin Seqs
      BY HandlesAssumption
    <3>2. h \notin Seqs => (h \in Seqs) = FALSE
      OBVIOUS
    <3> QED BY <1>9, <3>1, <3>2, Zenon
  <2> QED BY <1>9, <1>12, <1>13, <2>1, <2>2 DEF TextIs, Tells, Leads
<1>15. HeadsOf(z, y) /\ z.mode # "none" /\ z.length \in Nat /\ x.length <= z.length
  BY <1>1, <1>2, <1>4, <1>8, <1>9 DEF HeadsOf
<1>16. TInv' /\ Views' = [Views EXCEPT ![h] = ViewOf(z, u)]
  <2>1. Advances(h, x, n, y, z, m)
    BY <1>2, <1>4, <1>7, <1>9, <1>12, <1>15 DEF Advances
  <2> QED BY <1>14, <2>1, GoesOnTexts
<1>17. ViewOf(z, u) = Gen!View(u, <<>>, ts[Len(ts)], h \in Seqs, FALSE)
  <2>1. x.frozen = FALSE
    BY <1>1, <1>4, Zenon
  <2>2. z.frozen = FALSE /\ z.layer = 0 /\ ~(z.layer > 0) /\ z.token = ts[Len(ts)]
        /\ (z.mode # "none") = TRUE /\ z.ready = (h \in Seqs)
    BY <1>2, <1>4, <1>9, <2>1
  <2> QED BY <2>2 DEF ViewOf, Gen!View
<1>18. Gen!Read(h)
  <2>1. Views' = [Views EXCEPT ![h] = Gen!View(u, <<>>, ts[Len(ts)], h \in Seqs, FALSE)]
    BY <1>16, <1>17
  <2>2. u = t \o ts
    BY DEF u
  <2>3. TextIs(h, hd[h], LiveIn(mem, hd[h]), t)
    BY <1>3
  <2> QED BY <1>2, <1>4, <2>1, <2>2, <2>3, ReadIs
<1> QED BY <1>16, <1>18

-----------------------------------------------------------------------------
(* Views. *)

IsView(v) == v = [f \in {"text", "doing", "token", "ready", "frozen", "open"} |-> v[f]]

\* Views that agree in every field are one.
LEMMA SameView ==
    ASSUME NEW v, NEW w, IsView(v), IsView(w),
           v.text = w.text, v.doing = w.doing, v.token = w.token, v.ready = w.ready,
           v.frozen = w.frozen, v.open = w.open
    PROVE  v = w
<1>1. \A f \in {"text", "doing", "token", "ready", "frozen", "open"} : v[f] = w[f]
  OBVIOUS
<1> QED BY <1>1, Zenon DEF IsView

\* The fields of the view of a handle,
LEMMA ViewOfIs ==
    ASSUME NEW x, NEW t, NEW v, v = ViewOf(x, t)
    PROVE  /\ IsView(v) /\ v.text = t /\ v.token = x.token /\ v.ready = x.ready /\ v.frozen = x.frozen
           /\ v.doing = (IF x.layer > 0 THEN x.hidden ELSE <<>>) /\ v.open = (x.mode # "none")
BY DEF ViewOf, IsView

\* and of a view that Generation makes.
LEMMA GenViewIs ==
    ASSUME NEW a, NEW b, NEW c, NEW d, NEW e, NEW v, v = Gen!View(a, b, c, d, e)
    PROVE  /\ IsView(v) /\ v.text = a /\ v.doing = b /\ v.token = c /\ v.ready = d /\ v.frozen = e
           /\ v.open = TRUE
BY DEF Gen!View, IsView

\* The same fields make the same view, and the same rows tell the same text.
LEMMA SameSeen ==
    ASSUME NEW x, NEW z, z.layer = x.layer, z.hidden = x.hidden, z.token = x.token, z.ready = x.ready,
           z.frozen = x.frozen, z.mode = x.mode, NEW t
    PROVE  ViewOf(z, t) = ViewOf(x, t)
BY Zenon DEF ViewOf

\* Whose length, layer, residual, token and rows stay still tells its text.
LEMMA SameText ==
    ASSUME NEW h, NEW x, NEW r, NEW t, TextIs(h, x, r, t),
           NEW z, z.length = x.length, z.layer = x.layer, z.hidden = x.hidden, z.token = x.token,
           z.ready = x.ready, NEW s, s = r
    PROVE  TextIs(h, z, s, t)
BY Zenon DEF TextIs, Tells, HalfRead, Leads

\* Handles that find the same rows have the same live rows.
LEMMA SameRows ==
    ASSUME NEW m, NEW x, NEW n, NEW z, LiveRows(z) = LiveRows(x),
           \A pos \in 0 .. LiveRows(x) - 1 : Found(m, z, pos) = Found(n, x, pos)
    PROVE  LiveIn(m, z) = LiveIn(n, x)
BY DEF LiveIn

-----------------------------------------------------------------------------
(* The other verbs on one handle. *)

\* A pass that fails leaves the text, at a call within no token.
LEMMA PrefillFailsTexts ==
    ASSUME TInv, IInv', NEW h \in Handles, NEW k \in 1 .. MaxFeed, PrefillFails(h, k), ~FailWithinToken
    PROVE  TInv' /\ UNCHANGED Gen!generationVars
<1> SUFFICES ASSUME NEW x, x = hd[h], NEW n, n = x.length + k, NEW y, y = MapPagesFor(h, x, n)
             PROVE  TInv' /\ UNCHANGED Gen!generationVars
  OBVIOUS
<1>1. /\ x.length \in Nat /\ x.frozen \in BOOLEAN /\ x.layer \in Nat /\ LiveRows(x) \in Nat
  BY TextFacts
<1>2. k \in Nat /\ n \in Nat
  BY <1>1, Sizes
<1>3. PICK t : TextIs(h, x, LiveIn(mem, x), t)
  BY TextFacts
<1>4. CanMap(x, n) /\ ~x.frozen /\ x.mode # "none" /\ blob' = blob
  BY DEF PrefillFails, Fits, Filling, Live
<1>5. LiveRows(x) = x.length
  <2>1. ~(x.layer > 0)
    BY DEF PrefillFails
  <2> QED BY <1>1, <2>1 DEF LiveRows
<1> DEFINE rows == [pos \in x.length .. x.length + k - 1 |-> Junk]
           m == Written(mem, y.table, rows)
<1>6. Step(h, y, m)
  BY DEF PrefillFails
<1>7. \A pos \in DOMAIN rows : pos \in Nat /\ x.length <= pos
  BY <1>1, <1>2
<1>8. \A pos \in 0 .. LiveRows(x) - 1 : pos \notin DOMAIN rows
  BY <1>1, <1>5
<1> HIDE DEF rows
<1>9. /\ Spares(h, m)
      /\ \A pos \in 0 .. LiveRows(x) - 1 : Found(m, y, pos) = Found(mem, x, pos)
  <2>1. m = Written(mem, y.table, rows)
    OBVIOUS
  <2> HIDE DEF m
  <2>2. /\ Spares(h, m)
        /\ \A pos \in 0 .. LiveRows(x) - 1 : pos \notin DOMAIN rows => Found(m, y, pos) = Found(mem, x, pos)
    BY <1>2, <1>4, <1>7, <2>1, WrittenBehind
  <2> QED BY <1>8, <2>2
<1> HIDE DEF m
<1>10. /\ Len(y.table) \in Nat /\ LiveRows(y) = LiveRows(x)
       /\ y.length = x.length /\ y.layer = x.layer /\ y.shared = x.shared /\ y.frozen = x.frozen
       /\ y.token = x.token /\ y.ready = x.ready /\ y.hidden = x.hidden /\ y.mode = x.mode
  BY <1>2, <1>4, Mapped
<1>11. TextIs(h, y, LiveIn(m, y), t)
  <2>1. LiveIn(m, y) = LiveIn(mem, x)
    BY <1>9, <1>10, SameRows
  <2> QED BY <1>3, <1>10, <2>1, SameText
<1>12. HeadsOf(y, y) /\ y.mode # "none" /\ y.length \in Nat /\ x.length <= y.length
  BY <1>1, <1>4, <1>10 DEF HeadsOf
<1>13. TInv' /\ Views' = [Views EXCEPT ![h] = ViewOf(y, t)]
  <2>1. Advances(h, x, n, y, y, m)
    BY <1>2, <1>4, <1>6, <1>9, <1>10, <1>12 DEF Advances
  <2> QED BY <1>11, <2>1, GoesOnTexts
<1>14. ViewOf(y, t) = ViewOf(x, t)
  BY <1>10, SameSeen
<1>15. UNCHANGED Gen!generationVars
  BY <1>3, <1>4, <1>13, <1>14, StaysIs
<1> QED BY <1>13, <1>15

\* A token produced, from the residual of the whole text.
LEMMA DecodeReadyTexts ==
    ASSUME TInv, IInv', NEW s \in Seqs, DecodeReady(s, s)
    PROVE  TInv' /\ Gen!Produce(s)
<1>0. s \in Handles /\ s \notin Prefixes
  BY HandlesAssumption DEF Handles
<1> SUFFICES ASSUME NEW x, x = hd[s] PROVE TInv' /\ Gen!Produce(s)
  OBVIOUS
<1>1. /\ Apart(s, x) /\ HeadFull(x) /\ DOMAIN x = Fields /\ KindOf(s, x)
      /\ x.length \in Nat /\ x.layer \in Nat /\ x.shared \in Nat /\ Len(x.table) \in Nat
      /\ x.frozen \in BOOLEAN
  BY <1>0, TextFacts
<1>2. PICK t : TextIs(s, x, LiveIn(mem, x), t)
  BY <1>0, TextFacts
<1>3. x.ready /\ x.mode # "none" /\ blob' = blob
  BY DEF DecodeReady, Live
<1>4. /\ t \in Seq(Handles) /\ Len(t) = x.length /\ TellsRows(LiveIn(mem, x), t)
      /\ x.hidden = t /\ t # <<>> /\ x.layer = 0
  BY <1>2, <1>3 DEF TextIs, Tells
<1> DEFINE z == [x EXCEPT !.token = s, !.ready = FALSE, !.hidden = <<>>]
<1>5. Step(s, z, mem)
  BY DEF DecodeReady
<1>6. /\ z.table = x.table /\ z.shared = x.shared /\ z.frozen = x.frozen /\ z.length = x.length
      /\ z.layer = x.layer /\ z.mode = x.mode /\ z.token = s /\ z.ready = FALSE /\ z.hidden = <<>>
  BY <1>1 DEF Fields
<1> HIDE DEF z
<1>7. LiveIn(mem, z) = LiveIn(mem, x)
  <2>1. LiveRows(z) = LiveRows(x)
    BY <1>6 DEF LiveRows
  <2>2. \A pos \in 0 .. LiveRows(x) - 1 : Found(mem, z, pos) = Found(mem, x, pos)
    BY <1>6 DEF Found
  <2> QED BY <2>1, <2>2, SameRows
<1>8. TextIs(s, z, LiveIn(mem, z), t)
  <2>1. /\ z.ready \in BOOLEAN /\ ~z.ready
    BY <1>6
  <2>3. z.token \in Handles \cup {NoToken}
    BY <1>0, <1>6
  <2>4. ~(z.layer > 0)
    BY <1>4, <1>6
  <2>2. t \in Seq(Handles) /\ Len(t) = z.length /\ TellsRows(LiveIn(mem, z), t)
    BY <1>4, <1>6, <1>7
  <2> QED BY <1>0, <2>1, <2>2, <2>3, <2>4, Zenon DEF TextIs, Tells
<1>9. Spares(s, mem)
  BY SparesItself
<1>10. /\ Len(z.table) \in Nat /\ Len(z.table) <= Len(x.table)
       /\ \A k \in 1 .. Len(z.table) : z.table[k] = x.table[k]
       /\ z.mode # "none" /\ z.length \in Nat /\ x.length <= z.length
  BY <1>1, <1>3, <1>6
<1>11. TInv' /\ Views' = [Views EXCEPT ![s] = ViewOf(z, t)]
  BY <1>0, <1>1, <1>3, <1>5, <1>6, <1>8, <1>9, <1>10, StepsOn
<1> DEFINE v == Views[s]
           w == [v EXCEPT !.token = s, !.ready = FALSE, !.doing = <<>>]
<1>12. /\ IsView(v) /\ v.text = t /\ v.token = x.token /\ v.ready = x.ready /\ v.frozen = x.frozen
       /\ v.open = (x.mode # "none")
  <2>1. v = ViewOf(x, t)
    BY <1>0, <1>2, SeeIs
  <2> HIDE DEF v
  <2> QED BY <2>1, ViewOfIs
<1>13. ViewOf(z, t) = w
  <2>1. IsView(w) /\ w.text = v.text /\ w.frozen = v.frozen /\ w.open = v.open /\ w.token = s
        /\ w.ready = FALSE /\ w.doing = <<>>
    <3> HIDE DEF v
    <3> QED BY <1>12 DEF IsView
  <2> DEFINE u == ViewOf(z, t)
  <2>2. /\ IsView(u) /\ u.text = t /\ u.token = s /\ u.ready = FALSE /\ u.frozen = x.frozen
        /\ u.doing = <<>> /\ u.open = (x.mode # "none")
    <3>1. /\ IsView(u) /\ u.text = t /\ u.token = z.token /\ u.ready = z.ready /\ u.frozen = z.frozen
          /\ u.doing = (IF z.layer > 0 THEN z.hidden ELSE <<>>) /\ u.open = (z.mode # "none")
      BY ViewOfIs
    <3> HIDE DEF u
    <3> QED BY <1>6, <3>1
  <2> HIDE DEF u, v, w
  <2>3. u = w
    BY <1>12, <2>1, <2>2, SameView
  <2> QED BY <2>3 DEF u
<1>14. Gen!Becomes(s, w) /\ Views'[s] = w
  <2>1. Views' = [Views EXCEPT ![s] = w]
    BY <1>11, <1>13
  <2> HIDE DEF w
  <2> QED BY <1>0, <1>3, <2>1, BecomesIs DEF Views
<1>15. w.token = s
  <2> HIDE DEF v
  <2> QED BY <1>12 DEF IsView
<1>16. v.open /\ ~v.frozen /\ v.ready
  <2>1. ~x.frozen
    BY <1>1 DEF KindOf
  <2> HIDE DEF v
  <2> QED BY <1>3, <1>12, <2>1
<1>17. Views'[s].token = s /\ s \in Tokens
  BY <1>0, <1>14, <1>15 DEF Tokens
<1>18. Gen!Becomes(s, [Views[s] EXCEPT !.token = Views'[s].token, !.ready = FALSE, !.doing = <<>>])
  BY <1>14, <1>17
<1>19. Gen!Produce(s)
  <2> HIDE DEF w
  <2> QED BY <1>16, <1>17, <1>18 DEF Gen!Produce, Gen!Filling, Views, See
<1> QED BY <1>11, <1>19

\* A handle with nothing in it.
Clean(x) ==
    /\ x.table = <<>> /\ x.shared = 0 /\ x.length = 0 /\ x.layer = 0 /\ x.hidden = <<>>
    /\ x.token = NoToken /\ x.ready = FALSE /\ x.frozen = FALSE

\* A handle without rows tells the empty text.
LEMMA CleanTold ==
    ASSUME NEW h, NEW x, Clean(x), NEW r
    PROVE  TextIs(h, x, r, <<>>)
<1>1. x.layer = 0 /\ x.ready = FALSE /\ x.hidden = <<>> /\ x.token = NoToken /\ x.length = 0
  BY DEF Clean
<1>2. ~(x.layer > 0)
  BY <1>1
<1>3. ~x.ready /\ x.ready \in BOOLEAN /\ x.token \in Handles \cup {NoToken}
  BY <1>1, Zenon
<1>4. <<>> \in Seq(Handles) /\ Len(<<>>) = 0 /\ TellsRows(r, <<>>)
  BY DEF TellsRows
<1>5. Len(<<>>) = x.length
  BY <1>1, <1>4
<1>6. Tells(x, r, <<>>)
  BY <1>1, <1>2, <1>3, <1>4, <1>5, Zenon DEF Tells
<1>7. Leads(x, <<>>)
  BY <1>1, Zenon DEF Leads
<1> QED BY <1>6, <1>7 DEF TextIs

\* A step that leaves its handle without rows, and the pages of others as they were.
LEMMA CleanTexts ==
    ASSUME TInv, IInv', NEW h \in Handles, NEW x, Clean(x), x.mode = "none" => x = NoHandle,
           Step(h, x, mem), blob' = blob
    PROVE  TInv' /\ Views' = [Views EXCEPT ![h] = ViewOf(x, <<>>)]
<1>1. Len(x.table) = 0 /\ Apart(h, x)
  BY DEF Clean, Apart, Placed
<1>2. HeadFull(x)
  BY Sizes DEF Clean, HeadFull
<1>3. TextIs(h, x, LiveIn(mem, x), <<>>)
  BY CleanTold
<1>4. Spares(h, mem)
  BY SparesItself
<1> DEFINE t == <<>>
<1>5. TextIs(h, x, LiveIn(mem, x), t)
  BY <1>3
<1> HIDE DEF t
<1>6. TInv' /\ Views' = [Views EXCEPT ![h] = ViewOf(x, t)]
  BY <1>1, <1>2, <1>4, <1>5, StepTexts
<1> QED BY <1>6 DEF t

\* An open handle without rows looks empty.
LEMMA CleanView ==
    ASSUME NEW x, Clean(x), x.mode # "none"
    PROVE  ViewOf(x, <<>>) = Gen!Empty
<1> DEFINE v == ViewOf(x, <<>>)
           w == Gen!View(<<>>, <<>>, NoToken, FALSE, FALSE)
<1>1. /\ IsView(v) /\ v.text = <<>> /\ v.token = x.token /\ v.ready = x.ready /\ v.frozen = x.frozen
      /\ v.doing = (IF x.layer > 0 THEN x.hidden ELSE <<>>) /\ v.open = (x.mode # "none")
  BY ViewOfIs
<1>2. /\ IsView(w) /\ w.text = <<>> /\ w.doing = <<>> /\ w.token = NoToken /\ w.ready = FALSE
      /\ w.frozen = FALSE /\ w.open = TRUE
  BY DEF Gen!View, IsView
<1> HIDE DEF v, w
<1>3. v.doing = <<>> /\ v.token = NoToken /\ v.ready = FALSE /\ v.frozen = FALSE /\ v.open = TRUE
  BY <1>1 DEF Clean
<1>4. v = w
  BY <1>1, <1>2, <1>3, SameView
<1> QED BY <1>4 DEF v, w, Gen!Empty

\* Whether a handle is open is seen.
LEMMA OpenIs ==
    ASSUME NEW h \in Handles
    PROVE  Views[h].open <=> Live(h)
<1>1. Views[h] = ViewOf(hd[h], TextOf(hd[h], mem))
  BY DEF Views, See
<1>2. Views[h].open = (hd[h].mode # "none")
  <2> DEFINE v == Views[h]
  <2> HIDE DEF v
  <2>1. v = ViewOf(hd[h], TextOf(hd[h], mem))
    BY <1>1 DEF v
  <2>2. v.open = (hd[h].mode # "none")
    BY <2>1, ViewOfIs
  <2> QED BY <2>2 DEF v
<1> QED BY <1>2, Zenon DEF Live

\* A create opens an empty handle.
LEMMA CreateTexts ==
    ASSUME TInv, IInv', NEW h \in Handles, NEW mode \in {"whole", "budget"}, NEW budget,
           Create(h, mode, budget)
    PROVE  TInv' /\ Gen!Open(h)
<1> DEFINE x == Handle(mode, budget, ReservationPages(mode, budget))
<1>1. Step(h, x, mem) /\ blob' = blob /\ ~Live(h)
  BY DEF Create
<1>2. Clean(x) /\ x.mode # "none"
  BY DEF Clean, Handle
<1> HIDE DEF x
<1>3. TInv' /\ Views' = [Views EXCEPT ![h] = ViewOf(x, <<>>)]
  BY <1>1, <1>2, CleanTexts
<1>4. Views' = [Views EXCEPT ![h] = Gen!Empty]
  BY <1>2, <1>3, CleanView
<1>5. Gen!Becomes(h, Gen!Empty)
  BY <1>1, <1>4, BecomesIs
<1>6. ~Views[h].open
  BY <1>1, OpenIs
<1>7. Gen!Open(h)
  BY <1>5, <1>6 DEF Gen!Open, Views, See
<1> QED BY <1>3, <1>7

\* A reset clears the text.
LEMMA ResetTexts ==
    ASSUME TInv, IInv', NEW s \in Seqs, Reset(s)
    PROVE  TInv' /\ Gen!Clear(s)
<1>0. s \in Handles
  BY DEF Handles
<1> DEFINE e == UnmapAll(hd[s])
           x == [e EXCEPT !.origin = 0, !.length = 0, !.layer = 0, !.hidden = <<>>,
                          !.token = NoToken, !.ready = FALSE]
<1>1. Step(s, x, mem) /\ blob' = blob /\ Live(s)
  BY DEF Reset
<1>2. /\ Sound(hd[s]) /\ KindOf(s, hd[s])
  BY <1>0, TextFacts
<1>3. /\ Shaped(e) /\ SameBut(hd[s], e, {"table", "shared", "materialized", "reserve"})
      /\ e.table = <<>> /\ e.shared = 0
  BY <1>1, <1>2, UnmapAllIs DEF KindOf, Live
<1>4. e.mode = hd[s].mode /\ e.frozen = hd[s].frozen /\ DOMAIN e = Fields
  BY <1>3 DEF SameBut, Fields
<1>5. hd[s].frozen = FALSE
  BY <1>2, Zenon DEF KindOf
<1> HIDE DEF e
<1>6. /\ x.table = e.table /\ x.shared = e.shared /\ x.length = 0 /\ x.layer = 0 /\ x.hidden = <<>>
      /\ x.token = NoToken /\ x.ready = FALSE /\ x.frozen = e.frozen /\ x.mode = e.mode
  BY <1>4 DEF Fields
<1> HIDE DEF x
<1>7. Clean(x) /\ x.mode # "none"
  BY <1>1, <1>3, <1>4, <1>5, <1>6 DEF Clean, Live
<1>8. TInv' /\ Views' = [Views EXCEPT ![s] = ViewOf(x, <<>>)]
  BY <1>0, <1>1, <1>7, CleanTexts
<1>9. Views' = [Views EXCEPT ![s] = Gen!Empty]
  BY <1>7, <1>8, CleanView
<1>10. Gen!Becomes(s, Gen!Empty)
  BY <1>0, <1>1, <1>9, BecomesIs
<1>11. Views[s].open
  BY <1>0, <1>1, OpenIs
<1>12. Gen!Clear(s)
  BY <1>10, <1>11 DEF Gen!Clear, Views, See
<1> QED BY <1>8, <1>12

\* No handle looks closed.
LEMMA ClosedView == ViewOf(NoHandle, <<>>) = Gen!Closed
<1> DEFINE x == NoHandle
           v == ViewOf(x, <<>>)
           u == Gen!View(<<>>, <<>>, NoToken, FALSE, FALSE)
           w == [u EXCEPT !.open = FALSE]
<1>0. Clean(x) /\ x.mode = "none"
  BY DEF Clean, NoHandle, Handle
<1>1. /\ IsView(v) /\ v.text = <<>> /\ v.token = x.token /\ v.ready = x.ready /\ v.frozen = x.frozen
      /\ v.doing = (IF x.layer > 0 THEN x.hidden ELSE <<>>) /\ v.open = (x.mode # "none")
  <2> HIDE DEF x
  <2> QED BY ViewOfIs
<1>2. /\ IsView(u) /\ u.text = <<>> /\ u.doing = <<>> /\ u.token = NoToken /\ u.ready = FALSE
      /\ u.frozen = FALSE
  BY DEF Gen!View, IsView
<1> HIDE DEF v, u
<1>3. /\ IsView(w) /\ w.text = <<>> /\ w.doing = <<>> /\ w.token = NoToken /\ w.ready = FALSE
      /\ w.frozen = FALSE /\ w.open = FALSE
  BY <1>2 DEF IsView
<1> HIDE DEF w, x
<1>4. v.doing = <<>> /\ v.token = NoToken /\ v.ready = FALSE /\ v.frozen = FALSE /\ v.open = FALSE
  BY <1>0, <1>1 DEF Clean
<1>5. v = w
  BY <1>1, <1>3, <1>4, SameView
<1> QED BY <1>5 DEF v, w, u, x, Gen!Closed

\* A release closes its handle and leaves every other's rows, shared pages among them.
LEMMA ReleaseTexts ==
    ASSUME TInv, IInv', NEW h \in Handles, Release(h)
    PROVE  TInv' /\ Gen!Close(h)
<1> DEFINE x == NoHandle
<1>1. Step(h, x, mem) /\ blob' = blob /\ Live(h)
  BY DEF Release
<1>2. Clean(x) /\ x = NoHandle
  BY DEF Clean, NoHandle, Handle
<1> HIDE DEF x
<1>3. TInv' /\ Views' = [Views EXCEPT ![h] = ViewOf(x, <<>>)]
  BY <1>1, <1>2, CleanTexts
<1>4. Views' = [Views EXCEPT ![h] = Gen!Closed]
  BY <1>2, <1>3, ClosedView
<1>5. Gen!Becomes(h, Gen!Closed)
  BY <1>1, <1>4, BecomesIs
<1>6. Views[h].open
  BY <1>1, OpenIs
<1>7. Gen!Close(h)
  BY <1>5, <1>6 DEF Gen!Close, Views, See
<1> QED BY <1>3, <1>7

\* A prefix that is filled no more.
LEMMA FreezeTexts ==
    ASSUME TInv, IInv', NEW q \in Prefixes, Freeze(q)
    PROVE  TInv' /\ Gen!Freeze(q)
<1>0. q \in Handles
  BY DEF Handles
<1> SUFFICES ASSUME NEW x, x = hd[q] PROVE TInv' /\ Gen!Freeze(q)
  OBVIOUS
<1>1. /\ Apart(q, x) /\ HeadFull(x) /\ DOMAIN x = Fields
      /\ x.length \in Nat /\ x.shared \in Nat /\ Len(x.table) \in Nat
  BY <1>0, TextFacts
<1>2. PICK t : TextIs(q, x, LiveIn(mem, x), t)
  BY <1>0, TextFacts
<1> DEFINE z == [x EXCEPT !.frozen = TRUE, !.reserve = 0]
<1>3. Step(q, z, mem) /\ blob' = blob /\ Live(q) /\ x.mode # "none"
  BY DEF Freeze, Filling, Live
<1>4. /\ z.table = x.table /\ z.shared = x.shared /\ z.frozen = TRUE /\ z.length = x.length
      /\ z.layer = x.layer /\ z.mode = x.mode /\ z.token = x.token /\ z.ready = x.ready
      /\ z.hidden = x.hidden
  BY <1>1 DEF Fields
<1> HIDE DEF z
<1>5. LiveIn(mem, z) = LiveIn(mem, x)
  <2>1. LiveRows(z) = LiveRows(x)
    BY <1>4 DEF LiveRows
  <2>2. \A pos \in 0 .. LiveRows(x) - 1 : Found(mem, z, pos) = Found(mem, x, pos)
    BY <1>4 DEF Found
  <2> QED BY <2>1, <2>2, SameRows
<1>6. TextIs(q, z, LiveIn(mem, z), t)
  BY <1>2, <1>4, <1>5, SameText
<1>7. Spares(q, mem)
  BY SparesItself
<1>8. /\ Len(z.table) \in Nat /\ Len(z.table) <= Len(x.table)
      /\ \A k \in 1 .. Len(z.table) : z.table[k] = x.table[k]
      /\ z.mode # "none" /\ z.length \in Nat /\ x.length <= z.length
  BY <1>1, <1>3, <1>4
<1>9. TInv' /\ Views' = [Views EXCEPT ![q] = ViewOf(z, t)]
  BY <1>0, <1>1, <1>3, <1>4, <1>6, <1>7, <1>8, StepsOn
<1> DEFINE v == Views[q]
           w == [v EXCEPT !.frozen = TRUE]
           u == ViewOf(z, t)
<1>10. /\ IsView(v) /\ v.text = t /\ v.token = x.token /\ v.ready = x.ready
       /\ v.doing = (IF x.layer > 0 THEN x.hidden ELSE <<>>) /\ v.open = (x.mode # "none")
  <2>1. v = ViewOf(x, t)
    BY <1>0, <1>2, SeeIs
  <2> HIDE DEF v
  <2> QED BY <2>1, ViewOfIs
<1>11. u = w
  <2>1. IsView(w) /\ w.text = v.text /\ w.frozen = TRUE /\ w.open = v.open /\ w.token = v.token
        /\ w.ready = v.ready /\ w.doing = v.doing
    <3> HIDE DEF v
    <3> QED BY <1>10 DEF IsView
  <2>2. /\ IsView(u) /\ u.text = t /\ u.token = z.token /\ u.ready = z.ready /\ u.frozen = z.frozen
        /\ u.doing = (IF z.layer > 0 THEN z.hidden ELSE <<>>) /\ u.open = (z.mode # "none")
    BY ViewOfIs
  <2> HIDE DEF u, v, w
  <2>3. u.text = w.text /\ u.doing = w.doing /\ u.token = w.token /\ u.frozen = w.frozen
        /\ u.ready = w.ready /\ u.open = w.open
    BY <1>4, <1>10, <2>1, <2>2
  <2> QED BY <2>1, <2>2, <2>3, SameView
<1>12. Gen!Becomes(q, w)
  <2>1. Views' = [Views EXCEPT ![q] = w]
    BY <1>9, <1>11
  <2> HIDE DEF w
  <2> QED BY <1>0, <1>3, <2>1, BecomesIs
<1>13. v.open
  BY <1>0, <1>3, OpenIs
<1>14. Gen!Freeze(q)
  BY <1>12, <1>13 DEF Gen!Freeze, Views, See
<1> QED BY <1>9, <1>14

-----------------------------------------------------------------------------
(* A jump. *)

LEMMA HeadFound ==
    ASSUME NEW z, Sound(z), NEW y, HeadsOf(z, y), NEW m, NEW pos \in 0 .. LiveRows(z) - 1
    PROVE  Found(m, z, pos) = Found(m, y, pos)
<1> DEFINE k == (pos \div PagePositions) + 1
<1>1. k \in 1 .. Len(z.table)
  BY LiveAt
<1> HIDE DEF k
<1>2. z.table[k] = y.table[k]
  BY <1>1 DEF HeadsOf
<1> QED BY <1>2 DEF Found, k

\* Giving back the tail of a table leaves its head.
LEMMA UnmapTailIs ==
    ASSUME NEW y, Shaped(y), NEW keep \in Nat, NEW z, z = UnmapTail(y, keep)
    PROVE  HeadsOf(z, y) /\ SameBut(y, z, {"table", "reserve"})
<1> DEFINE floor == Least(Most(PoolPath(y), keep), Len(y.table))
           t == y.table
           u == SubSeq(t, 1, floor)
<1>1. /\ Len(t) \in Nat /\ DOMAIN y = Fields /\ Pageful(t)
      /\ y.shared \in Nat /\ y.materialized \in Nat
  BY ShapedIs
<1>2. floor \in 0 .. Len(t)
  <2>1. PoolPath(y) \in Nat
    BY <1>1 DEF PoolPath
  <2> QED BY <1>1, <2>1 DEF Least, Most
<1>3. z = [y EXCEPT !.table = u, !.reserve = @ + Len(y.table) - floor]
  BY DEF UnmapTail
<1> HIDE DEF floor
<1>4. z.table = u /\ SameBut(y, z, {"table", "reserve"})
  <2> HIDE DEF u
  <2> QED BY <1>1, <1>3 DEF SameBut, Fields
<1>5. Len(u) = floor /\ \A i \in 1 .. floor : u[i] = t[i]
  <2>1. t \in Seq(Range(t))
    BY <1>1 DEF Pageful
  <2> HIDE DEF t
  <2> QED BY <1>2, <2>1, HeadOf
<1> HIDE DEF u
<1>6. HeadsOf(z, y)
  <2>1. Len(z.table) = floor /\ floor \in Nat /\ floor <= Len(y.table)
    BY <1>1, <1>2, <1>4, <1>5
  <2> QED BY <1>4, <1>5, <2>1 DEF HeadsOf
<1> QED BY <1>4, <1>6

\* What a jump has before it.
LEMMA JumpIs ==
    ASSUME TInv, NEW s \in Seqs, NEW draft \in Feeds(s), NEW kept \in 0 .. Len(draft) + 1,
           JumpForward(s, draft, kept), NEW x, x = hd[s], NEW ts, ts = <<x.token>> \o draft
    PROVE  /\ s \in Handles /\ s \notin Prefixes /\ x.length \in Nat /\ LiveRows(x) = x.length
           /\ x.frozen = FALSE /\ x.layer = 0 /\ x.mode # "none" /\ x.ready = FALSE
           /\ ts \in Seq(Handles) /\ Len(ts) = Len(draft) + 1 /\ Len(ts) \in Nat /\ kept \in 0 .. Len(ts)
           /\ x.length + Len(ts) \in Nat /\ CanMap(x, x.length + Len(ts))
           /\ Len(x.table) \in Nat /\ blob' = blob
<1>0. s \in Handles /\ s \notin Prefixes
  BY HandlesAssumption DEF Handles
<1>1. /\ x.length \in Nat /\ Len(x.table) \in Nat /\ x.frozen \in BOOLEAN /\ KindOf(s, x) /\ LiveRows(x) \in Nat
      /\ \E t : TextIs(s, x, LiveIn(mem, x), t)
  BY <1>0, TextFacts
<1>2. ~x.ready /\ x.layer = 0 /\ x.token # NoToken /\ x.mode # "none" /\ blob' = blob
      /\ CanMap(x, x.length + Len(ts))
  BY DEF JumpForward, Live, Fits
<1>3. x.token \in Handles /\ x.ready \in BOOLEAN
  BY <1>1, <1>2 DEF TextIs, Tells
<1>4. x.frozen = FALSE /\ x.ready = FALSE
  BY <1>1, <1>2, <1>3, Zenon DEF KindOf
<1>5. draft \in Seq(Handles) /\ Len(draft) \in Nat
  BY <1>0, FeedIs
<1>6. ts \in Seq(Handles) /\ Len(ts) = Len(draft) + 1
  <2> DEFINE one == <<x.token>>
  <2>1. one \in Seq(Handles) /\ Len(one) = 1
    BY <1>3
  <2> HIDE DEF one
  <2>2. one \o draft \in Seq(Handles) /\ Len(one \o draft) = Len(one) + Len(draft)
    BY <1>5, <2>1, JoinedSeq
  <2> QED BY <1>5, <2>1, <2>2 DEF one
<1>7. LiveRows(x) = x.length
  BY <1>1, <1>2 DEF LiveRows
<1>8. Len(ts) \in Nat /\ kept \in 0 .. Len(ts) /\ x.length + Len(ts) \in Nat
  BY <1>1, <1>5, <1>6
<1> QED BY <1>0, <1>1, <1>2, <1>4, <1>6, <1>7, <1>8

\* A jump reads the accepted draft, or rolls back to where it began.
LEMMA JumpTexts ==
    ASSUME TInv, IInv', NEW s \in Seqs, NEW draft \in Feeds(s), NEW kept \in 0 .. Len(draft) + 1,
           JumpForward(s, draft, kept)
    PROVE  TInv' /\ (Gen!Read(s) \/ UNCHANGED Gen!generationVars)
<1> SUFFICES ASSUME NEW x, x = hd[s], NEW ts, ts = <<x.token>> \o draft, NEW n, n = x.length + Len(ts),
                    NEW y, y = MapPagesFor(s, x, n)
             PROVE  TInv' /\ (Gen!Read(s) \/ UNCHANGED Gen!generationVars)
  OBVIOUS
<1>1. /\ s \in Handles /\ s \notin Prefixes /\ x.length \in Nat /\ LiveRows(x) = x.length
      /\ x.frozen = FALSE /\ x.layer = 0 /\ x.mode # "none" /\ x.ready = FALSE
      /\ ts \in Seq(Handles) /\ Len(ts) \in Nat /\ kept \in 0 .. Len(ts)
      /\ n \in Nat /\ CanMap(x, n) /\ Len(x.table) \in Nat /\ blob' = blob
  BY JumpIs
<1>2. PICK t : TextIs(s, x, LiveIn(mem, x), t)
  BY <1>1, TextFacts
<1>3. t \in Seq(Handles) /\ Len(t) = x.length
  BY <1>2 DEF TextIs, Tells
<1>4. History(mem, y, x.length) = t
  <2>1. n \in Nat
    BY <1>1
  <2>2. CanMap(x, n) /\ s \in Handles
    BY <1>1
  <2> QED BY <1>2, <2>1, <2>2, MappedPast
<1> DEFINE rows == RowsOf(t, x.length, ts)
           m == Written(mem, y.table, rows)
           read == SubSeq(ts, 1, kept)
           u == t \o read
           done == [y EXCEPT !.length = @ + kept, !.hidden = u, !.token = SX!Last(read), !.ready = TRUE]
           w == IF kept = 0 THEN y ELSE done
           cover == Most(Len(x.table), PagesOf(x.length + kept))
           z == UnmapTail(w, cover)
<1>5. Step(s, z, m)
  <2>1. Grown(t, read) = u
    BY <1>3, NotGarbage
  <2>2. Step(s, UnmapTail(IF kept = 0 THEN y ELSE
                            [y EXCEPT !.length = @ + kept, !.hidden = Grown(t, read),
                                      !.token = SX!Last(read), !.ready = TRUE], cover), m)
    BY <1>4 DEF JumpForward
  <2> QED BY <2>1, <2>2
<1>6. /\ Sound(y) /\ DOMAIN y = Fields /\ Len(y.table) \in Nat
      /\ y.length = x.length /\ y.layer = x.layer /\ y.shared = x.shared /\ y.frozen = x.frozen
      /\ y.token = x.token /\ y.ready = x.ready /\ y.hidden = x.hidden /\ y.mode = x.mode
  BY <1>1, Mapped
<1>7. x.length + kept \in Nat /\ kept \in Nat /\ cover \in Nat
  <2>1. x.length + kept \in Nat /\ kept \in Nat
    BY <1>1
  <2>2. PagesOf(x.length + kept) \in Nat
    BY <2>1, PagesOfIs
  <2> QED BY <1>1, <2>1, <2>2 DEF Most
<1> HIDE DEF cover, rows, u, read
<1>8. /\ SameBut(y, done, {"length", "hidden", "token", "ready"})
      /\ done.length = x.length + kept /\ done.hidden = u /\ done.token = SX!Last(read) /\ done.ready = TRUE
  BY <1>6 DEF SameBut, Fields
<1> HIDE DEF done
<1>9. /\ Shaped(w) /\ w.table = y.table /\ w.shared = x.shared /\ w.frozen = x.frozen /\ w.mode = x.mode
      /\ w.layer = 0 /\ w.length = x.length + kept
      /\ kept = 0 => w.hidden = x.hidden /\ w.token = x.token /\ w.ready = x.ready
      /\ kept # 0 => w.hidden = u /\ w.token = SX!Last(read) /\ w.ready = TRUE
  <2>1. CASE kept = 0
    <3>1. w = y /\ x.length + kept = x.length
      BY <1>1, <2>1
    <3> HIDE DEF w
    <3> QED BY <1>1, <1>6, <2>1, <3>1 DEF Sound
  <2>2. CASE kept # 0
    <3>1. w = done
      BY <2>2
    <3> HIDE DEF w
    <3>2. /\ w.table = y.table /\ w.shared = x.shared /\ w.frozen = x.frozen /\ w.mode = x.mode
          /\ w.layer = 0 /\ w.length = x.length + kept
          /\ w.hidden = u /\ w.token = SX!Last(read) /\ w.ready = TRUE
      BY <1>1, <1>6, <1>8, <3>1 DEF SameBut, Fields
    <3>3. Shaped(w)
      <4>1. /\ w.budget = y.budget /\ w.origin = y.origin /\ w.materialized = y.materialized
            /\ w.reserve = y.reserve /\ w.shared = y.shared /\ w.mode = y.mode /\ DOMAIN w = Fields
        BY <1>8, <3>1 DEF SameBut, Fields
      <4>2. Shaped(y)
        BY <1>6 DEF Sound
      <4> QED BY <1>7, <3>2, <4>1, <4>2 DEF Shaped
    <3> QED BY <2>2, <3>2, <3>3
  <2> QED BY <2>1, <2>2
<1> HIDE DEF w
<1>10. HeadsOf(z, w) /\ SameBut(w, z, {"table", "reserve"})
  BY <1>7, <1>9, UnmapTailIs
<1> HIDE DEF z
<1>11. /\ HeadsOf(z, y) /\ z.shared = x.shared /\ z.frozen = x.frozen /\ z.mode = x.mode
       /\ z.layer = 0 /\ z.length = x.length + kept
       /\ kept = 0 => z.hidden = x.hidden /\ z.token = x.token /\ z.ready = x.ready
       /\ kept # 0 => z.hidden = u /\ z.token = SX!Last(read) /\ z.ready = TRUE
  <2>1. /\ z.shared = w.shared /\ z.frozen = w.frozen /\ z.mode = w.mode /\ z.layer = w.layer
        /\ z.length = w.length /\ z.hidden = w.hidden /\ z.token = w.token /\ z.ready = w.ready
    BY <1>10 DEF SameBut, Fields
  <2>2. HeadsOf(z, y)
    BY <1>9, <1>10 DEF HeadsOf
  <2> QED BY <1>9, <2>1, <2>2
<1>12. LiveRows(z) = x.length + kept
  BY <1>7, <1>11 DEF LiveRows
<1>13. Sound(z)
  <2>1. hd'[s] = z
    BY <1>1, <1>5, TextFacts DEF Step, IInv
  <2> QED BY <1>1, <2>1 DEF IInv
<1>14. \A i \in 0 .. (x.length + kept) - 1 : LiveIn(m, z)[i] = Found(m, y, i)
  <2> TAKE i \in 0 .. (x.length + kept) - 1
  <2>1. i \in 0 .. LiveRows(z) - 1
    BY <1>12
  <2> HIDE DEF m
  <2> QED BY <1>11, <1>13, <2>1, HeadFound, LiveInAt
<1>15. HeadsOf(z, y) /\ z.mode # "none" /\ z.length \in Nat /\ x.length <= z.length
  BY <1>1, <1>7, <1>11
<1>16. CASE kept = 0
  <2>1. \A pos \in DOMAIN rows : pos \in Nat /\ x.length <= pos
    BY <1>1 DEF rows, RowsOf
  <2>2. /\ Spares(s, m)
        /\ \A pos \in 0 .. LiveRows(x) - 1 : pos \notin DOMAIN rows => Found(m, y, pos) = Found(mem, x, pos)
    <3>1. m = Written(mem, y.table, rows) /\ ~x.frozen
      BY <1>1
    <3> HIDE DEF m
    <3> QED BY <1>1, <2>1, <3>1, WrittenBehind
  <2> HIDE DEF m
  <2>3. LiveRows(z) = LiveRows(x)
    BY <1>1, <1>12, <1>16
  <2>4. ASSUME NEW pos \in 0 .. LiveRows(x) - 1 PROVE Found(m, z, pos) = Found(mem, x, pos)
    <3>1. pos \notin DOMAIN rows
      BY <1>1, <2>1
    <3>2. Found(m, z, pos) = Found(m, y, pos)
      BY <1>11, <1>13, <2>3, HeadFound
    <3> QED BY <2>2, <3>1, <3>2
  <2>5. LiveIn(m, z) = LiveIn(mem, x)
    BY <2>3, <2>4, SameRows
  <2>6. /\ z.length = x.length /\ z.layer = x.layer /\ z.hidden = x.hidden /\ z.token = x.token
        /\ z.ready = x.ready /\ z.frozen = x.frozen /\ z.mode = x.mode /\ z.shared = x.shared
    BY <1>1, <1>11, <1>16
  <2>7. TextIs(s, z, LiveIn(m, z), t)
    BY <1>2, <2>5, <2>6, SameText
  <2>8. TInv' /\ Views' = [Views EXCEPT ![s] = ViewOf(z, t)]
    <3>1. Advances(s, x, n, y, z, m)
      BY <1>1, <1>5, <1>15, <2>2, <2>6 DEF Advances
    <3> QED BY <1>1, <2>7, <3>1, GoesOnTexts
  <2>9. ViewOf(z, t) = ViewOf(x, t)
    BY <2>6, SameSeen
  <2>10. UNCHANGED Gen!generationVars
    BY <1>1, <1>2, <2>8, <2>9, StaysIs
  <2> QED BY <2>8, <2>10
<1>17. CASE kept # 0
  <2>1. ReadsBehind(s, x, n, t, ts, y, m)
    <3>1. ~x.frozen
      BY <1>1
    <3> QED BY <1>1, <1>2, <3>1 DEF ReadsBehind, rows
  <2>2. FoundTo(x.length + kept, LiveIn(m, z), m, y)
    BY <1>14 DEF FoundTo
  <2> DEFINE r == LiveIn(m, z)
  <2> HIDE DEF m
  <2>3. Spares(s, m) /\ TellsRows(r, u)
    <3>1. FoundTo(x.length + kept, r, m, y)
      BY <2>2
    <3> HIDE DEF r
    <3>2. s \in Handles /\ ts \in Seq(Handles) /\ kept \in 0 .. Len(ts)
      BY <1>1
    <3>3. Spares(s, m) /\ TellsRows(r, t \o SubSeq(ts, 1, kept))
      BY ONLY TInv, <2>1, <3>1, <3>2, ReadsOn
    <3> QED BY <3>3 DEF u, read
  <2>4. /\ read \in Seq(Handles) /\ Len(read) = kept /\ Len(read) >= 1
    <3>1. read \in Seq(Handles) /\ Len(read) = kept
      BY <1>1, HeadOf DEF read
    <3> QED BY <1>7, <1>17, <3>1
  <2>5. u \in Seq(Handles) /\ Len(u) = x.length + kept /\ u # <<>>
    <3>1. t \o read \in Seq(Handles) /\ Len(t \o read) = Len(t) + Len(read)
      BY <1>3, <2>4, JoinedSeq
    <3>2. u \in Seq(Handles) /\ Len(u) = x.length + kept
      BY <1>3, <2>4, <3>1 DEF u
    <3> QED BY <1>1, <1>7, <1>17, <3>2
  <2>6. SX!Last(read) = read[Len(read)] /\ read[Len(read)] \in Handles
    BY <2>4 DEF SX!Last
  <2>7. TextIs(s, z, r, u)
    <3>1. ~(z.layer > 0) /\ z.layer = 0
      BY <1>11
    <3>2. z.ready \in BOOLEAN /\ z.hidden = u
      BY <1>11, <1>17
    <3>3. z.token \in Handles \cup {NoToken}
      BY <1>11, <1>17, <2>6
    <3>4. u \in Seq(Handles) /\ Len(u) = z.length /\ TellsRows(r, u) /\ u # <<>>
      BY <1>11, <2>3, <2>5
    <3> QED BY <1>1, <3>1, <3>2, <3>3, <3>4, Zenon DEF TextIs, Tells
  <2>8. TextIs(s, z, LiveIn(m, z), u)
    BY <2>7
  <2> HIDE DEF r
  <2>9. z.shared = x.shared /\ z.frozen = x.frozen
    BY <1>11
  <2>10. TInv' /\ Views' = [Views EXCEPT ![s] = ViewOf(z, u)]
    <3>1. Advances(s, x, n, y, z, m)
      BY <1>1, <1>5, <1>15, <2>3, <2>9 DEF Advances
    <3> QED BY <1>1, <2>8, <3>1, GoesOnTexts
  <2> DEFINE v == Gen!View(u, <<>>, read[Len(read)], s \in Seqs, FALSE)
             v2 == ViewOf(z, u)
  <2>11. v2 = v
    <3>1. /\ IsView(v) /\ v.text = u /\ v.doing = <<>> /\ v.token = read[Len(read)]
          /\ v.ready = (s \in Seqs) /\ v.frozen = FALSE /\ v.open = TRUE
      BY DEF Gen!View, IsView
    <3>2. /\ IsView(v2) /\ v2.text = u /\ v2.token = z.token /\ v2.ready = z.ready /\ v2.frozen = z.frozen
          /\ v2.doing = (IF z.layer > 0 THEN z.hidden ELSE <<>>) /\ v2.open = (z.mode # "none")
      BY ViewOfIs
    <3> HIDE DEF v, v2
    <3>3. /\ v2.doing = v.doing /\ v2.token = v.token /\ v2.text = v.text
      BY <1>11, <1>17, <2>6, <3>1, <3>2
    <3>4. v2.ready = v.ready /\ v2.frozen = v.frozen
      BY <1>1, <1>11, <1>17, <3>1, <3>2
    <3>5. v2.open = v.open
      BY <1>1, <1>11, <3>1, <3>2
    <3> QED BY <3>1, <3>2, <3>3, <3>4, <3>5, SameView
  <2>12. Views' = [Views EXCEPT ![s] = v]
    BY <2>10, <2>11
  <2>13. Filling(s)
    BY <1>1 DEF Filling, Live
  <2>14. u = t \o read /\ TextIs(s, hd[s], LiveIn(mem, hd[s]), t)
    BY <1>2 DEF u
  <2>15. Gen!Read(s)
    BY <1>1, <2>4, <2>12, <2>13, <2>14, ReadIs
  <2> QED BY <2>10, <2>15
<1> QED BY <1>16, <1>17

-----------------------------------------------------------------------------
(* A decode. *)

\* A decode of the token behind the text t: u is the two together, and m has u's row,
\* `deep` layers of it.
Decodes(s, x, y, t, u, deep, m) ==
    /\ s \in Handles /\ s \notin Prefixes /\ x = hd[s] /\ y = MapPagesFor(s, x, x.length + 1)
    /\ CanMap(x, x.length + 1) /\ TextIs(s, x, LiveIn(mem, x), t)
    /\ x.frozen = FALSE /\ x.ready = FALSE /\ x.mode # "none" /\ blob' = blob
    /\ u \in Seq(Handles) /\ Len(u) = x.length + 1 /\ SubSeq(u, 1, x.length) = t
    /\ u = IF x.layer > 0 THEN x.hidden ELSE Append(t, x.token)
    /\ deep \in Nat /\ m = Written(mem, y.table, [pos \in {x.length} |-> Row(u, deep)])

\* And what it makes of the handle.
DecodeSteps(s, x, y, t, u, deep, m, k) ==
    /\ Decodes(s, x, y, t, u, deep, m)
    /\ deep < NumLayers =>
          Step(s, [y EXCEPT !.hidden = IF deep = 0 THEN @ ELSE u, !.layer = deep], m)
    /\ ~(deep < NumLayers) /\ k = NoToken =>
          Step(s, [y EXCEPT !.length = @ + 1, !.layer = 0, !.hidden = u, !.ready = TRUE], m)
    /\ ~(deep < NumLayers) /\ k # NoToken =>
          Step(s, [[y EXCEPT !.length = @ + 1, !.layer = 0, !.hidden = u, !.ready = TRUE]
                      EXCEPT !.hidden = <<>>, !.token = k, !.ready = FALSE], m)

\* A decode, whole or ended inside the token by its budget, steps as just said.
LEMMA DecodeIs ==
    ASSUME TInv, NEW s \in Seqs, NEW layers \in 0 .. NumLayers, NEW k, DecodeLayers(s, layers, k),
           NEW x, x = hd[s], NEW y, y = MapPagesFor(s, x, x.length + 1),
           NEW deep, deep = Depth(x.layer, layers)
    PROVE  \E t, u, m : DecodeSteps(s, x, y, t, u, deep, m, k)
<1>0. s \in Handles /\ s \notin Prefixes
  BY HandlesAssumption DEF Handles
<1>1. /\ x.length \in Nat /\ x.layer \in Nat /\ x.frozen \in BOOLEAN /\ KindOf(s, x) /\ LiveRows(x) \in Nat
  BY <1>0, TextFacts
<1>2. PICK t : TextIs(s, x, LiveIn(mem, x), t)
  BY <1>0, TextFacts
<1>3. /\ CanMap(x, x.length + 1) /\ x.mode # "none" /\ blob' = blob /\ ~x.ready
      /\ x.layer > 0 \/ x.token # NoToken
  BY DEF DecodeLayers, Live
<1>4. /\ t \in Seq(Handles) /\ Len(t) = x.length /\ x.token \in Handles \cup {NoToken}
      /\ x.ready \in BOOLEAN
      /\ x.layer > 0 => HalfRead(x, LiveIn(mem, x), t)
  BY <1>2 DEF TextIs, Tells
<1>5. x.frozen = FALSE /\ x.ready = FALSE
  BY <1>1, <1>3, <1>4, Zenon DEF KindOf
<1> DEFINE u == IF x.layer > 0 THEN x.hidden ELSE Append(t, x.token)
           one == <<x.token>>
           n == x.length + 1
<1>6. n \in Nat
  BY <1>1
<1>7. History(mem, y, x.length) = t
  <2>1. y = MapPagesFor(s, x, n) /\ CanMap(x, n)
    BY <1>3
  <2> HIDE DEF n
  <2> QED BY <1>0, <1>2, <1>6, <2>1, MappedPast
<1>8. ASSUME x.layer > 0
      PROVE  /\ u \in Seq(Handles) /\ Len(u) = x.length + 1 /\ SubSeq(u, 1, x.length) = t
             /\ DecodeText(x, t) = u /\ RowAt(mem, y, x.length) = Row(u, x.layer)
  <2>1. u = x.hidden
    BY <1>8
  <2>2. HalfRead(x, LiveIn(mem, x), t)
    BY <1>4, <1>8
  <2>3. /\ u \in Seq(Handles) /\ Len(u) = x.length + 1 /\ SubSeq(u, 1, x.length) = t
        /\ LiveIn(mem, x)[x.length] = Row(u, x.layer)
    BY <2>1, <2>2 DEF HalfRead
  <2>4. x.length \in 0 .. LiveRows(x) - 1
    BY <1>1, <1>8 DEF LiveRows
  <2>5. RowAt(mem, y, x.length) = Found(mem, x, x.length)
    <3>1. y = MapPagesFor(s, x, n) /\ CanMap(x, n)
      BY <1>3
    <3> HIDE DEF n
    <3>2. \A pos \in 0 .. LiveRows(x) - 1 : RowAt(mem, y, pos) = Found(mem, x, pos)
      BY <1>0, <1>6, <3>1, Mapped
    <3> QED BY <2>4, <3>2
  <2>6. LiveIn(mem, x)[x.length] = Found(mem, x, x.length)
    BY <2>4, LiveInAt
  <2>7. DecodeText(x, t) = u
    <3>1. x.layer # 0
      BY <1>8
    <3> HIDE DEF u
    <3> QED BY <2>1, <2>3, <3>1 DEF DecodeText
  <2> QED BY <2>3, <2>5, <2>6, <2>7
<1>9. ASSUME ~(x.layer > 0)
      PROVE  /\ u \in Seq(Handles) /\ Len(u) = x.length + 1 /\ SubSeq(u, 1, x.length) = t
             /\ DecodeText(x, t) = u /\ x.layer = 0
  <2>1. u = Append(t, x.token) /\ x.layer = 0 /\ x.token \in Handles
    BY <1>1, <1>3, <1>4, <1>9
  <2>2. one \in Seq(Handles) /\ Len(one) = 1 /\ Append(t, x.token) = t \o one
    BY <1>4, <2>1
  <2> HIDE DEF one
  <2>3. t \o one \in Seq(Handles) /\ Len(t \o one) = Len(t) + Len(one)
    BY <1>4, <2>2, JoinedSeq
  <2>4. SubSeq(t \o one, 1, Len(t)) = t
    <3>1. Len(t) \in 0 .. Len(t)
      BY <1>1, <1>4
    <3>2. SubSeq(t \o one, 1, Len(t)) = SubSeq(t, 1, Len(t))
      BY <1>4, <2>2, <3>1, JoinedHead
    <3> QED BY <1>4, <3>2, WholeHead
  <2>5. DecodeText(x, t) = t \o one
    <3>1. Grown(t, one) = t \o one
      BY <1>4, NotGarbage
    <3> QED BY <2>1, <3>1 DEF DecodeText, one
  <2> HIDE DEF u
  <2> QED BY <1>4, <2>1, <2>2, <2>3, <2>4, <2>5
<1>10. deep \in Nat
  BY <1>1, Sizes DEF Depth, Least
<1> DEFINE rows == [pos \in {x.length} |-> Row(u, deep)]
           m == Written(mem, y.table, rows)
<1>11. /\ u \in Seq(Handles) /\ Len(u) = x.length + 1 /\ SubSeq(u, 1, x.length) = t
       /\ DecodeText(x, t) = u
       /\ x.layer = 0 \/ RowAt(mem, y, x.length) = Row(u, x.layer)
  <2> HIDE DEF u
  <2> QED BY <1>8, <1>9
<1>12. Decodes(s, x, y, t, u, deep, m)
  <2>1. u = IF x.layer > 0 THEN x.hidden ELSE Append(t, x.token)
    OBVIOUS
  <2> HIDE DEF u
  <2> QED BY <1>0, <1>2, <1>3, <1>5, <1>10, <1>11, <2>1, Zenon DEF Decodes
<1>13. Step(s, IF deep < NumLayers
                 THEN [y EXCEPT !.hidden = IF deep = 0 THEN @ ELSE u, !.layer = deep]
                 ELSE IF k = NoToken
                        THEN [y EXCEPT !.length = @ + 1, !.layer = 0, !.hidden = u, !.ready = TRUE]
                        ELSE [[y EXCEPT !.length = @ + 1, !.layer = 0, !.hidden = u, !.ready = TRUE]
                                 EXCEPT !.hidden = <<>>, !.token = k, !.ready = FALSE], m)
  <2> DEFINE whole == x.layer = 0 \/ RowAt(mem, y, x.length) = Row(u, x.layer)
             rows2 == [pos \in {x.length} |-> IF whole THEN Row(u, deep) ELSE Row(Garbage, deep)]
             run == [y EXCEPT !.hidden = IF deep = 0 THEN @ ELSE u, !.layer = deep]
             rest == [y EXCEPT !.length = @ + 1, !.layer = 0, !.hidden = u, !.ready = TRUE]
             done == IF k = NoToken THEN rest
                     ELSE [rest EXCEPT !.hidden = <<>>, !.token = k, !.ready = FALSE]
  <2>1. Step(s, IF deep < NumLayers THEN run ELSE done, Written(mem, y.table, rows2))
    <3>1. DecodeText(x, History(mem, y, x.length)) = u
      BY <1>7, <1>11
    <3> HIDE DEF u
    <3> QED BY <3>1 DEF DecodeLayers
  <2>2. rows2 = rows
    <3> HIDE DEF u
    <3>1. whole
      BY <1>11
    <3> HIDE DEF whole
    <3> QED BY <3>1
  <2> HIDE DEF rows, rows2, u
  <2> QED BY <2>1, <2>2
<1> HIDE DEF u, m
<1>14. /\ deep < NumLayers =>
             Step(s, [y EXCEPT !.hidden = IF deep = 0 THEN @ ELSE u, !.layer = deep], m)
       /\ ~(deep < NumLayers) /\ k = NoToken =>
             Step(s, [y EXCEPT !.length = @ + 1, !.layer = 0, !.hidden = u, !.ready = TRUE], m)
       /\ ~(deep < NumLayers) /\ k # NoToken =>
             Step(s, [[y EXCEPT !.length = @ + 1, !.layer = 0, !.hidden = u, !.ready = TRUE]
                         EXCEPT !.hidden = <<>>, !.token = k, !.ready = FALSE], m)
  BY <1>13, Zenon
<1> QED BY <1>12, <1>14, Zenon DEF DecodeSteps

\* The row is where the decode writes it, and the text's rows are where they were.
LEMMA DecodeRow ==
    ASSUME TInv, NEW s, NEW x, NEW y, NEW t, NEW u, NEW deep, NEW m, Decodes(s, x, y, t, u, deep, m)
    PROVE  /\ Spares(s, m) /\ Found(m, y, x.length) = Row(u, deep)
           /\ \A pos \in 0 .. x.length - 1 : Found(m, y, pos) = LiveIn(mem, x)[pos]
<1>0. /\ s \in Handles /\ x = hd[s] /\ ~x.frozen
      /\ CanMap(x, x.length + 1) /\ y = MapPagesFor(s, x, x.length + 1)
      /\ m = Written(mem, y.table, [pos \in {x.length} |-> Row(u, deep)])
  BY DEF Decodes
<1>1. x.length \in Nat /\ LiveRows(x) \in Nat /\ x.length <= LiveRows(x)
  BY <1>0, TextFacts
<1> DEFINE rows == [pos \in {x.length} |-> Row(u, deep)]
           n == x.length + 1
<1>2. /\ DOMAIN rows = {x.length} /\ rows[x.length] = Row(u, deep)
      /\ \A pos \in DOMAIN rows : pos \in Nat /\ x.length <= pos
  BY <1>1
<1>3. n \in Nat /\ x.length < n
  BY <1>1
<1>4. m = Written(mem, y.table, rows) /\ CanMap(x, n) /\ y = MapPagesFor(s, x, n)
  BY <1>0
<1> HIDE DEF rows, n
<1>5. /\ Spares(s, m)
      /\ \A pos \in Nat : pos < n /\ pos \in DOMAIN rows => Found(m, y, pos) = rows[pos]
      /\ \A pos \in 0 .. LiveRows(x) - 1 : pos \notin DOMAIN rows => Found(m, y, pos) = Found(mem, x, pos)
  BY <1>0, <1>2, <1>3, <1>4, WrittenBehind
<1>6. Found(m, y, x.length) = Row(u, deep)
  BY <1>1, <1>2, <1>3, <1>5
<1>7. ASSUME NEW pos \in 0 .. x.length - 1 PROVE Found(m, y, pos) = LiveIn(mem, x)[pos]
  <2>1. pos \in 0 .. LiveRows(x) - 1 /\ pos \notin DOMAIN rows
    BY <1>1, <1>2
  <2> QED BY <1>5, <2>1, LiveInAt
<1> QED BY <1>5, <1>6, <1>7

\* A handle after the call, with some text.
LEMMA Decoded ==
    ASSUME TInv, IInv', NEW s, NEW x, NEW y, NEW t, NEW u, NEW deep, NEW m, Decodes(s, x, y, t, u, deep, m),
           NEW z, SameBut(y, z, {"length", "layer", "hidden", "token", "ready"}), Step(s, z, m),
           z.length \in {x.length, x.length + 1}, NEW v, TextIs(s, z, LiveIn(m, z), v)
    PROVE  TInv' /\ Views' = [Views EXCEPT ![s] = ViewOf(z, v)]
<1> DEFINE n == x.length + 1
<1>1. /\ s \in Handles /\ x = hd[s] /\ y = MapPagesFor(s, x, n) /\ CanMap(x, n) /\ x.mode # "none"
      /\ blob' = blob
  BY DEF Decodes
<1>2. x.length \in Nat /\ n \in Nat
  BY <1>1, TextFacts
<1>3. z.length \in Nat /\ x.length <= z.length
  BY <1>2
<1> HIDE DEF n
<1>4. /\ Len(y.table) \in Nat /\ y.shared = x.shared /\ y.frozen = x.frozen /\ y.mode = x.mode
  BY <1>1, <1>2, Mapped
<1>5. z.table = y.table /\ z.shared = x.shared /\ z.frozen = x.frozen /\ z.mode # "none"
  BY <1>1, <1>4 DEF SameBut, Fields
<1>6. HeadsOf(z, y)
  BY <1>4, <1>5 DEF HeadsOf
<1>7. Advances(s, x, n, y, z, m)
  BY <1>1, <1>2, <1>3, <1>5, <1>6, DecodeRow DEF Advances
<1> QED BY <1>1, <1>7, GoesOnTexts

\* What is seen of it before: u is the text it is about to have.
Pending(v, x, t, u) ==
    /\ IsView(v) /\ v.text = t /\ v.token = x.token /\ v.ready = FALSE /\ v.frozen = FALSE
    /\ v.open = TRUE
    /\ (IF v.doing = <<>> THEN Append(v.text, v.token) ELSE v.doing) = u

\* What a decode has to read is the token pending, or the one half read.
LEMMA PendingIs ==
    ASSUME TInv, NEW s, NEW x, NEW y, NEW t, NEW u, NEW deep, NEW m, Decodes(s, x, y, t, u, deep, m),
           NEW v, v = Views[s]
    PROVE  Pending(v, x, t, u)
<1>1. /\ s \in Handles /\ x = hd[s] /\ TextIs(s, x, LiveIn(mem, x), t)
      /\ x.frozen = FALSE /\ x.ready = FALSE /\ x.mode # "none"
      /\ u \in Seq(Handles) /\ Len(u) = x.length + 1
      /\ u = IF x.layer > 0 THEN x.hidden ELSE Append(t, x.token)
  BY DEF Decodes
<1>2. v = ViewOf(x, t)
  BY <1>1, SeeIs
<1>3. /\ IsView(v) /\ v.text = t /\ v.token = x.token /\ v.ready = x.ready /\ v.frozen = x.frozen
      /\ v.doing = (IF x.layer > 0 THEN x.hidden ELSE <<>>) /\ v.open = (x.mode # "none")
  BY <1>2, ViewOfIs
<1>4. v.doing = (IF x.layer > 0 THEN u ELSE <<>>)
  BY <1>1, <1>3
<1>5. u # <<>>
  <2>1. x.length \in Nat
    BY <1>1, TextFacts
  <2> QED BY <1>1, <2>1
<1>6. (IF v.doing = <<>> THEN Append(v.text, v.token) ELSE v.doing) = u
  <2>1. CASE x.layer > 0
    BY <1>4, <1>5, <2>1
  <2>2. CASE ~(x.layer > 0)
    BY <1>1, <1>3, <1>4, <2>2
  <2> QED BY <2>1, <2>2
<1> QED BY <1>1, <1>3, <1>6 DEF Pending

\* No layer is run.
LEMMA DecodeNone ==
    ASSUME TInv, IInv', NEW s, NEW x, NEW y, NEW t, NEW u, NEW m, Decodes(s, x, y, t, u, 0, m),
           x.layer = 0,
           NEW z, SameBut(y, z, {"length", "layer", "hidden", "token", "ready"}), Step(s, z, m),
           z.length = x.length, z.layer = 0, z.hidden = x.hidden, z.token = x.token, z.ready = x.ready
    PROVE  TInv' /\ UNCHANGED Gen!generationVars
<1>1. /\ s \in Handles /\ x = hd[s] /\ TextIs(s, x, LiveIn(mem, x), t) /\ blob' = blob
      /\ y = MapPagesFor(s, x, x.length + 1) /\ CanMap(x, x.length + 1)
  BY DEF Decodes
<1>2. \A pos \in 0 .. x.length - 1 : Found(m, y, pos) = LiveIn(mem, x)[pos]
  BY DecodeRow
<1>3. x.length \in Nat /\ LiveRows(x) = x.length /\ LiveRows(z) = x.length
  BY <1>1, TextFacts DEF LiveRows
<1>4. z.table = y.table /\ z.frozen = y.frozen /\ z.mode = y.mode
  BY DEF SameBut, Fields
<1>5. LiveIn(m, z) = LiveIn(mem, x)
  <2>1. ASSUME NEW pos \in 0 .. LiveRows(x) - 1 PROVE Found(m, z, pos) = Found(mem, x, pos)
    <3>1. Found(m, z, pos) = Found(m, y, pos)
      BY <1>4 DEF Found
    <3>2. LiveIn(mem, x)[pos] = Found(mem, x, pos)
      BY LiveInAt
    <3> QED BY <1>2, <1>3, <3>1, <3>2
  <2> QED BY <1>3, <2>1, SameRows
<1>6. TextIs(s, z, LiveIn(m, z), t)
  BY <1>1, <1>5, SameText
<1>7. TInv' /\ Views' = [Views EXCEPT ![s] = ViewOf(z, t)]
  BY <1>6, Decoded
<1>8. y.frozen = x.frozen /\ y.mode = x.mode
  <2> DEFINE n == x.length + 1
  <2>1. n \in Nat /\ y = MapPagesFor(s, x, n) /\ CanMap(x, n)
    BY <1>1, <1>3
  <2> HIDE DEF n
  <2> QED BY <1>1, <2>1, Mapped
<1>9. ViewOf(z, t) = ViewOf(x, t)
  BY <1>4, <1>8, SameSeen
<1>10. UNCHANGED Gen!generationVars
  BY <1>1, <1>7, <1>9, StaysIs
<1> QED BY <1>7, <1>10

\* Some layers are.
LEMMA DecodeSome ==
    ASSUME TInv, IInv', NEW s \in Seqs, NEW x, NEW y, NEW t, NEW u, NEW deep, NEW m,
           Decodes(s, x, y, t, u, deep, m), deep > 0,
           NEW z, SameBut(y, z, {"length", "layer", "hidden", "token", "ready"}), Step(s, z, m),
           z.length = x.length, z.layer = deep, z.hidden = u, z.token = x.token, z.ready = x.ready
    PROVE  TInv' /\ Gen!ReadPending(s)
<1>1. /\ s \in Handles /\ s \notin Prefixes /\ x = hd[s] /\ TextIs(s, x, LiveIn(mem, x), t)
      /\ blob' = blob /\ x.frozen = FALSE /\ x.ready = FALSE /\ x.mode # "none"
      /\ y = MapPagesFor(s, x, x.length + 1) /\ CanMap(x, x.length + 1)
      /\ u \in Seq(Handles) /\ Len(u) = x.length + 1 /\ SubSeq(u, 1, x.length) = t /\ deep \in Nat
  BY DEF Decodes
<1>2. /\ Found(m, y, x.length) = Row(u, deep)
      /\ \A pos \in 0 .. x.length - 1 : Found(m, y, pos) = LiveIn(mem, x)[pos]
  BY DecodeRow
<1>3. x.length \in Nat /\ LiveRows(z) = x.length + 1
  BY <1>1, TextFacts DEF LiveRows
<1>4. z.table = y.table /\ z.frozen = y.frozen /\ z.mode = y.mode
  BY DEF SameBut, Fields
<1> DEFINE r == LiveIn(m, z)
<1>5. r[x.length] = Row(u, deep) /\ \A pos \in 0 .. x.length - 1 : r[pos] = LiveIn(mem, x)[pos]
  <2>1. \A pos \in 0 .. x.length : r[pos] = Found(m, y, pos)
    BY <1>3, <1>4 DEF LiveIn, Found
  <2> HIDE DEF r
  <2> QED BY <1>2, <1>3, <2>1
<1> HIDE DEF r
<1>6. /\ t \in Seq(Handles) /\ Len(t) = x.length /\ TellsRows(LiveIn(mem, x), t)
      /\ x.token \in Handles \cup {NoToken}
  BY <1>1 DEF TextIs, Tells
<1>7. TellsRows(r, t)
  BY <1>5, <1>6 DEF TellsRows
<1>8. HalfRead(z, r, t)
  BY <1>1, <1>5 DEF HalfRead
<1>9. TextIs(s, z, r, t)
  <2>1. Len(t) = z.length /\ z.ready = FALSE /\ z.ready \in BOOLEAN /\ z.token \in Handles \cup {NoToken}
    BY <1>1, <1>6
  <2> QED BY <1>1, <1>6, <1>7, <1>8, <2>1, Zenon DEF TextIs, Tells
<1>10. TInv' /\ Views' = [Views EXCEPT ![s] = ViewOf(z, t)]
  BY <1>9, Decoded DEF r
<1> DEFINE v == Views[s]
           w == [v EXCEPT !.doing = u]
           v2 == ViewOf(z, t)
<1>11. /\ IsView(v) /\ v.text = t /\ v.token = x.token /\ v.ready = FALSE /\ v.frozen = FALSE
       /\ v.open = TRUE /\ (IF v.doing = <<>> THEN Append(v.text, v.token) ELSE v.doing) = u
  <2>1. v = Views[s]
    OBVIOUS
  <2> HIDE DEF v
  <2>2. Pending(v, x, t, u)
    BY <2>1, PendingIs
  <2> QED BY <2>2 DEF Pending
<1>12. v2 = w
  <2>1. /\ IsView(w) /\ w.text = v.text /\ w.doing = u /\ w.token = v.token /\ w.ready = v.ready
        /\ w.frozen = v.frozen /\ w.open = v.open
    <3> HIDE DEF v
    <3> QED BY <1>11 DEF IsView
  <2>2. /\ IsView(v2) /\ v2.text = t /\ v2.token = z.token /\ v2.ready = z.ready /\ v2.frozen = z.frozen
        /\ v2.doing = (IF z.layer > 0 THEN z.hidden ELSE <<>>) /\ v2.open = (z.mode # "none")
    BY ViewOfIs
  <2>3. y.frozen = x.frozen /\ y.mode = x.mode
    <3> DEFINE n == x.length + 1
    <3>1. n \in Nat /\ y = MapPagesFor(s, x, n) /\ CanMap(x, n)
      BY <1>1, <1>3
    <3> HIDE DEF n
    <3> QED BY <1>1, <3>1, Mapped
  <2> HIDE DEF v, w, v2
  <2>4. v2.doing = w.doing /\ v2.text = w.text /\ v2.token = w.token
    BY <1>11, <2>1, <2>2
  <2>5. v2.ready = w.ready /\ v2.frozen = w.frozen /\ v2.open = w.open
    BY <1>1, <1>4, <1>11, <2>1, <2>2, <2>3
  <2> QED BY <2>1, <2>2, <2>4, <2>5, SameView
<1>13. Gen!Becomes(s, w)
  <2>1. Views' = [Views EXCEPT ![s] = w]
    BY <1>10, <1>12
  <2> HIDE DEF w
  <2> QED BY <1>1, <2>1, BecomesIs
<1>14. v.open /\ ~v.frozen /\ ~v.ready
  <2> HIDE DEF v
  <2> QED BY <1>11
<1>15. Gen!ReadPending(s)
  <2> DEFINE pend == IF v.doing = <<>> THEN Append(v.text, v.token) ELSE v.doing
  <2>1. pend = u
    BY <1>11
  <2> HIDE DEF pend
  <2>2. Gen!Becomes(s, [v EXCEPT !.doing = pend])
    BY <1>13, <2>1
  <2> QED BY <1>14, <2>2 DEF Gen!ReadPending, Gen!Filling, Views, See, pend
<1> QED BY <1>10, <1>15

\* All are: the token is read, and the next one is produced, or may be.
LEMMA DecodeAll ==
    ASSUME TInv, IInv', NEW s \in Seqs, NEW x, NEW y, NEW t, NEW u, NEW m,
           Decodes(s, x, y, t, u, NumLayers, m),
           NEW z, SameBut(y, z, {"length", "layer", "hidden", "token", "ready"}), Step(s, z, m),
           z.length = x.length + 1, z.layer = 0,
           \/ z.hidden = u /\ z.token = x.token /\ z.ready = TRUE
           \/ z.token \in Handles /\ z.ready = FALSE
    PROVE  TInv' /\ Gen!ReadPending(s)
<1>1. /\ s \in Handles /\ s \notin Prefixes /\ x = hd[s] /\ TextIs(s, x, LiveIn(mem, x), t)
      /\ blob' = blob /\ x.frozen = FALSE /\ x.ready = FALSE /\ x.mode # "none"
      /\ y = MapPagesFor(s, x, x.length + 1) /\ CanMap(x, x.length + 1)
      /\ u \in Seq(Handles) /\ Len(u) = x.length + 1 /\ SubSeq(u, 1, x.length) = t
  BY DEF Decodes
<1>2. /\ Found(m, y, x.length) = Row(u, NumLayers)
      /\ \A pos \in 0 .. x.length - 1 : Found(m, y, pos) = LiveIn(mem, x)[pos]
  BY DecodeRow
<1>3. x.length \in Nat /\ LiveRows(z) = x.length + 1
  BY <1>1, TextFacts DEF LiveRows
<1>4. z.table = y.table /\ z.frozen = y.frozen /\ z.mode = y.mode
  BY DEF SameBut, Fields
<1> DEFINE r == LiveIn(m, z)
<1>5. r[x.length] = Row(u, NumLayers) /\ \A pos \in 0 .. x.length - 1 : r[pos] = LiveIn(mem, x)[pos]
  <2>1. \A pos \in 0 .. x.length : r[pos] = Found(m, y, pos)
    BY <1>3, <1>4 DEF LiveIn, Found
  <2> HIDE DEF r
  <2> QED BY <1>2, <1>3, <2>1
<1> HIDE DEF r
<1>6. /\ t \in Seq(Handles) /\ Len(t) = x.length /\ TellsRows(LiveIn(mem, x), t)
      /\ x.token \in Handles \cup {NoToken}
  BY <1>1 DEF TextIs, Tells
<1>7. TellsRows(r, u)
  <2>1. TellsRows(r, t)
    BY <1>5, <1>6 DEF TellsRows
  <2> QED BY <1>1, <1>3, <1>5, <2>1, OneMoreTells
<1>8. u # <<>>
  BY <1>1, <1>3
<1>9. TextIs(s, z, r, u)
  <2>1. Len(u) = z.length /\ z.ready \in BOOLEAN /\ z.token \in Handles \cup {NoToken}
    BY <1>1, <1>6
  <2>2. ~(z.layer > 0)
    OBVIOUS
  <2>3. z.ready => z.hidden = u
    OBVIOUS
  <2> QED BY <1>1, <1>7, <1>8, <2>1, <2>2, <2>3, Zenon DEF TextIs, Tells
<1>10. TInv' /\ Views' = [Views EXCEPT ![s] = ViewOf(z, u)]
  <2>1. z.length \in {x.length, x.length + 1}
    OBVIOUS
  <2> QED BY <1>9, <2>1, Decoded DEF r
<1> DEFINE v == Views[s]
           v2 == ViewOf(z, u)
<1>11. /\ IsView(v) /\ v.text = t /\ v.token = x.token /\ v.ready = FALSE /\ v.frozen = FALSE
       /\ v.open = TRUE /\ (IF v.doing = <<>> THEN Append(v.text, v.token) ELSE v.doing) = u
  <2>1. v = Views[s]
    OBVIOUS
  <2> HIDE DEF v
  <2>2. Pending(v, x, t, u)
    BY <2>1, PendingIs
  <2> QED BY <2>2 DEF Pending
<1>12. /\ IsView(v2) /\ v2.text = u /\ v2.token = z.token /\ v2.ready = z.ready /\ v2.frozen = FALSE
       /\ v2.doing = <<>> /\ v2.open = TRUE
  <2>1. /\ IsView(v2) /\ v2.text = u /\ v2.token = z.token /\ v2.ready = z.ready /\ v2.frozen = z.frozen
        /\ v2.doing = (IF z.layer > 0 THEN z.hidden ELSE <<>>) /\ v2.open = (z.mode # "none")
    BY ViewOfIs
  <2>2. y.frozen = x.frozen /\ y.mode = x.mode
    <3> DEFINE n == x.length + 1
    <3>1. n \in Nat /\ y = MapPagesFor(s, x, n) /\ CanMap(x, n)
      BY <1>1, <1>3
    <3> HIDE DEF n
    <3> QED BY <1>1, <3>1, Mapped
  <2> HIDE DEF v2
  <2>3. v2.doing = <<>> /\ v2.frozen = FALSE
    BY <1>1, <1>4, <2>1, <2>2
  <2>4. v2.open = TRUE
    BY <1>1, <1>4, <2>1, <2>2
  <2> QED BY <2>1, <2>3, <2>4
<1>13. v.open /\ ~v.frozen /\ ~v.ready
  <2> HIDE DEF v
  <2> QED BY <1>11
<1> DEFINE pend == IF v.doing = <<>> THEN Append(v.text, v.token) ELSE v.doing
<1>14. pend = u
  BY <1>11
<1>15. Gen!Becomes(s, v2)
  <2> HIDE DEF v2
  <2> QED BY <1>1, <1>10, BecomesIs DEF v2
<1>16. CASE z.hidden = u /\ z.token = x.token /\ z.ready = TRUE
  <2> DEFINE w == [v EXCEPT !.text = u, !.doing = <<>>, !.ready = TRUE]
  <2>1. v2 = w
    <3>1. /\ IsView(w) /\ w.text = u /\ w.doing = <<>> /\ w.token = v.token /\ w.ready = TRUE
          /\ w.frozen = v.frozen /\ w.open = v.open
      <4> HIDE DEF v
      <4> QED BY <1>11 DEF IsView
    <3> HIDE DEF v, w, v2
    <3>2. /\ v2.doing = w.doing /\ v2.text = w.text /\ v2.token = w.token
          /\ v2.ready = w.ready /\ v2.frozen = w.frozen /\ v2.open = w.open
      BY <1>11, <1>12, <1>16, <3>1
    <3> QED BY <1>12, <3>1, <3>2, SameView
  <2> HIDE DEF pend, v2
  <2>2. Gen!Becomes(s, [v EXCEPT !.text = pend, !.doing = <<>>, !.ready = TRUE])
    BY <1>14, <1>15, <2>1
  <2>3. Gen!ReadPending(s)
    BY <1>13, <2>2 DEF Gen!ReadPending, Gen!Filling, Views, See, pend
  <2> QED BY <1>10, <2>3
<1>17. CASE z.token \in Handles /\ z.ready = FALSE
  <2> DEFINE w == Gen!View(u, <<>>, z.token, FALSE, FALSE)
  <2>1. v2 = w
    <3>1. /\ IsView(w) /\ w.text = u /\ w.doing = <<>> /\ w.token = z.token /\ w.ready = FALSE
          /\ w.frozen = FALSE /\ w.open = TRUE
      BY DEF Gen!View, IsView
    <3> HIDE DEF w, v2
    <3> QED BY <1>12, <1>17, <3>1, SameView
  <2>2. Views'[s] = v2
    <3> HIDE DEF v2
    <3> QED BY <1>1, <1>10 DEF Views, v2
  <2>3. Views'[s].token = z.token /\ z.token \in Tokens
    <3> HIDE DEF v2
    <3> QED BY <1>12, <1>17, <2>2 DEF Tokens
  <2> HIDE DEF pend, v2
  <2>4. Gen!Becomes(s, Gen!View(pend, <<>>, Views'[s].token, FALSE, FALSE))
    BY <1>14, <1>15, <2>1, <2>3
  <2>5. Gen!ReadPending(s)
    BY <1>13, <2>3, <2>4 DEF Gen!ReadPending, Gen!Filling, Views, See, pend
  <2> QED BY <1>10, <2>5
<1> QED BY <1>16, <1>17

\* A decode reads the pending token through all layers or as far as its budget.
LEMMA DecodeTexts ==
    ASSUME TInv, IInv', NEW s \in Seqs, NEW layers \in 0 .. NumLayers, NEW k \in {s, NoToken},
           DecodeLayers(s, layers, k)
    PROVE  TInv' /\ (Gen!ReadPending(s) \/ UNCHANGED Gen!generationVars)
<1> SUFFICES ASSUME NEW x, x = hd[s], NEW y, y = MapPagesFor(s, x, x.length + 1),
                    NEW deep, deep = Depth(x.layer, layers)
             PROVE  TInv' /\ (Gen!ReadPending(s) \/ UNCHANGED Gen!generationVars)
  OBVIOUS
<1>1. PICK t, u, m : DecodeSteps(s, x, y, t, u, deep, m, k)
  BY DecodeIs
<1>2. /\ s \in Handles /\ CanMap(x, x.length + 1) /\ deep \in Nat
  BY <1>1 DEF Decodes, DecodeSteps
<1>3. x.length \in Nat /\ x.layer \in Nat
  BY <1>2, TextFacts
<1>4. /\ DOMAIN y = Fields /\ y.length = x.length /\ y.hidden = x.hidden /\ y.token = x.token
      /\ y.ready = x.ready
  <2> DEFINE n == x.length + 1
  <2>1. n \in Nat /\ y = MapPagesFor(s, x, n) /\ CanMap(x, n)
    BY <1>2, <1>3
  <2> HIDE DEF n
  <2> QED BY <1>2, <2>1, Mapped
<1>5. (deep = 0 => x.layer = 0) /\ deep <= NumLayers /\ NumLayers \in Nat /\ NumLayers > 0
  BY <1>3, Sizes DEF Depth, Least
<1>6. CASE deep = 0
  <2> DEFINE z == [y EXCEPT !.hidden = IF deep = 0 THEN @ ELSE u, !.layer = deep]
  <2>1. Step(s, z, m)
    BY <1>1, <1>5, <1>6 DEF DecodeSteps
  <2>2. /\ SameBut(y, z, {"length", "layer", "hidden", "token", "ready"}) /\ z.length = x.length
        /\ z.layer = 0 /\ z.hidden = x.hidden /\ z.token = x.token /\ z.ready = x.ready
    BY <1>4, <1>6 DEF SameBut, Fields
  <2> HIDE DEF z
  <2>3. Decodes(s, x, y, t, u, 0, m) /\ x.layer = 0
    BY <1>1, <1>5, <1>6 DEF DecodeSteps
  <2> QED BY <2>1, <2>2, <2>3, DecodeNone
<1>7. CASE deep # 0 /\ deep < NumLayers
  <2> DEFINE z == [y EXCEPT !.hidden = IF deep = 0 THEN @ ELSE u, !.layer = deep]
  <2>1. Step(s, z, m)
    BY <1>1, <1>7 DEF DecodeSteps
  <2>2. /\ SameBut(y, z, {"length", "layer", "hidden", "token", "ready"}) /\ z.length = x.length
        /\ z.layer = deep /\ z.hidden = u /\ z.token = x.token /\ z.ready = x.ready
    BY <1>4, <1>7 DEF SameBut, Fields
  <2> HIDE DEF z
  <2>3. deep > 0
    BY <1>2, <1>7
  <2>4. Decodes(s, x, y, t, u, deep, m)
    BY <1>1 DEF DecodeSteps
  <2> QED BY <2>1, <2>2, <2>3, <2>4, DecodeSome
<1>8. CASE ~(deep < NumLayers) /\ k = NoToken
  <2> DEFINE z == [y EXCEPT !.length = @ + 1, !.layer = 0, !.hidden = u, !.ready = TRUE]
  <2>1. Step(s, z, m)
    BY <1>1, <1>8 DEF DecodeSteps
  <2>2. /\ SameBut(y, z, {"length", "layer", "hidden", "token", "ready"}) /\ z.length = x.length + 1
        /\ z.layer = 0 /\ z.hidden = u /\ z.token = x.token /\ z.ready = TRUE
    BY <1>4 DEF SameBut, Fields
  <2> HIDE DEF z
  <2>3. deep = NumLayers
    BY <1>2, <1>5, <1>8
  <2>4. Decodes(s, x, y, t, u, NumLayers, m)
    BY <1>1, <2>3 DEF DecodeSteps
  <2> QED BY <2>1, <2>2, <2>4, DecodeAll
<1>9. CASE ~(deep < NumLayers) /\ k # NoToken
  <2> DEFINE w == [y EXCEPT !.length = @ + 1, !.layer = 0, !.hidden = u, !.ready = TRUE]
             z == [w EXCEPT !.hidden = <<>>, !.token = k, !.ready = FALSE]
  <2>1. Step(s, z, m)
    BY <1>1, <1>9 DEF DecodeSteps
  <2>2. /\ SameBut(y, z, {"length", "layer", "hidden", "token", "ready"}) /\ z.length = x.length + 1
        /\ z.layer = 0 /\ z.token = k /\ z.ready = FALSE
    BY <1>4 DEF SameBut, Fields
  <2> HIDE DEF z
  <2>3. deep = NumLayers /\ k \in Handles
    BY <1>2, <1>5, <1>9
  <2>4. Decodes(s, x, y, t, u, NumLayers, m) /\ z.token \in Handles
    BY <1>1, <2>2, <2>3 DEF DecodeSteps
  <2> QED BY <2>1, <2>2, <2>4, DecodeAll
<1> QED BY <1>2, <1>5, <1>6, <1>7, <1>8, <1>9

-----------------------------------------------------------------------------
(* A text taken over from a frozen prefix. *)

\* A text has a tail page unless its pages are full.
LEMMA TailIs ==
    ASSUME NEW n \in Nat
    PROVE  /\ n % PagePositions = 0 => PagesOf(n) = FullPages(n)
           /\ n % PagePositions # 0 => PagesOf(n) = FullPages(n) + 1
<1> DEFINE d == FullPages(n)
           r == n % PagePositions
<1>1. d \in Nat /\ r \in Nat /\ d * PagePositions \in Nat /\ n = d * PagePositions + r
  BY Sizes DEF FullPages
<1>2. /\ PagesOf(n) \in Nat /\ n <= PagesOf(n) * PagePositions /\ d <= PagesOf(n)
      /\ PagesOf(n) <= d + 1
  BY PagesOfIs, OneTail
<1> HIDE DEF d, r
<1>3. CASE r = 0
  <2>1. n = d * PagePositions
    BY <1>1, <1>3
  <2>2. PagesOf(d * PagePositions) = d
    BY <1>1, PagesOfPages
  <2> QED BY <1>3, <2>1, <2>2 DEF r, d
<1>4. CASE r # 0
  <2>1. d # PagesOf(n)
    BY <1>1, <1>2, <1>4
  <2>2. PagesOf(n) = d + 1
    BY <1>1, <1>2, <2>1
  <2> QED BY <1>4, <2>2 DEF r, d
<1> QED BY <1>3, <1>4

\* A holder over the head of another one's table may have it where both share it.
LEMMA SharedApart ==
    ASSUME IInv, PagesApart, NEW h \in Handles, NEW q \in Handles \ {h}, hd[q].frozen,
           NEW x, HeadsOf(x, hd[q]), Len(x.table) <= x.shared, x.shared \in Nat
    PROVE  Apart(h, x)
<1>0. Len(x.table) \in Nat /\ Len(hd[q].table) \in Nat
  BY TablesIs DEF HeadsOf
<1>1. \A k \in 1 .. Len(x.table) : k \in 1 .. Len(hd[q].table) /\ x.table[k] = hd[q].table[k]
  BY <1>0 DEF HeadsOf
<1>2. Placed(x.table)
  <2>1. Placed(hd[q].table)
    BY DEF PagesApart, Apart
  <2> QED BY <1>1, <2>1 DEF Placed
<1>3. ASSUME NEW g \in Handles \ {h}, NEW k \in 1 .. Len(x.table),
             k <= Len(hd[g].table), x.table[k] = hd[g].table[k]
      PROVE  SharesAt(x, k) /\ SharesAt(hd[g], k)
  <2>1. SharesAt(x, k)
    BY <1>0, <1>3 DEF SharesAt
  <2>2. CASE g = q
    BY <2>1, <2>2 DEF SharesAt
  <2>3. CASE g # q
    <3>1. hd[q].table[k] = hd[g].table[k] /\ k \in 1 .. Len(hd[q].table)
      BY <1>1, <1>3
    <3>2. Apart(q, hd[q]) /\ g \in Handles \ {q}
      BY <2>3 DEF PagesApart
    <3> QED BY <1>3, <2>1, <3>1, <3>2 DEF Apart
  <2> QED BY <2>2, <2>3
<1> QED BY <1>2, <1>3 DEF Apart

\* The pages of a frozen prefix's text, in the places they have there.
TakesPages(y, m, q) ==
    \A k \in 1 .. PagesOf(hd[q].length) :
        y.table[k] \in DOMAIN m /\ m[y.table[k]] = mem[hd[q].table[k]]

\* A handle that follows it over such pages.
Following(h, q, x, m) ==
    /\ q \in Prefixes /\ q # h /\ hd[q].frozen
    /\ Apart(h, x) /\ HeadFull(x) /\ Spares(h, m) /\ TakesPages(x, m, q)
    /\ x.length = hd[q].length /\ x.layer = 0 /\ x.hidden = hd[q].hidden /\ x.token = hd[q].token
    /\ x.frozen = FALSE /\ x.mode # "none"
    /\ x.ready \in BOOLEAN /\ (x.ready => h \notin Prefixes /\ hd[q].token # NoToken)
    /\ Step(h, x, m) /\ blob' = blob

\* A prefix is never within a token, and its table covers its rows.
LEMMA OfPrefix ==
    ASSUME TInv, NEW q \in Prefixes, NEW x, x = hd[q]
    PROVE  /\ q \in Handles /\ x.layer = 0 /\ LiveRows(x) = x.length /\ x.length \in Nat
           /\ Pageful(x.table) /\ Len(x.table) \in Nat /\ PagesOf(x.length) <= Len(x.table)
           /\ PagesOf(x.length) \in Nat /\ Sound(x)
<1>1. q \in Handles
  BY DEF Handles
<1>2. Sound(x) /\ Shaped(x) /\ KindOf(q, x) /\ x.length \in Nat /\ Len(x.table) \in Nat
  BY <1>1, TextFacts
<1>3. x.layer = 0 /\ LiveRows(x) = x.length
  BY <1>2 DEF KindOf, LiveRows
<1> QED BY <1>1, <1>2, <1>3, ShapedIs, PagesOfIs DEF Sound, Covers

\* A handle that takes over another's rows tells that one's text.
LEMMA FollowTexts ==
    ASSUME TInv, IInv', NEW h \in Handles, NEW q, NEW x, NEW m, Following(h, q, x, m),
           NEW t, TextIs(q, hd[q], LiveIn(mem, hd[q]), t)
    PROVE  TInv' /\ Views' = [Views EXCEPT ![h] = ViewOf(x, t)]
<1> DEFINE f == hd[q]
<1>1. /\ q \in Prefixes /\ f.frozen /\ Apart(h, x) /\ HeadFull(x) /\ Spares(h, m) /\ TakesPages(x, m, q)
      /\ x.length = f.length /\ x.layer = 0 /\ x.hidden = f.hidden /\ x.token = f.token
      /\ x.mode # "none" /\ Step(h, x, m) /\ blob' = blob
  BY DEF Following
<1>2. /\ q \in Handles /\ f.layer = 0 /\ LiveRows(f) = f.length /\ f.length \in Nat
      /\ Sound(f)
  BY <1>1, OfPrefix
<1>3. LiveRows(x) = f.length
  BY <1>1, <1>2 DEF LiveRows
<1>4. InMemory(mem, f)
  BY <1>2, TextFacts
<1>5. ASSUME NEW pos \in 0 .. f.length - 1 PROVE Found(m, x, pos) = Found(mem, f, pos)
  <2> DEFINE k == (pos \div PagePositions) + 1
             i == pos % PagePositions
  <2>1. k \in 1 .. Len(f.table)
    BY <1>2, LiveAt
  <2>2. k \in 1 .. PagesOf(f.length)
    BY <1>2, PagesOfIs, PlaceCovered
  <2>3. f.table[k] \in DOMAIN mem
    <3> HIDE DEF k
    <3> QED BY <1>4, <2>1 DEF InMemory
  <2>4. x.table[k] \in DOMAIN m /\ m[x.table[k]] = mem[f.table[k]]
    <3> HIDE DEF k
    <3> QED BY <1>1, <2>2 DEF TakesPages
  <2> QED BY <2>3, <2>4 DEF Found, At
<1>6. LiveIn(m, x) = LiveIn(mem, f)
  <2> HIDE DEF f
  <2> QED BY <1>2, <1>3, <1>5, SameRows
<1> DEFINE r == LiveIn(m, x)
<1>7. /\ t \in Seq(Handles) /\ Len(t) = f.length /\ TellsRows(LiveIn(mem, f), t)
      /\ f.token \in Handles \cup {NoToken} /\ f.hidden = t /\ (f.token # NoToken => t # <<>>)
  BY <1>1 DEF TextIs, Tells, Leads
<1> HIDE DEF f, r
<1>8. TellsRows(r, t) /\ Len(t) = x.length
  BY <1>1, <1>6, <1>7 DEF r
<1>9. ~(x.layer > 0) /\ x.ready \in BOOLEAN /\ (x.ready => t # <<>>) /\ (h \in Prefixes => x.ready = FALSE)
  <2>1. ~(x.layer > 0)
    BY <1>1
  <2>2. x.ready \in BOOLEAN /\ (x.ready => f.token # NoToken) /\ (h \in Prefixes => x.ready = FALSE)
    BY DEF f, Following
  <2> QED BY <1>7, <2>1, <2>2
<1>10. TextIs(h, x, r, t)
  <2>1. x.token \in Handles \cup {NoToken} /\ x.hidden = t /\ (x.token # NoToken => t # <<>>)
    BY <1>1, <1>7
  <2>2. Tells(x, r, t)
    BY <1>1, <1>7, <1>8, <1>9, <2>1, Zenon DEF Tells
  <2>3. h \in Prefixes => Leads(x, t)
    BY <1>9, <2>1, Zenon DEF Leads
  <2> QED BY <2>2, <2>3 DEF TextIs
<1>11. TextIs(h, x, LiveIn(m, x), t)
  BY <1>10 DEF r
<1>12. x.mode = "none" => x = NoHandle
  BY <1>1
<1> QED BY <1>1, <1>11, <1>12, StepTexts

\* Full pages shared and the tail copied: what a holder with nothing mapped makes of it.
Shares(h, q, x, y, m) ==
    /\ q \in Prefixes /\ q # h /\ hd[q].frozen
    /\ Shaped(x) /\ HeadsOf(x, hd[q]) /\ Len(x.table) = FullPages(hd[q].length)
    /\ x.shared = FullPages(hd[q].length)
    /\ Lacks(x, hd[q].length) <= x.reserve
    /\ y = MapPagesFor(h, x, hd[q].length) /\ m = TailCopied(y, q)

\* Sharing the full pages and copying the tail, for a begin from a prefix.
LEMMA SharesPages ==
    ASSUME TInv, NEW h \in Handles, NEW q, NEW x, NEW y, NEW m, Shares(h, q, x, y, m)
    PROVE  /\ Apart(h, y) /\ Spares(h, m) /\ TakesPages(y, m, q)
           /\ SameBut(x, y, {"table", "reserve"}) /\ y.shared * PagePositions <= hd[q].length
<1> SUFFICES ASSUME NEW f, f = hd[q], NEW n, n = f.length, NEW d, d = FullPages(n)
             PROVE  /\ Apart(h, y) /\ Spares(h, m) /\ TakesPages(y, m, q)
                    /\ SameBut(x, y, {"table", "reserve"}) /\ y.shared * PagePositions <= n
  OBVIOUS
<1>0. /\ q \in Prefixes /\ q # h /\ f.frozen /\ Shaped(x) /\ HeadsOf(x, f)
      /\ Len(x.table) = d /\ x.shared = d /\ Lacks(x, n) <= x.reserve
      /\ y = MapPagesFor(h, x, n) /\ m = TailCopied(y, q)
  BY DEF Shares
<1>1. /\ q \in Handles /\ n \in Nat /\ PagesOf(n) <= Len(f.table) /\ PagesOf(n) \in Nat
      /\ Len(f.table) \in Nat /\ IInv /\ PagesApart
  BY <1>0, OfPrefix DEF TInv
<1>2. /\ d \in Nat /\ d * PagePositions <= n /\ d <= PagesOf(n)
      /\ n % PagePositions = 0 => PagesOf(n) = d
      /\ n % PagePositions # 0 => PagesOf(n) = d + 1
  BY <1>1, FullPagesIs, OneTail, TailIs
<1>3. Apart(h, x)
  <2>1. q \in Handles \ {h} /\ Len(x.table) <= x.shared /\ x.shared \in Nat
    BY <1>0, <1>1, <1>2
  <2> QED BY <1>0, <1>1, <2>1, SharedApart
<1>4. /\ Apart(h, y)
      /\ \A k \in 1 .. Len(x.table) : y.table[k] = x.table[k]
      /\ \A k \in Len(x.table) + 1 .. Len(y.table) : y.table[k] \notin Others(h)
  BY <1>0, <1>1, <1>3, MapsApart
<1>5. SameBut(x, y, {"table", "reserve"}) /\ Len(y.table) = PagesOf(n) /\ Pageful(y.table)
  <2>1. Shaped(y) /\ SameBut(x, y, {"table", "reserve"}) /\ Len(y.table) = Most(Len(x.table), PagesOf(n))
    BY <1>0, <1>1, Maps
  <2>2. Pageful(y.table)
    BY <2>1, ShapedIs
  <2> QED BY <1>0, <1>1, <1>2, <2>1, <2>2 DEF Most
<1>6. y.shared * PagePositions <= n
  <2>1. y.shared = x.shared
    BY <1>5 DEF SameBut, Fields
  <2> QED BY <1>0, <1>2, <2>1
<1>7. \A k \in 1 .. Len(f.table) : f.table[k] \in DOMAIN mem /\ f.table[k] \in Others(h)
  <2> TAKE k \in 1 .. Len(f.table)
  <2>1. f.table[k] \in DOMAIN mem
    BY <1>1 DEF PagesApart
  <2>2. q \in Handles \ {h}
    BY <1>0, <1>1
  <2> QED BY <1>1, <2>1, <2>2, OfOthers
<1>8. \A k \in 1 .. d : y.table[k] = f.table[k] /\ k \in 1 .. Len(f.table)
  BY <1>0, <1>1, <1>2, <1>4 DEF HeadsOf
<1>9. CASE n % PagePositions = 0
  <2>1. m = mem
    BY <1>0, <1>9 DEF TailCopied
  <2>2. TakesPages(y, m, q)
    BY <1>2, <1>7, <1>8, <1>9, <2>1 DEF TakesPages
  <2> QED BY <1>4, <1>5, <1>6, <2>1, <2>2, SparesItself
<1>10. CASE n % PagePositions # 0
  <2> DEFINE p == y.table[d + 1]
             to == <<p>>
             from == <<f.table[d + 1]>>
  <2>1. m = Copied(mem, to, from)
    <3>1. SX!Last(y.table) = p
      BY <1>2, <1>5, <1>10 DEF SX!Last
    <3>2. PagesOf(n) = d + 1
      BY <1>2, <1>10
    <3> HIDE DEF p
    <3> QED BY <1>0, <1>10, <3>1, <3>2 DEF TailCopied
  <2>2. p \notin Others(h)
    <3>1. d + 1 \in Len(x.table) + 1 .. Len(y.table)
      BY <1>0, <1>2, <1>5, <1>10
    <3> QED BY <1>4, <3>1
  <2>3. DOMAIN to = {1} /\ to[1] = p /\ from[1] = f.table[d + 1]
    OBVIOUS
  <2> HIDE DEF to, from, p
  <2>4. Spares(h, m)
    <3>1. \A i \in DOMAIN to : to[i] \notin Others(h)
      BY <2>2, <2>3
    <3> QED BY <1>1, <2>1, <3>1, SparesCopied
  <2>5. p \in DOMAIN m /\ m[p] = mem[f.table[d + 1]]
    <3>1. 1 \in DOMAIN to /\ \A j \in DOMAIN to : to[j] = to[1] => j = 1
      BY <2>3
    <3>2. to[1] \in DOMAIN Copied(mem, to, from) /\ Copied(mem, to, from)[to[1]] = mem[from[1]]
      BY <3>1, CopiedIs
    <3> QED BY <2>1, <2>3, <3>2
  <2>6. ASSUME NEW k \in 1 .. d PROVE y.table[k] \in DOMAIN m /\ m[y.table[k]] = mem[f.table[k]]
    <3> DEFINE o == f.table[k]
    <3>1. o \in DOMAIN mem /\ o \in Others(h) /\ y.table[k] = o
      BY <1>7, <1>8
    <3>2. {i \in DOMAIN to : to[i] = o} = {}
      BY <2>2, <2>3, <3>1
    <3> HIDE DEF o
    <3>3. o \in DOMAIN Copied(mem, to, from) /\ Copied(mem, to, from)[o] = mem[o]
      BY <3>1, <3>2 DEF Copied
    <3> QED BY <2>1, <3>1, <3>3 DEF o
  <2>7. TakesPages(y, m, q)
    <3> SUFFICES ASSUME NEW k \in 1 .. PagesOf(n)
                 PROVE  y.table[k] \in DOMAIN m /\ m[y.table[k]] = mem[f.table[k]]
      BY DEF TakesPages
    <3>1. CASE k <= d
      <4>1. k \in 1 .. d
        BY <1>2, <3>1
      <4> QED BY <2>6, <4>1
    <3>2. CASE ~(k <= d)
      <4>1. k = d + 1
        BY <1>1, <1>2, <1>10, <3>2
      <4> QED BY <2>5, <4>1 DEF p
    <3> QED BY <3>1, <3>2
  <2> QED BY <1>4, <1>5, <1>6, <2>4, <2>7
<1> QED BY <1>9, <1>10

\* What is seen of a handle that follows a prefix.
SeenAs(w, v, x) ==
    /\ IsView(w) /\ w.text = v.text /\ w.doing = v.doing /\ w.token = v.token
    /\ w.ready = x.ready /\ w.frozen = FALSE /\ w.open = v.open

\* A handle that follows another looks like it, but for what is its own.
LEMMA FollowView ==
    ASSUME TInv, NEW h \in Handles, NEW q, NEW x, NEW m, Following(h, q, x, m),
           NEW t, TextIs(q, hd[q], LiveIn(mem, hd[q]), t), NEW w, SeenAs(w, Views[q], x)
    PROVE  ViewOf(x, t) = w
<1> SUFFICES ASSUME NEW f, f = hd[q], NEW v, v = Views[q] PROVE ViewOf(x, t) = w
  OBVIOUS
<1> DEFINE u == ViewOf(x, t)
<1>1. /\ q \in Prefixes /\ f.frozen /\ x.layer = 0 /\ x.token = f.token /\ x.frozen = FALSE /\ x.mode # "none"
  BY DEF Following
<1>2. q \in Handles /\ f.layer = 0 /\ f.mode # "none"
  <2>1. q \in Handles /\ f.layer = 0
    BY <1>1, OfPrefix
  <2>2. KindOf(q, f)
    BY <2>1, TextFacts
  <2> QED BY <1>1, <2>1, <2>2 DEF KindOf
<1>3. v = ViewOf(f, t)
  BY <1>2, SeeIs
<1>4. /\ v.text = t /\ v.token = f.token /\ v.doing = (IF f.layer > 0 THEN f.hidden ELSE <<>>)
      /\ v.open = (f.mode # "none")
  BY <1>3, ViewOfIs
<1>5. /\ IsView(u) /\ u.text = t /\ u.token = x.token /\ u.ready = x.ready /\ u.frozen = x.frozen
      /\ u.doing = (IF x.layer > 0 THEN x.hidden ELSE <<>>) /\ u.open = (x.mode # "none")
  BY ViewOfIs
<1>6. /\ IsView(w) /\ w.text = v.text /\ w.doing = v.doing /\ w.token = v.token
      /\ w.ready = x.ready /\ w.frozen = FALSE /\ w.open = v.open
  BY DEF SeenAs
<1> HIDE DEF u
<1>7. ~(x.layer > 0) /\ ~(f.layer > 0)
  BY <1>1, <1>2
<1>8. u.text = w.text /\ u.token = w.token
  BY <1>1, <1>4, <1>5, <1>6
<1>9. u.doing = w.doing
  BY <1>4, <1>5, <1>6, <1>7
<1>10. u.ready = w.ready /\ u.frozen = w.frozen
  BY <1>1, <1>5, <1>6
<1>11. u.open = w.open
  BY <1>1, <1>2, <1>4, <1>5, <1>6
<1>12. u = w
  BY <1>5, <1>6, <1>8, <1>9, <1>10, <1>11, SameView
<1> QED BY <1>12 DEF u

\* A begin from a prefix branches its text.
LEMMA BeginFromTexts ==
    ASSUME TInv, IInv', NEW q \in Prefixes, NEW p \in Prefixes, NEW b \in Budgets, BeginFrom(q, p, b)
    PROVE  TInv' /\ Gen!Branch(q, p)
<1> DEFINE R == ReservationPages("budget", b)
           e == Handle("budget", b, R)
           n == hd[p].length
           x == Sharing(e, p)
           y == MapPagesFor(q, x, n)
           z == Follows(y, p)
           m == TailCopied(y, p)
<1>0. q \in Handles /\ p \in Handles /\ b \in Nat /\ q \notin Seqs
  BY Sizes, HandlesAssumption DEF Handles
<1>1. Step(q, z, m) /\ blob' = blob /\ hd[p].frozen /\ ~Live(q)
  BY DEF BeginFrom, WithTail
<1>2. /\ hd[p].layer = 0 /\ n \in Nat /\ n <= ContextCap
      /\ Pageful(hd[p].table) /\ FullPages(n) \in Nat /\ FullPages(n) <= Len(hd[p].table)
  BY <1>1, OfFrozen DEF TInv
<1>3. p # q
  <2>1. KindOf(p, hd[p])
    BY <1>0, TextFacts
  <2> QED BY <1>1, <2>1 DEF KindOf, Live
<1>4. R \in Nat /\ R >= 1
  BY <1>0, Reservations
<1>5. /\ Shaped(e) /\ e.materialized = 0 /\ e.mode = "budget" /\ e.reserve = R
      /\ e.frozen = FALSE /\ e.ready = FALSE
  BY <1>0, <1>4, HandleShaped DEF Handle
<1> HIDE DEF e
<1>6. /\ SameBut(e, x, {"table", "shared"})
      /\ x.table = SubSeq(hd[p].table, 1, FullPages(n)) /\ x.shared = FullPages(n)
  BY <1>5, ShapedIs DEF Sharing, SameBut, Fields
<1> HIDE DEF x
<1>7. Shaped(x) /\ Len(x.table) = FullPages(n) /\ HeadsOf(x, hd[p])
  <2> HIDE DEF n
  <2> DEFINE t == hd[p].table
             k == FullPages(n)
  <2>1. Pageful(t) /\ k \in Nat /\ k <= Len(t) /\ x.table = SubSeq(t, 1, k) /\ x.shared = k
    BY <1>2, <1>6
  <2> HIDE DEF k
  <2>4. t \in Seq(Range(t)) /\ k \in 0 .. Len(t)
    BY <2>1 DEF Pageful
  <2> HIDE DEF t
  <2>2. Shaped(x) /\ Len(x.table) = k
    BY <1>5, <1>6, <2>1, SharesHead
  <2>3. \A i \in 1 .. k : x.table[i] = t[i]
    BY <2>1, <2>4, HeadOf
  <2> QED BY <2>1, <2>2, <2>3 DEF k, t, HeadsOf
<1>8. x.mode = "budget" /\ x.reserve = R /\ x.frozen = FALSE /\ x.ready = FALSE
  BY <1>5, <1>6 DEF SameBut, Fields
<1>9. Lacks(x, n) <= x.reserve
  <2>1. PagesOf(n) \in Nat /\ PagesOf(n) <= FullPages(n) + 1
    BY <1>2, PagesOfIs, OneTail
  <2> HIDE DEF n, R
  <2> QED BY <1>2, <1>4, <1>7, <1>8, <2>1 DEF Lacks, Most
<1>10. Shares(q, p, x, y, m)
  BY <1>1, <1>3, <1>6, <1>7, <1>9 DEF Shares
<1>11. /\ Apart(q, y) /\ Spares(q, m) /\ TakesPages(y, m, p)
       /\ SameBut(x, y, {"table", "reserve"}) /\ y.shared * PagePositions <= n
  <2> HIDE DEF y, m
  <2> QED BY <1>0, <1>10, SharesPages
<1> HIDE DEF y, m, R
<1>12. /\ z.table = y.table /\ z.shared = y.shared /\ z.length = n /\ z.layer = hd[p].layer
       /\ z.hidden = hd[p].hidden /\ z.token = hd[p].token /\ z.mode = "budget" /\ z.frozen = FALSE
       /\ z.ready = FALSE
  <2>1. /\ DOMAIN y = Fields /\ y.mode = "budget" /\ y.frozen = FALSE /\ y.ready = FALSE
    BY <1>8, <1>11 DEF SameBut, Fields
  <2> QED BY <2>1 DEF Follows, Fields
<1> HIDE DEF z
<1>13. Following(q, p, z, m)
  <2>1. Apart(q, z)
    <3>1. y.frozen = FALSE
      BY <1>8, <1>11 DEF SameBut, Fields
    <3> QED BY <1>11, <1>12, <3>1 DEF Apart, SharesAt
  <2>2. HeadFull(z)
    BY <1>11, <1>12 DEF HeadFull
  <2>3. TakesPages(z, m, p)
    BY <1>11, <1>12 DEF TakesPages
  <2> QED BY <1>1, <1>2, <1>3, <1>11, <1>12, <2>1, <2>2, <2>3 DEF Following
<1>14. PICK t : TextIs(p, hd[p], LiveIn(mem, hd[p]), t)
  BY <1>0, TextFacts
<1>15. TInv' /\ Views' = [Views EXCEPT ![q] = ViewOf(z, t)]
  BY <1>0, <1>12, <1>13, <1>14, FollowTexts
<1> DEFINE v == Views[p]
           w == [v EXCEPT !.frozen = FALSE]
<1>16. IsView(v) /\ v.ready = FALSE /\ v.frozen /\ v.open = TRUE
  <2>1. v = ViewOf(hd[p], t)
    BY <1>0, <1>14, SeeIs
  <2>2. hd[p].ready = FALSE
    BY <1>14 DEF TextIs, Leads
  <2>3. (hd[p].mode # "none") = TRUE
    <3>1. KindOf(p, hd[p])
      BY <1>0, TextFacts
    <3> QED BY <1>1, <3>1 DEF KindOf
  <2>4. /\ IsView(v) /\ v.ready = hd[p].ready /\ v.frozen = hd[p].frozen
        /\ v.open = (hd[p].mode # "none")
    BY <2>1, ViewOfIs
  <2> HIDE DEF v
  <2> QED BY ONLY <1>1, <2>2, <2>3, <2>4
<1>17. SeenAs(w, v, z)
  <2> HIDE DEF v
  <2> QED BY <1>12, <1>16 DEF IsView, SeenAs
<1>18. ViewOf(z, t) = w
  <2> HIDE DEF w
  <2> QED BY <1>0, <1>13, <1>14, <1>17, FollowView
<1>19. Gen!Becomes(q, w)
  <2>1. Views' = [Views EXCEPT ![q] = w]
    BY <1>15, <1>18
  <2> HIDE DEF w
  <2> QED BY <1>0, <1>1, <2>1, BecomesIs
<1>20. ~Views[q].open
  BY <1>0, <1>1, OpenIs
<1>21. Gen!Branch(q, p)
  BY <1>16, <1>19, <1>20 DEF Gen!Branch, Views, See
<1> QED BY <1>15, <1>21

\* Every page of a prefix's text copied into pages just mapped.
Copies(h, q, x, y, m) ==
    /\ q \in Prefixes /\ q # h /\ hd[q].frozen
    /\ Shaped(x) /\ Len(x.table) = 0 /\ x.shared = 0
    /\ Lacks(x, hd[q].length) <= x.reserve
    /\ y = MapPagesFor(h, x, hd[q].length)
    /\ m = Copied(mem, SubSeq(y.table, 1, CopiedPages(q)), hd[q].table)

\* Copying every page into pages of its own.
LEMMA CopiesPages ==
    ASSUME TInv, NEW h \in Handles, NEW q, NEW x, NEW y, NEW m, Copies(h, q, x, y, m)
    PROVE  /\ Apart(h, y) /\ Spares(h, m) /\ TakesPages(y, m, q)
           /\ SameBut(x, y, {"table", "reserve"}) /\ y.shared * PagePositions <= hd[q].length
<1> SUFFICES ASSUME NEW f, f = hd[q], NEW n, n = f.length, NEW to, to = SubSeq(y.table, 1, PagesOf(n))
             PROVE  /\ Apart(h, y) /\ Spares(h, m) /\ TakesPages(y, m, q)
                    /\ SameBut(x, y, {"table", "reserve"}) /\ y.shared * PagePositions <= n
  OBVIOUS
<1>0. /\ q \in Prefixes /\ Shaped(x) /\ Len(x.table) = 0 /\ x.shared = 0 /\ Lacks(x, n) <= x.reserve
      /\ y = MapPagesFor(h, x, n) /\ m = Copied(mem, to, f.table)
  BY DEF Copies, CopiedPages
<1>1. /\ q \in Handles /\ n \in Nat /\ PagesOf(n) <= Len(f.table) /\ PagesOf(n) \in Nat
      /\ IInv /\ PagesApart
  BY <1>0, OfPrefix DEF TInv
<1>2. Apart(h, x)
  BY <1>0 DEF Apart, Placed
<1>3. /\ Apart(h, y)
      /\ \A k \in Len(x.table) + 1 .. Len(y.table) : y.table[k] \notin Others(h)
  BY <1>0, <1>1, <1>2, MapsApart
<1>4. SameBut(x, y, {"table", "reserve"}) /\ Len(y.table) = PagesOf(n) /\ Pageful(y.table)
  <2>1. Shaped(y) /\ SameBut(x, y, {"table", "reserve"}) /\ Len(y.table) = Most(Len(x.table), PagesOf(n))
    BY <1>0, <1>1, Maps
  <2>2. Pageful(y.table)
    BY <2>1, ShapedIs
  <2> QED BY <1>0, <1>1, <2>1, <2>2 DEF Most
<1>5. y.shared * PagePositions <= n
  <2>1. y.shared = 0
    BY <1>0, <1>4 DEF SameBut, Fields
  <2>2. 0 * PagePositions = 0
    BY Sizes
  <2> QED BY <1>1, <2>1, <2>2
<1>6. DOMAIN to = 1 .. PagesOf(n) /\ \A k \in 1 .. PagesOf(n) : to[k] = y.table[k]
  <2> DEFINE t == y.table
  <2>1. t \in Seq(Range(t)) /\ PagesOf(n) \in 0 .. Len(t) /\ to = SubSeq(t, 1, PagesOf(n))
    BY <1>1, <1>4 DEF Pageful
  <2> HIDE DEF t
  <2>2. to \in Seq(Range(t)) /\ Len(to) = PagesOf(n) /\ \A k \in 1 .. PagesOf(n) : to[k] = t[k]
    BY <2>1, HeadOf
  <2> QED BY <2>2 DEF t
<1>7. \A k \in DOMAIN to : to[k] \notin Others(h)
  BY <1>0, <1>3, <1>4, <1>6
<1>8. Spares(h, m)
  BY <1>0, <1>1, <1>7, SparesCopied
<1>9. ASSUME NEW k \in 1 .. PagesOf(n)
      PROVE  y.table[k] \in DOMAIN m /\ m[y.table[k]] = mem[f.table[k]]
  <2>0. \A j \in 1 .. PagesOf(n) : y.table[j][2] = j
    <3>1. Placed(y.table) /\ Len(y.table) = PagesOf(n)
      BY <1>3, <1>4 DEF Apart
    <3> QED BY <3>1 DEF Placed
  <2>1. \A j \in DOMAIN to : to[j] = to[k] => j = k
    <3> SUFFICES ASSUME NEW j \in 1 .. PagesOf(n), to[j] = to[k] PROVE j = k
      BY <1>6
    <3>1. y.table[j] = y.table[k]
      BY <1>6
    <3>2. y.table[j][2] = j /\ y.table[k][2] = k
      BY ONLY <2>0, j \in 1 .. PagesOf(n), k \in 1 .. PagesOf(n), Zenon
    <3> QED BY <3>1, <3>2, Zenon
  <2>2. k \in DOMAIN to
    BY <1>6
  <2>3. to[k] \in DOMAIN Copied(mem, to, f.table) /\ Copied(mem, to, f.table)[to[k]] = mem[f.table[k]]
    <3> DEFINE g == f.table
    <3> HIDE DEF g
    <3>1. to[k] \in DOMAIN Copied(mem, to, g) /\ Copied(mem, to, g)[to[k]] = mem[g[k]]
      BY ONLY <2>1, <2>2, CopiedIs
    <3> QED BY <3>1 DEF g
  <2>4. to[k] = y.table[k]
    BY <1>6
  <2>5. m = Copied(mem, to, f.table)
    BY <1>0
  <2> QED BY <2>3, <2>4, <2>5, Zenon
<1>10. TakesPages(y, m, q)
  BY <1>9 DEF TakesPages
<1> QED BY <1>3, <1>4, <1>5, <1>8, <1>10

\* What an adopter's holder and the memory are once it has the pages.
Takes(s, q, e, y, m) ==
    /\ Apart(s, y) /\ Spares(s, m) /\ TakesPages(y, m, q)
    /\ SameBut(e, y, {"table", "shared", "reserve"}) /\ y.shared * PagePositions <= hd[q].length
    /\ Step(s, [Follows(y, q) EXCEPT !.ready = hd[q].token # NoToken], m)

\* An adopt shares or copies, after it has given its own pages back.
LEMMA AdoptTakes ==
    ASSUME TInv, NEW s \in Seqs, NEW q \in Prefixes, AdoptPrefix(s, q),
           NEW e, e = UnmapAll(hd[s])
    PROVE  \E y, m : Takes(s, q, e, y, m)
<1> DEFINE n == hd[q].length
<1>0. s \in Handles /\ s \notin Prefixes /\ q # s /\ IInv
  BY HandlesAssumption DEF Handles, TInv
<1>1. hd[s].mode # "none" /\ hd[q].frozen /\ AdoptNeeds(s, q) <= e.reserve
  BY DEF AdoptPrefix, Live, CanAdopt
<1>2. /\ hd[q].layer = 0 /\ n \in Nat /\ n <= ContextCap
      /\ Pageful(hd[q].table) /\ FullPages(n) \in Nat /\ FullPages(n) <= Len(hd[q].table)
  BY <1>0, <1>1, OfFrozen
<1>3. /\ Sound(hd[s]) /\ KindOf(s, hd[s]) /\ Shaped(hd[s])
  BY <1>0, OfHandle
<1>4. hd[s].mode \in {"whole", "budget"} /\ hd[s].budget \in Nat /\ ~hd[s].frozen
  BY <1>0, <1>1, <1>3, ShapedIs DEF KindOf
<1>5. /\ Shaped(e) /\ e.table = <<>> /\ e.shared = 0 /\ e.materialized = 0
      /\ e.reserve = ReservationPages(hd[s].mode, hd[s].budget)
  BY <1>1, <1>3, <1>4, UnmapAllIs
<1>6. PagesOf(n) \in Nat /\ FullPages(n) <= PagesOf(n) /\ e.reserve \in Nat /\ Len(e.table) = 0
  BY <1>2, <1>5, PagesOfIs, OneTail, ShapedIs, Empty
<1>7. CASE hd[s].mode = "budget"
  <2> DEFINE x == Sharing(e, q)
             y == MapPagesFor(s, x, n)
             m == TailCopied(y, q)
  <2>1. Step(s, [Follows(y, q) EXCEPT !.ready = hd[q].token # NoToken], m)
    BY <1>7 DEF AdoptPrefix, WithTail
  <2>2. /\ SameBut(e, x, {"table", "shared"})
        /\ x.table = SubSeq(hd[q].table, 1, FullPages(n)) /\ x.shared = FullPages(n)
    BY <1>5, ShapedIs DEF Sharing, SameBut, Fields
  <2> HIDE DEF x
  <2>3. Shaped(x) /\ Len(x.table) = FullPages(n) /\ HeadsOf(x, hd[q])
    <3> HIDE DEF n
    <3> DEFINE t == hd[q].table
               k == FullPages(n)
    <3>1. Pageful(t) /\ k \in Nat /\ k <= Len(t) /\ x.table = SubSeq(t, 1, k) /\ x.shared = k
      BY <1>2, <2>2
    <3> HIDE DEF k
    <3>2. t \in Seq(Range(t)) /\ k \in 0 .. Len(t)
      BY <3>1 DEF Pageful
    <3> HIDE DEF t
    <3>3. Shaped(x) /\ Len(x.table) = k
      BY <1>5, <2>2, <3>1, SharesHead
    <3>4. \A i \in 1 .. k : x.table[i] = t[i]
      BY <3>1, <3>2, HeadOf
    <3> QED BY <3>1, <3>3, <3>4 DEF k, t, HeadsOf
  <2>4. Lacks(x, n) <= x.reserve
    <3>1. x.reserve = e.reserve
      BY <2>2 DEF SameBut, Fields
    <3>2. AdoptNeeds(s, q) = PagesOf(n) - FullPages(n)
      BY <1>7 DEF AdoptNeeds
    <3> HIDE DEF n
    <3> QED BY <1>1, <1>2, <1>6, <2>3, <3>1, <3>2 DEF Lacks, Most
  <2>5. Shares(s, q, x, y, m)
    BY <1>0, <1>1, <2>2, <2>3, <2>4 DEF Shares
  <2> HIDE DEF y, m
  <2>6. /\ Apart(s, y) /\ Spares(s, m) /\ TakesPages(y, m, q)
        /\ SameBut(x, y, {"table", "reserve"}) /\ y.shared * PagePositions <= n
    BY <1>0, <2>5, SharesPages
  <2>7. SameBut(e, y, {"table", "shared", "reserve"})
    BY <2>2, <2>6 DEF SameBut
  <2> QED BY <2>1, <2>6, <2>7 DEF Takes
<1>8. CASE hd[s].mode # "budget"
  <2> DEFINE y == MapPagesFor(s, e, n)
             m == Copied(mem, SubSeq(y.table, 1, CopiedPages(q)), hd[q].table)
  <2>1. Step(s, [Follows(y, q) EXCEPT !.ready = hd[q].token # NoToken], m)
    BY <1>8 DEF AdoptPrefix
  <2>2. Lacks(e, n) <= e.reserve
    <3>1. AdoptNeeds(s, q) = PagesOf(n)
      BY <1>6, <1>8 DEF AdoptNeeds
    <3> HIDE DEF n
    <3> QED BY <1>1, <1>6, <3>1 DEF Lacks, Most
  <2>3. Copies(s, q, e, y, m)
    BY <1>0, <1>1, <1>5, <1>6, <2>2 DEF Copies
  <2> HIDE DEF y, m
  <2>4. /\ Apart(s, y) /\ Spares(s, m) /\ TakesPages(y, m, q)
        /\ SameBut(e, y, {"table", "reserve"}) /\ y.shared * PagePositions <= n
    BY <1>0, <2>3, CopiesPages
  <2>5. SameBut(e, y, {"table", "shared", "reserve"})
    BY <2>4 DEF SameBut
  <2> QED BY <2>1, <2>4, <2>5 DEF Takes
<1> QED BY <1>7, <1>8

\* An adopt takes over the prefix's text.
LEMMA AdoptTexts ==
    ASSUME TInv, IInv', NEW s \in Seqs, NEW q \in Prefixes, AdoptPrefix(s, q)
    PROVE  TInv' /\ Gen!Adopt(s, q)
<1> SUFFICES ASSUME NEW e, e = UnmapAll(hd[s]), NEW n, n = hd[q].length
             PROVE  TInv' /\ Gen!Adopt(s, q)
  OBVIOUS
<1>0. s \in Handles /\ s \notin Prefixes /\ q \in Handles /\ q # s /\ IInv
  BY HandlesAssumption DEF Handles, TInv
<1>1. hd[s].mode # "none" /\ hd[q].frozen /\ blob' = blob
  BY DEF AdoptPrefix, Live
<1>2. hd[q].layer = 0 /\ n \in Nat
  BY <1>0, <1>1, OfFrozen
<1>3. e.mode = hd[s].mode /\ e.frozen = FALSE /\ e.mode # "none" /\ DOMAIN e = Fields
  <2>1. /\ Sound(hd[s]) /\ KindOf(s, hd[s]) /\ Shaped(hd[s])
    BY <1>0, OfHandle
  <2>2. hd[s].mode \in {"whole", "budget"} /\ hd[s].budget \in Nat /\ ~hd[s].frozen /\ hd[s].frozen = FALSE
    BY <1>0, <1>1, <2>1, ShapedIs DEF KindOf
  <2>3. SameBut(hd[s], e, {"table", "shared", "materialized", "reserve"})
    BY <1>1, <2>1, <2>2, UnmapAllIs
  <2> QED BY <1>1, <2>2, <2>3 DEF SameBut, Fields
<1>4. PICK y, m : Takes(s, q, e, y, m)
  BY AdoptTakes
<1> DEFINE z == [Follows(y, q) EXCEPT !.ready = hd[q].token # NoToken]
<1>5. /\ Apart(s, y) /\ Spares(s, m) /\ TakesPages(y, m, q) /\ Step(s, z, m)
      /\ SameBut(e, y, {"table", "shared", "reserve"}) /\ y.shared * PagePositions <= n
  BY <1>4 DEF Takes
<1>6. DOMAIN y = Fields /\ y.mode = e.mode /\ y.frozen = FALSE
  BY <1>3, <1>5 DEF SameBut, Fields
<1>7. /\ z.table = y.table /\ z.shared = y.shared /\ z.length = n /\ z.layer = hd[q].layer
      /\ z.hidden = hd[q].hidden /\ z.token = hd[q].token /\ z.mode = e.mode /\ z.frozen = FALSE
      /\ z.ready = (hd[q].token # NoToken)
  BY <1>6 DEF Follows, Fields
<1> HIDE DEF z
<1>8. Following(s, q, z, m)
  <2>1. Apart(s, z)
    BY <1>5, <1>6, <1>7 DEF Apart, SharesAt
  <2>2. HeadFull(z)
    BY <1>5, <1>7 DEF HeadFull
  <2>3. TakesPages(z, m, q)
    BY <1>5, <1>7 DEF TakesPages
  <2>4. z.ready \in BOOLEAN /\ (z.ready => s \notin Prefixes /\ hd[q].token # NoToken)
    BY <1>0, <1>7
  <2>5. z.mode # "none"
    BY <1>3, <1>7
  <2> QED BY <1>0, <1>1, <1>2, <1>5, <1>7, <2>1, <2>2, <2>3, <2>4, <2>5 DEF Following
<1>9. PICK t : TextIs(q, hd[q], LiveIn(mem, hd[q]), t)
  BY <1>0, TextFacts
<1>10. TInv' /\ Views' = [Views EXCEPT ![s] = ViewOf(z, t)]
  BY <1>0, <1>8, <1>9, FollowTexts
<1> DEFINE v == Views[q]
           w == [v EXCEPT !.ready = v.token # NoToken, !.frozen = FALSE]
<1>11. IsView(v) /\ v.token = hd[q].token /\ v.frozen
  <2>1. v = ViewOf(hd[q], t)
    BY <1>0, <1>9, SeeIs
  <2> HIDE DEF v
  <2> QED BY <1>1, <2>1, ViewOfIs
<1>12. SeenAs(w, v, z)
  <2> HIDE DEF v
  <2>1. z.ready = (v.token # NoToken)
    BY <1>7, <1>11
  <2> QED BY <1>11, <2>1 DEF IsView, SeenAs
<1>13. ViewOf(z, t) = w
  <2> HIDE DEF w
  <2> QED BY <1>0, <1>8, <1>9, <1>12, FollowView
<1>14. Gen!Becomes(s, w)
  <2>1. Views' = [Views EXCEPT ![s] = w]
    BY <1>10, <1>13
  <2> HIDE DEF w
  <2> QED BY <1>0, <1>1, <2>1, BecomesIs
<1>15. Views[s].open
  BY <1>0, <1>1, OpenIs DEF Live
<1>16. Gen!Adopt(s, q)
  BY <1>11, <1>14, <1>15 DEF Gen!Adopt, Views, See
<1> QED BY <1>10, <1>16

-----------------------------------------------------------------------------
(* Blobs. *)

\* Rows tell a text to whoever has them.
LEMMA TellsOn ==
    ASSUME NEW h, NEW x, NEW s, NEW t, TextIs(h, x, s, t), x.length \in Nat,
           NEW z, z.length = x.length, z.layer = x.layer, z.hidden = x.hidden,
           z.token \in {x.token, NoToken}, z.ready = x.ready, NEW r, \A pos \in 0 .. LiveRows(x) - 1 : r[pos] = s[pos]
    PROVE  TextIs(h, z, r, t)
<1>1. Tells(x, s, t) /\ (h \in Prefixes => Leads(x, t))
  BY DEF TextIs
<1>2. /\ t \in Seq(Handles) /\ Len(t) = x.length /\ TellsRows(s, t)
      /\ x.layer > 0 => HalfRead(x, s, t)
  BY <1>1 DEF Tells
<1>3. TellsRows(r, t)
  <2>1. x.layer > 0 => LiveRows(x) = x.length + 1
    BY DEF LiveRows
  <2>2. ~(x.layer > 0) => LiveRows(x) = x.length
    BY DEF LiveRows
  <2>3. \A i \in 0 .. Len(t) - 1 : i \in 0 .. LiveRows(x) - 1
    BY <1>2, <2>1, <2>2
  <2> QED BY <1>2, <2>3 DEF TellsRows
<1>4. x.layer > 0 => HalfRead(z, r, t)
  <2> SUFFICES ASSUME x.layer > 0 PROVE HalfRead(z, r, t)
    OBVIOUS
  <2>1. LiveRows(x) = x.length + 1
    BY DEF LiveRows
  <2>2. r[x.length] = s[x.length]
    BY <2>1
  <2> QED BY <1>2, <2>2 DEF HalfRead
<1>5. Tells(z, r, t)
  <2>1. z.token \in Handles \cup {NoToken}
    BY <1>1 DEF Tells
  <2> QED BY <1>1, <1>2, <1>3, <1>4, <2>1, Zenon DEF Tells
<1>6. h \in Prefixes => Leads(z, t)
  <2>1. z.token # NoToken => x.token # NoToken
    OBVIOUS
  <2> QED BY <1>1, <2>1, Zenon DEF Leads
<1> QED BY <1>5, <1>6 DEF TextIs

\* The text of a blob is what its rows tell.
LEMMA BlobTextIs ==
    ASSUME NEW b, NEW t, Tells(b, b.rows, t)
    PROVE  BlobText(b) = t
<1>1. t \in Seq(Handles) /\ Len(t) = b.length /\ TellsRows(b.rows, t)
  BY DEF Tells
<1>2. CASE b.length = 0
  BY <1>1, <1>2 DEF BlobText
<1>3. CASE b.length # 0
  <2> DEFINE n == b.length
             r == b.rows
  <2>1. n \in Nat /\ n - 1 \in 0 .. n - 1 /\ (n - 1) + 1 = n /\ n # 0 /\ Len(t) = n
    BY <1>1, <1>3
  <2>2. \A i \in 0 .. n - 1 : r[i] = Row(SubSeq(t, 1, i + 1), NumLayers)
    BY <1>1 DEF TellsRows
  <2>3. SubSeq(t, 1, (n - 1) + 1) = t
    BY <1>1, <2>1, WholeHead
  <2>4. r[n - 1] = Row(t, NumLayers)
    <3> HIDE DEF n, r
    <3> QED BY <2>1, <2>2, <2>3
  <2>5. r[n - 1].text = t
    BY <2>4 DEF Row
  <2>6. BlobText(b) = IF \A i \in 0 .. n - 1 : r[i] = Row(SubSeq(t, 1, i + 1), NumLayers) THEN t ELSE Garbage
    <3>1. BlobText(b) = IF n = 0 THEN <<>>
            ELSE IF \A i \in 0 .. n - 1 : r[i] = Row(SubSeq(r[n - 1].text, 1, i + 1), NumLayers)
                   THEN r[n - 1].text ELSE Garbage
      BY DEF BlobText
    <3> HIDE DEF n, r
    <3> QED BY <2>1, <2>5, <3>1
  <2> HIDE DEF n, r
  <2> QED BY <2>2, <2>6
<1> QED BY <1>2, <1>3

\* A holder over a head that has the blob's rows.
Heads(h, x, b) ==
    /\ Shaped(x) /\ Apart(h, x) /\ x.frozen = FALSE /\ x.shared * PagePositions <= b.length
    /\ \A pos \in 0 .. x.shared * PagePositions - 1 : Here(x, pos) /\ Found(mem, x, pos) = b.rows[pos]

\* A head that a blob's text can be restored over, and the step that does it.
Restores(h, x, b, t) ==
    /\ Heads(h, x, b) /\ x.mode = b.mode /\ b.mode # "none"
    /\ Lacks(x, LiveRows(b)) <= x.reserve
    /\ b.length \in Nat /\ LiveRows(b) \in Nat /\ b.length <= LiveRows(b)
    /\ Restored(h, x, b, x.shared * PagePositions)
    /\ TextIs(h, b, b.rows, t)

\* A restore that puts the blob's rows in place tells the blob's text.
LEMMA RestoredTexts ==
    ASSUME TInv, IInv', NEW h \in Handles, NEW b, NEW x, NEW t, Restores(h, x, b, t), blob' = blob
    PROVE  TInv' /\ Views' = [Views EXCEPT ![h] = ViewOf(b, t)]
<1> DEFINE n == LiveRows(b)
           from == x.shared * PagePositions
           y == MapPagesFor(h, x, n)
           rows == [pos \in from .. n - 1 |-> b.rows[pos]]
           m == Written(mem, y.table, rows)
           z == [y EXCEPT !.origin = b.origin, !.length = b.length, !.layer = b.layer,
                          !.hidden = b.hidden, !.token = b.token, !.ready = b.ready, !.frozen = b.frozen]
<1>1. /\ Shaped(x) /\ Apart(h, x) /\ x.frozen = FALSE /\ x.mode = b.mode /\ b.mode # "none"
      /\ Lacks(x, n) <= x.reserve /\ b.length \in Nat /\ n \in Nat /\ b.length <= n /\ from <= b.length
      /\ TextIs(h, b, b.rows, t)
  BY DEF Restores, Heads
<1>2. \A pos \in 0 .. from - 1 : Here(x, pos) /\ Found(mem, x, pos) = b.rows[pos]
  BY DEF Restores, Heads
<1>3. Step(h, z, m)
  BY DEF Restores, Restored
<1>4. IInv /\ PagesApart /\ x.shared \in Nat /\ from \in Nat /\ Len(x.table) \in Nat
  BY <1>1, ShapedIs, Sizes DEF TInv
<1>5. /\ Shaped(y) /\ SameBut(x, y, {"table", "reserve"}) /\ DOMAIN y = Fields
      /\ Pageful(y.table) /\ PagesOf(n) <= Len(y.table) /\ Len(y.table) \in Nat
      /\ Len(x.table) <= Len(y.table)
  <2> HIDE DEF n
  <2>1. Shaped(y) /\ SameBut(x, y, {"table", "reserve"}) /\ Len(y.table) = Most(Len(x.table), PagesOf(n))
    BY <1>1, Maps
  <2>2. PagesOf(n) \in Nat
    BY <1>1, PagesOfIs
  <2> HIDE DEF y
  <2>3. Pageful(y.table) /\ Len(y.table) \in Nat
    BY <2>1, ShapedIs
  <2> QED BY <1>4, <2>1, <2>2, <2>3 DEF Most, SameBut
<1>6. Apart(h, y) /\ \A k \in 1 .. Len(x.table) : y.table[k] = x.table[k]
  <2>1. /\ Apart(h, MapPagesFor(h, x, n))
        /\ \A k \in 1 .. Len(x.table) : MapPagesFor(h, x, n).table[k] = x.table[k]
    <3> HIDE DEF n
    <3> QED BY <1>1, <1>4, MapsApart
  <2> QED BY <2>1
<1> HIDE DEF y
<1>7. y.shared = x.shared /\ y.frozen = FALSE /\ y.mode = x.mode
  BY <1>1, <1>5 DEF SameBut, Fields
<1>8. /\ z.table = y.table /\ z.shared = x.shared /\ z.length = b.length /\ z.layer = b.layer
      /\ z.hidden = b.hidden /\ z.token = b.token /\ z.ready = b.ready /\ z.frozen = b.frozen
      /\ z.mode = x.mode
  BY <1>5, <1>7 DEF Fields
<1> HIDE DEF z
<1>9. DOMAIN rows = from .. n - 1 /\ \A pos \in from .. n - 1 : rows[pos] = b.rows[pos]
  OBVIOUS
<1> HIDE DEF rows
<1>10. Spares(h, m)
  <2>1. \A pos \in DOMAIN rows : pos \in Nat /\ y.shared * PagePositions <= pos
    BY <1>4, <1>7, <1>9
  <2> QED BY <1>4, <1>5, <1>6, <1>7, <2>1, SparesWritten
<1>11. Placed(y.table)
  BY <1>6 DEF Apart
<1>12. ASSUME NEW pos \in 0 .. n - 1 PROVE Found(m, y, pos) = b.rows[pos]
  <2>1. pos \in Nat /\ pos < n
    BY <1>1
  <2>2. Here(y, pos)
    <3> HIDE DEF n
    <3> QED BY <1>1, <1>5, <2>1, PlaceCovered DEF Here
  <2>3. CASE from <= pos
    <3>1. pos \in DOMAIN rows /\ rows[pos] = b.rows[pos]
      BY <1>4, <1>9, <2>1, <2>3
    <3>2. Pageful(y.table) /\ Placed(y.table) /\ pos \in DOMAIN rows
      BY <1>5, <1>11, <3>1
    <3>3. Found(Written(mem, y.table, rows), y, pos) = rows[pos]
      BY <2>2, <3>2, FoundWritten
    <3> QED BY <3>1, <3>3
  <2>4. CASE ~(from <= pos)
    <3>1. pos \in 0 .. from - 1 /\ pos \notin DOMAIN rows
      BY <1>4, <1>9, <2>1, <2>4
    <3>2. Found(m, y, pos) = Found(mem, y, pos)
      BY <1>5, <1>11, <2>2, <3>1, FoundUnwritten
    <3>3. Here(x, pos) /\ Found(mem, x, pos) = b.rows[pos]
      BY <1>2, <3>1
    <3>4. Found(mem, y, pos) = Found(mem, x, pos)
      <4> DEFINE k == (pos \div PagePositions) + 1
      <4>1. k \in 1 .. Len(x.table)
        BY <3>3 DEF Here
      <4>2. y.table[k] = x.table[k]
        <5> HIDE DEF k
        <5> QED BY <1>6, <4>1
      <4> QED BY <4>2 DEF Found
    <3> QED BY <3>2, <3>3, <3>4
  <2> QED BY <2>3, <2>4
<1> HIDE DEF m
<1>13. TextIs(h, z, LiveIn(m, z), t)
  <2> DEFINE r == LiveIn(m, z)
  <2>1. LiveRows(z) = n
    BY <1>8 DEF LiveRows
  <2>2. \A pos \in 0 .. n - 1 : r[pos] = b.rows[pos]
    <3> HIDE DEF n
    <3>1. \A pos \in 0 .. n - 1 : r[pos] = Found(m, y, pos)
      BY <1>8, <2>1 DEF LiveIn, Found
    <3> QED BY <1>12, <3>1
  <2> HIDE DEF r
  <2> DEFINE s == b.rows
  <2>3. TextIs(h, b, s, t) /\ \A pos \in 0 .. LiveRows(b) - 1 : r[pos] = s[pos]
    BY <1>1, <2>2
  <2> HIDE DEF s
  <2>4. TextIs(h, z, r, t)
    <3>1. z.token \in {b.token, NoToken}
      BY <1>8
    <3> QED BY <1>1, <1>8, <2>3, <3>1, TellsOn
  <2> QED BY <2>4 DEF r
<1>14. Apart(h, z)
  <2>1. \A k \in 1 .. Len(z.table) : SharesAt(y, k) => SharesAt(z, k)
    BY <1>7, <1>8 DEF SharesAt
  <2> QED BY <1>5, <1>6, <1>8, <2>1, ApartHead
<1>15. HeadFull(z) /\ (z.mode = "none" => z = NoHandle)
  BY <1>1, <1>8 DEF HeadFull
<1>16. TInv' /\ Views' = [Views EXCEPT ![h] = ViewOf(z, t)]
  BY <1>3, <1>10, <1>13, <1>14, <1>15, StepTexts
<1>17. ViewOf(z, t) = ViewOf(b, t)
  BY <1>1, <1>8, SameSeen
<1> QED BY <1>16, <1>17

\* Seen from outside it resumes what was kept.
LEMMA ResumeIs ==
    ASSUME TInv, NEW h \in Handles, NEW x, NEW t, Restores(h, x, blob, t), blob' = blob,
           Views' = [Views EXCEPT ![h] = ViewOf(blob, t)], ~Live(h), blob # NoBlob,
           blob.frozen <=> h \in Prefixes
    PROVE  Gen!Resume(h)
<1> DEFINE k == BlobView(blob)
<1>1. blob.mode # "none" /\ Tells(blob, blob.rows, t)
  BY DEF Restores, TextIs
<1>2. k = ViewOf(blob, t)
  <2>1. BlobText(blob) = t
    BY <1>1, BlobTextIs
  <2> QED BY <2>1 DEF BlobView
<1>3. k.open = TRUE /\ k.frozen = blob.frozen
  <2>1. (blob.mode # "none") = TRUE
    BY <1>1
  <2> HIDE DEF k
  <2> QED BY <1>2, <2>1, ViewOfIs
<1>4. k.open /\ (k.frozen <=> h \in Prefixes)
  <2> HIDE DEF k
  <2> QED BY <1>3, Zenon
<1>5. Gen!Becomes(h, k)
  <2> HIDE DEF k
  <2> QED BY <1>2, BecomesIs
<1>6. ~Views[h].open
  BY OpenIs
<1> QED BY <1>4, <1>5, <1>6 DEF Gen!Resume, Views, See

\* A holder that has nothing mapped.
Drawn(e) ==
    Shaped(e) /\ Len(e.table) = 0 /\ e.shared = 0 /\ e.materialized = 0 /\ e.frozen = FALSE

\* The shared head has the blob's rows where the hint matches it.
OverHint(h, hint, b, e, x) ==
    /\ h \in Handles /\ ~Live(h) /\ hint \in Hints /\ Drawn(e)
    /\ b.origin \in Nat /\ b.length \in Nat /\ b.origin <= b.length
    /\ SharedBy(hint, b) > 0 /\ x = SharedHead(e, hint, SharedBy(hint, b))

\* Over a hint the pages shared are those whose rows the blob has too.
LEMMA SharedFrom ==
    ASSUME TInv, NEW h, NEW hint, NEW b, NEW e, NEW x, OverHint(h, hint, b, e, x)
    PROVE  Heads(h, x, b) /\ x.shared = SharedBy(hint, b)
<1> DEFINE k == FullPages(b.origin)
<1>0. /\ h \in Handles /\ ~Live(h) /\ hint \in Hints /\ SharedBy(hint, b) > 0
      /\ b.origin \in Nat /\ b.length \in Nat /\ b.origin <= b.length
      /\ x = SharedHead(e, hint, SharedBy(hint, b))
      /\ Shaped(e) /\ e.materialized = 0 /\ e.frozen = FALSE
  BY DEF OverHint, Drawn
<1>1. PICK p \in hint : Matches(p, b)
  BY <1>0 DEF SharedBy
<1>2. hint = {p} /\ p \in Prefixes /\ (CHOOSE q \in hint : TRUE) = p
  BY <1>0, <1>1 DEF Hints
<1> SUFFICES ASSUME NEW f, f = hd[p]
             PROVE  Heads(h, x, b) /\ x.shared = SharedBy(hint, b)
  OBVIOUS
<1>3. SharedBy(hint, b) = k
  BY <1>1 DEF SharedBy
<1>4. f.frozen /\ f.length = b.origin /\ \A pos \in 0 .. k * PagePositions - 1 : RowAt(mem, f, pos) = b.rows[pos]
  BY <1>1 DEF Matches
<1>5. /\ p \in Handles /\ p # h /\ IInv /\ PagesApart /\ InMemory(mem, f) /\ Pageful(f.table)
      /\ k \in Nat /\ k <= Len(f.table) /\ Len(f.table) \in Nat
  <2>1. p \in Handles
    BY <1>2 DEF Handles
  <2>2. IInv /\ PagesApart /\ InMemory(mem, f) /\ KindOf(p, f) /\ Len(f.table) \in Nat
    BY <2>1, TextFacts
  <2>3. p # h
    BY <1>0, <1>4, <2>2 DEF KindOf, Live
  <2>4. Pageful(f.table) /\ k \in Nat /\ k <= Len(f.table)
    BY <1>0, <1>2, <1>4, <2>2, OfFrozen
  <2> QED BY <2>1, <2>2, <2>3, <2>4
<1>6. k * PagePositions <= b.origin /\ k * PagePositions \in Nat
  <2>1. k * PagePositions <= b.origin
    BY <1>0, FullPagesIs
  <2> HIDE DEF k
  <2> QED BY <1>5, <2>1, Sizes
<1>7. x = [e EXCEPT !.table = SubSeq(f.table, 1, k), !.shared = k]
  <2>1. SharedBy(hint, b) # 0
    BY <1>0, <1>3
  <2> HIDE DEF k
  <2> QED BY <1>0, <1>2, <1>3, <2>1 DEF SharedHead
<1> HIDE DEF k
<1>8. SameBut(e, x, {"table", "shared"}) /\ x.table = SubSeq(f.table, 1, k) /\ x.shared = k
  BY <1>0, <1>7, ShapedIs DEF SameBut, Fields
<1>9. Shaped(x) /\ Len(x.table) = k /\ x.frozen = FALSE
  <2>1. x.frozen = FALSE
    BY <1>0, <1>8 DEF SameBut, Fields
  <2> DEFINE t == f.table
  <2>2. Pageful(t) /\ k <= Len(t) /\ x.table = SubSeq(t, 1, k)
    BY <1>5, <1>8
  <2> HIDE DEF t
  <2>3. Shaped(x) /\ Len(x.table) = k
    BY <1>0, <1>5, <1>8, <2>2, SharesHead
  <2> QED BY <2>1, <2>3
<1>10. \A i \in 1 .. k : x.table[i] = f.table[i]
  <2> DEFINE t == f.table
  <2>1. t \in Seq(Range(t)) /\ k \in 0 .. Len(t) /\ x.table = SubSeq(t, 1, k)
    BY <1>5, <1>8 DEF Pageful
  <2> HIDE DEF t
  <2>2. \A i \in 1 .. k : x.table[i] = t[i]
    BY <2>1, HeadOf
  <2> QED BY <2>2 DEF t
<1>11. Apart(h, x)
  <2>1. HeadsOf(x, f) /\ Len(x.table) <= x.shared /\ x.shared \in Nat
    BY <1>5, <1>8, <1>9, <1>10 DEF HeadsOf
  <2>2. p \in Handles \ {h}
    BY <1>5
  <2> QED BY <1>0, <1>4, <1>5, <2>1, <2>2, SharedApart
<1>12. ASSUME NEW pos \in 0 .. k * PagePositions - 1
       PROVE  Here(x, pos) /\ Found(mem, x, pos) = b.rows[pos]
  <2> DEFINE j == (pos \div PagePositions) + 1
  <2>1. pos \in Nat /\ pos < k * PagePositions
    BY <1>6
  <2>2. j \in 1 .. k
    <3>1. j <= k
      BY <1>5, <2>1, PlaceWithin
    <3>2. j \in Nat /\ j >= 1
      BY <2>1, PlaceIs
    <3> HIDE DEF j
    <3> QED BY <1>5, <3>1, <3>2
  <2>3. Here(x, pos)
    BY <1>9, <2>1, <2>2 DEF Here
  <2>4. RowAt(mem, f, pos) = Found(mem, f, pos)
    <3>1. j \in 1 .. Len(f.table)
      <4> HIDE DEF j
      <4> QED BY <1>5, <2>2
    <3> QED BY <1>5, <3>1, RowsFound
  <2>5. Found(mem, x, pos) = Found(mem, f, pos)
    <3>1. x.table[j] = f.table[j]
      <4> HIDE DEF j
      <4> QED BY <1>10, <2>2
    <3> QED BY <3>1 DEF Found
  <2> QED BY <1>4, <2>3, <2>4, <2>5
<1>13. x.shared * PagePositions <= b.length
  <2>1. x.shared = k
    BY <1>8
  <2> QED BY <1>0, <1>6, <2>1
<1> QED BY <1>3, <1>8, <1>9, <1>11, <1>12, <1>13 DEF Heads

\* Pages of its own in the head's place are no one else's.
LEMMA MaterializedFrom ==
    ASSUME TInv, NEW h \in Handles, NEW e, Drawn(e),
           NEW n \in Nat, n <= e.reserve, NEW x, x = MaterializedHead(h, e, n)
    PROVE  Shaped(x) /\ Apart(h, x) /\ x.frozen = FALSE /\ x.shared = 0
<1> DEFINE y == MapPagesFor(h, e, n * PagePositions)
<1>0. Shaped(e) /\ Len(e.table) = 0 /\ e.shared = 0 /\ e.frozen = FALSE
  BY DEF Drawn
<1>1. n * PagePositions \in Nat /\ PagesOf(n * PagePositions) = n /\ IInv /\ PagesApart
  BY PagesOfPages DEF TInv
<1>2. Lacks(e, n * PagePositions) <= e.reserve
  BY <1>0, <1>1 DEF Lacks, Most
<1>3. Shaped(y) /\ SameBut(e, y, {"table", "reserve"})
  BY <1>0, <1>1, <1>2, Maps
<1>4. Apart(h, e)
  BY <1>0 DEF Apart, Placed
<1>5. Apart(h, y)
  BY <1>0, <1>1, <1>2, <1>4, MapsApart
<1>6. x = [y EXCEPT !.materialized = n]
  BY DEF MaterializedHead
<1> HIDE DEF y
<1>7. y.shared = 0 /\ y.frozen = FALSE
  BY <1>0, <1>3 DEF SameBut, Fields
<1>8. x.table = y.table /\ x.shared = 0 /\ x.frozen = FALSE
  BY <1>3, <1>6, <1>7 DEF SameBut, Fields
<1>9. Apart(h, x)
  BY <1>5, <1>7, <1>8 DEF Apart, SharesAt
<1>10. Shaped(x)
  BY <1>0, MaterializedHeadIs
<1> QED BY <1>8, <1>9, <1>10

\* What a draw gives.
LEMMA DrawnIs ==
    ASSUME NEW mode \in {"whole", "budget"}, NEW budget \in Nat, NEW reserve \in Nat,
           NEW e, e = Handle(mode, budget, reserve)
    PROVE  /\ Drawn(e) /\ e.mode = mode /\ e.mode # "none" /\ e.reserve = reserve
           /\ e.budget = budget
<1>1. Shaped(e) /\ Len(e.table) = 0
  BY HandleShaped
<1>2. /\ e.shared = 0 /\ e.materialized = 0 /\ e.frozen = FALSE /\ e.mode = mode /\ e.reserve = reserve
      /\ e.budget = budget
  BY DEF Handle
<1> QED BY <1>1, <1>2 DEF Drawn

\* A restore of a sequence, over a hint or into pages of its own,
LEMMA RestoreTexts ==
    ASSUME TInv, IInv', NEW s \in Seqs, NEW hint \in Hints, Restore(s, hint)
    PROVE  TInv' /\ Gen!Resume(s)
<1> SUFFICES ASSUME NEW b, b = blob, NEW share, share = IF b.mode = "budget" THEN SharedBy(hint, b) ELSE 0,
                    NEW own, own = OwnPages(b, share), NEW R, R = ReservationPages(b.mode, b.budget),
                    NEW n, n = R + own, NEW e, e = Handle(b.mode, b.budget, n),
                    NEW x, x = IF share > 0 THEN SharedHead(e, hint, share) ELSE MaterializedHead(s, e, own)
             PROVE  TInv' /\ Gen!Resume(s)
  OBVIOUS
<1>0. s \in Handles /\ s \notin Prefixes
  BY HandlesAssumption DEF Handles
<1>1. /\ Restored(s, x, b, share * PagePositions) /\ CanMap(x, LiveRows(b)) /\ blob' = blob
      /\ b.of = "seq" /\ ~Live(s)
  BY DEF Restore
<1>2. /\ b.mode \in {"whole", "budget"} /\ b.budget \in Nat /\ b.origin \in Nat
      /\ b.length \in Nat /\ b.layer \in Nat /\ b.origin <= b.length /\ b.frozen = FALSE
  BY <1>1 DEF TInv, IInv, BlobSound, Within
<1>3. LiveRows(b) \in Nat /\ b.length <= LiveRows(b)
  BY <1>2 DEF LiveRows
<1>4. PICK t : Tells(b, b.rows, t)
  BY <1>1 DEF TInv, BlobTold
<1>5. share \in Nat /\ R \in Nat /\ own \in Nat /\ FullPages(b.origin) \in Nat
  <2>1. FullPages(b.origin) \in Nat /\ R \in Nat /\ R <= CapPages /\ CapPages \in Nat
    BY <1>2, FullPagesIs, Reservations, Caps
  <2>2. share \in Nat
    BY <2>1 DEF SharedBy
  <2>3. own \in Nat
    <3>1. Least(FullPages(b.origin), CapPages - R) \in Nat
      BY <2>1 DEF Least
    <3>2. own = 0 \/ own = Least(FullPages(b.origin), CapPages - R)
      BY DEF OwnPages
    <3> QED BY <3>1, <3>2
  <2> QED BY <2>1, <2>2, <2>3
<1>6. /\ Shaped(e) /\ Len(e.table) = 0 /\ e.shared = 0 /\ e.materialized = 0
      /\ e.frozen = FALSE /\ e.mode = b.mode /\ e.mode # "none" /\ e.reserve = n /\ Drawn(e)
  <2>1. n \in Nat
    BY <1>5
  <2>2. Drawn(e) /\ e.mode = b.mode /\ e.mode # "none" /\ e.reserve = n
    BY <1>2, <2>1, DrawnIs
  <2> QED BY <2>2 DEF Drawn
<1>7. /\ Heads(s, x, b) /\ x.shared = share /\ x.mode = e.mode
  <2>1. CASE share > 0
    <3>1. x = SharedHead(e, hint, SharedBy(hint, b)) /\ share = SharedBy(hint, b)
      BY <2>1
    <3>2. Heads(s, x, b) /\ x.shared = SharedBy(hint, b)
      <4>1. OverHint(s, hint, b, e, x)
        BY <1>0, <1>1, <1>2, <1>6, <2>1, <3>1 DEF OverHint
      <4> QED BY <4>1, SharedFrom
    <3>3. x.mode = e.mode
      <4>1. SameBut(e, x, {"table", "shared"})
        BY <1>2, <1>6, <2>1, <3>1, SharedHeadIs DEF TInv
      <4> QED BY <4>1 DEF SameBut, Fields
    <3> QED BY <3>1, <3>2, <3>3
  <2>2. CASE ~(share > 0)
    <3>1. x = MaterializedHead(s, e, own) /\ share = 0 /\ own <= e.reserve
      BY <1>5, <1>6, <2>2
    <3>2. Shaped(x) /\ Apart(s, x) /\ x.frozen = FALSE /\ x.shared = 0
      <4>1. TInv /\ s \in Handles /\ Drawn(e) /\ own \in Nat
        BY <1>0, <1>5, <1>6
      <4> QED BY ONLY <3>1, <4>1, MaterializedFrom
    <3>3. x.shared * PagePositions = 0
      BY <3>2, Sizes
    <3>4. x.mode = e.mode
      <4>1. SameBut(e, x, {"table", "reserve", "materialized"})
        BY <1>5, <1>6, <3>1, MaterializedHeadIs
      <4> QED BY <4>1 DEF SameBut, Fields
    <3>5. Heads(s, x, b)
      BY <1>2, <3>2, <3>3 DEF Heads
    <3> QED BY <3>1, <3>2, <3>4, <3>5
  <2> QED BY <2>1, <2>2
<1>8. Restores(s, x, b, t)
  <2>1. TextIs(s, b, b.rows, t)
    BY <1>0, <1>4 DEF TextIs
  <2>2. Lacks(x, LiveRows(b)) <= x.reserve
    BY <1>1 DEF CanMap
  <2> QED BY <1>1, <1>2, <1>3, <1>6, <1>7, <2>1, <2>2 DEF Restores
<1>9. TInv' /\ Views' = [Views EXCEPT ![s] = ViewOf(b, t)]
  BY <1>0, <1>1, <1>8, RestoredTexts
<1>10. b # NoBlob /\ (b.frozen <=> s \in Prefixes)
  <2>1. NoBlob.of = "none"
    BY DEF NoBlob
  <2> QED BY <1>0, <1>1, <1>2, <2>1
<1>11. Gen!Resume(s)
  BY <1>0, <1>1, <1>8, <1>9, <1>10, ResumeIs
<1> QED BY <1>9, <1>11

\* and of a prefix.
LEMMA RestorePrefixTexts ==
    ASSUME TInv, IInv', NEW q \in Prefixes, NEW hint \in Hints, RestorePrefix(q, hint)
    PROVE  TInv' /\ Gen!Resume(q)
<1> SUFFICES ASSUME NEW b, b = blob, NEW share, share = IF b.origin > 0 THEN SharedBy(hint, b) ELSE 0,
                    NEW n, n = PagesOf(b.length) - share, NEW e, e = Handle(b.mode, b.budget, n),
                    NEW x, x = SharedHead(e, hint, share)
             PROVE  TInv' /\ Gen!Resume(q)
  OBVIOUS
<1>0. q \in Handles /\ q \notin Seqs
  BY HandlesAssumption DEF Handles
<1>1. Restored(q, x, b, share * PagePositions) /\ blob' = blob /\ b.of = "prefix" /\ ~Live(q)
  BY DEF RestorePrefix
<1>2. /\ b.mode = "budget" /\ b.budget \in Nat /\ b.origin \in Nat
      /\ b.length \in Nat /\ b.layer = 0 /\ b.origin <= b.length /\ b.frozen = TRUE
  BY <1>1 DEF TInv, IInv, BlobSound, Within
<1>3. LiveRows(b) = b.length
  BY <1>2 DEF LiveRows
<1>4. PICK t : Tells(b, b.rows, t) /\ Leads(b, t)
  BY <1>1 DEF TInv, BlobTold
<1>5. /\ FullPages(b.origin) \in Nat /\ PagesOf(b.length) \in Nat
      /\ FullPages(b.origin) <= PagesOf(b.length)
  <2>1. /\ FullPages(b.origin) \in Nat /\ PagesOf(b.origin) \in Nat /\ PagesOf(b.length) \in Nat
        /\ FullPages(b.origin) <= PagesOf(b.origin)
    BY <1>2, FullPagesIs, PagesOfIs, OneTail
  <2>2. PagesOf(b.origin) <= PagesOf(b.length)
    BY <1>2, MorePages
  <2> QED BY <2>1, <2>2
<1>6. share = 0 \/ (share > 0 /\ share = SharedBy(hint, b) /\ share = FullPages(b.origin))
  BY <1>5 DEF SharedBy
<1>7. share \in Nat /\ share <= PagesOf(b.length) /\ PagesOf(b.length) - share \in Nat
  BY <1>5, <1>6
<1>8. /\ Shaped(e) /\ Len(e.table) = 0 /\ e.shared = 0 /\ e.materialized = 0
      /\ e.frozen = FALSE /\ e.mode = b.mode /\ e.mode # "none" /\ e.reserve = n /\ Drawn(e)
  <2>1. n \in Nat /\ b.mode \in {"whole", "budget"}
    BY <1>2, <1>7
  <2>2. Drawn(e) /\ e.mode = b.mode /\ e.mode # "none" /\ e.reserve = n
    BY <1>2, <2>1, DrawnIs
  <2> QED BY <2>2 DEF Drawn
<1>9. /\ Heads(q, x, b) /\ x.shared = share /\ x.mode = e.mode /\ x.reserve = e.reserve /\ Len(x.table) = share
  <2>1. CASE share = 0
    <3>1. x = e
      BY <2>1 DEF SharedHead
    <3>2. Apart(q, x)
      BY <1>8, <3>1 DEF Apart, Placed
    <3>3. x.shared * PagePositions = 0
      BY <1>8, <3>1, Sizes
    <3>4. Heads(q, x, b)
      BY <1>2, <1>8, <3>1, <3>2, <3>3 DEF Heads
    <3> QED BY <1>8, <2>1, <3>1, <3>4
  <2>2. CASE share # 0
    <3>1. SharedBy(hint, b) > 0 /\ share = SharedBy(hint, b)
      BY <1>6, <2>2
    <3>2. x = SharedHead(e, hint, SharedBy(hint, b))
      BY <3>1
    <3>3. Heads(q, x, b) /\ x.shared = SharedBy(hint, b)
      <4>1. OverHint(q, hint, b, e, x)
        BY <1>0, <1>1, <1>2, <1>8, <3>1, <3>2 DEF OverHint
      <4> QED BY <4>1, SharedFrom
    <3>4. SameBut(e, x, {"table", "shared"}) /\ Len(x.table) = FullPages(b.origin)
      BY <1>2, <1>8, <3>1, <3>2, SharedHeadIs DEF TInv
    <3>5. x.mode = e.mode /\ x.reserve = e.reserve
      BY <3>4 DEF SameBut, Fields
    <3> QED BY <1>6, <2>2, <3>1, <3>3, <3>4, <3>5
  <2> QED BY <2>1, <2>2
<1>10. Restores(q, x, b, t)
  <2>1. TextIs(q, b, b.rows, t)
    BY <1>4 DEF TextIs
  <2>2. Lacks(x, LiveRows(b)) <= x.reserve
    BY <1>3, <1>5, <1>7, <1>8, <1>9 DEF Lacks, Most
  <2>3. LiveRows(b) \in Nat /\ b.length <= LiveRows(b)
    BY <1>2, <1>3
  <2> QED BY <1>1, <1>2, <1>8, <1>9, <2>1, <2>2, <2>3 DEF Restores
<1>11. TInv' /\ Views' = [Views EXCEPT ![q] = ViewOf(b, t)]
  BY <1>0, <1>1, <1>10, RestoredTexts
<1>12. b # NoBlob /\ (b.frozen <=> q \in Prefixes)
  <2>1. NoBlob.of = "none"
    BY DEF NoBlob
  <2> QED BY <1>1, <1>2, <2>1
<1>13. Gen!Resume(q)
  BY <1>0, <1>1, <1>10, <1>11, <1>12, ResumeIs
<1> QED BY <1>11, <1>13

\* What a save leaves in the blob of a handle that it leaves alone.
Saves(h, b) ==
    /\ Live(h) /\ hd' = hd /\ mem' = mem /\ blob' = b
    /\ h \in Prefixes => hd[h].frozen
    /\ b.of = (IF h \in Prefixes THEN "prefix" ELSE "seq")
    /\ b.length = hd[h].length /\ b.layer = hd[h].layer /\ b.hidden = hd[h].hidden
    /\ b.ready = hd[h].ready /\ b.frozen = hd[h].frozen /\ b.mode # "none"
    /\ b.token = (IF hd[h].frozen \/ (hd[h].layer = 0 /\ ~hd[h].ready) THEN hd[h].token ELSE NoToken)
    /\ \A pos \in 0 .. LiveRows(hd[h]) - 1 : b.rows[pos] = RowAt(mem, hd[h], pos)

\* A save keeps the text and residual in the blob and changes no handle.
LEMMA SavesTexts ==
    ASSUME TInv, IInv', NEW h \in Handles, NEW b, Saves(h, b)
    PROVE  TInv' /\ Gen!Keep(h)
<1> SUFFICES ASSUME NEW x, x = hd[h] PROVE TInv' /\ Gen!Keep(h)
  OBVIOUS
<1>1. /\ Live(h) /\ hd' = hd /\ mem' = mem /\ blob' = b /\ (h \in Prefixes => x.frozen)
      /\ b.of = (IF h \in Prefixes THEN "prefix" ELSE "seq")
      /\ b.length = x.length /\ b.layer = x.layer /\ b.hidden = x.hidden
      /\ b.ready = x.ready /\ b.frozen = x.frozen /\ b.mode # "none"
      /\ b.token = (IF x.frozen \/ (x.layer = 0 /\ ~x.ready) THEN x.token ELSE NoToken)
  BY DEF Saves
<1>2. x.length \in Nat /\ x.layer \in Nat /\ Sound(x) /\ InMemory(mem, x)
  BY TextFacts
<1>3. PICK t : TextIs(h, x, LiveIn(mem, x), t)
  BY TextFacts
<1>4. \A pos \in 0 .. LiveRows(x) - 1 : b.rows[pos] = LiveIn(mem, x)[pos]
  <2> TAKE pos \in 0 .. LiveRows(x) - 1
  <2>1. b.rows[pos] = RowAt(mem, x, pos)
    BY DEF Saves
  <2>2. (pos \div PagePositions) + 1 \in 1 .. Len(x.table)
    BY <1>2, LiveAt
  <2>3. RowAt(mem, x, pos) = Found(mem, x, pos)
    BY <1>2, <2>2, RowsFound
  <2> QED BY <2>1, <2>3, LiveInAt
<1>5. TextIs(h, b, b.rows, t)
  <2> DEFINE r == b.rows
             s == LiveIn(mem, x)
  <2>1. TextIs(h, x, s, t) /\ \A pos \in 0 .. LiveRows(x) - 1 : r[pos] = s[pos]
    BY <1>3, <1>4
  <2>2. b.token \in {x.token, NoToken}
    BY <1>1
  <2> HIDE DEF r, s
  <2>3. TextIs(h, b, r, t)
    BY <1>1, <1>2, <2>1, <2>2, TellsOn
  <2> QED BY <2>3 DEF r
<1>6. Tells(b, b.rows, t) /\ (b.of = "prefix" => Leads(b, t)) /\ b.of # "none"
  <2>1. b.of = "prefix" => h \in Prefixes
    BY <1>1
  <2>2. b.of # "none"
    BY <1>1
  <2> QED BY <1>5, <2>1, <2>2, Zenon DEF TextIs
<1>7. TInv'
  <2>1. BlobTold'
    BY <1>1, <1>6 DEF BlobTold
  <2>2. PagesApart'
    BY <1>1 DEF TInv, PagesApart, Apart
  <2>3. Texts'
    BY <1>1 DEF TInv, Texts, Live
  <2> QED BY <2>1, <2>2, <2>3 DEF TInv
<1> DEFINE v == Views[h]
           w == Gen!Kept(v)
           u == ViewOf(b, t)
<1>8. /\ IsView(v) /\ v.text = t /\ v.token = x.token /\ v.ready = x.ready /\ v.frozen = x.frozen
      /\ v.doing = (IF x.layer > 0 THEN x.hidden ELSE <<>>) /\ v.open = (x.mode # "none")
  <2>1. v = ViewOf(x, t)
    BY <1>3, SeeIs
  <2> HIDE DEF v
  <2> QED BY <2>1, ViewOfIs
<1>9. /\ IsView(u) /\ u.text = t /\ u.token = b.token /\ u.ready = b.ready /\ u.frozen = b.frozen
      /\ u.doing = (IF b.layer > 0 THEN b.hidden ELSE <<>>) /\ u.open = (b.mode # "none")
  BY ViewOfIs
<1>10. /\ IsView(w) /\ w.text = v.text /\ w.doing = v.doing /\ w.ready = v.ready
       /\ w.frozen = v.frozen /\ w.open = v.open
       /\ w.token = (IF v.frozen \/ (v.doing = <<>> /\ ~v.ready) THEN v.token ELSE NoToken)
  <2> HIDE DEF v
  <2> QED BY <1>8 DEF IsView, Gen!Kept
<1>11. v.doing = <<>> <=> x.layer = 0
  <2>1. CASE x.layer > 0
    <3>1. x.hidden \in Seq(Handles) /\ Len(x.hidden) = x.length + 1
      BY <1>3, <2>1 DEF TextIs, Tells, HalfRead
    <3>2. x.hidden # <<>>
      BY <1>2, <3>1
    <3>3. v.doing = x.hidden
      BY <1>8, <2>1
    <3> QED BY <2>1, <3>2, <3>3
  <2>2. CASE ~(x.layer > 0)
    <3>1. v.doing = <<>>
      BY <1>8, <2>2
    <3> QED BY <1>2, <2>2, <3>1
  <2> QED BY <2>1, <2>2
<1> HIDE DEF u, v, w
<1>12. u.text = w.text /\ u.doing = w.doing
  BY <1>1, <1>8, <1>9, <1>10
<1>13. u.ready = w.ready /\ u.frozen = w.frozen
  BY <1>1, <1>8, <1>9, <1>10, Zenon
<1>14. u.open = w.open
  BY <1>1, <1>8, <1>9, <1>10 DEF Live
<1>15. u.token = w.token
  BY <1>1, <1>8, <1>9, <1>10, <1>11, Zenon
<1>16. u = w
  BY <1>9, <1>10, <1>12, <1>13, <1>14, <1>15, SameView
<1>17. BlobView(blob') = w
  <2>1. b # NoBlob
    <3>1. NoBlob.of = "none"
      BY DEF NoBlob
    <3> QED BY <1>6, <3>1
  <2>2. BlobText(b) = t
    BY <1>6, BlobTextIs
  <2> QED BY <1>1, <1>16, <2>1, <2>2 DEF BlobView, u
<1>18. v.open /\ (h \in Prefixes => v.frozen)
  <2>1. (x.mode # "none") = TRUE
    BY <1>1 DEF Live
  <2> QED BY <1>1, <1>8, <2>1, Zenon
<1>19. Views' = Views
  BY <1>1 DEF Views, See
<1>20. Gen!Keep(h)
  BY <1>17, <1>18, <1>19 DEF Gen!Keep, v, w, Views, See
<1> QED BY <1>7, <1>20

\* A sequence is saved,
LEMMA SaveTexts ==
    ASSUME TInv, IInv', NEW s \in Seqs, Save(s)
    PROVE  TInv' /\ Gen!Keep(s)
<1> SUFFICES ASSUME NEW x, x = hd[s], NEW b, b = blob' PROVE TInv' /\ Gen!Keep(s)
  OBVIOUS
<1>0. s \in Handles /\ s \notin Prefixes
  BY HandlesAssumption DEF Handles
<1>1. x.frozen = FALSE /\ x.mode # "none" /\ Live(s) /\ hd' = hd /\ mem' = mem
  <2>1. KindOf(s, x)
    BY <1>0, TextFacts
  <2>2. x.frozen = FALSE
    BY <2>1, Zenon DEF KindOf
  <2> QED BY <2>2 DEF Save, Live
<1>2. /\ b.of = "seq" /\ b.mode = x.mode /\ b.length = x.length /\ b.layer = x.layer
      /\ b.hidden = x.hidden /\ b.ready = x.ready /\ b.frozen = FALSE
      /\ b.token = (IF x.layer = 0 /\ ~x.ready THEN x.token ELSE NoToken)
      /\ b.rows = Rows(x, LiveRows(x))
  BY DEF Save
<1>3. \A pos \in 0 .. LiveRows(x) - 1 : b.rows[pos] = RowAt(mem, x, pos)
  BY <1>2 DEF Rows
<1>4. b.token = (IF x.frozen \/ (x.layer = 0 /\ ~x.ready) THEN x.token ELSE NoToken)
  BY <1>1, <1>2
<1>5. Saves(s, b)
  BY <1>0, <1>1, <1>2, <1>3, <1>4 DEF Saves
<1> QED BY <1>0, <1>5, SavesTexts

\* and a prefix.
LEMMA SavePrefixTexts ==
    ASSUME TInv, IInv', NEW q \in Prefixes, SavePrefix(q)
    PROVE  TInv' /\ Gen!Keep(q)
<1> SUFFICES ASSUME NEW x, x = hd[q], NEW b, b = blob' PROVE TInv' /\ Gen!Keep(q)
  OBVIOUS
<1>0. q \in Handles /\ x.layer = 0 /\ LiveRows(x) = x.length
  BY OfPrefix
<1>1. x.frozen = TRUE /\ x.mode # "none" /\ Live(q) /\ hd' = hd /\ mem' = mem
  <2>1. KindOf(q, x)
    BY <1>0, TextFacts
  <2>2. x.frozen /\ hd' = hd /\ mem' = mem
    BY DEF SavePrefix
  <2>3. x.frozen = TRUE
    BY <2>1, <2>2, Zenon DEF KindOf
  <2> QED BY <2>1, <2>2, <2>3 DEF KindOf, Live
<1>2. x.ready = FALSE
  <2>1. PICK t : TextIs(q, x, LiveIn(mem, x), t)
    BY <1>0, TextFacts
  <2> QED BY <2>1 DEF TextIs, Leads
<1>3. /\ b.of = "prefix" /\ b.mode = "budget" /\ b.length = x.length /\ b.layer = 0
      /\ b.hidden = x.hidden /\ b.ready = FALSE /\ b.frozen = TRUE
      /\ b.token = x.token /\ b.rows = Rows(x, x.length)
  BY DEF SavePrefix
<1>4. \A pos \in 0 .. LiveRows(x) - 1 : b.rows[pos] = RowAt(mem, x, pos)
  BY <1>0, <1>3 DEF Rows
<1>5. b.token = (IF x.frozen \/ (x.layer = 0 /\ ~x.ready) THEN x.token ELSE NoToken)
  BY <1>1, <1>3
<1>6. Saves(q, b)
  BY <1>0, <1>1, <1>2, <1>3, <1>4, <1>5 DEF Saves
<1> QED BY <1>0, <1>6, SavesTexts

-----------------------------------------------------------------------------
(* The theorems. *)

LEMMA InitTexts ==
    ASSUME Init
    PROVE  TInv /\ Gen!Init
<1> DEFINE x == NoHandle
<1>1. /\ hd = [h \in Handles |-> x] /\ blob = NoBlob /\ NoBlob.of = "none" /\ IInv
  BY InitKeeps DEF Init, NoBlob
<1>2. Clean(x) /\ Len(x.table) = 0
  BY DEF Clean, NoHandle, Handle
<1>3. TextOf(x, mem) = <<>>
  BY <1>2 DEF Clean, TextOf, History
<1>4. ViewOf(x, <<>>) = Gen!Closed
  BY ClosedView
<1> HIDE DEF x
<1>5. PagesApart
  <2>1. ASSUME NEW h \in Handles PROVE Apart(h, x) /\ HeadFull(x)
    <3>1. x.shared * PagePositions <= x.length
      BY <1>2, Sizes DEF Clean
    <3> QED BY <1>2, <3>1 DEF Apart, Placed, HeadFull
  <2>2. \A h \in Handles : hd[h] = x
    BY <1>1
  <2> QED BY <1>2, <2>1, <2>2 DEF PagesApart
<1>6. Texts
  <2>1. \A h \in Handles : hd[h] = x
    BY <1>1
  <2>2. \A h \in Handles : TextIs(h, x, LiveIn(mem, x), <<>>)
    BY <1>2, CleanTold
  <2> QED BY <2>1, <2>2 DEF Texts, x
<1>7. BlobTold
  BY <1>1 DEF BlobTold
<1>8. Gen!Init
  <2>1. BlobView(blob) = Gen!Closed
    BY <1>1, <1>4 DEF BlobView, x
  <2>2. \A h \in Handles : ViewOf(hd[h], TextOf(hd[h], mem)) = Gen!Closed
    BY <1>1, <1>3, <1>4
  <2> QED BY <2>1, <2>2 DEF Gen!Init, Handles
<1> QED BY <1>1, <1>5, <1>6, <1>7, <1>8 DEF TInv

\* A stutter is a stutter.
LEMMA StutterTexts ==
    ASSUME TInv, UNCHANGED vars
    PROVE  TInv' /\ UNCHANGED Gen!generationVars
<1>1. hd' = hd /\ mem' = mem /\ blob' = blob
  BY DEF vars
<1>2. IInv'
  BY StutterKeeps DEF TInv
<1>3. BlobTold'
  BY <1>1 DEF TInv, BlobTold
<1>4. PagesApart'
  BY <1>1 DEF TInv, PagesApart, Apart
<1>5. Texts'
  BY <1>1 DEF TInv, Texts, Live
<1> QED BY <1>1, <1>2, <1>3, <1>4, <1>5 DEF TInv, Gen!generationVars

\* Every step of the verbs keeps each handle's text, and is a step of Generation or of none.
LEMMA NextTexts ==
    ASSUME TInv, [Next]_vars, ~FailWithinToken
    PROVE  TInv' /\ [Gen!Next]_(Gen!generationVars)
<1> DEFINE Kept == TInv' /\ (Gen!Next \/ UNCHANGED Gen!generationVars)
<1> SUFFICES Kept
  OBVIOUS
<1>0. IInv /\ Handles = Seqs \cup Prefixes
  BY DEF TInv, Handles
<1>1. ASSUME NEW h \in Handles, NEW m \in Modes, Create(h, m[1], m[2]) PROVE Kept
  <2>1. m[1] \in {"whole", "budget"}
    BY DEF Modes
  <2>2. IInv'
    BY <1>0, <1>1, CreateKeeps
  <2>3. TInv' /\ Gen!Open(h)
    BY <1>1, <2>1, <2>2, CreateTexts
  <2> QED BY <1>0, <2>3 DEF Gen!Next
<1>2. ASSUME NEW h \in Handles, NEW ts \in Feeds(h), Prefill(h, ts) PROVE Kept
  <2>1. IInv'
    BY <1>0, <1>2, PrefillKeeps
  <2>2. TInv' /\ Gen!Read(h)
    BY <1>2, <2>1, PrefillTexts
  <2> QED BY <1>0, <2>2 DEF Gen!Next
<1>3. ASSUME NEW h \in Handles, NEW n \in 1 .. MaxFeed, PrefillFails(h, n) PROVE Kept
  <2>1. IInv'
    BY <1>0, <1>3, PrefillFailsKeeps
  <2> QED BY <1>3, <2>1, PrefillFailsTexts
<1>4. ASSUME NEW h \in Handles, Release(h) PROVE Kept
  <2>1. IInv'
    BY <1>0, <1>4, ReleaseKeeps
  <2>2. TInv' /\ Gen!Close(h)
    BY <1>4, <2>1, ReleaseTexts
  <2> QED BY <1>0, <2>2 DEF Gen!Next
<1>5. ASSUME NEW s \in Seqs, DecodeReady(s, s) PROVE Kept
  <2>1. IInv'
    BY <1>0, <1>5, DecodeReadyKeeps
  <2>2. TInv' /\ Gen!Produce(s)
    BY <1>5, <2>1, DecodeReadyTexts
  <2> QED BY <2>2 DEF Gen!Next
<1>6. ASSUME NEW s \in Seqs, NEW n \in 0 .. NumLayers, NEW k \in {s, NoToken}, DecodeLayers(s, n, k)
      PROVE  Kept
  <2>1. IInv'
    BY <1>0, <1>6, DecodeLayersKeeps
  <2>2. TInv' /\ (Gen!ReadPending(s) \/ UNCHANGED Gen!generationVars)
    BY <1>6, <2>1, DecodeTexts
  <2> QED BY <2>2 DEF Gen!Next
<1>7. ASSUME NEW s \in Seqs, NEW draft \in Feeds(s), NEW kept \in 0 .. Len(draft) + 1,
             JumpForward(s, draft, kept)
      PROVE  Kept
  <2>1. IInv'
    BY <1>0, <1>7, JumpKeeps
  <2>2. TInv' /\ (Gen!Read(s) \/ UNCHANGED Gen!generationVars)
    BY <1>7, <2>1, JumpTexts
  <2>3. s \in Seqs \cup Prefixes
    OBVIOUS
  <2> QED BY <2>2, <2>3 DEF Gen!Next
<1>8. ASSUME NEW s \in Seqs, Reset(s) PROVE Kept
  <2>1. IInv'
    BY <1>0, <1>8, ResetKeeps
  <2>2. TInv' /\ Gen!Clear(s)
    BY <1>8, <2>1, ResetTexts
  <2> QED BY <2>2 DEF Gen!Next
<1>9. ASSUME NEW s \in Seqs, Save(s) PROVE Kept
  <2>1. IInv'
    BY <1>0, <1>9, SaveKeeps
  <2>2. TInv' /\ Gen!Keep(s)
    BY <1>9, <2>1, SaveTexts
  <2>3. s \in Seqs \cup Prefixes
    OBVIOUS
  <2> QED BY <2>2, <2>3 DEF Gen!Next
<1>10. ASSUME NEW s \in Seqs, NEW q \in Prefixes, AdoptPrefix(s, q) PROVE Kept
  <2>1. IInv'
    BY <1>0, <1>10, AdoptKeeps
  <2>2. TInv' /\ Gen!Adopt(s, q)
    BY <1>10, <2>1, AdoptTexts
  <2> QED BY <2>2 DEF Gen!Next
<1>11. ASSUME NEW s \in Seqs, NEW hint \in Hints, Restore(s, hint) PROVE Kept
  <2>1. IInv'
    BY <1>0, <1>11, RestoreKeeps
  <2>2. TInv' /\ Gen!Resume(s)
    BY <1>11, <2>1, RestoreTexts
  <2>3. s \in Seqs \cup Prefixes
    OBVIOUS
  <2> QED BY <2>2, <2>3 DEF Gen!Next
<1>12. ASSUME NEW q \in Prefixes, Freeze(q) PROVE Kept
  <2>1. IInv'
    BY <1>0, <1>12, FreezeKeeps
  <2>2. TInv' /\ Gen!Freeze(q)
    BY <1>12, <2>1, FreezeTexts
  <2> QED BY <2>2 DEF Gen!Next
<1>13. ASSUME NEW q \in Prefixes, SavePrefix(q) PROVE Kept
  <2>1. IInv'
    BY <1>0, <1>13, SavePrefixKeeps
  <2>2. TInv' /\ Gen!Keep(q)
    BY <1>13, <2>1, SavePrefixTexts
  <2>3. q \in Seqs \cup Prefixes
    OBVIOUS
  <2> QED BY <2>2, <2>3 DEF Gen!Next
<1>14. ASSUME NEW q \in Prefixes, NEW p \in Prefixes, NEW b \in Budgets, BeginFrom(q, p, b) PROVE Kept
  <2>1. IInv'
    BY <1>0, <1>14, BeginFromKeeps
  <2>2. TInv' /\ Gen!Branch(q, p)
    BY <1>14, <2>1, BeginFromTexts
  <2> QED BY <2>2 DEF Gen!Next
<1>15. ASSUME NEW q \in Prefixes, NEW hint \in Hints, RestorePrefix(q, hint) PROVE Kept
  <2>1. IInv'
    BY <1>0, <1>15, RestorePrefixKeeps
  <2>2. TInv' /\ Gen!Resume(q)
    BY <1>15, <2>1, RestorePrefixTexts
  <2>3. q \in Seqs \cup Prefixes
    OBVIOUS
  <2> QED BY <2>2, <2>3 DEF Gen!Next
<1>16. CASE UNCHANGED vars
  BY <1>16, StutterTexts
<1> HIDE DEF Kept
<1>17. CASE Next
  <2>1. CASE \E h \in Handles :
                \/ \E m \in Modes : Create(h, m[1], m[2])
                \/ \E ts \in Feeds(h) : Prefill(h, ts)
                \/ \E n \in 1 .. MaxFeed : PrefillFails(h, n)
                \/ Release(h)
    BY <1>1, <1>2, <1>3, <1>4, <2>1
  <2>2. CASE \E s \in Seqs :
                \/ DecodeReady(s, s)
                \/ \E n \in 0 .. NumLayers, k \in {s, NoToken} : DecodeLayers(s, n, k)
                \/ \E draft \in Feeds(s) : \E kept \in 0 .. Len(draft) + 1 : JumpForward(s, draft, kept)
                \/ Reset(s) \/ Save(s)
                \/ \E q \in Prefixes : AdoptPrefix(s, q)
                \/ \E hint \in Hints : Restore(s, hint)
    BY <1>5, <1>6, <1>7, <1>8, <1>9, <1>10, <1>11, <2>2
  <2>3. CASE \E q \in Prefixes :
                \/ Freeze(q) \/ SavePrefix(q)
                \/ \E p \in Prefixes, b \in Budgets : BeginFrom(q, p, b)
                \/ \E hint \in Hints : RestorePrefix(q, hint)
    BY <1>12, <1>13, <1>14, <1>15, <2>3
  <2> QED BY <1>17, <2>1, <2>2, <2>3, Zenon DEF Next
<1> QED BY <1>16, <1>17

\* Through every sharing, copy, rollback, save, restore and release each handle's rows tell
\* one text.
THEOREM TextsHold == ASSUME ~FailWithinToken PROVE Spec => []TInv
<1>1. Init => TInv
  BY InitTexts
<1>2. TInv /\ [Next]_vars => TInv'
  BY NextTexts
<1> QED BY <1>1, <1>2, PTL DEF Spec

\* The residual a handle would go on from is that of its own text, as it is in its pages.
THEOREM HiddenMatchesHolds == ASSUME ~FailWithinToken PROVE Spec => []HiddenMatches
<1>1. TInv => HiddenMatches
  <2> SUFFICES ASSUME TInv, NEW h \in Handles, NEW x, x = hd[h]
               PROVE  LET text == History(mem, x, x.length)
                      IN /\ x.ready => x.hidden = text /\ text # <<>> /\ x.layer = 0
                         /\ x.layer > 0 => Len(x.hidden) = x.length + 1 /\ SubSeq(x.hidden, 1, x.length) = text
                         /\ x.frozen => x.hidden = text
    BY DEF HiddenMatches
  <2>1. PICK t : TextIs(h, x, LiveIn(mem, x), t)
    BY TextFacts
  <2>2. History(mem, x, x.length) = t
    BY <2>1, TextOfIs DEF TextOf
  <2>3. x.ready => x.hidden = t /\ t # <<>> /\ x.layer = 0
    BY <2>1 DEF TextIs, Tells
  <2>4. x.layer > 0 => Len(x.hidden) = x.length + 1 /\ SubSeq(x.hidden, 1, x.length) = t
    BY <2>1 DEF TextIs, Tells, HalfRead
  <2>5. x.frozen => x.hidden = t
    <3>1. x.frozen => h \in Prefixes
      BY TextFacts DEF KindOf, Handles
    <3> QED BY <2>1, <3>1 DEF TextIs, Leads
  <2> QED BY <2>2, <2>3, <2>4, <2>5
<1> QED BY <1>1, TextsHold, PTL

\* The verbs implement Generation: seen from outside there are only texts, and each is
\* changed by its own handle's calls alone.
THEOREM TextsKeptHolds == ASSUME ~FailWithinToken PROVE Spec => TextsKept
<1>1. Init => Gen!Init
  BY InitTexts
<1>2. TInv /\ [Next]_vars => [Gen!Next]_(Gen!generationVars)
  BY NextTexts
<1> QED BY <1>1, <1>2, TextsHold, PTL DEF Spec, TextsKept, Gen!Spec
=============================================================================
