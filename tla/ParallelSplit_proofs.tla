------------------------ MODULE ParallelSplit_proofs ------------------------
(***************************************************************************)
(* Proofs about ParallelSplit, for any finite set of threads, any groups   *)
(* of parts and any sizes: whatever a host does with the tasks of a call,  *)
(* no row is written twice, Ok is reported just when each task was         *)
(* invoked once and nothing else was, and a thread has its own registry    *)
(* binding back after a task.                                              *)
(*                                                                         *)
(* First what the split is, from the least-number principle: the parts lie *)
(* one after the other, and every row is of one task.  Then the inductive  *)
(* invariant, whose parts are about the split, the bindings, how often a   *)
(* task was begun, who is in its body and which rows that has written.     *)
(***************************************************************************)
EXTENDS ParallelSplit, WellFoundedInduction, FiniteSetTheorems, TLAPS

-----------------------------------------------------------------------------
(* The rows before a part. *)

\* The least-number principle.
LEMMA LeastOf ==
    ASSUME NEW T \in SUBSET Nat, T # {}
    PROVE \E n \in T : \A k \in T : n <= k
<1> DEFINE R == OpToRel(<, Nat)
<1>1. IsWellFoundedOn(R, Nat)
  BY NatLessThanWellFounded
<1>2. \A x, y \in Nat : x < y => <<x, y>> \in R
  BY DEF OpToRel
<1> HIDE DEF R
<1>3. PICK n \in T : \A k \in T : <<k, n>> \notin R
  BY <1>1, WFMin
<1>4. \A k \in T : n <= k
  <2> TAKE k \in T
  <2>1. ~(k < n)
    BY <1>2, <1>3
  <2> QED BY <2>1
<1> QED BY <1>4

\* f is the function Before computes, as far as n.
Sums(f, parts, n) == f = [k \in 0 .. n |-> IF k = 0 THEN 0 ELSE f[k - 1] + parts[k]]

LEMMA SumsExist ==
    ASSUME NEW parts \in Seq(Nat), NEW m \in 0 .. Len(parts)
    PROVE \E f \in [0 .. m -> Nat] : Sums(f, parts, m)
<1> DEFINE Bad == {n \in 0 .. Len(parts) : ~\E f \in [0 .. n -> Nat] : Sums(f, parts, n)}
<1> SUFFICES ASSUME Bad # {} PROVE FALSE
  OBVIOUS
<1>1. Len(parts) \in Nat /\ parts \in [1 .. Len(parts) -> Nat]
  OBVIOUS
<1>2. PICK n \in Bad : \A k \in Bad : n <= k
  <2>1. Bad \in SUBSET Nat
    BY <1>1
  <2> HIDE DEF Bad
  <2> QED BY <2>1, LeastOf
<1>3. CASE n = 0
  <2> DEFINE f == [k \in 0 .. 0 |-> 0]
  <2>1. f \in [0 .. 0 -> Nat] /\ Sums(f, parts, 0)
    BY DEF Sums
  <2> QED BY <2>1, <1>2, <1>3
<1>4. CASE n # 0
  <2>1. n \in 1 .. Len(parts) /\ n - 1 \in 0 .. Len(parts)
    BY <1>1, <1>4
  <2>2. n - 1 \notin Bad
    <3> HIDE DEF Bad
    <3> QED BY <1>1, <1>2, <2>1
  <2>3. PICK g \in [0 .. n - 1 -> Nat] : Sums(g, parts, n - 1)
    BY <2>1, <2>2
  <2> DEFINE f == [k \in 0 .. n |-> IF k = n THEN g[n - 1] + parts[n] ELSE g[k]]
  <2>4. f \in [0 .. n -> Nat]
    BY <1>1, <2>1
  <2>5. \A k \in 0 .. n : f[k] = IF k = 0 THEN 0 ELSE f[k - 1] + parts[k]
    <3> SUFFICES ASSUME NEW k \in 0 .. n PROVE f[k] = IF k = 0 THEN 0 ELSE f[k - 1] + parts[k]
      OBVIOUS
    <3>1. CASE k = n
      BY <3>1, <2>1
    <3>2. CASE k # n
      <4>1. k \in 0 .. n - 1 /\ k - 1 # n
        BY <3>2, <2>1
      <4>2. g[k] = IF k = 0 THEN 0 ELSE g[k - 1] + parts[k]
        BY <4>1, <2>3 DEF Sums
      <4>3. f[k] = g[k] /\ (k # 0 => f[k - 1] = g[k - 1])
        BY <3>2, <4>1, <2>1
      <4> QED BY <4>2, <4>3
    <3> QED BY <3>1, <3>2
  <2>6. Sums(f, parts, n)
    BY <2>4, <2>5 DEF Sums
  <2> QED BY <2>1, <2>4, <2>6, <1>2
<1> QED BY <1>3, <1>4

\* What Before is, from the part before.
LEMMA BeforeNext ==
    ASSUME NEW parts \in Seq(Nat)
    PROVE /\ Before(parts, 1) = 0
          /\ \A p \in 1 .. Len(parts) : Before(parts, p + 1) = Before(parts, p) + parts[p]
<1> DEFINE R(f) == f = [k \in 0 .. Len(parts) |-> IF k = 0 THEN 0 ELSE f[k - 1] + parts[k]]
           sum == CHOOSE f : R(f)
<1>1. Len(parts) \in Nat
  OBVIOUS
<1>2. \A p : Before(parts, p) = sum[p - 1]
  BY DEF Before
<1>3. R(sum)
  <2>1. \E f : R(f)
    BY <1>1, SumsExist DEF Sums
  <2> HIDE DEF R
  <2> QED BY <2>1
<1>4. \A k \in 0 .. Len(parts) : sum[k] = IF k = 0 THEN 0 ELSE sum[k - 1] + parts[k]
  <2> HIDE DEF sum
  <2> QED BY <1>3
<1> HIDE DEF sum
<1>5. \A p \in 1 .. Len(parts) : sum[p] = sum[p - 1] + parts[p]
  BY <1>1, <1>4
<1>6. sum[0] = 0
  BY <1>1, <1>4
<1>7. ASSUME NEW p \in 1 .. Len(parts)
      PROVE Before(parts, p + 1) = Before(parts, p) + parts[p]
  <2>1. Before(parts, p + 1) = sum[(p + 1) - 1] /\ Before(parts, p) = sum[p - 1]
    BY <1>2
  <2>2. (p + 1) - 1 = p
    BY <1>1
  <2> QED BY <1>5, <2>1, <2>2
<1> QED BY <1>2, <1>6, <1>7

LEMMA BeforeType ==
    ASSUME NEW parts \in Seq(Nat), NEW p \in 1 .. Len(parts) + 1
    PROVE Before(parts, p) \in Nat
<1> DEFINE Bad == {q \in 1 .. Len(parts) + 1 : Before(parts, q) \notin Nat}
<1> SUFFICES ASSUME Bad # {} PROVE FALSE
  OBVIOUS
<1>1. Len(parts) \in Nat /\ parts \in [1 .. Len(parts) -> Nat]
  OBVIOUS
<1>2. PICK n \in Bad : \A k \in Bad : n <= k
  <2>1. Bad \in SUBSET Nat
    BY <1>1
  <2> HIDE DEF Bad
  <2> QED BY <2>1, LeastOf
<1>3. n # 1 /\ n \in 1 .. Len(parts) + 1
  BY BeforeNext
<1>4. n - 1 \in 1 .. Len(parts) /\ n - 1 + 1 = n
  BY <1>1, <1>3
<1>5. n - 1 \notin Bad
  <2> HIDE DEF Bad
  <2> QED BY <1>1, <1>2, <1>4
<1>6. Before(parts, n - 1) \in Nat /\ parts[n - 1] \in Nat
  BY <1>1, <1>4, <1>5
<1>7. Before(parts, n) = Before(parts, n - 1) + parts[n - 1]
  BY <1>4, BeforeNext
<1>8. Before(parts, n) \in Nat
  BY <1>6, <1>7
<1> QED BY <1>8

\* A part ends within the group.
LEMMA PartWithin ==
    ASSUME NEW parts \in Seq(Nat), NEW p \in 1 .. Len(parts)
    PROVE Before(parts, p) + parts[p] <= Total(parts)
<1> DEFINE L == Len(parts) + 1
           Bad == {d \in 0 .. Len(parts) : Before(parts, L - d) > Total(parts)}
<1>1. Len(parts) \in Nat /\ parts \in [1 .. Len(parts) -> Nat]
  OBVIOUS
<1>2. ASSUME Bad # {} PROVE FALSE
  <2>1. PICK d \in Bad : \A k \in Bad : d <= k
    <3>1. Bad \in SUBSET Nat
      BY <1>1
    <3> HIDE DEF Bad
    <3> QED BY <1>2, <3>1, LeastOf
  <2>2. Total(parts) \in Nat /\ Total(parts) = Before(parts, L - 0)
    BY <1>1, BeforeType DEF Total
  <2>3. d # 0 /\ d \in 0 .. Len(parts)
    BY <2>2
  <2>4. d - 1 \in 0 .. Len(parts) /\ L - d \in 1 .. Len(parts) /\ L - (d - 1) = (L - d) + 1
    BY <1>1, <2>3
  <2>5. d - 1 \notin Bad
    <3> HIDE DEF Bad
    <3> QED BY <1>1, <2>1, <2>3, <2>4
  <2>6. Before(parts, (L - d) + 1) = Before(parts, L - d) + parts[L - d]
    BY <2>4, BeforeNext
  <2>7. Before(parts, L - d) \in Nat /\ Before(parts, (L - d) + 1) \in Nat /\ parts[L - d] \in Nat
    BY <1>1, <2>4, BeforeType
  <2>8. Before(parts, (L - d) + 1) <= Total(parts)
    BY <2>2, <2>4, <2>5, <2>7
  <2>9. Before(parts, L - d) <= Total(parts)
    BY <2>2, <2>6, <2>7, <2>8
  <2> QED BY <2>2, <2>7, <2>9
<1>3. Len(parts) - p \in 0 .. Len(parts) /\ L - (Len(parts) - p) = p + 1
  BY <1>1
<1>4. ~(Before(parts, p + 1) > Total(parts))
  BY <1>2, <1>3
<1>5. Before(parts, p + 1) = Before(parts, p) + parts[p]
  BY BeforeNext
<1>6. Before(parts, p + 1) \in Nat /\ Total(parts) \in Nat
  BY <1>1, BeforeType DEF Total
<1> QED BY <1>4, <1>5, <1>6

-----------------------------------------------------------------------------
(* The split. *)

LEMMA Division ==
    ASSUME NEW a \in Nat, NEW b \in Nat \ {0}
    PROVE /\ a \div b \in Nat
          /\ (a \div b) * b <= a /\ a < (a \div b) * b + b
OBVIOUS

LEMMA Product == ASSUME NEW a \in Nat, NEW b \in Nat PROVE a * b \in Nat
OBVIOUS

LEMMA Distributes == ASSUME NEW a \in Nat, NEW b \in Nat, NEW c \in Nat PROVE (a + b) * c = a * c + b * c
OBVIOUS

LEMMA CeilDivIs ==
    ASSUME NEW a \in Nat \ {0}, NEW b \in Nat \ {0}
    PROVE /\ CeilDiv(a, b) \in Nat \ {0}
          /\ a <= CeilDiv(a, b) * b
<1> DEFINE q == (a + b - 1) \div b
<1>1. a + b - 1 \in Nat
  OBVIOUS
<1>2. q \in Nat /\ a + b - 1 < q * b + b
  BY <1>1, Division
<1> HIDE DEF q
<1>3. q * b \in Nat /\ a <= q * b
  BY <1>2
<1>4. q # 0
  BY <1>3
<1> QED BY <1>2, <1>3, <1>4 DEF CeilDiv, q

\* A split in two tasks or more is of at least a row each, and of all rows together.
LEMMA SplitIs ==
    ASSUME NEW n \in Nat \ {0}, NEW m \in MaxTasks, GroupSplit(n, m).task_count >= 2
    PROVE /\ GroupSplit(n, m) \in [rows_per_task : Nat, task_count : Nat]
          /\ GroupSplit(n, m).rows_per_task > 0
          /\ n <= GroupSplit(n, m).task_count * GroupSplit(n, m).rows_per_task
<1> DEFINE u == Least(Least(Least(m, HardMaxTasks), CeilDiv(n, Align)), (K * n) \div MinWork)
           t == Most(1, u)
           rows == CeilDiv(CeilDiv(n, t), Align) * Align
<1>1. /\ m \in Nat \ {0} /\ HardMaxTasks \in Nat \ {0} /\ Align \in Nat \ {0}
      /\ K \in Nat \ {0} /\ MinWork \in Nat \ {0}
  BY SizesAssumption
<1>2. GroupSplit(n, m) = [rows_per_task |-> rows, task_count |-> CeilDiv(n, rows)]
  BY <1>1 DEF GroupSplit, SplitColumns
<1>3. t \in Nat \ {0}
  <2>1. CeilDiv(n, Align) \in Nat
    BY <1>1, CeilDivIs
  <2>2. K * n \in Nat
    BY <1>1, Product
  <2>3. (K * n) \div MinWork \in Nat
    BY <1>1, <2>2, Division
  <2>4. u \in Nat
    <3> DEFINE c == CeilDiv(n, Align)
               d == (K * n) \div MinWork
    <3>1. c \in Nat /\ d \in Nat
      BY <2>1, <2>3
    <3> HIDE DEF c, d
    <3>2. Least(Least(Least(m, HardMaxTasks), c), d) \in Nat
      BY <1>1, <3>1 DEF Least
    <3> QED BY <3>2 DEF c, d
  <2> HIDE DEF u
  <2> QED BY <2>4 DEF Most
<1> HIDE DEF t
<1>4. rows \in Nat \ {0}
  <2> DEFINE c == CeilDiv(CeilDiv(n, t), Align)
  <2>1. c \in Nat \ {0}
    BY <1>1, <1>3, CeilDivIs
  <2> HIDE DEF c
  <2>2. c * Align \in Nat /\ c * Align > 0
    BY <1>1, <2>1
  <2> QED BY <2>2 DEF c
<1> HIDE DEF rows
<1>5. CeilDiv(n, rows) \in Nat \ {0} /\ n <= CeilDiv(n, rows) * rows
  BY <1>4, CeilDivIs
<1> QED BY <1>2, <1>4, <1>5

\* The row of the group that row r of part p is lies between where the task begins and ends.
LEMMA CoversIs ==
    ASSUME NEW j \in Calls, NEW i \in Nat, NEW p \in 1 .. Len(j.parts), NEW r \in 0 .. j.parts[p] - 1
    PROVE LET x == Before(j.parts, p) + r
              R == j.split.rows_per_task
          IN <<p, r>> \in Covers(j, i, p) <=> i * R <= x /\ x < i * R + R
<1> DEFINE b == Before(j.parts, p)
           h == j.parts[p]
           n == Total(j.parts)
           R == j.split.rows_per_task
           a == i * R
<1>1. j.parts \in Seq(Nat) /\ R \in Nat /\ Len(j.parts) \in Nat
  BY SizesAssumption DEF Calls
<1>2. b \in Nat /\ h \in Nat /\ b + h <= n /\ n \in Nat
  BY <1>1, BeforeType, PartWithin DEF Total
<1>3. a \in Nat
  BY <1>1
<1>4. <<p, r>> \in Covers(j, i, p)
        <=> r \in Most(a, b) - b .. Least(Least(n, a + R), b + h) - b - 1
  BY DEF Covers
<1>5. r \in Nat /\ r < h
  BY <1>2
<1> HIDE DEF a, b, h, n, R
<1>6. r \in Most(a, b) - b .. Least(Least(n, a + R), b + h) - b - 1 <=> a <= b + r /\ b + r < a + R
  BY <1>1, <1>2, <1>3, <1>5 DEF Most, Least
<1> QED BY <1>4, <1>6 DEF a, b, R

LEMMA OwnPart ==
    ASSUME NEW j, NEW i, NEW p, NEW q, NEW r, <<q, r>> \in Covers(j, i, p)
    PROVE q = p
BY DEF Covers

\* No row is of two tasks.
LEMMA OneTask ==
    ASSUME NEW j \in Calls, NEW i \in Nat, NEW k \in Nat,
           NEW p \in 1 .. Len(j.parts), NEW r \in 0 .. j.parts[p] - 1,
           <<p, r>> \in Covers(j, i, p), <<p, r>> \in Covers(j, k, p)
    PROVE i = k
<1> DEFINE x == Before(j.parts, p) + r
           R == j.split.rows_per_task
<1>1. j.parts \in Seq(Nat) /\ R \in Nat /\ Len(j.parts) \in Nat
  BY SizesAssumption DEF Calls
<1>2. x \in Nat
  <2>1. j.parts[p] \in Nat /\ Before(j.parts, p) \in Nat
    BY <1>1, BeforeType
  <2>2. r \in Nat
    BY <2>1
  <2> QED BY <2>1, <2>2
<1>3. i * R <= x /\ x < i * R + R /\ k * R <= x /\ x < k * R + R
  BY CoversIs
<1> HIDE DEF x, R
<1>4. R \in Nat
  BY <1>1 DEF R
<1>5. \A c, d \in Nat : c < d => c * R + R <= d * R
  <2> TAKE c \in Nat, d \in Nat
  <2> HAVE c < d
  <2> DEFINE e == d - (c + 1)
  <2>1. e \in Nat /\ d = (c + 1) + e
    OBVIOUS
  <2> HIDE DEF e
  <2>2. d * R = (c + 1) * R + e * R
    BY <1>4, <2>1, Distributes
  <2>3. (c + 1) * R = c * R + R
    BY <1>4, Distributes
  <2>4. c * R \in Nat /\ e * R \in Nat
    BY <1>4, <2>1, Product
  <2> QED BY <1>4, <2>2, <2>3, <2>4
<1>6. ~(i < k) /\ ~(k < i)
  <2> DEFINE a == i * R
             b == k * R
  <2>1. (i < k => a + R <= b) /\ (k < i => b + R <= a)
    BY <1>5
  <2>2. a \in Nat /\ b \in Nat
    BY <1>4, Product
  <2>3. a <= x /\ x < a + R /\ b <= x /\ x < b + R
    BY <1>3
  <2> HIDE DEF a, b
  <2> QED BY <1>2, <1>4, <2>1, <2>2, <2>3
<1> QED BY <1>6

\* Every row is of a task.
LEMMA SomeTask ==
    ASSUME NEW j \in Calls, j.split.rows_per_task > 0,
           Total(j.parts) <= j.split.task_count * j.split.rows_per_task,
           NEW p \in 1 .. Len(j.parts), NEW r \in 0 .. j.parts[p] - 1
    PROVE \E i \in Tasks(j) : <<p, r>> \in Covers(j, i, p)
<1> DEFINE x == Before(j.parts, p) + r
           R == j.split.rows_per_task
           c == j.split.task_count
           i == x \div R
<1>1. j.parts \in Seq(Nat) /\ R \in Nat \ {0} /\ c \in Nat /\ Len(j.parts) \in Nat
  BY SizesAssumption DEF Calls
<1>2. x \in Nat /\ x < c * R
  <2>1. j.parts[p] \in Nat /\ Before(j.parts, p) \in Nat /\ Total(j.parts) \in Nat
    BY <1>1, BeforeType DEF Total
  <2>2. r \in Nat /\ r < j.parts[p]
    BY <2>1
  <2>3. Before(j.parts, p) + j.parts[p] <= Total(j.parts)
    BY <1>1, PartWithin
  <2>4. c * R \in Nat
    BY <1>1, Product
  <2> HIDE DEF c, R
  <2>5. Total(j.parts) <= c * R
    BY DEF c, R
  <2> QED BY <2>1, <2>2, <2>3, <2>4, <2>5
<1>3. i \in Nat /\ i * R <= x /\ x < i * R + R
  <2> HIDE DEF x, R
  <2> QED BY <1>1, <1>2, Division
<1> HIDE DEF i
<1>4. <<p, r>> \in Covers(j, i, p)
  BY <1>3, CoversIs
<1>5. i < c
  <2> HIDE DEF x, R, c
  <2> SUFFICES ASSUME c <= i PROVE FALSE
    BY <1>1, <1>3
  <2> DEFINE e == i - c
  <2>1. e \in Nat /\ i = c + e
    BY <1>1, <1>3
  <2> HIDE DEF e
  <2>2. i * R = c * R + e * R
    BY <1>1, <2>1, Distributes
  <2>3. e * R \in Nat /\ c * R \in Nat
    BY <1>1, <2>1, Product
  <2> QED BY <1>2, <1>3, <2>2, <2>3
<1> QED BY <1>1, <1>3, <1>4, <1>5 DEF Tasks

-----------------------------------------------------------------------------
(* The inductive invariant. *)

\* The tasks of a call have all its rows.
SplitCovers == \A t \in Threads : InCall(t) =>
    /\ job[t].split.rows_per_task > 0
    /\ Total(job[t].parts) <= job[t].split.task_count * job[t].split.rows_per_task

\* An invocation runs under its call's binding and keeps what its thread has to get back.
BindingInv ==
    /\ \A t \in Threads : InCall(t) => job[t].captured.depth > 0 \/ job[t].captured = Unbound
    /\ \A w \in Threads : ~Free(w) =>
          /\ binding[w].call = job[doing[w].of].captured.call
          /\ doing[w].saved.list = None /\ doing[w].saved.call \in {0, w}
          /\ InCall(w) => doing[w].saved.depth = job[w].captured.depth
    /\ \A w \in Threads : Free(w) =>
          /\ binding[w].list = None /\ binding[w].call \in {0, w}
          /\ InCall(w) => binding[w].depth = job[w].captured.depth

\* Of what the threads do, D: which are in an invocation of task i of t's call, before its task
\* is begun and after.
Invoked(D, w, t, i) == D[w] # None /\ D[w].of = t /\ D[w].task = i
Pending(D, t, i) == {w \in Threads : Invoked(D, w, t, i) /\ D[w].part = 0}
Body(D, t, i) == {w \in Threads : Invoked(D, w, t, i) /\ D[w].part > 0}

\* How often task i was begun or refused, and what the call knows of it.
Begun(D, n, t, i) == n[t][i] - Cardinality(Pending(D, t, i))
BegunOf(t) ==
    /\ \A i \in Indices(job[t]) : Begun(doing, invoked, t, i) >= 0
    /\ \A i \in Tasks(job[t]) : state[t][i] = 0 <=> Begun(doing, invoked, t, i) = 0
    /\ violation[t] <=> \E i \in Indices(job[t]) : Begun(doing, invoked, t, i) > (IF i \in Tasks(job[t]) THEN 1 ELSE 0)
BegunInv == \A t \in Threads : InCall(t) => BegunOf(t)

\* One thread at most is in the body of a task, and one is while the task is admitted.
BodyOf(t, i) ==
    /\ \A v, w \in Body(doing, t, i) : v = w
    /\ state[t][i] = 1 <=> Body(doing, t, i) # {}
BodyInv == \A t \in Threads : InCall(t) => \A i \in Tasks(job[t]) : BodyOf(t, i)

\* The rows that are written are those of the parts a task's body is past.
Passed(D, st, t, i, p) == st[t][i] = 2 \/ \E w \in Threads : Invoked(D, w, t, i) /\ D[w].part > p
RowOf(t, p, r) ==
    written[t][<<p, r>>] = IF \E i \in Tasks(job[t]) : <<p, r>> \in Covers(job[t], i, p) /\ Passed(doing, state, t, i, p)
                           THEN 1 ELSE 0
RowsInv == \A t \in Threads : InCall(t) =>
    \A p \in 1 .. Len(job[t].parts) : \A r \in 0 .. job[t].parts[p] - 1 : RowOf(t, p, r)

Inv == TypeOK /\ SplitCovers /\ BindingInv /\ BegunInv /\ BodyInv /\ RowsInv

-----------------------------------------------------------------------------
(* Types. *)

LEMMA Calling == ASSUME NEW t \in Threads, TypeOK PROVE InCall(t) <=> job[t] \in Calls
BY NoneAssumption DEF TypeOK, InCall

LEMMA Busy == ASSUME NEW w \in Threads, TypeOK PROVE ~Free(w) <=> doing[w] \in Invocations
BY NoneAssumption DEF TypeOK, Free

LEMMA CaptureIs ==
    ASSUME NEW t \in Threads, TypeOK
    PROVE /\ Capture(t) \in Bindings
          /\ Capture(t).depth > 0 \/ Capture(t) = Unbound
          /\ Capture(t).depth = binding[t].depth
<1>1. binding[t] \in Bindings
  BY DEF TypeOK
<1>2. Unbound \in Bindings /\ Unbound.depth = 0
  BY DEF Unbound, Bindings
<1>3. CASE binding[t].depth > 0
  BY <1>1, <1>3 DEF Capture, CurrentList, Bindings
<1>4. CASE ~(binding[t].depth > 0)
  BY <1>1, <1>2, <1>4 DEF Capture, Bindings
<1> QED BY <1>3, <1>4

LEMMA InstallType == ASSUME NEW w \in Threads, NEW b \in Bindings PROVE Install(w, b) \in Bindings
BY DEF Install, Unbound, Bindings

LEMMA InitTypes == Init => TypeOK /\ SplitCovers
BY DEF Init, TypeOK, CallTypes, InvocationTypes, SplitCovers, InCall, Free, Unbound, Bindings

LEMMA OpenScopeTypes ==
    ASSUME NEW t \in Threads, TypeOK, SplitCovers, OpenScope(t) PROVE TypeOK' /\ SplitCovers'
<1>1. binding' \in [Threads -> Bindings]
  BY DEF OpenScope, TypeOK, Bindings
<1>2. UNCHANGED <<job, state, violation, invoked, written, doing, result>>
  BY DEF OpenScope
<1> QED BY <1>1, <1>2 DEF TypeOK, CallTypes, InvocationTypes, SplitCovers, InCall, Free

LEMMA CloseScopeTypes ==
    ASSUME NEW t \in Threads, TypeOK, SplitCovers, CloseScope(t) PROVE TypeOK' /\ SplitCovers'
<1>1. binding' \in [Threads -> Bindings]
  BY DEF CloseScope, TypeOK, Bindings
<1>2. UNCHANGED <<job, state, violation, invoked, written, doing, result>>
  BY DEF CloseScope
<1> QED BY <1>1, <1>2 DEF TypeOK, CallTypes, InvocationTypes, SplitCovers, InCall, Free

LEMMA StartIs ==
    ASSUME NEW t \in Threads, NEW parts \in Groups, NEW m \in MaxTasks, TypeOK, Start(t, parts, m)
    PROVE LET split == GroupSplit(Total(parts), m)
              j == [parts |-> parts, split |-> split, captured |-> Capture(t)]
          IN /\ j \in Calls /\ split.rows_per_task > 0
             /\ Total(parts) <= split.task_count * split.rows_per_task
             /\ job' = [job EXCEPT ![t] = j] /\ job'[t] \in Calls /\ job'[t].parts = parts
<1> DEFINE split == GroupSplit(Total(parts), m)
           j == [parts |-> parts, split |-> split, captured |-> Capture(t)]
<1>1. Total(parts) \in Nat \ {0}
  <2>1. parts \in Seq(Nat) /\ Len(parts) + 1 \in 1 .. Len(parts) + 1
    BY SizesAssumption
  <2> QED BY <2>1, BeforeType DEF Start, Total
<1>2. /\ split \in [rows_per_task : Nat, task_count : Nat] /\ split.rows_per_task > 0
      /\ Total(parts) <= split.task_count * split.rows_per_task
  BY <1>1, SplitIs DEF Start
<1>3. j \in Calls
  BY <1>2, CaptureIs DEF Calls
<1>4. job' = [job EXCEPT ![t] = j] /\ j.parts = parts
  BY DEF Start
<1> HIDE DEF j, split
<1>5. job'[t] \in Calls /\ job'[t].parts = parts
  BY <1>3, <1>4 DEF TypeOK
<1> QED BY <1>2, <1>3, <1>4, <1>5 DEF j, split

LEMMA StartTypes ==
    ASSUME NEW t \in Threads, NEW parts \in Groups, NEW m \in MaxTasks, TypeOK, SplitCovers,
           Start(t, parts, m)
    PROVE TypeOK' /\ SplitCovers'
<1> DEFINE split == GroupSplit(Total(parts), m)
           j == [parts |-> parts, split |-> split, captured |-> Capture(t)]
<1>2. /\ split.rows_per_task > 0
      /\ Total(parts) <= split.task_count * split.rows_per_task
  BY StartIs
<1>3. j \in Calls
  BY StartIs
<1>4. /\ job' = [job EXCEPT ![t] = j]
      /\ state' = [state EXCEPT ![t] = [i \in Tasks(j) |-> 0]]
      /\ violation' = [violation EXCEPT ![t] = FALSE]
      /\ invoked' = [invoked EXCEPT ![t] = [i \in Indices(j) |-> 0]]
      /\ written' = [written EXCEPT ![t] = [row \in RowsOf(parts) |-> 0]]
      /\ result' = [result EXCEPT ![t] = "none"]
      /\ UNCHANGED <<doing, binding>> /\ ~InCall(t)
  BY DEF Start
<1>5. j.parts = parts /\ j.split = split
  OBVIOUS
<1> HIDE DEF j, split
<1>6. TypeOK'
  <2>1. CallTypes'
    <3> SUFFICES ASSUME NEW s \in Threads, InCall(s)'
                 PROVE /\ state'[s] \in [Tasks(job'[s]) -> 0 .. 2]
                       /\ invoked'[s] \in [Indices(job'[s]) -> Nat]
                       /\ written'[s] \in [RowsOf(job'[s].parts) -> Nat]
      BY DEF CallTypes, Tasks, Indices
    <3>1. CASE s = t
      BY <1>4, <1>5, <3>1 DEF TypeOK
    <3>2. CASE s # t
      BY <1>4, <3>2 DEF TypeOK, CallTypes, InCall
    <3> QED BY <3>1, <3>2
  <2>2. InvocationTypes'
    <3>1. \A w \in Threads : ~Free(w) => doing[w].of # t
      BY <1>4 DEF TypeOK, InvocationTypes
    <3>2. \A w \in Threads : ~Free(w) => job'[doing[w].of] = job[doing[w].of]
      BY <1>4, <3>1, Busy DEF TypeOK, Invocations
    <3> QED BY <1>4, <3>2 DEF TypeOK, InvocationTypes, InCall, Free, Tasks, Indices
  <2> QED BY <1>3, <1>4, <2>1, <2>2 DEF TypeOK
<1>7. SplitCovers'
  BY <1>2, <1>3, <1>4, <1>5 DEF TypeOK, SplitCovers, InCall
<1> QED BY <1>6, <1>7

\* Thread w goes into, on within or out of an invocation: those of others are as they were.
Sound(e) ==
    /\ InCall(e.of) /\ e.task \in Indices(job[e.of])
    /\ e.part <= Len(job[e.of].parts) + 1
    /\ e.part > 0 => e.task \in Tasks(job[e.of])

LEMMA DoingStep ==
    ASSUME NEW w \in Threads, NEW e \in Invocations \cup {None}, TypeOK,
           UNCHANGED job, doing' = [doing EXCEPT ![w] = e], e # None => Sound(e)
    PROVE doing' \in [Threads -> Invocations \cup {None}] /\ InvocationTypes'
<1>1. doing' \in [Threads -> Invocations \cup {None}]
  BY DEF TypeOK
<1>2. ASSUME NEW v \in Threads, doing'[v] # None PROVE Sound(doing'[v])
  <2>1. CASE v = w
    BY <1>2, <2>1 DEF TypeOK
  <2>2. CASE v # w
    BY <1>2, <2>2 DEF TypeOK, InvocationTypes, Free, Sound
  <2> QED BY <2>1, <2>2
<1>3. InvocationTypes'
  BY <1>2 DEF InvocationTypes, Free, Sound, InCall, Tasks, Indices
<1> QED BY <1>1, <1>3

LEMMA InvokedIs ==
    ASSUME NEW w \in Threads, NEW t \in Threads, NEW i \in DOMAIN invoked[t], TypeOK, Invoke(w, t, i)
    PROVE LET d == [of |-> t, task |-> i, part |-> 0, saved |-> binding[w]]
          IN d \in Invocations /\ d # None /\ Sound(d) /\ doing' = [doing EXCEPT ![w] = d]
<1> DEFINE d == [of |-> t, task |-> i, part |-> 0, saved |-> binding[w]]
<1>1. job[t] \in Calls /\ InCall(t)
  BY Calling DEF Invoke
<1>2. i \in Indices(job[t])
  BY <1>1 DEF TypeOK, CallTypes
<1>3. i \in Nat
  BY <1>1, <1>2 DEF Indices, Calls
<1>4. d \in Invocations
  BY <1>3 DEF Invocations, TypeOK
<1>5. Sound(d)
  BY <1>1, <1>2, SizesAssumption DEF Sound, Calls
<1>6. d # None
  <2> HIDE DEF d
  <2> QED BY <1>4, NoneAssumption
<1> QED BY <1>4, <1>5, <1>6 DEF Invoke

LEMMA InvokeTypes ==
    ASSUME NEW w \in Threads, NEW t \in Threads, NEW i \in DOMAIN invoked[t], TypeOK, SplitCovers,
           Invoke(w, t, i)
    PROVE TypeOK' /\ SplitCovers'
<1> DEFINE d == [of |-> t, task |-> i, part |-> 0, saved |-> binding[w]]
<1>1. job[t] \in Calls /\ i \in Indices(job[t])
  BY Calling, InvokedIs DEF Invoke, Sound
<1>2. doing' \in [Threads -> Invocations \cup {None}] /\ InvocationTypes'
  <2>1. d \in Invocations /\ Sound(d) /\ doing' = [doing EXCEPT ![w] = d] /\ UNCHANGED job
    BY InvokedIs DEF Invoke
  <2> HIDE DEF d
  <2> QED BY <2>1, DoingStep
<1>3. binding' \in [Threads -> Bindings]
  <2>1. Install(w, job[t].captured) \in Bindings
    BY <1>1, InstallType DEF Calls
  <2> QED BY <2>1 DEF Invoke, TypeOK
<1>4. CallTypes'
  <2>1. \A s \in Threads : InCall(s) => invoked'[s] \in [Indices(job[s]) -> Nat]
    BY <1>1 DEF Invoke, TypeOK, CallTypes
  <2> QED BY <2>1 DEF Invoke, TypeOK, CallTypes, InCall, Tasks, Indices
<1>5. TypeOK'
  BY <1>2, <1>3, <1>4 DEF Invoke, TypeOK
<1> QED BY <1>5 DEF Invoke, SplitCovers, InCall

\* What a thread in an invocation is in.
LEMMA InTask ==
    ASSUME NEW w \in Threads, TypeOK, ~Free(w)
    PROVE /\ doing[w] \in Invocations /\ doing[w].of \in Threads /\ InCall(doing[w].of)
          /\ doing[w].task \in Nat /\ doing[w].part \in Nat /\ doing[w].saved \in Bindings
          /\ job[doing[w].of] \in Calls /\ Len(job[doing[w].of].parts) \in Nat
          /\ Sound(doing[w])
<1>1. doing[w] \in Invocations
  BY Busy
<1>2. doing[w].of \in Threads /\ Sound(doing[w])
  BY <1>1 DEF Invocations, TypeOK, InvocationTypes, Sound
<1>3. job[doing[w].of] \in Calls
  BY <1>2, Calling DEF Sound
<1> QED BY <1>1, <1>2, <1>3, SizesAssumption DEF Invocations, Calls, Sound

LEMMA BeginTaskTypes ==
    ASSUME NEW w \in Threads, TypeOK, SplitCovers, BeginTask(w) PROVE TypeOK' /\ SplitCovers'
<1> DEFINE t == doing[w].of
           i == doing[w].task
<1>1. ~Free(w)
  BY DEF BeginTask
<1>2. CASE Admit(t, i)
  <2>1. /\ state' = [state EXCEPT ![t][i] = 1] /\ doing' = [doing EXCEPT ![w].part = 1]
        /\ UNCHANGED <<violation, binding, job, invoked, written, result>>
        /\ i \in Tasks(job[t])
    BY <1>2 DEF BeginTask, Admit
  <2> DEFINE e == [doing[w] EXCEPT !.part = 1]
  <2>2. e \in Invocations /\ Sound(e)
    BY <1>1, <2>1, InTask DEF Invocations, Sound
  <2>3. doing' \in [Threads -> Invocations \cup {None}] /\ InvocationTypes'
    <3>1. doing' = [doing EXCEPT ![w] = e]
      BY <2>1
    <3> HIDE DEF e
    <3> QED BY <2>1, <2>2, <3>1, DoingStep
  <2>4. CallTypes'
    BY <1>1, <2>1, InTask DEF TypeOK, CallTypes, InCall, Tasks, Indices
  <2>5. TypeOK'
    BY <2>1, <2>3, <2>4 DEF TypeOK
  <2> QED BY <2>1, <2>5 DEF SplitCovers, InCall
<1>3. CASE ~Admit(t, i)
  <2>1. /\ violation' = [violation EXCEPT ![t] = TRUE] /\ doing' = [doing EXCEPT ![w] = None]
        /\ binding' = [binding EXCEPT ![w] = doing[w].saved]
        /\ UNCHANGED <<state, job, invoked, written, result>>
    BY <1>3 DEF BeginTask
  <2>2. doing' \in [Threads -> Invocations \cup {None}] /\ InvocationTypes'
    BY <2>1, DoingStep
  <2>3. CallTypes'
    BY <2>1 DEF TypeOK, CallTypes, InCall, Tasks, Indices
  <2>4. TypeOK'
    BY <1>1, <2>1, <2>2, <2>3, InTask DEF TypeOK
  <2> QED BY <2>1, <2>4 DEF SplitCovers, InCall
<1> QED BY <1>2, <1>3

LEMMA WritePartTypes ==
    ASSUME NEW w \in Threads, TypeOK, SplitCovers, WritePart(w) PROVE TypeOK' /\ SplitCovers'
<1> DEFINE e == [doing[w] EXCEPT !.part = @ + 1]
<1>1. /\ doing[w].part \in 1 .. Len(job[doing[w].of].parts)
      /\ doing' = [doing EXCEPT ![w] = e] /\ ~Free(w)
      /\ UNCHANGED <<job, state, violation, invoked, binding, result>>
  BY DEF WritePart
<1>2. e \in Invocations /\ Sound(e)
  BY <1>1, InTask DEF Invocations, Sound
<1> HIDE DEF e
<1>3. doing' \in [Threads -> Invocations \cup {None}] /\ InvocationTypes'
  BY <1>1, <1>2, DoingStep
<1>4. written' = [s \in Threads |-> written'[s]]
  BY DEF WritePart, TypeOK
<1>5. \A s \in Threads : InCall(s) => written'[s] \in [RowsOf(job[s].parts) -> Nat]
  BY <1>1, InTask DEF WritePart, TypeOK, CallTypes
<1>6. CallTypes'
  BY <1>1, <1>5 DEF TypeOK, CallTypes, InCall, Tasks, Indices
<1>7. TypeOK'
  BY <1>1, <1>3, <1>4, <1>6 DEF TypeOK
<1> QED BY <1>1, <1>7 DEF SplitCovers, InCall

LEMMA EndTaskTypes ==
    ASSUME NEW w \in Threads, TypeOK, SplitCovers, EndTask(w) PROVE TypeOK' /\ SplitCovers'
<1> DEFINE t == doing[w].of
           i == doing[w].task
<1>1. /\ state' = [state EXCEPT ![t][i] = 2] /\ doing' = [doing EXCEPT ![w] = None]
      /\ binding' = [binding EXCEPT ![w] = doing[w].saved] /\ ~Free(w)
      /\ UNCHANGED <<job, violation, invoked, written, result>>
  BY DEF EndTask, Restored
<1>2. doing' \in [Threads -> Invocations \cup {None}] /\ InvocationTypes'
  BY <1>1, DoingStep
<1>3. CallTypes'
  <2>1. t \in Threads /\ i \in Tasks(job[t])
    BY <1>1, InTask DEF EndTask, Sound
  <2> HIDE DEF t, i
  <2>2. \A s \in Threads : InCall(s) => state'[s] \in [Tasks(job[s]) -> 0 .. 2]
    BY <1>1, <2>1 DEF TypeOK, CallTypes
  <2> QED BY <1>1, <2>2 DEF TypeOK, CallTypes, InCall, Tasks, Indices
<1>4. TypeOK'
  BY <1>1, <1>2, <1>3, InTask DEF TypeOK
<1> QED BY <1>1, <1>4 DEF SplitCovers, InCall

LEMMA RunReturnsTypes ==
    ASSUME NEW t \in Threads, TypeOK, SplitCovers, RunReturns(t) PROVE TypeOK' /\ SplitCovers'
<1>1. \A s \in Threads : InCall(s)' <=> s # t /\ InCall(s)
  BY DEF RunReturns, TypeOK, InCall
<1>2. \A s \in Threads \ {t} : /\ job'[s] = job[s] /\ state'[s] = state[s]
                               /\ invoked'[s] = invoked[s] /\ written'[s] = written[s]
  BY DEF RunReturns, TypeOK
<1>3. CallTypes'
  BY <1>1, <1>2 DEF TypeOK, CallTypes, InCall, Tasks, Indices
<1>4. InvocationTypes'
  <2>1. \A w \in Threads : ~Free(w) => doing[w].of \in Threads \ {t}
    BY InTask DEF RunReturns
  <2> QED BY <1>1, <1>2, <2>1 DEF RunReturns, TypeOK, InvocationTypes, Free, Tasks, Indices
<1>5. TypeOK'
  BY <1>3, <1>4 DEF RunReturns, TypeOK
<1> QED BY <1>1, <1>2, <1>5 DEF SplitCovers

-----------------------------------------------------------------------------
(* Bindings. *)

LEMMA InitBinding == Init => BindingInv
BY DEF Init, BindingInv, InCall, Free, Unbound

LEMMA ScopeBinding ==
    ASSUME NEW t \in Threads, TypeOK, BindingInv, OpenScope(t) \/ CloseScope(t)
    PROVE BindingInv'
<1>1. CASE OpenScope(t)
  BY <1>1 DEF OpenScope, TypeOK, BindingInv, InCall, Free, Bindings
<1>2. CASE CloseScope(t)
  BY <1>2 DEF CloseScope, TypeOK, BindingInv, InCall, Free, Bindings
<1> QED BY <1>1, <1>2

LEMMA StartBinding ==
    ASSUME NEW t \in Threads, NEW parts \in Groups, NEW m \in MaxTasks, TypeOK, BindingInv,
           Start(t, parts, m)
    PROVE BindingInv'
<1>1. /\ Capture(t).depth > 0 \/ Capture(t) = Unbound
      /\ Capture(t).depth = binding[t].depth
  BY CaptureIs
<1>2. /\ job'[t].captured = Capture(t) /\ Free(t) /\ ~InCall(t)
      /\ \A s \in Threads \ {t} : job'[s] = job[s]
      /\ UNCHANGED <<doing, binding>>
  BY DEF Start, TypeOK
<1>3. \A w \in Threads : ~Free(w) => doing[w].of \in Threads \ {t}
  BY <1>2, InTask DEF Sound
<1> QED BY <1>1, <1>2, <1>3 DEF BindingInv, InCall, Free

LEMMA InvokeBinding ==
    ASSUME NEW w \in Threads, NEW t \in Threads, NEW i \in DOMAIN invoked[t], TypeOK, BindingInv,
           Invoke(w, t, i)
    PROVE BindingInv'
<1>1. /\ doing'[w].of = t /\ doing'[w].saved = binding[w]
      /\ binding'[w] = Install(w, job[t].captured)
      /\ UNCHANGED job /\ Free(w) /\ InCall(t)
      /\ \A v \in Threads \ {w} : doing'[v] = doing[v] /\ binding'[v] = binding[v]
  BY DEF Invoke, TypeOK
<1>2. doing'[w] # None
  BY InvokedIs DEF TypeOK
<1>3. Install(w, job[t].captured).call = job[t].captured.call
  BY <1>1 DEF BindingInv, Install
<1> QED BY <1>1, <1>2, <1>3 DEF BindingInv, InCall, Free

LEMMA BeginTaskBinding ==
    ASSUME NEW w \in Threads, TypeOK, BindingInv, BeginTask(w) PROVE BindingInv'
<1>1. ~Free(w) /\ UNCHANGED job
  BY DEF BeginTask
<1>2. CASE Admit(doing[w].of, doing[w].task)
  <2>1. /\ doing'[w] = [doing[w] EXCEPT !.part = 1] /\ UNCHANGED binding
        /\ \A v \in Threads \ {w} : doing'[v] = doing[v]
    BY <1>2 DEF BeginTask, TypeOK
  <2>2. doing'[w].of = doing[w].of /\ doing'[w].saved = doing[w].saved
    BY <1>1, <2>1, InTask DEF Invocations
  <2>3. doing'[w] # None
    BY <1>1, <2>1, InTask, NoneAssumption DEF Invocations
  <2>4. \A v \in Threads : /\ doing'[v] = None <=> doing[v] = None
                           /\ doing[v] # None => doing'[v].of = doing[v].of /\ doing'[v].saved = doing[v].saved
    BY <1>1, <2>1, <2>2, <2>3 DEF Free
  <2>5. UNCHANGED <<job, binding>>
    BY <1>1, <2>1
  <2> QED BY <2>4, <2>5 DEF BindingInv, InCall, Free
<1>3. CASE ~Admit(doing[w].of, doing[w].task)
  <2>1. /\ doing'[w] = None /\ binding'[w] = doing[w].saved
        /\ \A v \in Threads \ {w} : doing'[v] = doing[v] /\ binding'[v] = binding[v]
    BY <1>3 DEF BeginTask, TypeOK
  <2> QED BY <1>1, <2>1 DEF BindingInv, InCall, Free
<1> QED BY <1>2, <1>3

LEMMA WritePartBinding ==
    ASSUME NEW w \in Threads, TypeOK, BindingInv, WritePart(w) PROVE BindingInv'
<1>1. /\ ~Free(w) /\ UNCHANGED <<job, binding>>
      /\ doing'[w] = [doing[w] EXCEPT !.part = @ + 1]
      /\ \A v \in Threads \ {w} : doing'[v] = doing[v]
  BY DEF WritePart, TypeOK
<1>2. doing'[w].of = doing[w].of /\ doing'[w].saved = doing[w].saved
  BY <1>1, InTask DEF Invocations
<1>3. doing'[w] # None
  BY <1>1, InTask, NoneAssumption DEF Invocations
<1>4. \A v \in Threads : /\ doing'[v] = None <=> doing[v] = None
                         /\ doing[v] # None => doing'[v].of = doing[v].of /\ doing'[v].saved = doing[v].saved
  BY <1>1, <1>2, <1>3 DEF Free
<1>5. UNCHANGED <<job, binding>>
  BY <1>1
<1> QED BY <1>4, <1>5 DEF BindingInv, InCall, Free

LEMMA EndTaskBinding ==
    ASSUME NEW w \in Threads, TypeOK, BindingInv, EndTask(w) PROVE BindingInv'
<1>1. /\ ~Free(w) /\ UNCHANGED job /\ doing'[w] = None /\ binding'[w] = doing[w].saved
      /\ \A v \in Threads \ {w} : doing'[v] = doing[v] /\ binding'[v] = binding[v]
  BY DEF EndTask, Restored, TypeOK
<1> QED BY <1>1 DEF BindingInv, InCall, Free

LEMMA RunReturnsBinding ==
    ASSUME NEW t \in Threads, TypeOK, BindingInv, RunReturns(t) PROVE BindingInv'
<1>1. /\ job'[t] = None /\ UNCHANGED <<doing, binding>>
      /\ \A s \in Threads \ {t} : job'[s] = job[s]
  BY DEF RunReturns, TypeOK
<1>2. \A w \in Threads : ~Free(w) => doing[w].of \in Threads \ {t}
  BY InTask DEF RunReturns
<1> QED BY <1>1, <1>2 DEF BindingInv, InCall, Free

-----------------------------------------------------------------------------
(* Invocations begun, and bodies. *)

LEMMA PendingType ==
    ASSUME NEW D, NEW t, NEW i
    PROVE IsFiniteSet(Pending(D, t, i)) /\ Cardinality(Pending(D, t, i)) \in Nat
<1>1. Pending(D, t, i) \in SUBSET Threads
  BY DEF Pending
<1> QED BY <1>1, ThreadsAssumption, FS_Subset, FS_CardinalityType

LEMMA InvokedType ==
    ASSUME NEW t \in Threads, TypeOK, InCall(t), NEW i \in Indices(job[t])
    PROVE invoked[t][i] \in Nat /\ Begun(doing, invoked, t, i) \in Int
<1>1. invoked[t][i] \in Nat
  BY DEF TypeOK, CallTypes
<1>2. Cardinality(Pending(doing, t, i)) \in Nat
  BY PendingType
<1> QED BY <1>1, <1>2 DEF Begun

\* What a thread does that is not in the call, or goes on within a body, is nothing to a count.
LEMMA BegunSame ==
    ASSUME NEW s \in Threads, TypeOK, InCall(s), job'[s] = job[s], violation'[s] <=> violation[s], BegunOf(s),
           \A k \in Tasks(job[s]) : state'[s][k] = 0 <=> state[s][k] = 0,
           \A k \in Indices(job[s]) : Begun(doing', invoked', s, k) = Begun(doing, invoked, s, k)
    PROVE BegunOf(s)'
<1>0. Tasks(job[s]) \subseteq Indices(job[s])
  BY Calling DEF Tasks, Indices, Calls
<1>1. /\ \A i \in Indices(job[s]) : Begun(doing', invoked', s, i) >= 0
      /\ \A i \in Tasks(job[s]) : state'[s][i] = 0 <=> Begun(doing', invoked', s, i) = 0
  BY <1>0 DEF BegunOf
<1>2. violation'[s] <=> \E i \in Indices(job[s]) : Begun(doing', invoked', s, i) > (IF i \in Tasks(job[s]) THEN 1 ELSE 0)
  BY DEF BegunOf
<1> QED BY <1>1, <1>2 DEF BegunOf, Tasks, Indices

LEMMA BodySame ==
    ASSUME NEW s \in Threads, NEW k, BodyOf(s, k),
           state'[s][k] = 1 <=> state[s][k] = 1, Body(doing', s, k) = Body(doing, s, k)
    PROVE BodyOf(s, k)'
BY DEF BodyOf

LEMMA InitCounts == Init => BegunInv /\ BodyInv
BY DEF Init, BegunInv, BodyInv, InCall

LEMMA ScopeCounts ==
    ASSUME NEW t \in Threads, BegunInv, BodyInv, OpenScope(t) \/ CloseScope(t)
    PROVE BegunInv' /\ BodyInv'
<1>1. UNCHANGED <<job, state, violation, invoked, doing>>
  BY DEF OpenScope, CloseScope
<1>2. BegunInv'
  BY <1>1 DEF BegunInv, BegunOf, InCall, Tasks, Indices
<1>3. BodyInv'
  BY <1>1 DEF BodyInv, BodyOf, InCall, Tasks
<1> QED BY <1>2, <1>3

LEMMA DoingIs == TypeOK => doing = [v \in Threads |-> doing[v]]
BY DEF TypeOK

LEMMA InvokeCounts ==
    ASSUME NEW w \in Threads, NEW t \in Threads, NEW i \in DOMAIN invoked[t],
           TypeOK, BegunInv, BodyInv, Invoke(w, t, i)
    PROVE BegunInv' /\ BodyInv'
<1> DEFINE d == [of |-> t, task |-> i, part |-> 0, saved |-> binding[w]]
<1>1. /\ doing' = [doing EXCEPT ![w] = d] /\ d # None /\ d.of = t /\ d.task = i /\ d.part = 0
      /\ i \in Indices(job[t]) /\ i \in Nat
  BY InvokedIs DEF Sound, Invocations
<1>2. /\ Free(w) /\ InCall(t) /\ invoked' = [invoked EXCEPT ![t][i] = @ + 1]
      /\ UNCHANGED <<job, state, violation>>
  BY DEF Invoke
<1> HIDE DEF d
<1>3. ASSUME NEW s \in Threads, InCall(s), NEW k \in Indices(job[s])
      PROVE Begun(doing', invoked', s, k) = Begun(doing, invoked, s, k)
  <2>1. w \notin Pending(doing, s, k)
    BY <1>2 DEF Pending, Invoked, Free
  <2>2. IsFiniteSet(Pending(doing, s, k)) /\ Cardinality(Pending(doing, s, k)) \in Nat /\ invoked[s][k] \in Nat
    BY <1>3, PendingType, InvokedType
  <2>3. CASE s = t /\ k = i
    <3>1. Pending(doing', s, k) = Pending(doing, s, k) \cup {w}
      BY <1>1, <2>1, <2>3, DoingIs DEF Pending, Body, Invoked, Free
    <3>2. Cardinality(Pending(doing, s, k) \cup {w}) = Cardinality(Pending(doing, s, k)) + 1
      BY <2>1, <2>2, FS_AddElement
    <3>3. invoked'[s][k] = invoked[s][k] + 1
      BY <1>1, <1>2, <1>3, <2>3 DEF TypeOK, CallTypes
    <3> QED BY <2>2, <3>1, <3>2, <3>3 DEF Begun
  <2>4. CASE ~(s = t /\ k = i)
    <3>1. Pending(doing', s, k) = Pending(doing, s, k)
      BY <1>1, <2>1, <2>4, DoingIs DEF Pending, Body, Invoked, Free
    <3>2. invoked'[s][k] = invoked[s][k]
      BY <1>2, <1>3, <2>4 DEF TypeOK, CallTypes
    <3> QED BY <3>1, <3>2 DEF Begun
  <2> QED BY <2>3, <2>4
<1>4. ASSUME NEW s \in Threads, InCall(s)' PROVE BegunOf(s)'
  <2>1. InCall(s) /\ job'[s] = job[s] /\ (violation'[s] <=> violation[s]) /\ state'[s] = state[s]
    BY <1>2, <1>4 DEF InCall
  <2> QED BY <1>3, <2>1, BegunSame DEF BegunInv
<1>5. ASSUME NEW s \in Threads, InCall(s)', NEW k \in Tasks(job[s])' PROVE BodyOf(s, k)'
  <2>1. InCall(s) /\ k \in Tasks(job[s]) /\ state' = state
    BY <1>2, <1>5 DEF InCall, Tasks
  <2>2. Body(doing', s, k) = Body(doing, s, k)
    <3>1. w \notin Body(doing, s, k)
      BY <1>2 DEF Body, Invoked, Free
    <3> QED BY <1>1, <3>1, DoingIs DEF Pending, Body, Invoked, Free
  <2> QED BY <2>1, <2>2, BodySame DEF BodyInv
<1> QED BY <1>4, <1>5 DEF BegunInv, BodyInv

LEMMA WritePartCounts ==
    ASSUME NEW w \in Threads, TypeOK, BegunInv, BodyInv, WritePart(w)
    PROVE BegunInv' /\ BodyInv'
<1> DEFINE e == [doing[w] EXCEPT !.part = @ + 1]
<1>1. /\ doing' = [doing EXCEPT ![w] = e] /\ ~Free(w) /\ doing[w].part > 0
      /\ UNCHANGED <<job, state, violation, invoked>>
  BY DEF WritePart
<1>2. e \in Invocations /\ e.of = doing[w].of /\ e.task = doing[w].task /\ e.part > 0 /\ e # None
  BY <1>1, InTask, NoneAssumption DEF Invocations
<1> HIDE DEF e
<1>3. ASSUME NEW s, NEW k PROVE Pending(doing', s, k) = Pending(doing, s, k) /\ Body(doing', s, k) = Body(doing, s, k)
  <2>1. Pending(doing', s, k) = Pending(doing, s, k)
    <3>1. w \notin Pending(doing, s, k)
      BY <1>1 DEF Pending
    <3>2. ~(e.part = 0)
      BY <1>2
    <3> QED BY <1>1, <3>1, <3>2, DoingIs DEF Pending, Body, Invoked, Free
  <2>2. Body(doing', s, k) = Body(doing, s, k)
    <3>1. w \in Body(doing, s, k) <=> e.of = s /\ e.task = k
      BY <1>1, <1>2 DEF Body, Invoked, Free
    <3> QED BY <1>1, <1>2, <3>1, DoingIs DEF Pending, Body, Invoked, Free
  <2> QED BY <2>1, <2>2
<1>4. ASSUME NEW s \in Threads, InCall(s)' PROVE BegunOf(s)'
  <2>1. /\ InCall(s) /\ job'[s] = job[s] /\ (violation'[s] <=> violation[s]) /\ state'[s] = state[s]
        /\ \A k : Begun(doing', invoked', s, k) = Begun(doing, invoked, s, k)
    BY <1>1, <1>3, <1>4 DEF InCall, Begun
  <2> QED BY <2>1, BegunSame DEF BegunInv
<1>5. ASSUME NEW s \in Threads, InCall(s)', NEW k \in Tasks(job[s])' PROVE BodyOf(s, k)'
  <2>1. InCall(s) /\ k \in Tasks(job[s]) /\ state' = state
    BY <1>1, <1>5 DEF InCall, Tasks
  <2> QED BY <1>3, <2>1, BodySame DEF BodyInv
<1> QED BY <1>4, <1>5 DEF BegunInv, BodyInv

LEMMA StartCounts ==
    ASSUME NEW t \in Threads, NEW parts \in Groups, NEW m \in MaxTasks, TypeOK, BegunInv, BodyInv,
           Start(t, parts, m)
    PROVE BegunInv' /\ BodyInv'
<1>1. /\ ~InCall(t) /\ UNCHANGED doing
      /\ state'[t] = [i \in Tasks(job'[t]) |-> 0] /\ ~violation'[t]
      /\ invoked'[t] = [i \in Indices(job'[t]) |-> 0]
      /\ \A s \in Threads \ {t} : /\ job'[s] = job[s] /\ state'[s] = state[s]
                                  /\ (violation'[s] <=> violation[s]) /\ invoked'[s] = invoked[s]
  BY DEF Start, TypeOK
<1>2. \A k : Pending(doing, t, k) = {} /\ Body(doing, t, k) = {}
  <2>1. \A w \in Threads : doing[w] # None => doing[w].of # t
    BY <1>1, InTask DEF Free
  <2> QED BY <2>1 DEF Pending, Body, Invoked
<1>5. job'[t] \in Calls
  BY StartIs
<1>3. ASSUME NEW s \in Threads, InCall(s)' PROVE BegunOf(s)'
  <2>1. CASE s = t
    <3>1. ASSUME NEW k \in Indices(job'[t]) PROVE Begun(doing', invoked', t, k) = 0
      <4>1. invoked'[t][k] = 0
        BY <1>1
      <4>2. Cardinality(Pending(doing', t, k)) = 0
        <5>1. Pending(doing', t, k) = {}
          BY <1>1, <1>2
        <5> QED BY <5>1, FS_EmptySet
      <4> QED BY <4>1, <4>2 DEF Begun
    <3>2. Tasks(job'[t]) \subseteq Indices(job'[t])
      BY <1>5 DEF Tasks, Indices, Calls
    <3>3. \A k \in Tasks(job'[t]) : state'[t][k] = 0
      BY <1>1
    <3>4. ~violation'[t]
      BY <1>1
    <3>5. /\ \A k \in Indices(job'[t]) : Begun(doing', invoked', t, k) >= 0
          /\ \A k \in Tasks(job'[t]) : state'[t][k] = 0 <=> Begun(doing', invoked', t, k) = 0
          /\ violation'[t] <=> \E k \in Indices(job'[t]) :
                                  Begun(doing', invoked', t, k) > (IF k \in Tasks(job'[t]) THEN 1 ELSE 0)
      BY <3>1, <3>2, <3>3, <3>4
    <3> QED BY <2>1, <3>5 DEF BegunOf, Tasks, Indices
  <2>2. CASE s # t
    <3>1. InCall(s) /\ \A k : Begun(doing', invoked', s, k) = Begun(doing, invoked, s, k)
      BY <1>1, <1>3, <2>2 DEF InCall, Begun
    <3> QED BY <1>1, <2>2, <3>1, BegunSame DEF BegunInv
  <2> QED BY <2>1, <2>2
<1>4. ASSUME NEW s \in Threads, InCall(s)', NEW k \in Tasks(job[s])' PROVE BodyOf(s, k)'
  <2>1. CASE s = t
    <3>1. k \in Tasks(job'[t])
      BY <1>4, <2>1 DEF Tasks
    <3>2. state'[t][k] = 0 /\ Body(doing', t, k) = {}
      BY <1>1, <1>2, <3>1
    <3> QED BY <2>1, <3>2 DEF BodyOf
  <2>2. CASE s # t
    <3>1. InCall(s) /\ k \in Tasks(job[s])
      BY <1>1, <1>4, <2>2 DEF InCall, Tasks
    <3> QED BY <1>1, <2>2, <3>1, BodySame DEF BodyInv
  <2> QED BY <2>1, <2>2
<1> QED BY <1>3, <1>4 DEF BegunInv, BodyInv

LEMMA BeginTaskCounts ==
    ASSUME NEW w \in Threads, TypeOK, BegunInv, BodyInv, BeginTask(w)
    PROVE BegunInv' /\ BodyInv'
<1> DEFINE t == doing[w].of
           i == doing[w].task
<1>1. ~Free(w) /\ doing[w].part = 0 /\ UNCHANGED <<job, invoked>>
  BY DEF BeginTask
<1>2. t \in Threads /\ InCall(t) /\ i \in Indices(job[t]) /\ job[t] \in Calls
  BY <1>1, InTask DEF Sound
<1>3. w \in Pending(doing, t, i) /\ \A s, k : w \in Pending(doing, s, k) => s = t /\ k = i
  BY <1>1 DEF Pending, Invoked, Free
<1>4. \A s, k : w \notin Body(doing, s, k)
  BY <1>1 DEF Body
<1>5. \A s, k : Pending(doing', s, k) = Pending(doing, s, k) \ {w}
  <2>1. CASE Admit(t, i)
    <3>1. doing' = [doing EXCEPT ![w] = [@ EXCEPT !.part = 1]]
      BY <2>1 DEF BeginTask
    <3>2. doing'[w].part = 1
      BY <1>1, <3>1, InTask, DoingIs DEF Invocations
    <3> QED BY <3>1, <3>2, DoingIs DEF Pending, Invoked
  <2>2. CASE ~Admit(t, i)
    <3>1. doing' = [doing EXCEPT ![w] = None]
      BY <2>2 DEF BeginTask
    <3> QED BY <3>1, DoingIs DEF Pending, Invoked
  <2> QED BY <2>1, <2>2
<1> HIDE DEF t, i
<1>6. ASSUME NEW s \in Threads, InCall(s), NEW k \in Indices(job[s])
      PROVE Begun(doing', invoked', s, k)
              = IF s = t /\ k = i THEN Begun(doing, invoked, s, k) + 1 ELSE Begun(doing, invoked, s, k)
  <2>1. IsFiniteSet(Pending(doing, s, k)) /\ Cardinality(Pending(doing, s, k)) \in Nat /\ invoked[s][k] \in Nat
    BY <1>6, PendingType, InvokedType
  <2>2. CASE s = t /\ k = i
    <3>1. Cardinality(Pending(doing, s, k) \ {w}) = Cardinality(Pending(doing, s, k)) - 1
      BY <1>3, <2>1, <2>2, FS_RemoveElement
    <3> QED BY <1>1, <1>5, <2>1, <2>2, <3>1 DEF Begun
  <2>3. CASE ~(s = t /\ k = i)
    <3>1. Pending(doing, s, k) \ {w} = Pending(doing, s, k)
      BY <1>3, <2>3
    <3> QED BY <1>1, <1>5, <2>3, <3>1 DEF Begun
  <2> QED BY <2>2, <2>3
<1>7. \A s \in Threads : \A k : InCall(s) /\ k \in Indices(job[s]) => Begun(doing, invoked, s, k) \in Int
  BY InvokedType
<1>8. Tasks(job[t]) \subseteq Indices(job[t])
  BY <1>2 DEF Tasks, Indices, Calls
<1>9. CASE Admit(t, i)
  <2>1. /\ i \in Tasks(job[t]) /\ state[t][i] = 0
        /\ state' = [state EXCEPT ![t][i] = 1] /\ UNCHANGED violation
        /\ doing' = [doing EXCEPT ![w] = [@ EXCEPT !.part = 1]]
    BY <1>9 DEF BeginTask, Admit, t, i
  <2>2. /\ \A s \in Threads \ {t} : state'[s] = state[s]
        /\ \A k \in Tasks(job[t]) : state'[t][k] = IF k = i THEN 1 ELSE state[t][k]
    BY <1>2, <2>1 DEF TypeOK, CallTypes
  <2>3. ASSUME NEW s \in Threads, InCall(s)' PROVE BegunOf(s)'
    <3>1. InCall(s) /\ job'[s] = job[s] /\ (violation'[s] <=> violation[s]) /\ BegunOf(s)
      BY <1>1, <2>1, <2>3 DEF InCall, BegunInv
    <3>2. CASE s = t
      <4>1. Begun(doing, invoked, t, i) = 0
        BY <2>1, <3>1, <3>2 DEF BegunOf
      <4>2. /\ \A k \in Indices(job[t]) : Begun(doing', invoked', t, k) >= 0
            /\ \A k \in Tasks(job[t]) : state'[t][k] = 0 <=> Begun(doing', invoked', t, k) = 0
        BY <1>2, <1>6, <1>7, <1>8, <2>2, <3>1, <3>2, <4>1 DEF BegunOf
      <4>3. \A k \in Indices(job[t]) :
                  Begun(doing', invoked', t, k) > (IF k \in Tasks(job[t]) THEN 1 ELSE 0)
              <=> Begun(doing, invoked, t, k) > (IF k \in Tasks(job[t]) THEN 1 ELSE 0)
        <5> TAKE k \in Indices(job[t])
        <5>1. CASE k = i
          <6>1. Begun(doing', invoked', t, k) = 0 + 1
            BY <1>2, <1>6, <4>1, <5>1
          <6>2. k \in Tasks(job[t]) /\ Begun(doing, invoked, t, k) = 0
            BY <2>1, <4>1, <5>1
          <6> QED BY <6>1, <6>2
        <5>2. CASE k # i
          <6>1. Begun(doing', invoked', t, k) = Begun(doing, invoked, t, k)
            BY <1>2, <1>6, <5>2
          <6> QED BY <6>1
        <5> QED BY <5>1, <5>2
      <4>4. violation'[t] <=> \E k \in Indices(job[t]) :
                                  Begun(doing', invoked', t, k) > (IF k \in Tasks(job[t]) THEN 1 ELSE 0)
        BY <3>1, <3>2, <4>3 DEF BegunOf
      <4> QED BY <3>1, <3>2, <4>2, <4>4 DEF BegunOf, Tasks, Indices
    <3>3. CASE s # t
      BY <1>6, <2>2, <3>1, <3>3, BegunSame
    <3> QED BY <3>2, <3>3
  <2>4. \A s, k : Body(doing', s, k) = IF s = t /\ k = i THEN Body(doing, s, k) \cup {w} ELSE Body(doing, s, k)
    <3>1. doing'[w] # None /\ doing'[w].of = t /\ doing'[w].task = i /\ doing'[w].part = 1
      BY <1>1, <2>1, InTask, DoingIs, NoneAssumption DEF Invocations, t, i
    <3> QED BY <1>4, <2>1, <3>1, DoingIs DEF Body, Invoked
  <2>5. ASSUME NEW s \in Threads, InCall(s)', NEW k \in Tasks(job[s])' PROVE BodyOf(s, k)'
    <3>1. InCall(s) /\ k \in Tasks(job[s]) /\ BodyOf(s, k)
      BY <1>1, <2>5 DEF InCall, Tasks, BodyInv
    <3>2. CASE s = t /\ k = i
      <4>1. Body(doing, s, k) = {}
        BY <2>1, <3>1, <3>2 DEF BodyOf
      <4>2. Body(doing', s, k) = {w}
        BY <2>4, <3>2, <4>1
      <4>3. state'[s][k] = 1
        BY <2>1, <2>2, <3>2
      <4> QED BY <4>2, <4>3 DEF BodyOf
    <3>3. CASE ~(s = t /\ k = i)
      BY <2>2, <2>4, <3>1, <3>3, BodySame
    <3> QED BY <3>2, <3>3
  <2> QED BY <2>3, <2>5 DEF BegunInv, BodyInv
<1>10. CASE ~Admit(t, i)
  <2>1. /\ i \in Tasks(job[t]) => state[t][i] # 0
        /\ UNCHANGED state /\ violation' = [violation EXCEPT ![t] = TRUE]
        /\ doing' = [doing EXCEPT ![w] = None]
    BY <1>10 DEF BeginTask, Admit, t, i
  <2>2. violation'[t] /\ \A s \in Threads \ {t} : violation'[s] <=> violation[s]
    BY <1>2, <2>1 DEF TypeOK
  <2>3. ASSUME NEW s \in Threads, InCall(s)' PROVE BegunOf(s)'
    <3>1. InCall(s) /\ job'[s] = job[s] /\ BegunOf(s)
      BY <1>1, <2>3 DEF InCall, BegunInv
    <3>2. CASE s = t
      <4>1. /\ Begun(doing, invoked, t, i) >= 0
            /\ i \in Tasks(job[t]) => Begun(doing, invoked, t, i) # 0
        BY <1>2, <2>1, <3>1, <3>2 DEF BegunOf
      <4>2. /\ \A k \in Indices(job[t]) : Begun(doing', invoked', t, k) >= 0
            /\ \A k \in Tasks(job[t]) : state'[t][k] = 0 <=> Begun(doing', invoked', t, k) = 0
        <5>1. ASSUME NEW k \in Indices(job[t])
              PROVE /\ Begun(doing', invoked', t, k) >= 0
                    /\ Begun(doing', invoked', t, k) = 0 <=> Begun(doing, invoked, t, k) = 0 /\ k # i
          <6>1. Begun(doing, invoked, t, k) \in Int /\ Begun(doing, invoked, t, k) >= 0
            BY <1>2, <1>7, <3>1, <3>2 DEF BegunOf
          <6> QED BY <1>2, <1>6, <6>1
        <5> QED BY <1>8, <2>1, <3>1, <3>2, <4>1, <5>1 DEF BegunOf
      <4>3. Begun(doing', invoked', t, i) > (IF i \in Tasks(job[t]) THEN 1 ELSE 0)
        BY <1>2, <1>6, <1>7, <4>1
      <4> QED BY <1>2, <2>2, <3>1, <3>2, <4>2, <4>3 DEF BegunOf, Tasks, Indices
    <3>3. CASE s # t
      BY <1>6, <2>1, <2>2, <3>1, <3>3, BegunSame
    <3> QED BY <3>2, <3>3
  <2>4. \A s, k : Body(doing', s, k) = Body(doing, s, k)
    BY <1>4, <2>1, DoingIs DEF Body, Invoked
  <2>5. ASSUME NEW s \in Threads, InCall(s)', NEW k \in Tasks(job[s])' PROVE BodyOf(s, k)'
    <3>1. InCall(s) /\ k \in Tasks(job[s]) /\ BodyOf(s, k)
      BY <1>1, <2>5 DEF InCall, Tasks, BodyInv
    <3> QED BY <2>1, <2>4, <3>1, BodySame
  <2> QED BY <2>3, <2>5 DEF BegunInv, BodyInv
<1> QED BY <1>9, <1>10

LEMMA EndTaskCounts ==
    ASSUME NEW w \in Threads, TypeOK, BegunInv, BodyInv, EndTask(w)
    PROVE BegunInv' /\ BodyInv'
<1> DEFINE t == doing[w].of
           i == doing[w].task
<1>1. /\ ~Free(w) /\ doing[w].part = Len(job[t].parts) + 1
      /\ state' = [state EXCEPT ![t][i] = 2] /\ doing' = [doing EXCEPT ![w] = None]
      /\ UNCHANGED <<job, violation, invoked>>
  BY DEF EndTask
<1>2. /\ doing[w].part > 0 /\ t \in Threads /\ InCall(t) /\ i \in Tasks(job[t])
  BY <1>1, InTask DEF Sound
<1>3. w \in Body(doing, t, i) /\ \A s, k : w \in Body(doing, s, k) => s = t /\ k = i
  BY <1>1, <1>2 DEF Body, Invoked, Free
<1>4. \A s, k : Pending(doing', s, k) = Pending(doing, s, k)
  BY <1>1, <1>2, DoingIs DEF Pending, Invoked
<1>5. \A s, k : Body(doing', s, k) = Body(doing, s, k) \ {w}
  BY <1>1, DoingIs DEF Body, Invoked
<1> HIDE DEF t, i
<1>6. /\ \A s \in Threads \ {t} : state'[s] = state[s]
      /\ \A k \in Tasks(job[t]) : state'[t][k] = IF k = i THEN 2 ELSE state[t][k]
  BY <1>1, <1>2 DEF TypeOK, CallTypes
<1>7. BodyOf(t, i) /\ state[t][i] = 1
  BY <1>2, <1>3 DEF BodyInv, BodyOf
<1>8. ASSUME NEW s \in Threads, InCall(s)' PROVE BegunOf(s)'
  <2>1. InCall(s) /\ job'[s] = job[s] /\ (violation'[s] <=> violation[s]) /\ BegunOf(s)
    BY <1>1, <1>8 DEF InCall, BegunInv
  <2>2. \A k : Begun(doing', invoked', s, k) = Begun(doing, invoked, s, k)
    BY <1>1, <1>4 DEF Begun
  <2>3. \A k \in Tasks(job[s]) : state'[s][k] = 0 <=> state[s][k] = 0
    BY <1>6, <1>7
  <2> QED BY <2>1, <2>2, <2>3, BegunSame
<1>9. ASSUME NEW s \in Threads, InCall(s)', NEW k \in Tasks(job[s])' PROVE BodyOf(s, k)'
  <2>1. InCall(s) /\ k \in Tasks(job[s]) /\ BodyOf(s, k)
    BY <1>1, <1>9 DEF InCall, Tasks, BodyInv
  <2>2. CASE s = t /\ k = i
    <3>1. Body(doing', s, k) = {}
      BY <1>3, <1>5, <1>7, <2>2 DEF BodyOf
    <3>2. state'[s][k] = 2
      BY <1>2, <1>6, <2>2
    <3> QED BY <3>1, <3>2 DEF BodyOf
  <2>3. CASE ~(s = t /\ k = i)
    <3>1. Body(doing', s, k) = Body(doing, s, k)
      BY <1>3, <1>5, <2>3
    <3>2. state'[s][k] = state[s][k]
      BY <1>6, <2>1, <2>3
    <3> QED BY <2>1, <3>1, <3>2, BodySame
  <2> QED BY <2>2, <2>3
<1> QED BY <1>8, <1>9 DEF BegunInv, BodyInv

LEMMA RunReturnsCounts ==
    ASSUME NEW t \in Threads, TypeOK, BegunInv, BodyInv, RunReturns(t)
    PROVE BegunInv' /\ BodyInv'
<1>1. /\ job'[t] = None /\ UNCHANGED doing
      /\ \A s \in Threads \ {t} : /\ job'[s] = job[s] /\ state'[s] = state[s]
                                  /\ (violation'[s] <=> violation[s]) /\ invoked'[s] = invoked[s]
  BY DEF RunReturns, TypeOK
<1>2. ASSUME NEW s \in Threads, InCall(s)' PROVE BegunOf(s)'
  <2>1. s # t /\ InCall(s) /\ \A k : Begun(doing', invoked', s, k) = Begun(doing, invoked, s, k)
    BY <1>1, <1>2 DEF InCall, Begun
  <2> QED BY <1>1, <2>1, BegunSame DEF BegunInv
<1>3. ASSUME NEW s \in Threads, InCall(s)', NEW k \in Tasks(job[s])' PROVE BodyOf(s, k)'
  <2>1. s # t /\ InCall(s) /\ k \in Tasks(job[s])
    BY <1>1, <1>3 DEF InCall, Tasks
  <2> QED BY <1>1, <2>1, BodySame DEF BodyInv
<1> QED BY <1>2, <1>3 DEF BegunInv, BodyInv

-----------------------------------------------------------------------------
(* Rows. *)

LEMMA InitRows == Init => RowsInv
BY DEF Init, RowsInv, InCall

\* A row stays as it is while no task of it gets past its part.
LEMMA RowSame ==
    ASSUME NEW s \in Threads, NEW p, NEW r, RowOf(s, p, r),
           job'[s] = job[s], written'[s][<<p, r>>] = written[s][<<p, r>>],
           \A i \in Tasks(job[s]) : Passed(doing', state', s, i, p) <=> Passed(doing, state, s, i, p)
    PROVE RowOf(s, p, r)'
BY DEF RowOf, Tasks, Covers

\* With no other change to the call than how far its tasks are, none of them past another part.
LEMMA RowsSame ==
    ASSUME RowsInv, UNCHANGED <<job, written>>,
           \A s \in Threads : \A p : InCall(s) /\ p \in 1 .. Len(job[s].parts) =>
               \A i \in Tasks(job[s]) : Passed(doing', state', s, i, p) <=> Passed(doing, state, s, i, p)
    PROVE RowsInv'
<1>1. ASSUME NEW s \in Threads, InCall(s), NEW p \in 1 .. Len(job[s].parts), NEW r \in 0 .. job[s].parts[p] - 1
      PROVE RowOf(s, p, r)'
  <2>1. RowOf(s, p, r)
    BY <1>1 DEF RowsInv
  <2> QED BY <1>1, <2>1, RowSame
<1> QED BY <1>1 DEF RowsInv, InCall

LEMMA ScopeRows ==
    ASSUME NEW t \in Threads, RowsInv, OpenScope(t) \/ CloseScope(t) PROVE RowsInv'
<1>1. UNCHANGED <<job, state, written, doing>>
  BY DEF OpenScope, CloseScope
<1> QED BY <1>1, RowsSame

LEMMA InvokeRows ==
    ASSUME NEW w \in Threads, NEW t \in Threads, NEW i \in DOMAIN invoked[t], TypeOK, RowsInv,
           Invoke(w, t, i)
    PROVE RowsInv'
<1> DEFINE d == [of |-> t, task |-> i, part |-> 0, saved |-> binding[w]]
<1>1. /\ doing' = [doing EXCEPT ![w] = d] /\ d.part = 0 /\ Free(w)
      /\ UNCHANGED <<job, state, written>>
  BY DEF Invoke
<1> HIDE DEF d
<1>2. ASSUME NEW s, NEW p \in Nat, NEW k
      PROVE Passed(doing', state', s, k, p) <=> Passed(doing, state, s, k, p)
  <2>1. ~(0 > p)
    OBVIOUS
  <2> QED BY <1>1, <2>1, DoingIs DEF Passed, Invoked, Free
<1>3. \A s, p : p \in 1 .. Len(job[s].parts) => p \in Nat
  OBVIOUS
<1> QED BY <1>1, <1>2, <1>3, RowsSame

LEMMA BeginTaskRows ==
    ASSUME NEW w \in Threads, TypeOK, RowsInv, BeginTask(w) PROVE RowsInv'
<1> DEFINE t == doing[w].of
           i == doing[w].task
<1>1. ~Free(w) /\ doing[w].part = 0 /\ UNCHANGED <<job, written>>
  BY DEF BeginTask
<1>2. t \in Threads /\ InCall(t)
  BY <1>1, InTask
<1>3. ASSUME NEW s \in Threads, InCall(s), NEW p \in 1 .. Len(job[s].parts), NEW k \in Tasks(job[s])
      PROVE Passed(doing', state', s, k, p) <=> Passed(doing, state, s, k, p)
  <2>1. ~(0 > p) /\ ~(1 > p)
    OBVIOUS
  <2>2. CASE Admit(t, i)
    <3>1. /\ state[t][i] = 0 /\ state' = [state EXCEPT ![t][i] = 1] /\ i \in Tasks(job[t])
          /\ doing' = [doing EXCEPT ![w] = [@ EXCEPT !.part = 1]]
      BY <2>2 DEF BeginTask, Admit
    <3>2. doing'[w].part = 1
      BY <1>1, <3>1, InTask, DoingIs DEF Invocations
    <3> HIDE DEF t, i
    <3>3. state'[s][k] = 2 <=> state[s][k] = 2
      BY <1>2, <1>3, <3>1 DEF TypeOK, CallTypes
    <3>4. \A v \in Threads \ {w} : doing'[v] = doing[v]
      BY <3>1, DoingIs
    <3> QED BY <1>1, <2>1, <3>2, <3>3, <3>4 DEF Passed, Invoked
  <2>3. CASE ~Admit(t, i)
    <3>1. UNCHANGED state /\ doing' = [doing EXCEPT ![w] = None]
      BY <2>3 DEF BeginTask
    <3> QED BY <1>1, <2>1, <3>1, DoingIs DEF Passed, Invoked
  <2> QED BY <2>2, <2>3
<1> QED BY <1>1, <1>3, RowsSame

LEMMA EndTaskRows ==
    ASSUME NEW w \in Threads, TypeOK, RowsInv, EndTask(w) PROVE RowsInv'
<1> DEFINE t == doing[w].of
           i == doing[w].task
<1>1. /\ ~Free(w) /\ doing[w].part = Len(job[t].parts) + 1
      /\ state' = [state EXCEPT ![t][i] = 2] /\ doing' = [doing EXCEPT ![w] = None]
      /\ UNCHANGED <<job, written>>
  BY DEF EndTask
<1>2. t \in Threads /\ InCall(t) /\ i \in Tasks(job[t]) /\ Len(job[t].parts) \in Nat
  BY <1>1, InTask DEF Sound
<1>3. ASSUME NEW s \in Threads, InCall(s), NEW p \in 1 .. Len(job[s].parts), NEW k \in Tasks(job[s])
      PROVE Passed(doing', state', s, k, p) <=> Passed(doing, state, s, k, p)
  <2>1. CASE s = t /\ k = i
    <3>1. state'[s][k] = 2
      BY <1>1, <1>2, <2>1 DEF TypeOK, CallTypes
    <3>2. Invoked(doing, w, s, k) /\ doing[w].part > p
      BY <1>1, <1>2, <2>1 DEF Invoked, Free
    <3> QED BY <3>1, <3>2 DEF Passed
  <2>2. CASE ~(s = t /\ k = i)
    <3>1. state'[s][k] = state[s][k]
      <4> HIDE DEF t, i
      <4> QED BY <1>1, <1>2, <1>3, <2>2 DEF TypeOK, CallTypes
    <3>2. ~Invoked(doing, w, s, k) /\ ~Invoked(doing', w, s, k)
      BY <1>1, <2>2, DoingIs DEF Invoked
    <3>3. \A v \in Threads \ {w} : doing'[v] = doing[v]
      BY <1>1, DoingIs
    <3> QED BY <3>1, <3>2, <3>3 DEF Passed, Invoked
  <2> QED BY <2>1, <2>2
<1> QED BY <1>1, <1>3, RowsSame

LEMMA StartRows ==
    ASSUME NEW t \in Threads, NEW parts \in Groups, NEW m \in MaxTasks, TypeOK, RowsInv,
           Start(t, parts, m)
    PROVE RowsInv'
<1>1. /\ ~InCall(t) /\ UNCHANGED doing
      /\ state'[t] = [i \in Tasks(job'[t]) |-> 0] /\ job'[t].parts = parts
      /\ written'[t] = [row \in RowsOf(parts) |-> 0]
      /\ \A s \in Threads \ {t} : job'[s] = job[s] /\ state'[s] = state[s] /\ written'[s] = written[s]
  BY StartIs DEF Start, TypeOK
<1>2. ASSUME NEW s \in Threads, InCall(s)',
             NEW p \in 1 .. Len(job'[s].parts), NEW r \in 0 .. job'[s].parts[p] - 1
      PROVE RowOf(s, p, r)'
  <2>1. CASE s = t
    <3>1. <<p, r>> \in RowsOf(parts)
      BY <1>1, <1>2, <2>1 DEF RowsOf
    <3>2. written'[t][<<p, r>>] = 0
      BY <1>1, <3>1
    <3>3. \A i \in Tasks(job'[t]) : ~Passed(doing', state', t, i, p)
      <4>1. \A w \in Threads : doing[w] # None => doing[w].of # t
        BY <1>1, InTask DEF Free
      <4> QED BY <1>1, <4>1 DEF Passed, Invoked
    <3> QED BY <2>1, <3>2, <3>3 DEF RowOf, Tasks
  <2>2. CASE s # t
    <3>1. InCall(s) /\ job'[s] = job[s] /\ RowOf(s, p, r)
      BY <1>1, <1>2, <2>2 DEF InCall, RowsInv
    <3>2. \A i : Passed(doing', state', s, i, p) <=> Passed(doing, state, s, i, p)
      BY <1>1, <2>2 DEF Passed
    <3> QED BY <1>1, <2>2, <3>1, <3>2, RowSame
  <2> QED BY <2>1, <2>2
<1> QED BY <1>2 DEF RowsInv

LEMMA RunReturnsRows ==
    ASSUME NEW t \in Threads, TypeOK, RowsInv, RunReturns(t) PROVE RowsInv'
<1>1. /\ job'[t] = None /\ UNCHANGED doing
      /\ \A s \in Threads \ {t} : job'[s] = job[s] /\ state'[s] = state[s] /\ written'[s] = written[s]
  BY DEF RunReturns, TypeOK
<1>2. ASSUME NEW s \in Threads, InCall(s)',
             NEW p \in 1 .. Len(job'[s].parts), NEW r \in 0 .. job'[s].parts[p] - 1
      PROVE RowOf(s, p, r)'
  <2>1. s # t /\ InCall(s) /\ job'[s] = job[s] /\ RowOf(s, p, r)
    BY <1>1, <1>2 DEF InCall, RowsInv
  <2>2. \A i : Passed(doing', state', s, i, p) <=> Passed(doing, state, s, i, p)
    BY <1>1, <2>1 DEF Passed
  <2> QED BY <1>1, <2>1, <2>2, RowSame
<1> QED BY <1>2 DEF RowsInv

LEMMA WritePartRows ==
    ASSUME NEW w \in Threads, TypeOK, BodyInv, RowsInv, WritePart(w) PROVE RowsInv'
<1> DEFINE t == doing[w].of
           i == doing[w].task
           q == doing[w].part
           e == [doing[w] EXCEPT !.part = @ + 1]
<1>1. /\ ~Free(w) /\ q \in 1 .. Len(job[t].parts) /\ doing' = [doing EXCEPT ![w] = e]
      /\ UNCHANGED <<job, state>>
  BY DEF WritePart
<1>2. /\ t \in Threads /\ InCall(t) /\ i \in Tasks(job[t]) /\ q \in Nat
      /\ job[t] \in Calls /\ Len(job[t].parts) \in Nat
  BY <1>1, InTask DEF Sound
<1>3. e.of = t /\ e.task = i /\ e.part = q + 1 /\ e # None
  BY <1>1, InTask, NoneAssumption DEF Invocations
<1> HIDE DEF e
<1>4. /\ \A s \in Threads \ {t} : written'[s] = written[s]
      /\ \A row \in RowsOf(job[t].parts) :
            written'[t][row] = IF row \in Covers(job[t], i, q) THEN written[t][row] + 1 ELSE written[t][row]
  <2> HIDE DEF i, q
  <2>1. DOMAIN written[t] = RowsOf(job[t].parts)
    BY <1>2 DEF TypeOK, CallTypes
  <2> QED BY <1>2, <2>1 DEF WritePart, TypeOK, i, q
<1>5. BodyOf(t, i) /\ w \in Body(doing, t, i)
  BY <1>1, <1>2 DEF BodyInv, Body, Invoked, Free
<1>6. state[t][i] = 1 /\ \A v \in Threads : Invoked(doing, v, t, i) /\ doing[v].part > q => v = w
  <2>1. state[t][i] = 1 /\ \A v \in Body(doing, t, i) : v = w
    BY <1>5 DEF BodyOf
  <2>2. ASSUME NEW v \in Threads, Invoked(doing, v, t, i), doing[v].part > q PROVE v = w
    <3>1. doing[v].part \in Nat
      BY <2>2, InTask DEF Invoked, Free
    <3>2. doing[v].part > 0
      BY <1>2, <2>2, <3>1
    <3> QED BY <2>1, <2>2, <3>2 DEF Body
  <2> QED BY <2>1, <2>2
<1> HIDE DEF t, i, q
<1>7. Passed(doing', state', t, i, q) /\ ~Passed(doing, state, t, i, q)
  <2>1. Invoked(doing', w, t, i) /\ doing'[w].part > q
    BY <1>1, <1>2, <1>3, DoingIs DEF Invoked
  <2>2. ~(q > q)
    BY <1>2
  <2> QED BY <1>6, <2>1, <2>2 DEF Passed, q
<1>8. ASSUME NEW s, NEW k, NEW p \in Nat, ~(s = t /\ k = i /\ p = q)
      PROVE Passed(doing', state', s, k, p) <=> Passed(doing, state, s, k, p)
  <2>1. \A v \in Threads \ {w} : doing'[v] = doing[v]
    BY <1>1, DoingIs
  <2>2. Invoked(doing', w, s, k) /\ doing'[w].part > p <=> Invoked(doing, w, s, k) /\ doing[w].part > p
    <3>1. doing'[w] = e
      BY <1>1, DoingIs
    <3>2. /\ Invoked(doing, w, s, k) <=> s = t /\ k = i
          /\ Invoked(doing', w, s, k) <=> s = t /\ k = i
      BY <1>1, <1>3, <3>1 DEF Invoked, Free, t, i
    <3>3. p # q => (q + 1 > p <=> q > p)
      BY <1>2
    <3> QED BY <1>3, <1>8, <3>1, <3>2, <3>3 DEF q
  <2> QED BY <1>1, <2>1, <2>2 DEF Passed, Invoked
<1>9. ASSUME NEW s \in Threads, InCall(s), NEW p \in 1 .. Len(job[s].parts), NEW r \in 0 .. job[s].parts[p] - 1
      PROVE RowOf(s, p, r)'
  <2>1. RowOf(s, p, r) /\ p \in Nat
    BY <1>9 DEF RowsInv
  <2>2. CASE s = t /\ p = q /\ <<p, r>> \in Covers(job[t], i, q)
    <3>1. <<p, r>> \in RowsOf(job[t].parts)
      BY <1>9, <2>2 DEF RowsOf
    <3>2. \A k \in Tasks(job[t]) : <<p, r>> \in Covers(job[t], k, p) => k = i
      <4>1. Tasks(job[t]) \subseteq Nat
        BY <1>2 DEF Tasks, Calls
      <4> QED BY <1>2, <1>9, <2>2, <4>1, OneTask
    <3>3. written[t][<<p, r>>] = 0
      BY <1>7, <2>1, <2>2, <3>2 DEF RowOf
    <3>4. written'[t][<<p, r>>] = 1
      BY <1>4, <2>2, <3>1, <3>3
    <3>5. \E k \in Tasks(job'[s]) : <<p, r>> \in Covers(job'[s], k, p) /\ Passed(doing', state', s, k, p)
      BY <1>1, <1>2, <1>7, <2>2
    <3> QED BY <2>2, <3>4, <3>5 DEF RowOf, Tasks, Covers
  <2>3. CASE s = t /\ ~(p = q /\ <<p, r>> \in Covers(job[t], i, q))
    <3>1. <<p, r>> \in RowsOf(job[t].parts)
      BY <1>9, <2>3 DEF RowsOf
    <3>2. <<p, r>> \notin Covers(job[t], i, q)
      BY <2>3, OwnPart
    <3>3. written'[t][<<p, r>>] = written[t][<<p, r>>]
      BY <1>4, <3>1, <3>2
    <3>4. \A k \in Tasks(job[t]) : <<p, r>> \in Covers(job[t], k, p) =>
              (Passed(doing', state', t, k, p) <=> Passed(doing, state, t, k, p))
      BY <1>8, <2>1, <3>2
    <3>5. (\E k \in Tasks(job[t]) : <<p, r>> \in Covers(job[t], k, p) /\ Passed(doing', state', t, k, p))
            <=> (\E k \in Tasks(job[t]) : <<p, r>> \in Covers(job[t], k, p) /\ Passed(doing, state, t, k, p))
      BY <3>4
    <3>6. written'[t][<<p, r>>] =
            IF \E k \in Tasks(job[t]) : <<p, r>> \in Covers(job[t], k, p) /\ Passed(doing', state', t, k, p)
            THEN 1 ELSE 0
      BY <2>1, <2>3, <3>3, <3>5 DEF RowOf
    <3>7. job' = job
      BY <1>1
    <3> QED BY <2>3, <3>6, <3>7 DEF RowOf, Tasks, Covers
  <2>4. CASE s # t
    <3>1. written'[s] = written[s] /\ job'[s] = job[s]
      BY <1>1, <1>4, <2>4
    <3>2. \A k \in Tasks(job[s]) : Passed(doing', state', s, k, p) <=> Passed(doing, state, s, k, p)
      BY <1>8, <2>1, <2>4
    <3> QED BY <2>1, <3>1, <3>2, RowSame
  <2> QED BY <2>2, <2>3, <2>4
<1>10. UNCHANGED job
  BY <1>1
<1> QED BY <1>9, <1>10 DEF RowsInv, InCall

-----------------------------------------------------------------------------
(* The invariant is kept. *)

LEMMA InitInv == Init => Inv
BY InitTypes, InitBinding, InitCounts, InitRows DEF Inv

LEMMA StutterInv == Inv /\ UNCHANGED vars => Inv'
<1> SUFFICES ASSUME Inv, UNCHANGED vars PROVE Inv'
  OBVIOUS
<1>1. UNCHANGED <<job, state, violation, invoked, written, doing, binding, result>>
  BY DEF vars
<1>2. TypeOK' /\ SplitCovers'
  BY <1>1 DEF Inv, TypeOK, CallTypes, InvocationTypes, SplitCovers, InCall, Free, Tasks, Indices
<1>3. BindingInv'
  BY <1>1 DEF Inv, BindingInv, InCall, Free
<1>4. BegunInv'
  BY <1>1 DEF Inv, BegunInv, BegunOf, InCall, Tasks, Indices
<1>5. BodyInv'
  BY <1>1 DEF Inv, BodyInv, BodyOf, InCall, Tasks
<1>6. RowsInv'
  BY <1>1, RowsSame DEF Inv
<1> QED BY <1>2, <1>3, <1>4, <1>5, <1>6 DEF Inv

LEMMA StepInv == Inv /\ [Next]_vars => Inv'
<1> SUFFICES ASSUME Inv, [Next]_vars PROVE Inv'
  OBVIOUS
<1> USE DEF Inv
<1>1. ASSUME NEW t \in Threads, OpenScope(t) PROVE Inv'
  BY <1>1, OpenScopeTypes, ScopeBinding, ScopeCounts, ScopeRows
<1>2. ASSUME NEW t \in Threads, CloseScope(t) PROVE Inv'
  BY <1>2, CloseScopeTypes, ScopeBinding, ScopeCounts, ScopeRows
<1>3. ASSUME NEW t \in Threads, RunReturns(t) PROVE Inv'
  BY <1>3, RunReturnsTypes, RunReturnsBinding, RunReturnsCounts, RunReturnsRows
<1>4. ASSUME NEW t \in Threads, NEW parts \in Groups, NEW m \in MaxTasks, Start(t, parts, m) PROVE Inv'
  BY <1>4, StartTypes, StartBinding, StartCounts, StartRows
<1>5. ASSUME NEW w \in Threads, NEW t \in Threads, NEW i \in DOMAIN invoked[t], Invoke(w, t, i) PROVE Inv'
  BY <1>5, InvokeTypes, InvokeBinding, InvokeCounts, InvokeRows
<1>6. ASSUME NEW w \in Threads, BeginTask(w) PROVE Inv'
  BY <1>6, BeginTaskTypes, BeginTaskBinding, BeginTaskCounts, BeginTaskRows
<1>7. ASSUME NEW w \in Threads, WritePart(w) PROVE Inv'
  BY <1>7, WritePartTypes, WritePartBinding, WritePartCounts, WritePartRows
<1>8. ASSUME NEW w \in Threads, EndTask(w) PROVE Inv'
  BY <1>8, EndTaskTypes, EndTaskBinding, EndTaskCounts, EndTaskRows
<1>9. CASE UNCHANGED vars
  BY <1>9, StutterInv
<1> HIDE DEF Inv
<1> QED BY <1>1, <1>2, <1>3, <1>4, <1>5, <1>6, <1>7, <1>8, <1>9 DEF Next

THEOREM Invariance == Spec => []Inv
BY InitInv, StepInv, PTL DEF Spec

-----------------------------------------------------------------------------
(* What follows from it. *)

\* Every variable has its type, and what a thread is in is an invocation of a call under way.
THEOREM TypeCorrect == Spec => []TypeOK
<1>1. Inv => TypeOK
  BY DEF Inv
<1> QED BY <1>1, Invariance, PTL

\* A body runs under the binding of its call, and a thread has its own back afterwards.
THEOREM KeepsBindings == Spec => []BindingsKept
<1>1. Inv => BindingsKept
  BY DEF Inv, BindingInv, BindingsKept
<1> QED BY <1>1, Invariance, PTL

LEMMA RowsOfIs ==
    ASSUME NEW parts, NEW row \in RowsOf(parts)
    PROVE \E p \in 1 .. Len(parts) : \E r \in 0 .. parts[p] - 1 : row = <<p, r>>
BY DEF RowsOf

\* No row is written twice, whatever the host does.
THEOREM WritesOnce == Spec => []RowsOnce
<1>1. ASSUME Inv, NEW t \in Threads, InCall(t), NEW row \in DOMAIN written[t] PROVE written[t][row] <= 1
  <2>1. row \in RowsOf(job[t].parts)
    BY <1>1 DEF Inv, TypeOK, CallTypes
  <2>2. PICK p \in 1 .. Len(job[t].parts) : \E r \in 0 .. job[t].parts[p] - 1 : row = <<p, r>>
    BY <2>1, RowsOfIs
  <2>3. PICK r \in 0 .. job[t].parts[p] - 1 : row = <<p, r>>
    BY <2>2
  <2>4. RowOf(t, p, r)
    BY <1>1 DEF Inv, RowsInv
  <2>5. written[t][<<p, r>>] \in {0, 1}
    BY <2>4, Zenon DEF RowOf
  <2> QED BY <2>3, <2>5
<1>2. Inv => RowsOnce
  BY <1>1 DEF RowsOnce
<1> QED BY <1>2, Invariance, PTL

\* Start puts a call in its own thread's job and leaves the others'.
LEMMA StartPuts ==
    ASSUME NEW t \in Threads, NEW parts \in Groups, NEW m \in MaxTasks, TypeOK, Start(t, parts, m)
    PROVE  job'[t] \in Calls /\ \A u \in Threads \ {t} : job'[u] = job[u]
<1> DEFINE j == [parts |-> parts, split |-> GroupSplit(Total(parts), m), captured |-> Capture(t)]
<1>1. j \in Calls /\ job' = [job EXCEPT ![t] = j]
  BY StartIs
<1>2. job \in [Threads -> Calls \cup {None}]
  BY DEF TypeOK
<1> HIDE DEF j
<1> QED BY ONLY <1>1, <1>2, t \in Threads

\* A call under way ends in RunReturns only.
LEMMA ReturnsIs ==
    ASSUME NEW t \in Threads, Inv, Next, Returns(t)
    PROVE RunReturns(t)
<1>1. InCall(t) /\ job'[t] = None /\ TypeOK
  BY DEF Returns, InCall, Inv
<1>2. ASSUME NEW s \in Threads, NEW parts \in Groups, NEW m \in MaxTasks, Start(s, parts, m) PROVE FALSE
  <2>1. job'[s] \in Calls /\ \A u \in Threads \ {s} : job'[u] = job[u]
    BY ONLY <1>1, <1>2, s \in Threads, parts \in Groups, m \in MaxTasks, StartPuts
  <2>2. job[t] # None
    BY <1>1 DEF InCall
  <2>3. None \notin Calls
    BY NoneAssumption
  <2>4. CASE s = t
    BY ONLY <1>1, <2>1, <2>3, <2>4
  <2>5. CASE s # t
    BY ONLY <1>1, <2>1, <2>2, <2>5, s \in Threads, t \in Threads
  <2> QED BY <2>4, <2>5
<1>3. ASSUME NEW s \in Threads, RunReturns(s) PROVE s = t
  BY <1>1, <1>3 DEF RunReturns, TypeOK, InCall
<1>4. ASSUME UNCHANGED job PROVE FALSE
  BY <1>1, <1>4 DEF InCall
<1> QED BY <1>2, <1>3, <1>4 DEF Next, OpenScope, CloseScope, Invoke, BeginTask, WritePart, EndTask

\* At the end of a call everything invoked has begun, and nobody is in a body.
LEMMA AtReturn ==
    ASSUME NEW t \in Threads, Inv, RunReturns(t)
    PROVE /\ \A i \in Indices(job[t]) : Begun(doing, invoked, t, i) = invoked[t][i]
          /\ \A i \in Tasks(job[t]) : state[t][i] \in {0, 2}
<1>1. InCall(t) /\ \A w \in Threads : doing[w] # None => doing[w].of # t
  BY DEF RunReturns, Free
<1>2. \A i : Pending(doing, t, i) = {} /\ Body(doing, t, i) = {}
  BY <1>1 DEF Pending, Body, Invoked
<1>3. ASSUME NEW i \in Indices(job[t]) PROVE Begun(doing, invoked, t, i) = invoked[t][i]
  <2>1. Cardinality(Pending(doing, t, i)) = 0
    BY <1>2, FS_EmptySet
  <2>2. invoked[t][i] \in Nat
    BY <1>1, InvokedType DEF Inv
  <2> QED BY <2>1, <2>2 DEF Begun
<1>4. ASSUME NEW i \in Tasks(job[t]) PROVE state[t][i] \in {0, 2}
  <2>1. state[t][i] \in 0 .. 2
    BY <1>1 DEF Inv, TypeOK, CallTypes
  <2>2. state[t][i] # 1
    BY <1>1, <1>2 DEF Inv, BodyInv, BodyOf
  <2> QED BY <2>1, <2>2
<1> QED BY <1>3, <1>4

LEMMA CompleteIsAsAsked ==
    ASSUME NEW t \in Threads, Inv, RunReturns(t)
    PROVE Complete(t) <=> AsAsked(t)
<1>1. /\ InCall(t) /\ DOMAIN invoked[t] = Indices(job[t]) /\ job[t] \in Calls /\ BegunOf(t)
      /\ \A i \in Indices(job[t]) : invoked[t][i] \in Nat
  BY Calling DEF RunReturns, Inv, TypeOK, CallTypes, BegunInv
<1>2. \A i \in Indices(job[t]) : i + 1 \in Indices(job[t]) <=> i \in Tasks(job[t])
  BY <1>1 DEF Indices, Tasks, Calls
<1>3. AsAsked(t) <=> \A i \in Indices(job[t]) : invoked[t][i] = IF i \in Tasks(job[t]) THEN 1 ELSE 0
  BY <1>1, <1>2 DEF AsAsked
<1>4. Tasks(job[t]) \subseteq Indices(job[t])
  BY <1>1 DEF Indices, Tasks, Calls
<1>5. \A i \in Tasks(job[t]) : state[t][i] = 0 <=> invoked[t][i] = 0
  BY <1>1, <1>4, AtReturn DEF BegunOf
<1>6. violation[t] <=> \E i \in Indices(job[t]) : invoked[t][i] > (IF i \in Tasks(job[t]) THEN 1 ELSE 0)
  BY <1>1, AtReturn DEF BegunOf
<1>7. \A i \in Tasks(job[t]) : state[t][i] = 2 <=> invoked[t][i] # 0
  BY <1>5, AtReturn
<1>8. Complete(t) <=> /\ \A i \in Indices(job[t]) : ~(invoked[t][i] > (IF i \in Tasks(job[t]) THEN 1 ELSE 0))
                      /\ \A i \in Tasks(job[t]) : invoked[t][i] # 0
  BY <1>6, <1>7 DEF Complete
<1>9. \A i \in Indices(job[t]) :
          invoked[t][i] = (IF i \in Tasks(job[t]) THEN 1 ELSE 0)
            <=> /\ ~(invoked[t][i] > (IF i \in Tasks(job[t]) THEN 1 ELSE 0))
                /\ i \in Tasks(job[t]) => invoked[t][i] # 0
  BY <1>1
<1> QED BY <1>3, <1>4, <1>8, <1>9

\* A call reports Ok just when each task was invoked once and nothing else was; then every row
\* has been written.
THEOREM OkIsExact == Spec => OkIsExactlyOnce
<1> DEFINE Exact == \A t \in Threads : Returns(t) =>
               /\ result'[t] = "Ok" <=> AsAsked(t)
               /\ result'[t] = "Ok" => \A row \in RowsOf(job[t].parts) : written[t][row] = 1
<1>1. ASSUME Inv, Next, NEW t \in Threads, Returns(t)
      PROVE /\ result'[t] = "Ok" <=> AsAsked(t)
            /\ result'[t] = "Ok" => \A row \in RowsOf(job[t].parts) : written[t][row] = 1
  <2>1. RunReturns(t)
    BY <1>1, ReturnsIs
  <2>2. result'[t] = "Ok" <=> Complete(t)
    BY <1>1, <2>1 DEF RunReturns, Inv, TypeOK
  <2>3. ASSUME Complete(t), NEW row \in RowsOf(job[t].parts) PROVE written[t][row] = 1
    <3>1. InCall(t) /\ job[t] \in Calls
      BY <1>1, <2>1, Calling DEF RunReturns, Inv
    <3>2. PICK p \in 1 .. Len(job[t].parts) : \E r \in 0 .. job[t].parts[p] - 1 : row = <<p, r>>
      BY <2>3, RowsOfIs
    <3>3. PICK r \in 0 .. job[t].parts[p] - 1 : row = <<p, r>>
      BY <3>2
    <3>4. PICK i \in Tasks(job[t]) : <<p, r>> \in Covers(job[t], i, p)
      BY <1>1, <3>1, SomeTask DEF Inv, SplitCovers
    <3>5. Passed(doing, state, t, i, p)
      BY <2>3, <3>4 DEF Complete, Passed
    <3>6. RowOf(t, p, r)
      BY <1>1, <3>1 DEF Inv, RowsInv
    <3> QED BY <3>3, <3>4, <3>5, <3>6 DEF RowOf
  <2> QED BY <1>1, <2>1, <2>2, <2>3, CompleteIsAsAsked
<1>2. Inv /\ [Next]_vars => [Exact]_vars
  BY <1>1
<1>3. Spec => [][Exact]_vars
  BY <1>2, Invariance, PTL DEF Spec
<1> QED BY <1>3 DEF OkIsExactlyOnce

=============================================================================
