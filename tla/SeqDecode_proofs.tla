------------------------- MODULE SeqDecode_proofs -------------------------
(***************************************************************************)
(* Proofs about what a sequence of the CPU backend says, for any           *)
(* sequences, batches, vocabulary, schema, layers, budgets and preference: *)
(* the context is what the caller fed and was told, the walk is that of    *)
(* the schema content in it, the damped-greedy history stays within it,    *)
(* and an exact jump is some number of decodes.                            *)
(***************************************************************************)
EXTENDS SeqDecode, WellFoundedInduction, TLAPS

-----------------------------------------------------------------------------
(* A choice of the least and of the most there is. *)

LEMMA LeastOf ==
    ASSUME NEW T, T \subseteq Nat, T # {}
    PROVE  \E n \in T : \A m \in T : n <= m
<1> DEFINE R == OpToRel(<, Nat)
<1>1. IsWellFoundedOn(R, Nat) /\ \A x, y \in Nat : y < x => <<y, x>> \in R
  BY NatLessThanWellFounded DEF OpToRel
<1> HIDE DEF R
<1>2. PICK x \in T : \A y \in T : ~(<<y, x>> \in R)
  BY <1>1, WFMin
<1>3. \A y \in T : ~(y < x)
  BY <1>1, <1>2
<1> QED BY <1>3

LEMMA MostOf ==
    ASSUME NEW N \in Nat, NEW S, S \subseteq 0 .. N, S # {}
    PROVE  \E n \in S : \A m \in S : m <= n
<1> DEFINE T == {N - m : m \in S}
<1>1. T \subseteq Nat /\ T # {}
  <2>1. \A m \in S : N - m \in Nat
    OBVIOUS
  <2>2. PICK m \in S : TRUE
    OBVIOUS
  <2>3. N - m \in T
    OBVIOUS
  <2> QED BY <2>1, <2>3
<1>2. PICK x \in T : \A y \in T : x <= y
  <2> HIDE DEF T
  <2> QED BY <1>1, LeastOf
<1>3. PICK n \in S : x = N - n
  OBVIOUS
<1> SUFFICES ASSUME NEW m \in S PROVE m <= n
  OBVIOUS
<1>4. N - m \in T
  OBVIOUS
<1> HIDE DEF T
<1>5. N - n <= N - m
  BY <1>2, <1>3, <1>4
<1>6. m \in Nat /\ n \in Nat
  OBVIOUS
<1> QED BY <1>5, <1>6

\* The longest admitted run, and the longest draft: each has a length, within the limit.
LEMMA AdmittedIs ==
    ASSUME NEW s, NEW q, NEW ts, Len(ts) \in Nat, NEW walked,
           NEW n, n = Admitted(s, q, ts, walked)
    PROVE  /\ n \in 0 .. Len(ts)
           /\ n # 0 => n <= Headroom(s, q) /\ (walked => q.bound)
<1> DEFINE ok(m) == /\ m = 0 \/ m <= Headroom(s, q)
                    /\ walked => q.bound /\ CanWalk(q.walk, SubSeq(ts, 1, m))
           S == {m \in 1 .. Len(ts) : ok(m)}
           best(m) == (m = 0 \/ ok(m)) /\ \A k \in 1 .. Len(ts) : ok(k) => k <= m
<1>1. \E m \in 0 .. Len(ts) : best(m)
  <2> HIDE DEF ok
  <2>1. CASE S = {}
    <3>1. \A m \in 1 .. Len(ts) : ~ok(m)
      BY <2>1
    <3> QED BY <3>1
  <2>2. CASE S # {}
    <3>1. S \subseteq 0 .. Len(ts)
      OBVIOUS
    <3>2. PICK m \in S : \A k \in S : k <= m
      <4> HIDE DEF S
      <4> QED BY <2>2, <3>1, MostOf
    <3>3. m \in 0 .. Len(ts) /\ ok(m) /\ \A k \in 1 .. Len(ts) : ok(k) => k <= m
      BY <3>2
    <3> QED BY <3>3
  <2> QED BY <2>1, <2>2
<1>2. n = CHOOSE m \in 0 .. Len(ts) : best(m)
  BY DEF Admitted
<1> HIDE DEF best
<1>3. n \in 0 .. Len(ts) /\ best(n)
  BY <1>1, <1>2
<1> QED BY <1>3 DEF best

LEMMA DraftLengthIs ==
    ASSUME NEW s, NEW q, NEW draft, Len(draft) \in Nat, NEW n, n = DraftLength(s, q, draft)
    PROVE  /\ n \in 0 .. Len(draft)
           /\ n # 0 => n <= Headroom(s, q) - 1
           /\ CanWalk(q.walk, SubSeq(draft, 1, n))
<1> DEFINE ok(m) == (m = 0 \/ m <= Headroom(s, q) - 1) /\ CanWalk(q.walk, SubSeq(draft, 1, m))
           S == {m \in 0 .. Len(draft) : ok(m)}
           best(m) == ok(m) /\ \A k \in 0 .. Len(draft) : ok(k) => k <= m
<1>1. 0 \in S
  <2>1. Len(SubSeq(draft, 1, 0)) = 0
    OBVIOUS
  <2> QED BY <2>1 DEF CanWalk
<1>2. \E m \in 0 .. Len(draft) : best(m)
  <2> HIDE DEF ok
  <2>1. S \subseteq 0 .. Len(draft)
    OBVIOUS
  <2>2. PICK m \in S : \A k \in S : k <= m
    <3> HIDE DEF S
    <3> QED BY <1>1, <2>1, MostOf
  <2>3. m \in 0 .. Len(draft) /\ ok(m) /\ \A k \in 0 .. Len(draft) : ok(k) => k <= m
    BY <2>2
  <2> QED BY <2>3
<1>3. n = CHOOSE m \in 0 .. Len(draft) : best(m)
  BY DEF DraftLength
<1> HIDE DEF best
<1>4. n \in 0 .. Len(draft) /\ best(n)
  BY <1>2, <1>3
<1> QED BY <1>4 DEF best

-----------------------------------------------------------------------------
(* The walk. *)

\* f is the walk over the first n of ts from w.
Walk(f, w, ts, n) == f = [i \in 0 .. n |-> IF i = 0 THEN w ELSE Step(f[i - 1], ts[i])]

LEMMA WalkAt ==
    ASSUME NEW f, NEW w, NEW ts, NEW n \in Nat, Walk(f, w, ts, n)
    PROVE  /\ DOMAIN f = 0 .. n /\ f[0] = w
           /\ \A i \in 1 .. n : f[i] = Step(f[i - 1], ts[i])
<1>1. DOMAIN f = 0 .. n
  BY DEF Walk
<1>2. \A i \in 0 .. n : f[i] = IF i = 0 THEN w ELSE Step(f[i - 1], ts[i])
  BY DEF Walk
<1>3. 0 \in 0 .. n /\ \A i \in 1 .. n : i \in 0 .. n /\ i # 0
  OBVIOUS
<1> QED BY <1>1, <1>2, <1>3

LEMMA WalkMade ==
    ASSUME NEW f, NEW w, NEW ts, NEW n \in Nat, f = [i \in 0 .. n |-> f[i]], f[0] = w,
           \A i \in 1 .. n : f[i] = Step(f[i - 1], ts[i])
    PROVE  Walk(f, w, ts, n)
<1>1. \A i \in 0 .. n : f[i] = IF i = 0 THEN w ELSE Step(f[i - 1], ts[i])
  <2> TAKE i \in 0 .. n
  <2>1. CASE i = 0
    BY <2>1
  <2>2. CASE i # 0
    <3>1. i \in 1 .. n
      BY <2>2
    <3> QED BY <2>2, <3>1
  <2> QED BY <2>1, <2>2
<1> QED BY <1>1 DEF Walk

\* There is a walk over any list of tokens, and only one.
LEMMA WalkExists ==
    ASSUME NEW w, NEW ts, NEW n \in Nat
    PROVE  \E f : Walk(f, w, ts, n)
<1> DEFINE Bad == {m \in Nat : ~\E f : Walk(f, w, ts, m)}
<1> SUFFICES ASSUME Bad # {} PROVE FALSE
  OBVIOUS
<1>1. PICK m \in Bad : \A k \in Bad : m <= k
  <2>1. Bad \subseteq Nat
    OBVIOUS
  <2> HIDE DEF Bad
  <2> QED BY <2>1, LeastOf
<1>2. m \in Nat /\ ~\E f : Walk(f, w, ts, m)
  OBVIOUS
<1>3. CASE m = 0
  <2> DEFINE f == [i \in 0 .. 0 |-> w]
  <2>1. f = [i \in 0 .. m |-> f[i]] /\ f[0] = w /\ 1 .. m = {}
    BY <1>3
  <2> HIDE DEF f
  <2>2. Walk(f, w, ts, m)
    BY <1>2, <2>1, WalkMade
  <2> QED BY <1>2, <2>2
<1>4. CASE m # 0
  <2> DEFINE k == m - 1
  <2>1. k \in Nat /\ k < m /\ m = k + 1
    BY <1>2, <1>4
  <2>2. k \notin Bad
    <3> HIDE DEF Bad
    <3> QED BY <1>1, <1>2, <2>1
  <2>3. PICK g : Walk(g, w, ts, k)
    BY <2>1, <2>2
  <2> HIDE DEF k, Bad
  <2>4. /\ DOMAIN g = 0 .. k /\ g[0] = w
        /\ \A i \in 1 .. k : g[i] = Step(g[i - 1], ts[i])
    BY <2>1, <2>3, WalkAt
  <2> DEFINE f == [i \in 0 .. m |-> IF i = m THEN Step(g[k], ts[m]) ELSE g[i]]
  <2>5. f = [i \in 0 .. m |-> f[i]] /\ f[0] = w
    BY <1>2, <1>4, <2>4
  <2>6. \A i \in 1 .. m : f[i] = Step(f[i - 1], ts[i])
    <3> TAKE i \in 1 .. m
    <3>1. CASE i = m
      <4>1. i - 1 = k /\ k \in 0 .. m /\ k # m /\ m \in 0 .. m
        BY <2>1, <3>1
      <4> QED BY <3>1, <4>1
    <3>2. CASE i # m
      <4>1. i \in 1 .. k /\ i \in 0 .. m /\ i - 1 \in 0 .. m /\ i - 1 # m
        BY <2>1, <3>2
      <4>2. f[i] = g[i] /\ f[i - 1] = g[i - 1]
        BY <3>2, <4>1
      <4> QED BY <2>4, <4>1, <4>2
    <3> QED BY <3>1, <3>2
  <2> HIDE DEF f
  <2>7. Walk(f, w, ts, m)
    BY <1>2, <2>5, <2>6, WalkMade
  <2> QED BY <1>2, <2>7
<1> QED BY <1>3, <1>4

LEMMA WalkOnce ==
    ASSUME NEW w, NEW ts, NEW n \in Nat, NEW f, Walk(f, w, ts, n), NEW g, Walk(g, w, ts, n)
    PROVE  f[n] = g[n]
<1> DEFINE Bad == {m \in 0 .. n : f[m] # g[m]}
<1>0. /\ f[0] = w /\ \A i \in 1 .. n : f[i] = Step(f[i - 1], ts[i])
      /\ g[0] = w /\ \A i \in 1 .. n : g[i] = Step(g[i - 1], ts[i])
  BY WalkAt
<1>1. CASE Bad = {}
  <2>1. n \in 0 .. n
    OBVIOUS
  <2> QED BY <1>1, <2>1
<1>2. CASE Bad # {}
  <2>1. PICK m \in Bad : \A k \in Bad : m <= k
    <3>1. Bad \subseteq Nat
      OBVIOUS
    <3> HIDE DEF Bad
    <3> QED BY <1>2, <3>1, LeastOf
  <2>2. m \in 0 .. n /\ f[m] # g[m]
    OBVIOUS
  <2>3. m # 0
    BY <1>0, <2>2
  <2> DEFINE k == m - 1
  <2>4. k \in 0 .. n /\ k < m /\ m \in 1 .. n
    BY <2>2, <2>3
  <2>5. k \notin Bad
    <3> HIDE DEF Bad
    <3>1. k \in Nat /\ m \in Nat
      BY <2>2, <2>4
    <3> HIDE DEF k
    <3> QED BY <2>1, <2>4, <3>1
  <2>6. f[k] = g[k]
    BY <2>4, <2>5
  <2>7. f[m] = Step(f[k], ts[m]) /\ g[m] = Step(g[k], ts[m])
    BY <1>0, <2>4
  <2> QED BY <2>2, <2>6, <2>7
<1> QED BY <1>1, <1>2

LEMMA WalkIs ==
    ASSUME NEW w, NEW ts, NEW n \in Nat, n = Len(ts), NEW f, Walk(f, w, ts, n)
    PROVE  WalkOver(w, ts) = f[n]
<1> DEFINE R(g) == g = [i \in 0 .. Len(ts) |-> IF i = 0 THEN w ELSE Step(g[i - 1], ts[i])]
           at == CHOOSE g : R(g)
<1>1. WalkOver(w, ts) = at[Len(ts)]
  BY DEF WalkOver
<1>2. R(at)
  <2>1. R(f)
    BY DEF Walk
  <2> HIDE DEF R
  <2> QED BY <2>1
<1>3. Walk(at, w, ts, n)
  <2> HIDE DEF at
  <2> QED BY <1>2 DEF Walk
<1> HIDE DEF at
<1> QED BY <1>1, <1>3, WalkOnce

LEMMA WalkNone ==
    ASSUME NEW w
    PROVE  WalkOver(w, <<>>) = w
<1> DEFINE n == 0
           ts == <<>>
<1>1. n \in Nat /\ n = Len(ts)
  OBVIOUS
<1> HIDE DEF n, ts
<1>2. PICK f : Walk(f, w, ts, n)
  BY <1>1, WalkExists
<1>3. WalkOver(w, ts) = f[n] /\ f[0] = w
  BY <1>1, <1>2, WalkIs, WalkAt
<1> QED BY <1>3 DEF n, ts

\* A walk over two lists is the walk over the second from where the first led.
LEMMA WalkJoined ==
    ASSUME NEW w, NEW S, NEW a \in Seq(S), NEW b \in Seq(S)
    PROVE  WalkOver(w, a \o b) = WalkOver(WalkOver(w, a), b)
<1> DEFINE m == Len(a)
           n == Len(b)
           ts == a \o b
           l == Len(ts)
<1>1. m \in Nat /\ n \in Nat /\ l \in Nat /\ l = m + n
  OBVIOUS
<1>2. \A i \in 1 .. m : ts[i] = a[i]
  OBVIOUS
<1>3. \A i \in m + 1 .. l : ts[i] = b[i - m]
  OBVIOUS
<1> HIDE DEF m, n, ts, l
<1>4. PICK f : Walk(f, w, a, m)
  BY <1>1, WalkExists
<1>5. WalkOver(w, a) = f[m]
  BY <1>1, <1>4, WalkIs DEF m
<1> DEFINE v == f[m]
<1> HIDE DEF v
<1>6. PICK g : Walk(g, v, b, n)
  BY <1>1, WalkExists
<1>7. WalkOver(v, b) = g[n]
  BY <1>1, <1>6, WalkIs DEF n
<1>8. f[0] = w /\ \A i \in 1 .. m : f[i] = Step(f[i - 1], a[i])
  BY <1>1, <1>4, WalkAt
<1>9. g[0] = v /\ \A i \in 1 .. n : g[i] = Step(g[i - 1], b[i])
  BY <1>1, <1>6, WalkAt
<1> DEFINE h == [i \in 0 .. l |-> IF i <= m THEN f[i] ELSE g[i - m]]
<1>10. h = [i \in 0 .. l |-> h[i]] /\ h[0] = w
  BY <1>1, <1>8
<1>11. h[l] = g[n]
  <2>1. l \in 0 .. l
    BY <1>1
  <2>2. CASE n = 0
    BY <1>1, <1>9, <2>1, <2>2 DEF v
  <2>3. CASE n # 0
    <3>1. ~(l <= m) /\ l - m = n
      BY <1>1, <2>3
    <3> QED BY <2>1, <3>1
  <2> QED BY <2>2, <2>3
<1>12. \A i \in 1 .. l : h[i] = Step(h[i - 1], ts[i])
  <2> TAKE i \in 1 .. l
  <2>0. i \in 0 .. l /\ i - 1 \in 0 .. l /\ i \in Nat
    BY <1>1
  <2>1. CASE i <= m
    <3>1. i \in 1 .. m /\ i - 1 <= m
      BY <1>1, <2>0, <2>1
    <3>2. h[i] = f[i] /\ h[i - 1] = f[i - 1]
      BY <2>0, <2>1, <3>1
    <3> HIDE DEF h
    <3> QED BY <1>2, <1>8, <3>1, <3>2
  <2>2. CASE i = m + 1
    <3>1. ~(i <= m) /\ i - m = 1 /\ i - 1 = m /\ 1 \in 1 .. n /\ i \in m + 1 .. l /\ m <= m
      BY <1>1, <2>0, <2>2
    <3>2. h[i] = g[1] /\ h[i - 1] = v
      BY <2>0, <3>1 DEF v
    <3>3. g[1] = Step(g[0], b[1])
      <4>1. g[1] = Step(g[1 - 1], b[1])
        BY <1>9, <3>1
      <4> QED BY <4>1
    <3>4. ts[i] = b[1]
      BY <1>3, <3>1
    <3> HIDE DEF h
    <3> QED BY <1>9, <3>2, <3>3, <3>4
  <2>3. CASE i > m + 1
    <3> DEFINE j == i - m
    <3>1. /\ ~(i <= m) /\ ~(i - 1 <= m) /\ j \in 1 .. n /\ i \in m + 1 .. l
          /\ (i - 1) - m = j - 1
      BY <1>1, <2>0, <2>3
    <3>2. h[i] = g[j] /\ h[i - 1] = g[j - 1]
      BY <2>0, <3>1
    <3>3. ts[i] = b[j]
      BY <1>3, <3>1
    <3> HIDE DEF h, j
    <3>4. g[j] = Step(g[j - 1], b[j])
      BY <1>9, <3>1
    <3> QED BY <3>2, <3>3, <3>4
  <2> QED BY <1>1, <2>0, <2>1, <2>2, <2>3
<1> HIDE DEF h
<1>13. Walk(h, w, ts, l)
  BY <1>1, <1>10, <1>12, WalkMade
<1>14. WalkOver(w, ts) = h[l]
  BY <1>1, <1>13, WalkIs DEF l
<1> QED BY <1>5, <1>7, <1>11, <1>14 DEF v, ts

LEMMA WalkOne ==
    ASSUME NEW w, NEW t
    PROVE  WalkOver(w, <<t>>) = Step(w, t)
<1> DEFINE n == 1
           ts == <<t>>
<1>1. n \in Nat /\ n = Len(ts) /\ ts[1] = t
  OBVIOUS
<1> HIDE DEF ts
<1>2. PICK f : Walk(f, w, ts, n)
  <2> HIDE DEF n
  <2> QED BY <1>1, WalkExists
<1>3. WalkOver(w, ts) = f[n] /\ f[0] = w /\ \A i \in 1 .. n : f[i] = Step(f[i - 1], ts[i])
  <2> HIDE DEF n
  <2> QED BY <1>1, <1>2, WalkIs, WalkAt
<1>4. f[1] = Step(f[1 - 1], ts[1])
  BY <1>3
<1>5. f[1] = Step(f[0], ts[1])
  BY <1>4
<1> QED BY <1>1, <1>3, <1>5 DEF ts, n

-----------------------------------------------------------------------------
(* Rows, and what they should be. *)

Cells == Tokens \cup {Torn}

\* A list of rows that is the list of tokens, but where a failed prefill has torn it.
Agrees(c, ts) ==
    /\ c \in Seq(Cells) /\ ts \in Seq(Tokens) /\ Len(c) = Len(ts)
    /\ \A i \in 1 .. Len(c) : c[i] = Torn \/ c[i] = ts[i]

\* Joining two sequences adds their lengths.
LEMMA JoinedIs ==
    ASSUME NEW S, NEW x \in Seq(S), NEW y \in Seq(S)
    PROVE  x \o y \in Seq(S) /\ Len(x \o y) = Len(x) + Len(y)
OBVIOUS

LEMMA AgreesSame ==
    ASSUME NEW ts \in Seq(Tokens)
    PROVE  Agrees(ts, ts)
<1>1. ts \in Seq(Cells)
  BY DEF Cells
<1> QED BY <1>1 DEF Agrees

LEMMA AgreesJoined ==
    ASSUME NEW a, NEW s, Agrees(a, s), NEW b, NEW t, Agrees(b, t)
    PROVE  Agrees(a \o b, s \o t)
<1> DEFINE m == Len(a)
           n == Len(b)
           c == a \o b
           u == s \o t
<1>1. /\ a \in Seq(Cells) /\ b \in Seq(Cells) /\ s \in Seq(Tokens) /\ t \in Seq(Tokens)
      /\ m \in Nat /\ n \in Nat /\ m = Len(s) /\ n = Len(t)
      /\ \A i \in 1 .. m : a[i] = Torn \/ a[i] = s[i]
      /\ \A i \in 1 .. n : b[i] = Torn \/ b[i] = t[i]
  BY DEF Agrees
<1>2. c \in Seq(Cells) /\ Len(c) = m + n
      /\ \A i \in 1 .. m + n : c[i] = IF i <= m THEN a[i] ELSE b[i - m]
  <2>1. a \in Seq(Cells) /\ b \in Seq(Cells)
    BY <1>1
  <2> QED BY <2>1
<1>3. u \in Seq(Tokens) /\ Len(u) = m + n
      /\ \A i \in 1 .. m + n : u[i] = IF i <= m THEN s[i] ELSE t[i - m]
  <2>1. s \in Seq(Tokens) /\ t \in Seq(Tokens)
    BY <1>1
  <2>2. Len(u) = Len(s) + Len(t) /\ u \in Seq(Tokens)
    BY <2>1
  <2>3. \A i \in 1 .. Len(s) + Len(t) : u[i] = IF i <= Len(s) THEN s[i] ELSE t[i - Len(s)]
    BY <2>1
  <2>4. m = Len(s) /\ n = Len(t)
    BY <1>1
  <2> QED BY <2>2, <2>3, <2>4
<1> HIDE DEF m, n, c, u
<1>4. ASSUME NEW i \in 1 .. m + n PROVE c[i] = Torn \/ c[i] = u[i]
  <2>1. CASE i <= m
    <3>1. i \in 1 .. m
      BY <1>1, <2>1
    <3> QED BY <1>1, <1>2, <1>3, <2>1, <3>1
  <2>2. CASE ~(i <= m)
    <3> DEFINE j == i - m
    <3>1. j \in 1 .. n
      BY <1>1, <2>2
    <3>2. c[i] = b[j] /\ u[i] = t[j]
      BY <1>2, <1>3, <2>2
    <3> HIDE DEF j
    <3> QED BY <1>1, <3>1, <3>2
  <2> QED BY <2>1, <2>2
<1>5. Agrees(c, u)
  BY <1>2, <1>3, <1>4 DEF Agrees
<1> QED BY <1>5 DEF c, u

LEMMA AgreesOne ==
    ASSUME NEW t \in Tokens, NEW c, c = t \/ c = Torn
    PROVE  Agrees(<<c>>, <<t>>)
<1>1. c \in Cells
  BY DEF Cells
<1>2. <<c>> \in Seq(Cells) /\ <<t>> \in Seq(Tokens)
  BY <1>1
<1> QED BY <1>2 DEF Agrees

\* One row more, or less.
LEMMA AgreesNext ==
    ASSUME NEW a, NEW s, Agrees(a, s), NEW t \in Tokens
    PROVE  Agrees(a \o <<t>>, Append(s, t)) /\ Append(s, t) = s \o <<t>>
<1>1. Agrees(<<t>>, <<t>>)
  BY AgreesOne
<1>2. Agrees(a \o <<t>>, s \o <<t>>)
  BY <1>1, AgreesJoined
<1>3. s \in Seq(Tokens)
  BY DEF Agrees
<1>4. Append(s, t) = s \o <<t>>
  BY <1>3
<1> QED BY <1>2, <1>4

LEMMA AgreesFront ==
    ASSUME NEW a \in Seq(Cells), NEW c \in Cells, NEW s, Agrees(a \o <<c>>, s)
    PROVE  Agrees(a, Front(s)) /\ Len(s) = Len(a) + 1 /\ (c = Torn \/ c = s[Len(s)])
<1> DEFINE n == Len(a)
           b == a \o <<c>>
<1>1. n \in Nat /\ b \in Seq(Cells) /\ Len(b) = n + 1 /\ b[n + 1] = c
      /\ \A i \in 1 .. n : b[i] = a[i]
  OBVIOUS
<1> HIDE DEF b
<1>2. s \in Seq(Tokens) /\ Len(s) = n + 1 /\ \A i \in 1 .. n + 1 : b[i] = Torn \/ b[i] = s[i]
  BY <1>1 DEF Agrees, b
<1>3. Front(s) = SubSeq(s, 1, n)
  <2>1. Len(s) - 1 = n
    BY <1>1, <1>2
  <2> QED BY <2>1 DEF Front
<1>4. Front(s) \in Seq(Tokens) /\ Len(Front(s)) = n /\ \A i \in 1 .. n : Front(s)[i] = s[i]
  BY <1>1, <1>2, <1>3
<1>5. \A i \in 1 .. n : a[i] = Torn \/ a[i] = Front(s)[i]
  BY <1>1, <1>2, <1>4
<1>6. Agrees(a, Front(s))
  BY <1>4, <1>5 DEF Agrees
<1>7. n + 1 \in 1 .. n + 1
  BY <1>1
<1>8. c = Torn \/ c = s[n + 1]
  BY <1>1, <1>2, <1>7
<1> QED BY <1>2, <1>6, <1>8

\* Rows with no torn one among them are the tokens.
LEMMA AgreesIs ==
    ASSUME NEW c, NEW ts, Agrees(c, ts), Torn \notin Range(c)
    PROVE  c = ts
<1>1. c \in Seq(Cells) /\ ts \in Seq(Tokens) /\ Len(c) = Len(ts) /\ Len(c) \in Nat
  BY DEF Agrees
<1>2. \A i \in 1 .. Len(c) : c[i] = ts[i]
  <2> TAKE i \in 1 .. Len(c)
  <2>1. c[i] \in Range(c)
    BY <1>1 DEF Range
  <2> QED BY <2>1 DEF Agrees
<1> QED BY <1>1, <1>2

LEMMA AgreesTypes ==
    ASSUME NEW c, NEW ts, Agrees(c, ts)
    PROVE  c \in Seq(Cells) /\ ts \in Seq(Tokens) /\ Len(c) \in Nat /\ Len(ts) = Len(c)
BY DEF Agrees

LEMMA HeadOf ==
    ASSUME NEW S, NEW ts \in Seq(S), NEW n \in 0 .. Len(ts)
    PROVE  SubSeq(ts, 1, n) \in Seq(S) /\ Len(SubSeq(ts, 1, n)) = n /\ n \in Nat
           /\ \A i \in 1 .. n : SubSeq(ts, 1, n)[i] = ts[i] /\ ts[i] \in S
OBVIOUS

-----------------------------------------------------------------------------
(* The inductive invariant. *)

Fields == {"text", "layer", "row", "token", "ready", "bound", "walk", "eligible", "history",
           "order", "origin", "told", "walked"}

Shaped(q) ==
    /\ DOMAIN q = Fields
    /\ q.text \in Seq(Cells) /\ q.told \in Seq(Tokens) /\ q.walked \in Seq(Tokens)
    /\ q.history \in Seq(Tokens)
    /\ q.layer \in Nat /\ q.origin \in Nat
    /\ q.token \in Tokens \cup {NoToken} /\ q.row \in Cells \cup {NoToken}

\* The rows, with the one the layers are in, are within the limit.
Fits(s, q) ==
    /\ Len(q.text) <= HolderLimit(s, q)
    /\ q.layer > 0 => Len(q.text) < HolderLimit(s, q)

\* The walk is that of the content, and there is none while a schema may still be bound.
Walks(q) ==
    /\ q.bound => q.walk = WalkOver(0, q.walked)
    /\ q.eligible => q.walked = <<>>

\* A sequence at rest.  With a row to be finished it is in no layer, and has that row
\* beyond its history: the finish that comes feeds the history and adds no row.
Sound(s, q) ==
    /\ Shaped(q) /\ Fits(s, q) /\ Walks(q)
    /\ Agrees(Content(q), q.told)
    /\ q.layer > 0 => q.row # NoToken
    /\ q.ready => q.layer = 0
    /\ Len(q.history) <= Len(q.text)
    /\ q.ready => Len(q.history) < Len(q.text)

\* A sequence as its finish finds it: the row is read, and nothing is pending.
AtRow(s, q) ==
    /\ Shaped(q) /\ Len(q.text) <= HolderLimit(s, q) /\ Walks(q)
    /\ Agrees(q.text, q.told)
    /\ Len(q.history) < Len(q.text)

\* What is asked of a batch's entries holds until it is their turn.
Able(q) == ~q.eligible /\ ~Unresumable(q)

IInv ==
    /\ DOMAIN seq = Seqs
    /\ \A s \in Seqs : Sound(s, seq[s])
    /\ DOMAIN batch = {"left", "params", "budget"}
    /\ batch.left \in Seq(Seqs) /\ batch.budget \in Nat
    /\ \A i \in 1 .. Len(batch.left) : Able(seq[batch.left[i]])

-----------------------------------------------------------------------------
(* Limits and pending tokens. *)

LEMMA Constant ==
    /\ NumLayers \in Nat /\ ContextCap \in Nat /\ 0 \in Tokens
    /\ NoToken \notin Cells /\ Torn \notin Tokens /\ Tokens \subseteq Cells
BY SizesAssumption DEF Tokens, NoToken, Torn, Cells

LEMMA LimitIs ==
    ASSUME NEW s \in Seqs, NEW q, q.origin \in Nat
    PROVE  /\ HolderLimit(s, q) \in Nat /\ HolderLimit(s, q) <= ContextCap
           /\ q.origin <= ContextCap => q.origin <= HolderLimit(s, q)
           /\ \A z : z.origin = q.origin => HolderLimit(s, z) = HolderLimit(s, q)
<1>1. Budget[s] \in Nat /\ ContextCap \in Nat
  BY BudgetAssumption, SizesAssumption
<1>2. HolderLimit(s, q) = IF q.origin + Budget[s] < ContextCap THEN q.origin + Budget[s] ELSE ContextCap
  BY DEF HolderLimit
<1>3. \A z : z.origin = q.origin => HolderLimit(s, z) = HolderLimit(s, q)
  BY DEF HolderLimit
<1> DEFINE h == HolderLimit(s, q)
<1>4. h \in Nat /\ h <= ContextCap /\ (q.origin <= ContextCap => q.origin <= h)
  <2> DEFINE o == q.origin
             g == Budget[s]
  <2>1. o \in Nat /\ g \in Nat /\ h = IF o + g < ContextCap THEN o + g ELSE ContextCap
    BY <1>1, <1>2
  <2> HIDE DEF o, g, h
  <2>2. h \in Nat /\ h <= ContextCap /\ (o <= ContextCap => o <= h)
    BY <1>1, <2>1
  <2> QED BY <2>2 DEF o
<1> QED BY <1>3, <1>4

\* A pending token is the one whose row comes next.
LEMMA PendingIs ==
    ASSUME NEW q, Shaped(q), q.ready => q.layer = 0, q.layer > 0 => q.row # NoToken
    PROVE  /\ HasPending(q) => Content(q) = q.text \o <<RowToken(q)>> /\ RowToken(q) \in Cells
           /\ ~HasPending(q) => Content(q) = q.text
<1>0. q.text \in Seq(Cells) /\ q.layer \in Nat
      /\ q.token \in Tokens \cup {NoToken} /\ q.row \in Cells \cup {NoToken}
  BY DEF Shaped
<1>1. CASE q.layer > 0
  <2>1. HasPending(q) /\ Pending(q) = <<q.row>> /\ RowToken(q) = q.row
    BY <1>0, <1>1 DEF HasPending, Pending, RowToken
  <2> QED BY <1>0, <1>1, <2>1 DEF Content
<1>2. CASE ~(q.layer > 0) /\ ~q.ready /\ q.token # NoToken
  <2>1. HasPending(q) /\ Pending(q) = <<q.token>> /\ RowToken(q) = q.token
    BY <1>0, <1>2 DEF HasPending, Pending, RowToken
  <2> QED BY <1>0, <1>2, <2>1, Constant DEF Content
<1>3. CASE ~(q.layer > 0) /\ (q.ready \/ q.token = NoToken)
  <2>1. ~HasPending(q) /\ Pending(q) = <<>>
    BY <1>0, <1>3 DEF HasPending, Pending
  <2>2. q.text \o <<>> = q.text
    BY <1>0
  <2> QED BY <2>1, <2>2 DEF Content
<1> QED BY <1>1, <1>2, <1>3

\* What a sound sequence is, in numbers.
LEMMA SoundIs ==
    ASSUME NEW s \in Seqs, NEW q, Sound(s, q)
    PROVE  /\ Shaped(q) /\ DOMAIN q = Fields
           /\ Len(q.text) \in Nat /\ Len(q.history) \in Nat /\ q.layer \in Nat
           /\ HolderLimit(s, q) \in Nat /\ HolderLimit(s, q) <= ContextCap
           /\ Len(q.text) <= HolderLimit(s, q)
           /\ q.layer > 0 => Len(q.text) < HolderLimit(s, q)
           /\ Headroom(s, q) = HolderLimit(s, q) - Len(q.text)
           /\ Len(q.history) <= Len(q.text) /\ (q.ready => Len(q.history) < Len(q.text))
           /\ HasPending(q) => Agrees(q.text \o <<RowToken(q)>>, q.told) /\ RowToken(q) \in Cells
           /\ ~HasPending(q) => Agrees(q.text, q.told)
           /\ Agrees(q.text, WithoutPending(q))
           /\ q.ready => ~HasPending(q)
<1>1. Shaped(q) /\ Fits(s, q) /\ Agrees(Content(q), q.told) /\ DOMAIN q = Fields
      /\ (q.ready => q.layer = 0) /\ (q.layer > 0 => q.row # NoToken)
  BY DEF Sound, Shaped
<1>2. /\ q.text \in Seq(Cells) /\ Len(q.text) \in Nat /\ Len(q.history) \in Nat /\ q.layer \in Nat
      /\ q.origin \in Nat
  BY <1>1 DEF Shaped
<1>3. HasPending(q) => Agrees(q.text \o <<RowToken(q)>>, q.told) /\ RowToken(q) \in Cells
  BY <1>1, PendingIs
<1>4. ~HasPending(q) => Agrees(q.text, q.told)
  BY <1>1, PendingIs
<1>5. Agrees(q.text, WithoutPending(q))
  <2>1. CASE HasPending(q)
    BY <1>2, <1>3, <2>1, AgreesFront DEF WithoutPending
  <2>2. CASE ~HasPending(q)
    BY <1>4, <2>2 DEF WithoutPending
  <2> QED BY <2>1, <2>2
<1>6. q.ready => ~HasPending(q)
  BY <1>1, <1>2 DEF HasPending
<1>7. /\ HolderLimit(s, q) \in Nat /\ HolderLimit(s, q) <= ContextCap
      /\ Headroom(s, q) = HolderLimit(s, q) - Len(q.text)
  BY <1>2, LimitIs DEF Headroom
<1>8. /\ Len(q.text) <= HolderLimit(s, q) /\ (q.layer > 0 => Len(q.text) < HolderLimit(s, q))
      /\ Len(q.history) <= Len(q.text) /\ (q.ready => Len(q.history) < Len(q.text))
  BY DEF Sound, Fits
<1> QED BY <1>1, <1>2, <1>3, <1>4, <1>5, <1>6, <1>7, <1>8

-----------------------------------------------------------------------------
(* The history of an anti-LM call, and the finish. *)

LEMMA PreparedIs ==
    ASSUME NEW q, q.history \in Seq(Tokens), NEW p
    PROVE  Prepared(q, p) \in Seq(Tokens) /\ Len(Prepared(q, p)) \in Nat
           /\ Len(Prepared(q, p)) <= Len(q.history)
<1>1. <<>> \in Seq(Tokens) /\ Len(<<>>) = 0 /\ Len(q.history) \in Nat
  OBVIOUS
<1> DEFINE h == Prepared(q, p)
<1>2. h = q.history \/ h = <<>>
  BY DEF Prepared
<1> HIDE DEF h
<1>3. h \in Seq(Tokens) /\ Len(h) \in Nat /\ Len(h) <= Len(q.history)
  <2>1. CASE h = q.history
    BY <1>1, <2>1
  <2>2. CASE h = <<>>
    <3>1. h \in Seq(Tokens) /\ Len(h) = 0
      BY <1>1, <2>2
    <3> QED BY <1>1, <3>1
  <2> QED BY <1>2, <2>1, <2>2
<1> QED BY <1>3 DEF h

\* An installed history is another history, no longer than the one it takes the place of.
LEMMA InstallIs ==
    ASSUME NEW q, DOMAIN q = Fields, q.history \in Seq(Tokens), NEW p, NEW r, r = InstallAntiLm(q, p)
    PROVE  /\ DOMAIN r = Fields /\ \A x \in Fields \ {"history", "order"} : r[x] = q[x]
           /\ r.history \in Seq(Tokens) /\ Len(r.history) \in Nat /\ Len(r.history) <= Len(q.history)
<1>1. CASE p = Greedy
  <2>1. r = q
    BY <1>1 DEF InstallAntiLm
  <2> QED BY <2>1
<1>2. CASE p # Greedy
  <2>1. r = [q EXCEPT !.order = p, !.history = Prepared(q, p)]
    BY <1>2 DEF InstallAntiLm
  <2>2. r.history = Prepared(q, p) /\ DOMAIN r = Fields
        /\ \A x \in Fields \ {"history", "order"} : r[x] = q[x]
    BY <2>1 DEF Fields
  <2> QED BY <2>2, PreparedIs
<1> QED BY <1>1, <1>2

LEMMA InstallAtRow ==
    ASSUME NEW s, NEW q, AtRow(s, q), NEW p
    PROVE  AtRow(s, InstallAntiLm(q, p))
<1> DEFINE r == InstallAntiLm(q, p)
<1>1. DOMAIN q = Fields /\ q.history \in Seq(Tokens)
  BY DEF AtRow, Shaped
<1>2. /\ DOMAIN r = Fields /\ \A x \in Fields \ {"history", "order"} : r[x] = q[x]
      /\ r.history \in Seq(Tokens) /\ Len(r.history) \in Nat /\ Len(r.history) <= Len(q.history)
  <2> HIDE DEF r
  <2> QED BY <1>1, InstallIs DEF r
<1> HIDE DEF r
<1>3. /\ r.text = q.text /\ r.told = q.told /\ r.walked = q.walked /\ r.layer = q.layer
      /\ r.origin = q.origin /\ r.token = q.token /\ r.row = q.row /\ r.bound = q.bound
      /\ r.walk = q.walk /\ r.eligible = q.eligible
  BY <1>2 DEF Fields
<1>4. Shaped(r)
  BY <1>2, <1>3 DEF AtRow, Shaped
<1>5. Len(r.text) <= HolderLimit(s, r)
  BY <1>3 DEF AtRow, HolderLimit
<1>6. Walks(r)
  BY <1>3 DEF AtRow, Walks
<1>7. Len(r.history) < Len(r.text)
  BY <1>1, <1>2, <1>3 DEF AtRow, Shaped
<1> QED BY <1>3, <1>4, <1>5, <1>6, <1>7 DEF AtRow, r

\* A sequence put to rest with a row to be finished is sound.
LEMMA RestedSound ==
    ASSUME NEW s \in Seqs, NEW q, AtRow(s, q)
    PROVE  Sound(s, Rested(q)) /\ Rested(q).ready /\ Rested(q).eligible = q.eligible
<1> DEFINE z == Rested(q)
<1>1. /\ DOMAIN q = Fields /\ Shaped(q) /\ q.origin \in Nat /\ Len(q.text) \in Nat
      /\ Len(q.history) \in Nat
  BY DEF AtRow, Shaped
<1>2. /\ DOMAIN z = Fields /\ z.text = q.text /\ z.told = q.told /\ z.walked = q.walked
      /\ z.history = q.history /\ z.origin = q.origin /\ z.token = q.token /\ z.row = q.row
      /\ z.bound = q.bound /\ z.walk = q.walk /\ z.eligible = q.eligible
      /\ z.layer = 0 /\ z.ready = TRUE
  BY <1>1 DEF Rested, Fields
<1> HIDE DEF z
<1>3. Shaped(z)
  BY <1>1, <1>2 DEF Shaped
<1>4. Fits(s, z)
  BY <1>1, <1>2, LimitIs DEF AtRow, Fits
<1>5. Walks(z)
  BY <1>2 DEF AtRow, Walks
<1>6. Agrees(Content(z), z.told)
  <2>1. ~HasPending(z)
    BY <1>2 DEF HasPending
  <2>2. (z.ready => z.layer = 0) /\ (z.layer > 0 => z.row # NoToken)
    BY <1>2
  <2>3. Content(z) = z.text
    BY <1>3, <2>1, <2>2, PendingIs
  <2> QED BY <1>2, <2>3 DEF AtRow
<1>7. Len(z.history) < Len(z.text)
  BY <1>2 DEF AtRow
<1>8. Sound(s, z)
  BY <1>1, <1>2, <1>3, <1>4, <1>5, <1>6, <1>7 DEF Sound
<1> QED BY <1>2, <1>8 DEF z

\* The finish chooses a token.
LEMMA RowChosen ==
    ASSUME NEW s \in Seqs, NEW q, AtRow(s, q), NEW p
    PROVE  FinishRow(q, q.text, q.walk, Prepared(q, p)) \in Tokens
<1> DEFINE legal == IF q.bound THEN Legal(q.walk) ELSE Tokens
           hist == Prepared(q, p)
           rows == q.text
<1>1. /\ rows \in Seq(Cells) /\ q.origin \in Nat /\ q.history \in Seq(Tokens)
      /\ Len(rows) \in Nat /\ Len(q.history) \in Nat
      /\ Len(rows) <= HolderLimit(s, q) /\ Len(q.history) < Len(rows)
  BY DEF AtRow, Shaped
<1>2. HolderLimit(s, q) \in Nat /\ HolderLimit(s, q) <= ContextCap /\ ContextCap \in Nat
  BY <1>1, LimitIs, Constant
<1>3. hist \in Seq(Tokens) /\ Len(hist) \in Nat /\ Len(hist) <= Len(q.history)
  BY <1>1, PreparedIs
<1> HIDE DEF hist, rows
<1>4. Len(rows) \in 0 .. ContextCap /\ Len(hist) \in 0 .. ContextCap
  BY <1>1, <1>2, <1>3
<1>5. rows \in Written
  <2>1. rows \in [1 .. Len(rows) -> Tokens \cup {Torn}]
    BY <1>1 DEF Cells
  <2> QED BY <1>4, <2>1 DEF Written
<1>6. hist \in Sayings
  <2>1. hist \in [1 .. Len(hist) -> Tokens]
    BY <1>3
  <2> QED BY <1>4, <2>1 DEF Sayings
<1>7. legal \in SUBSET Tokens
  BY DEF Legal
<1>8. FinishRow(q, rows, q.walk, hist) = IF legal = {} THEN 0 ELSE Argmax(rows, legal, hist)
  BY DEF FinishRow
<1> HIDE DEF legal
<1>9. legal # {} => Argmax(rows, legal, hist) \in Tokens
  BY <1>5, <1>6, <1>7, ArgmaxAssumption
<1>10. FinishRow(q, rows, q.walk, hist) \in Tokens
  BY <1>8, <1>9, Constant
<1> QED BY <1>10 DEF rows, hist

\* A finish that begins with a row beyond the history leaves as many, and says what it
\* chose: the token is told, walked and pending.
LEMMA EmitSound ==
    ASSUME NEW s \in Seqs, NEW q, AtRow(s, q), ~q.eligible, NEW p
    PROVE  Sound(s, Emit(q, p)) /\ Able(Emit(q, p))
<1> DEFINE t == FinishRow(q, q.text, q.walk, Prepared(q, p))
           r == InstallAntiLm(q, p)
           fed == [r EXCEPT !.history = IF p = Greedy THEN @ ELSE Append(@, t),
                            !.walk = IF q.bound THEN Step(@, t) ELSE @,
                            !.token = t, !.layer = 0, !.ready = FALSE,
                            !.told = Append(@, t), !.walked = IF q.bound THEN Append(@, t) ELSE @]
<1>1. t \in Tokens
  BY RowChosen
<1>2. AtRow(s, r)
  BY InstallAtRow
<1>3. DOMAIN q = Fields /\ q.history \in Seq(Tokens)
  BY DEF AtRow, Shaped
<1>4. /\ DOMAIN r = Fields /\ r.bound = q.bound /\ r.eligible = q.eligible
  <2> HIDE DEF r
  <2>1. /\ DOMAIN r = Fields /\ \A x \in Fields \ {"history", "order"} : r[x] = q[x]
    BY <1>3, InstallIs DEF r
  <2> QED BY <2>1 DEF Fields
<1>5. Emit(q, p) = Rested(r) \/ Emit(q, p) = fed
  BY DEF Emit
<1> HIDE DEF t, r
<1>6. /\ DOMAIN fed = Fields /\ fed.text = r.text /\ fed.told = Append(r.told, t)
      /\ fed.origin = r.origin /\ fed.token = t /\ fed.row = r.row /\ fed.bound = r.bound
      /\ fed.eligible = r.eligible /\ fed.layer = 0 /\ fed.ready = FALSE
      /\ fed.history = IF p = Greedy THEN r.history ELSE Append(r.history, t)
      /\ fed.walk = IF q.bound THEN Step(r.walk, t) ELSE r.walk
      /\ fed.walked = IF q.bound THEN Append(r.walked, t) ELSE r.walked
  BY <1>4 DEF Fields
<1> HIDE DEF fed
<1>7. /\ r.text \in Seq(Cells) /\ r.told \in Seq(Tokens) /\ r.walked \in Seq(Tokens)
      /\ r.history \in Seq(Tokens) /\ r.origin \in Nat /\ r.row \in Cells \cup {NoToken}
      /\ Len(r.text) \in Nat /\ Len(r.history) \in Nat /\ Len(r.history) < Len(r.text)
      /\ Len(r.text) <= HolderLimit(s, r) /\ Agrees(r.text, r.told) /\ Walks(r)
  BY <1>2 DEF AtRow, Shaped
<1>8. fed.history \in Seq(Tokens) /\ Len(fed.history) <= Len(r.text)
  <2>1. Append(r.history, t) \in Seq(Tokens) /\ Len(Append(r.history, t)) = Len(r.history) + 1
    BY <1>1, <1>7
  <2> QED BY <1>6, <1>7, <2>1
<1>9. fed.walked \in Seq(Tokens) /\ fed.told \in Seq(Tokens)
  BY <1>1, <1>6, <1>7
<1>10. Shaped(fed)
  BY <1>1, <1>6, <1>7, <1>8, <1>9 DEF Shaped
<1>11. Fits(s, fed)
  BY <1>6, <1>7, LimitIs DEF Fits
<1>12. Walks(fed)
  <2>1. CASE q.bound
    <3>1. r.walk = WalkOver(0, r.walked)
      BY <1>4, <1>7, <2>1 DEF Walks
    <3>2. <<t>> \in Seq(Tokens) /\ Append(r.walked, t) = r.walked \o <<t>>
      BY <1>1, <1>7
    <3>3. WalkOver(0, r.walked \o <<t>>) = Step(WalkOver(0, r.walked), t)
      <4> DEFINE a == r.walked
                 b == <<t>>
      <4>1. a \in Seq(Tokens) /\ b \in Seq(Tokens)
        BY <1>7, <3>2
      <4> HIDE DEF a, b
      <4>2. WalkOver(0, a \o b) = WalkOver(WalkOver(0, a), b)
        BY <4>1, WalkJoined
      <4>3. WalkOver(WalkOver(0, a), b) = Step(WalkOver(0, a), t)
        BY WalkOne DEF b
      <4> QED BY <4>2, <4>3 DEF a, b
    <3>4. fed.walk = Step(r.walk, t) /\ fed.walked = r.walked \o <<t>>
      BY <1>6, <2>1, <3>2
    <3>5. ~fed.eligible
      BY <1>4, <1>6
    <3> QED BY <3>1, <3>3, <3>4, <3>5 DEF Walks
  <2>2. CASE ~q.bound
    <3>1. ~fed.bound /\ ~fed.eligible
      BY <1>4, <1>6, <2>2
    <3> QED BY <3>1 DEF Walks
  <2> QED BY <2>1, <2>2
<1>13. t # NoToken
  BY <1>1, Constant
<1>14. Agrees(Content(fed), fed.told)
  <2>1. HasPending(fed) /\ RowToken(fed) = t
    BY <1>6, <1>13 DEF HasPending, RowToken
  <2>2. Content(fed) = r.text \o <<t>>
    <3>1. (fed.ready => fed.layer = 0) /\ (fed.layer > 0 => fed.row # NoToken)
      BY <1>6
    <3>2. Content(fed) = fed.text \o <<RowToken(fed)>>
      BY <1>10, <2>1, <3>1, PendingIs
    <3> QED BY <1>6, <2>1, <3>2
  <2> QED BY <1>1, <1>6, <1>7, <2>2, AgreesNext
<1>15. Sound(s, fed)
  BY <1>6, <1>8, <1>10, <1>11, <1>12, <1>14 DEF Sound
<1>16. Able(fed)
  BY <1>4, <1>6, <1>13 DEF Able, Unresumable
<1>17. Sound(s, Rested(r)) /\ Able(Rested(r))
  <2> DEFINE z == Rested(r)
  <2>1. Sound(s, z) /\ z.ready /\ z.eligible = r.eligible
    BY <1>2, RestedSound
  <2> HIDE DEF z
  <2>2. Sound(s, z) /\ Able(z)
    BY <1>4, <2>1 DEF Able, Unresumable
  <2> QED BY <2>2 DEF z
<1> QED BY <1>5, <1>15, <1>16, <1>17

-----------------------------------------------------------------------------
(* The batched decode. *)

LEMMA IdleIs ==
    /\ Idle.left = <<>> /\ Idle.left \in Seq(Seqs) /\ Len(Idle.left) = 0
    /\ DOMAIN Idle = {"left", "params", "budget"} /\ Idle.budget \in Nat
BY DEF Idle

\* An entry's step gives the call up or goes on to the entries behind it, which stay able.
LEMMA MoveKeeps ==
    ASSUME IInv, Decoding, NEW z, Sound(Entry, z), Able(z), Move(z), GoOn \/ Returned
    PROVE  IInv'
<1> DEFINE n == Len(batch.left)
           left == batch'.left
<1>1. /\ batch.left \in Seq(Seqs) /\ batch.left # <<>> /\ batch.budget \in Nat
      /\ DOMAIN batch = {"left", "params", "budget"} /\ DOMAIN seq = Seqs
      /\ \A s \in Seqs : Sound(s, seq[s])
      /\ \A i \in 1 .. n : Able(seq[batch.left[i]])
  BY DEF IInv, Decoding
<1>2. Entry \in Seqs /\ n \in Nat /\ n >= 1 /\ \A i \in 1 .. n : batch.left[i] \in Seqs
  BY <1>1 DEF Entry
<1>3. seq' = [seq EXCEPT ![Entry] = z]
  BY DEF Move
<1>4. DOMAIN seq' = Seqs /\ \A s \in Seqs : seq'[s] = IF s = Entry THEN z ELSE seq[s]
  BY <1>1, <1>3
<1>5. CASE batch' = Idle
  <2>1. /\ left = <<>> /\ left \in Seq(Seqs) /\ 1 .. Len(left) = {}
        /\ DOMAIN batch' = {"left", "params", "budget"} /\ batch'.budget \in Nat
    BY <1>5, IdleIs
  <2> QED BY <1>1, <1>4, <2>1 DEF IInv
<1>6. CASE batch' # Idle
  <2>1. batch' = [batch EXCEPT !.left = Tail(batch.left)]
    BY <1>6 DEF GoOn, Returned
  <2>2. /\ DOMAIN batch' = {"left", "params", "budget"} /\ batch'.budget \in Nat
        /\ left = Tail(batch.left)
    BY <1>1, <2>1
  <2>3. left \in Seq(Seqs) /\ Len(left) = n - 1
    BY <1>1, <2>2
  <2>4. \A i \in 1 .. n - 1 : left[i] = batch.left[i + 1] /\ i + 1 \in 1 .. n
    BY <1>1, <1>2, <2>2
  <2> HIDE DEF left, n
  <2>5. \A i \in 1 .. Len(left) : Able(seq'[left[i]])
    <3> TAKE i \in 1 .. Len(left)
    <3>1. left[i] = batch.left[i + 1] /\ i + 1 \in 1 .. n
      BY <2>3, <2>4
    <3> DEFINE s == left[i]
    <3>2. s \in Seqs /\ Able(seq[s])
      BY <1>1, <1>2, <3>1
    <3> HIDE DEF s
    <3>3. Able(seq'[s])
      BY <1>4, <3>2
    <3> QED BY <3>3 DEF s
  <2> QED BY <1>1, <1>4, <2>2, <2>3, <2>5 DEF IInv, left
<1> QED BY <1>5, <1>6

\* The sequence that a batch is at.
LEMMA EntryIs ==
    ASSUME IInv, Decoding
    PROVE  Entry \in Seqs /\ Sound(Entry, Now) /\ Able(Now) /\ batch.budget \in Nat
<1>1. batch.left \in Seq(Seqs) /\ batch.left # <<>> /\ batch.budget \in Nat
  BY DEF IInv, Decoding
<1>2. 1 \in 1 .. Len(batch.left) /\ Entry = batch.left[1] /\ Entry \in Seqs
  BY <1>1 DEF Entry
<1> QED BY <1>1, <1>2 DEF IInv, Now

\* An entry that is not ready has a token to read, and room for its row.
LEMMA ReadingIs ==
    ASSUME IInv, Decoding, ~Now.ready, ~AtLimit
    PROVE  /\ HasPending(Now) /\ Len(Now.text) < HolderLimit(Entry, Now)
           /\ RowToken(Now) \in Cells /\ Agrees(Now.text \o <<RowToken(Now)>>, Now.told)
<1>1. Entry \in Seqs /\ Sound(Entry, Now) /\ Able(Now)
  BY EntryIs
<1>2. /\ Now.layer \in Nat /\ Len(Now.text) \in Nat /\ HolderLimit(Entry, Now) \in Nat
      /\ (Now.layer > 0 => Len(Now.text) < HolderLimit(Entry, Now))
      /\ Headroom(Entry, Now) = HolderLimit(Entry, Now) - Len(Now.text)
      /\ (HasPending(Now) => Agrees(Now.text \o <<RowToken(Now)>>, Now.told) /\ RowToken(Now) \in Cells)
  BY <1>1, SoundIs
<1>3. HasPending(Now)
  BY <1>1, <1>2 DEF HasPending, Able, Unresumable
<1>4. Len(Now.text) < HolderLimit(Entry, Now)
  <2>1. CASE Now.layer > 0
    BY <1>2, <2>1
  <2>2. CASE ~(Now.layer > 0)
    <3>1. ~(Headroom(Entry, Now) <= 0)
      BY <1>2, <2>2 DEF AtLimit
    <3> QED BY <1>2, <3>1
  <2> QED BY <2>1, <2>2
<1> QED BY <1>2, <1>3, <1>4

\* A sequence at another layer of the same token, or at none of it.
Layered(q, l, r) == [q EXCEPT !.layer = l, !.row = r]

LEMMA LayeredSound ==
    ASSUME NEW s \in Seqs, NEW q, Sound(s, q), HasPending(q), NEW l \in Nat, NEW r, ~q.ready,
           Len(q.text) < HolderLimit(s, q),
           l = 0 => q.layer = 0 /\ r \in Cells \cup {NoToken},
           l > 0 => r = RowToken(q) \/ r = Torn,
           NEW z, z = Layered(q, l, r)
    PROVE  Sound(s, z) /\ HasPending(z) /\ z.eligible = q.eligible /\ ~z.ready
<1>1. /\ DOMAIN q = Fields /\ Shaped(q) /\ Agrees(q.text \o <<RowToken(q)>>, q.told)
      /\ RowToken(q) \in Cells /\ q.layer \in Nat
  BY SoundIs
<1>2. /\ q.text \in Seq(Cells) /\ q.origin \in Nat /\ q.told \in Seq(Tokens)
  BY <1>1 DEF Shaped
<1>3. /\ DOMAIN z = Fields /\ z.text = q.text /\ z.told = q.told /\ z.walked = q.walked
      /\ z.history = q.history /\ z.origin = q.origin /\ z.token = q.token /\ z.row = r
      /\ z.bound = q.bound /\ z.walk = q.walk /\ z.eligible = q.eligible
      /\ z.layer = l /\ z.ready = q.ready
  BY <1>1 DEF Fields, Layered
<1>4. r \in Cells \cup {NoToken} /\ (l > 0 => r \in Cells /\ r # NoToken)
  BY <1>1, Constant DEF Cells
<1>5. Shaped(z)
  BY <1>1, <1>3, <1>4 DEF Shaped
<1>6. Fits(s, z)
  BY <1>2, <1>3, LimitIs DEF Sound, Fits
<1>7. Walks(z)
  BY <1>3 DEF Sound, Walks
<1>8. HasPending(z) /\ (l > 0 => RowToken(z) = r) /\ (l = 0 => RowToken(z) = RowToken(q))
  BY <1>1, <1>3 DEF HasPending, RowToken
<1>9. Agrees(Content(z), z.told)
  <2>1. RowToken(z) = RowToken(q) \/ RowToken(z) = Torn
    BY <1>8
  <2>2. Content(z) = q.text \o <<RowToken(z)>>
    <3>1. (z.ready => z.layer = 0) /\ (z.layer > 0 => z.row # NoToken)
      BY <1>3, <1>4
    <3> QED BY <1>3, <1>5, <1>8, <3>1, PendingIs
  <2>3. CASE RowToken(z) = RowToken(q)
    BY <1>1, <1>3, <2>2, <2>3
  <2>4. CASE RowToken(z) = Torn
    <3> DEFINE c == RowToken(q)
    <3> HIDE DEF c
    <3>1. c \in Cells /\ Agrees(q.text \o <<c>>, q.told)
      BY <1>1 DEF c
    <3> DEFINE a == Front(q.told)
               t == q.told[Len(q.told)]
    <3>2. Agrees(q.text, a) /\ Len(q.told) = Len(q.text) + 1
      BY <1>2, <3>1, AgreesFront
    <3>3. t \in Tokens /\ Append(a, t) = q.told
      <4>1. Len(q.text) \in Nat /\ Len(q.told) \in Nat /\ Len(q.told) >= 1
        BY <1>2, <3>2
      <4> QED BY <1>2, <4>1 DEF Front
    <3> HIDE DEF a, t
    <3>4. Agrees(<<Torn>>, <<t>>)
      BY <3>3, AgreesOne
    <3> DEFINE b == <<Torn>>
               u == <<t>>
    <3>5. Agrees(b, u)
      BY <3>4
    <3> HIDE DEF b, u
    <3>6. Agrees(q.text \o b, a \o u)
      BY <3>2, <3>5, AgreesJoined
    <3>7. a \o u = q.told
      BY <3>2, <3>3, AgreesNext DEF u
    <3> QED BY <1>3, <2>2, <2>4, <3>6, <3>7 DEF b
  <2> QED BY <2>1, <2>3, <2>4
<1>10. Sound(s, z)
  BY <1>3, <1>4, <1>5, <1>6, <1>7, <1>9 DEF Sound
<1> QED BY <1>3, <1>8, <1>10

LEMMA LayersKeep ==
    ASSUME IInv, LayersFail \/ LayersPending
    PROVE  IInv'
<1>0. InLayers /\ Decoding /\ ~Now.ready /\ ~AtLimit
  BY DEF LayersFail, LayersPending, InLayers
<1> DEFINE q == Now
           s == Entry
<1>1. s \in Seqs /\ Sound(s, q) /\ Able(q) /\ batch.budget \in Nat /\ q.layer \in Nat
  BY <1>0, EntryIs, SoundIs
<1>2. HasPending(q) /\ Len(q.text) < HolderLimit(s, q) /\ RowToken(q) \in Cells /\ ~q.ready
  BY <1>0, ReadingIs
<1>3. GoOn \/ Returned
  BY DEF LayersFail, LayersPending
<1>4. PICK l \in Nat, r \in Cells \cup {NoToken} : /\ Move(Layered(q, l, r))
                                                   /\ l = 0 => q.layer = 0
                                                   /\ l > 0 => r = RowToken(q)
  <2>1. CASE LayersFail
    <3>1. PICK m \in q.layer .. NumLayers - 1 :
             Move([q EXCEPT !.layer = m, !.row = IF m = 0 THEN NoToken ELSE RowToken(q)])
      BY <2>1 DEF LayersFail
    <3> DEFINE r == IF m = 0 THEN NoToken ELSE RowToken(q)
    <3>2. m \in Nat /\ (m = 0 => q.layer = 0 /\ r = NoToken) /\ (m > 0 => r = RowToken(q))
      BY <1>1, Constant
    <3>3. Move(Layered(q, m, r))
      BY <3>1 DEF Layered
    <3>4. r \in Cells \cup {NoToken}
      BY <1>2, <3>2
    <3> HIDE DEF r, q
    <3> QED BY <3>2, <3>3, <3>4
  <2>2. CASE LayersPending
    <3> DEFINE l == q.layer + batch.budget
               r == RowToken(q)
    <3>1. Move(Layered(q, l, r))
      BY <2>2 DEF LayersPending, Layered
    <3>2. l \in Nat /\ (l = 0 => q.layer = 0) /\ r \in Cells \cup {NoToken}
      BY <1>1, <1>2
    <3> HIDE DEF q, l
    <3> QED BY <3>1, <3>2
  <2> QED BY <2>1, <2>2
<1> DEFINE z == Layered(q, l, r)
<1> HIDE DEF q, s
<1>5. Sound(s, z) /\ HasPending(z) /\ z.eligible = q.eligible /\ ~z.ready
  <2>1. z = Layered(q, l, r)
    OBVIOUS
  <2>2. /\ l = 0 => q.layer = 0 /\ r \in Cells \cup {NoToken}
        /\ l > 0 => r = RowToken(q) \/ r = Torn
    BY <1>4
  <2>3. Sound(s, q) /\ HasPending(q) /\ ~q.ready /\ Len(q.text) < HolderLimit(s, q) /\ s \in Seqs
    BY <1>1, <1>2
  <2> HIDE DEF z
  <2> QED BY <2>1, <2>2, <2>3, LayeredSound
<1> HIDE DEF z
<1>6. Able(z)
  <2>1. ~q.eligible
    BY <1>1 DEF Able
  <2>2. ~Unresumable(z)
    <3>1. Shaped(z)
      BY <1>5 DEF Sound
    <3>2. z.layer \in Nat
      BY <3>1 DEF Shaped
    <3> QED BY <1>5, <3>2 DEF HasPending, Unresumable
  <2> QED BY <1>5, <2>1, <2>2 DEF Able
<1>7. Move(z)
  BY <1>4 DEF z
<1> QED BY <1>0, <1>3, <1>5, <1>6, <1>7, MoveKeeps DEF s

\* The state a finish starts from has the row of the pending token.
LEMMA AtFinishIs ==
    ASSUME IInv, Finishing
    PROVE  AtRow(Entry, AtFinish) /\ ~AtFinish.eligible
<1>0. Decoding /\ ~AtLimit
  BY DEF Finishing
<1> DEFINE q == Now
           s == Entry
           z == AtFinish
<1>1. s \in Seqs /\ Sound(s, q) /\ ~q.eligible
  BY <1>0, EntryIs DEF Able
<1>2. /\ Shaped(q) /\ DOMAIN q = Fields /\ Walks(q) /\ Len(q.text) \in Nat
      /\ Len(q.history) \in Nat /\ HolderLimit(s, q) \in Nat
      /\ Len(q.text) <= HolderLimit(s, q)
      /\ Len(q.history) <= Len(q.text) /\ (q.ready => Len(q.history) < Len(q.text))
      /\ (~HasPending(q) => Agrees(q.text, q.told)) /\ (q.ready => ~HasPending(q))
  BY <1>1, SoundIs DEF Sound
<1>3. /\ q.text \in Seq(Cells) /\ q.told \in Seq(Tokens) /\ q.walked \in Seq(Tokens)
      /\ q.history \in Seq(Tokens) /\ q.layer \in Nat /\ q.origin \in Nat
      /\ q.token \in Tokens \cup {NoToken} /\ q.row \in Cells \cup {NoToken}
  BY <1>2 DEF Shaped
<1>4. CASE q.ready
  <2>1. z = [q EXCEPT !.ready = FALSE]
    BY <1>4 DEF AtFinish
  <2> HIDE DEF q, s, z
  <2>2. /\ DOMAIN z = Fields /\ z.text = q.text /\ z.told = q.told /\ z.walked = q.walked
        /\ z.history = q.history /\ z.origin = q.origin /\ z.token = q.token /\ z.row = q.row
        /\ z.bound = q.bound /\ z.walk = q.walk /\ z.eligible = q.eligible /\ z.layer = q.layer
    BY <1>2, <2>1 DEF Fields
  <2>3. Shaped(z)
    BY <1>3, <2>2 DEF Shaped
  <2>4. HolderLimit(s, z) = HolderLimit(s, q)
    BY <2>2 DEF HolderLimit
  <2>5. Walks(z)
    BY <1>2, <2>2 DEF Walks
  <2>6. AtRow(s, z) /\ ~z.eligible
    BY <1>1, <1>2, <1>4, <2>2, <2>3, <2>4, <2>5 DEF AtRow
  <2> QED BY <2>6 DEF s, z
<1>5. CASE ~q.ready
  <2> DEFINE c == RowToken(q)
  <2>1. z = [q EXCEPT !.text = Append(q.text, c), !.row = NoToken]
    BY <1>5 DEF AtFinish, RowRun
  <2>2. Len(q.text) < HolderLimit(s, q) /\ c \in Cells /\ Agrees(q.text \o <<c>>, q.told)
    BY <1>0, <1>5, ReadingIs
  <2> HIDE DEF q, s, z, c
  <2>3. /\ DOMAIN z = Fields /\ z.text = Append(q.text, c) /\ z.told = q.told /\ z.walked = q.walked
        /\ z.history = q.history /\ z.origin = q.origin /\ z.token = q.token /\ z.row = NoToken
        /\ z.bound = q.bound /\ z.walk = q.walk /\ z.eligible = q.eligible /\ z.layer = q.layer
    BY <1>2, <2>1 DEF Fields
  <2>4. /\ z.text \in Seq(Cells) /\ Len(z.text) = Len(q.text) + 1 /\ z.text = q.text \o <<c>>
    BY <1>3, <2>2, <2>3
  <2>5. Shaped(z)
    BY <1>3, <2>3, <2>4 DEF Shaped
  <2>6. HolderLimit(s, z) = HolderLimit(s, q)
    BY <2>3 DEF HolderLimit
  <2>7. Walks(z)
    BY <1>2, <2>3 DEF Walks
  <2>8. Agrees(z.text, z.told)
    BY <2>2, <2>3, <2>4
  <2>9. Len(z.text) <= HolderLimit(s, z) /\ Len(z.history) < Len(z.text)
    BY <1>2, <2>2, <2>3, <2>4, <2>6
  <2>10. AtRow(s, z) /\ ~z.eligible
    BY <1>1, <2>3, <2>5, <2>7, <2>8, <2>9 DEF AtRow
  <2> QED BY <2>10 DEF s, z
<1> QED BY <1>4, <1>5

LEMMA FinishKeeps ==
    ASSUME IInv, FinishFails \/ FinishRowCommits
    PROVE  IInv'
<1>0. Finishing /\ Decoding /\ (GoOn \/ Returned)
  BY DEF FinishFails, FinishRowCommits, Finishing
<1> DEFINE q == AtFinish
           s == Entry
           p == batch.params
<1>1. s \in Seqs /\ AtRow(s, q) /\ ~q.eligible
  BY <1>0, AtFinishIs, EntryIs
<1>2. Move(Rested(q)) \/ Move(Emit(q, p))
  BY DEF FinishFails, FinishRowCommits
<1> HIDE DEF q, p
<1>3. CASE Move(Rested(q))
  <2> DEFINE z == Rested(q)
  <2>1. Sound(s, z) /\ z.ready /\ z.eligible = q.eligible
    <3> HIDE DEF s
    <3> QED BY <1>1, RestedSound
  <2>2. Move(z)
    BY <1>3
  <2> HIDE DEF z
  <2>3. Able(z)
    BY <1>1, <2>1 DEF Able, Unresumable
  <2> QED BY <1>0, <2>1, <2>2, <2>3, MoveKeeps
<1>4. CASE Move(Emit(q, p))
  <2> DEFINE z == Emit(q, p)
  <2>1. Sound(s, z) /\ Able(z)
    <3> HIDE DEF s
    <3> QED BY <1>1, EmitSound
  <2>2. Move(z)
    BY <1>4
  <2> HIDE DEF z
  <2> QED BY <1>0, <2>1, <2>2, MoveKeeps
<1> QED BY <1>2, <1>3, <1>4

LEMMA RefuseLimitKeeps ==
    ASSUME IInv, RefuseLimit
    PROVE  IInv'
<1>1. seq' = seq /\ batch' = Idle
  BY DEF RefuseLimit, Returned
<1>2. 1 .. Len(batch'.left) = {}
  BY <1>1, IdleIs
<1> QED BY <1>1, <1>2, IdleIs DEF IInv

\* The call's first refusal, and the permission to bind a schema that it takes.
LEMMA RevokedSound ==
    ASSUME NEW s \in Seqs, NEW q, Sound(s, q), NEW z, z = Revoked(q)
    PROVE  /\ Sound(s, z) /\ DOMAIN z = Fields /\ ~z.eligible
           /\ \A x \in Fields \ {"eligible"} : z[x] = q[x]
           /\ Unresumable(z) = Unresumable(q)
<1>1. DOMAIN q = Fields /\ Shaped(q) /\ Agrees(Content(q), q.told)
  BY SoundIs DEF Sound
<1>2. z = [q EXCEPT !.eligible = FALSE]
  BY DEF Revoked
<1>3. DOMAIN z = Fields /\ ~z.eligible /\ \A x \in Fields \ {"eligible"} : z[x] = q[x]
  BY <1>1, <1>2 DEF Fields
<1>4. /\ z.text = q.text /\ z.told = q.told /\ z.walked = q.walked
      /\ z.history = q.history /\ z.origin = q.origin /\ z.token = q.token /\ z.row = q.row
      /\ z.bound = q.bound /\ z.walk = q.walk /\ z.layer = q.layer /\ z.ready = q.ready
  BY <1>3 DEF Fields
<1>5. Shaped(z)
  BY <1>1, <1>3, <1>4 DEF Shaped
<1>6. Fits(s, z)
  BY <1>4 DEF Sound, Fits, HolderLimit
<1>7. Walks(z)
  BY <1>3, <1>4 DEF Sound, Walks
<1>8. Agrees(Content(z), z.told)
  <2>1. Content(z) = Content(q)
    BY <1>4 DEF Content, Pending
  <2> QED BY <1>1, <1>4, <2>1
<1>9. Sound(s, z)
  BY <1>4, <1>5, <1>6, <1>7, <1>8 DEF Sound
<1>10. Unresumable(z) = Unresumable(q)
  BY <1>4 DEF Unresumable
<1> QED BY <1>3, <1>9, <1>10

LEMMA DecodeStepKeeps ==
    ASSUME IInv, NEW b \in Batches, NEW p, NEW n \in Nat, DecodeStep(b, p, n)
    PROVE  IInv'
<1>0. /\ DOMAIN seq = Seqs /\ \A s \in Seqs : Sound(s, seq[s])
      /\ b \in Seq(Seqs)
  BY BatchAssumption DEF IInv
<1>1. \A s \in Seqs : seq'[s] = IF s \in Range(b) THEN Revoked(seq[s]) ELSE seq[s]
  BY DEF DecodeStep, Revoked
<1>2. DOMAIN seq' = Seqs
  BY DEF DecodeStep
<1>3. \A s \in Seqs : Sound(s, seq'[s])
  <2> TAKE s \in Seqs
  <2> DEFINE q == seq[s]
             z == Revoked(q)
  <2>1. Sound(s, q)
    BY <1>0
  <2>2. Sound(s, z)
    <3> HIDE DEF q
    <3> QED BY <2>1, RevokedSound
  <2> QED BY <1>1, <2>1, <2>2
<1>4. CASE \E s \in Range(b) : Unresumable(seq[s])
  <2>1. batch' = Idle
    BY <1>4 DEF DecodeStep
  <2>2. 1 .. Len(batch'.left) = {}
    BY <2>1, IdleIs
  <2> QED BY <1>2, <1>3, <2>1, <2>2, IdleIs DEF IInv
<1>5. CASE ~\E s \in Range(b) : Unresumable(seq[s])
  <2>1. batch' = [left |-> b, params |-> p, budget |-> n]
    BY <1>5 DEF DecodeStep
  <2>2. batch'.left = b /\ batch'.budget = n /\ DOMAIN batch' = {"left", "params", "budget"}
    BY <2>1
  <2>3. \A i \in 1 .. Len(b) : Able(seq'[b[i]])
    <3> TAKE i \in 1 .. Len(b)
    <3> DEFINE s == b[i]
               q == seq[s]
               z == Revoked(q)
    <3>1. s \in Seqs /\ s \in Range(b)
      BY <1>0 DEF Range
    <3>2. seq'[s] = z /\ Sound(s, q) /\ ~Unresumable(q)
      BY <1>0, <1>1, <1>5, <3>1
    <3> HIDE DEF q, s
    <3>3. ~z.eligible /\ ~Unresumable(z)
      BY <3>1, <3>2, RevokedSound
    <3>4. Able(z)
      BY <3>3 DEF Able
    <3> QED BY <3>2, <3>4 DEF s
  <2> QED BY <1>0, <1>2, <1>3, <2>2, <2>3 DEF IInv
<1> QED BY <1>4, <1>5

-----------------------------------------------------------------------------
(* The other verbs. *)

\* A verb changes one sequence, between batches.
LEMMA OneKeeps ==
    ASSUME IInv, Quiet, NEW s \in Seqs, NEW z, Sound(s, z), seq' = [seq EXCEPT ![s] = z],
           UNCHANGED batch
    PROVE  IInv'
<1>1. DOMAIN seq' = Seqs /\ \A x \in Seqs : seq'[x] = IF x = s THEN z ELSE seq[x]
  BY DEF IInv
<1>2. batch' = Idle /\ 1 .. Len(batch'.left) = {}
  BY IdleIs DEF Quiet
<1>3. \A x \in Seqs : Sound(x, seq'[x])
  BY <1>1 DEF IInv
<1> QED BY <1>1, <1>2, <1>3, IdleIs DEF IInv

\* The sequence a verb begins with.
LEMMA VerbIs ==
    ASSUME IInv, NEW s \in Seqs, NEW q, q = Revoked(seq[s])
    PROVE  Sound(s, q) /\ DOMAIN q = Fields /\ ~q.eligible
           /\ \A x \in Fields \ {"eligible"} : q[x] = seq[s][x]
<1> DEFINE r == seq[s]
<1>1. Sound(s, r)
  BY DEF IInv
<1> HIDE DEF r
<1>2. q = Revoked(r)
  BY DEF r
<1>3. Sound(s, q) /\ DOMAIN q = Fields /\ ~q.eligible
      /\ \A x \in Fields \ {"eligible"} : q[x] = r[x]
  BY <1>1, <1>2, RevokedSound
<1> QED BY <1>3 DEF r

\* A sequence that takes in some tokens, over the pending one if there is one.
LEMMA TakenIn ==
    ASSUME NEW s \in Seqs, NEW q, Sound(s, q), ~q.eligible, NEW in \in Seq(Tokens), in # <<>>,
           Len(in) <= Headroom(s, q), NEW walked \in BOOLEAN, walked => q.bound,
           NEW z, DOMAIN z = Fields,
           z.text = q.text \o in, z.layer = 0, z.row = NoToken, z.token \in Tokens, z.ready = TRUE,
           z.bound = q.bound, z.eligible = q.eligible, z.history = q.history, z.origin = q.origin,
           z.walk = IF walked THEN WalkOver(q.walk, in) ELSE q.walk,
           z.told = WithoutPending(q) \o in,
           z.walked = IF walked THEN q.walked \o in ELSE q.walked
    PROVE  Sound(s, z)
<1> DEFINE n == Len(in)
           m == Len(q.text)
           limit == HolderLimit(s, q)
<1>1. /\ Shaped(q) /\ m \in Nat /\ limit \in Nat /\ Headroom(s, q) = limit - m
      /\ Len(q.history) \in Nat /\ Len(q.history) <= m /\ Agrees(q.text, WithoutPending(q))
  BY SoundIs
<1>2. /\ q.text \in Seq(Cells) /\ q.walked \in Seq(Tokens) /\ q.history \in Seq(Tokens)
      /\ q.origin \in Nat
  BY <1>1 DEF Shaped
<1>3. n \in Nat /\ n >= 1 /\ in \in Seq(Cells)
  BY Constant
<1>4. Agrees(z.text, z.told)
  BY <1>1, AgreesSame, AgreesJoined
<1>5. z.text \in Seq(Cells) /\ Len(z.text) = m + n
  BY <1>2, <1>3
<1>6. z.told \in Seq(Tokens)
  BY <1>4, AgreesTypes
<1>7. z.walked \in Seq(Tokens)
  <2>1. q.walked \o in \in Seq(Tokens)
    BY <1>2
  <2> QED BY <1>2, <2>1
<1>8. Shaped(z)
  BY <1>2, <1>5, <1>6, <1>7 DEF Shaped
<1>9. HolderLimit(s, z) = limit
  BY DEF HolderLimit
<1>10. Len(z.text) <= limit /\ Len(z.history) < Len(z.text)
  <2> HIDE DEF n, m, limit
  <2>1. n <= limit - m
    BY <1>1 DEF n
  <2>2. m + n <= limit /\ Len(q.history) < m + n
    BY <1>1, <1>3, <2>1
  <2> QED BY <1>5, <2>2
<1>11. Fits(s, z)
  <2> HIDE DEF limit
  <2> QED BY <1>9, <1>10 DEF Fits
<1>12. Walks(z)
  <2>1. ~z.eligible
    OBVIOUS
  <2>2. CASE ~q.bound
    BY <2>1, <2>2 DEF Walks
  <2>3. CASE q.bound /\ ~walked
    <3>1. q.walk = WalkOver(0, q.walked)
      BY <2>3 DEF Sound, Walks
    <3> QED BY <2>1, <2>3, <3>1 DEF Walks
  <2>4. CASE q.bound /\ walked
    <3>1. q.walk = WalkOver(0, q.walked)
      BY <2>4 DEF Sound, Walks
    <3> DEFINE a == q.walked
    <3>2. a \in Seq(Tokens)
      BY <1>2
    <3> HIDE DEF a
    <3>3. WalkOver(0, a \o in) = WalkOver(WalkOver(0, a), in)
      BY <3>2, WalkJoined
    <3>4. z.walk = WalkOver(0, z.walked)
      BY <2>4, <3>1, <3>3 DEF a
    <3> QED BY <2>1, <3>4 DEF Walks
  <2> QED BY <2>2, <2>3, <2>4
<1>13. Content(z) = z.text
  <2>1. ~HasPending(z) /\ (z.ready => z.layer = 0) /\ (z.layer > 0 => z.row # NoToken)
    BY DEF HasPending
  <2> QED BY <1>8, <2>1, PendingIs
<1> QED BY <1>4, <1>8, <1>10, <1>11, <1>12, <1>13 DEF Sound

LEMMA PrefillKeeps ==
    ASSUME IInv, NEW s \in Seqs, NEW ts \in Seq(Tokens), NEW walked \in BOOLEAN, Prefill(s, ts, walked)
    PROVE  IInv'
<1> DEFINE q == Revoked(seq[s])
           n == Admitted(s, q, ts, walked)
           in == SubSeq(ts, 1, n)
           z == [q EXCEPT
                  !.text = @ \o in, !.layer = 0, !.row = NoToken, !.token = in[n], !.ready = TRUE,
                  !.walk = IF walked THEN WalkOver(@, in) ELSE @,
                  !.told = WithoutPending(q) \o in,
                  !.walked = IF walked THEN @ \o in ELSE @]
<1>1. Quiet /\ seq' = [seq EXCEPT ![s] = IF n = 0 THEN q ELSE z] /\ UNCHANGED batch
  BY DEF Prefill
<1>2. Sound(s, q) /\ DOMAIN q = Fields /\ ~q.eligible
  <2> HIDE DEF q
  <2> QED BY VerbIs DEF q
<1>3. Len(ts) \in Nat
  OBVIOUS
<1> HIDE DEF q
<1>4. n \in 0 .. Len(ts) /\ (n # 0 => n <= Headroom(s, q) /\ (walked => q.bound))
  <2> HIDE DEF n
  <2> QED BY <1>3, AdmittedIs DEF n
<1> HIDE DEF n
<1>5. in \in Seq(Tokens) /\ Len(in) = n /\ n \in Nat /\ \A i \in 1 .. n : in[i] \in Tokens
  BY <1>4, HeadOf
<1> HIDE DEF in
<1>6. /\ DOMAIN z = Fields
      /\ z.text = q.text \o in /\ z.layer = 0 /\ z.row = NoToken /\ z.token = in[n] /\ z.ready = TRUE
      /\ z.bound = q.bound /\ z.eligible = q.eligible /\ z.history = q.history /\ z.origin = q.origin
      /\ z.walk = (IF walked THEN WalkOver(q.walk, in) ELSE q.walk)
      /\ z.told = WithoutPending(q) \o in
      /\ z.walked = (IF walked THEN q.walked \o in ELSE q.walked)
  BY <1>2 DEF Fields
<1> HIDE DEF z
<1>7. CASE n = 0
  BY <1>1, <1>2, <1>7, OneKeeps
<1>8. CASE n # 0
  <2>1. in # <<>> /\ Len(in) <= Headroom(s, q) /\ (walked => q.bound) /\ z.token \in Tokens
    <3>1. n \in 1 .. n
      BY <1>5, <1>8
    <3>2. in # <<>>
      BY <1>5, <1>8
    <3> QED BY <1>4, <1>5, <1>6, <1>8, <3>1, <3>2
  <2>2. Sound(s, z)
    BY <1>2, <1>5, <1>6, <2>1, TakenIn
  <2>3. seq' = [seq EXCEPT ![s] = z]
    BY <1>1, <1>8
  <2> QED BY <1>1, <2>2, <2>3, OneKeeps
<1> QED BY <1>7, <1>8

\* Soundness is about the fields.
LEMMA SameSound ==
    ASSUME NEW s, NEW q, Sound(s, q), NEW z, DOMAIN z = Fields, \A x \in Fields : z[x] = q[x]
    PROVE  Sound(s, z)
<1>1. /\ z.text = q.text /\ z.told = q.told /\ z.walked = q.walked /\ z.ready = q.ready
      /\ z.history = q.history /\ z.origin = q.origin /\ z.token = q.token /\ z.row = q.row
      /\ z.bound = q.bound /\ z.walk = q.walk /\ z.eligible = q.eligible /\ z.layer = q.layer
  BY DEF Fields
<1>2. Shaped(z) /\ Fits(s, z) /\ Walks(z)
  BY <1>1 DEF Sound, Shaped, Fits, HolderLimit, Walks
<1>3. Content(z) = Content(q)
  BY <1>1 DEF Content, Pending
<1> QED BY <1>1, <1>2, <1>3 DEF Sound

LEMMA PrefillFailsKeeps ==
    ASSUME IInv, NEW s \in Seqs, PrefillFails(s)
    PROVE  IInv'
<1> DEFINE q == Revoked(seq[s])
<1>1. PICK r \in {seq[s].row, Torn} :
         /\ seq[s].layer = 0 => r = seq[s].row
         /\ seq' = [seq EXCEPT ![s] = [q EXCEPT !.row = r]]
  BY DEF PrefillFails
<1>2. Quiet /\ UNCHANGED batch /\ Headroom(s, seq[s]) > 0
  BY DEF PrefillFails
<1>3. Sound(s, q) /\ DOMAIN q = Fields /\ ~q.eligible
      /\ \A x \in Fields \ {"eligible"} : q[x] = seq[s][x]
  <2> HIDE DEF q
  <2> QED BY VerbIs DEF q
<1>4. q.row = seq[s].row /\ q.layer = seq[s].layer /\ q.text = seq[s].text /\ q.origin = seq[s].origin
  BY <1>3 DEF Fields
<1>5. Headroom(s, q) > 0
  BY <1>2, <1>4 DEF Headroom, HolderLimit
<1> HIDE DEF q
<1> DEFINE l == q.layer
           z == [q EXCEPT !.row = r]
<1>6. DOMAIN z = Fields /\ z.row = r /\ \A x \in Fields \ {"row"} : z[x] = q[x]
  BY <1>3 DEF Fields
<1>7. CASE l = 0
  <2>1. r = q.row
    BY <1>1, <1>4, <1>7
  <2> HIDE DEF z
  <2>2. \A x \in Fields : z[x] = q[x]
    BY <1>6, <2>1 DEF Fields
  <2>3. Sound(s, z)
    BY <1>3, <1>6, <2>2, SameSound
  <2> QED BY <1>1, <1>2, <2>3, OneKeeps DEF z
<1>8. CASE l # 0
  <2>1. /\ l \in Nat /\ l > 0 /\ Len(q.text) < HolderLimit(s, q) /\ ~q.ready
    <3>1. l \in Nat /\ Len(q.text) \in Nat /\ HolderLimit(s, q) \in Nat
          /\ Headroom(s, q) = HolderLimit(s, q) - Len(q.text)
      BY <1>3, SoundIs
    <3>2. q.ready => l = 0
      BY <1>3 DEF Sound
    <3> QED BY <1>5, <1>8, <3>1, <3>2
  <2>2. HasPending(q) /\ RowToken(q) = q.row
    BY <1>8, <2>1 DEF HasPending, RowToken
  <2>3. r = RowToken(q) \/ r = Torn
    BY <1>1, <1>4, <2>2
  <2> DEFINE y == Layered(q, l, r)
  <2>4. DOMAIN y = Fields /\ \A x \in Fields : y[x] = z[x]
    BY <1>3 DEF Layered, Fields
  <2> HIDE DEF l, z
  <2>5. Sound(s, y)
    <3> HIDE DEF y
    <3> QED BY <1>3, <2>1, <2>2, <2>3, LayeredSound DEF y
  <2> HIDE DEF y
  <2>6. Sound(s, z)
    BY <1>6, <2>4, <2>5, SameSound
  <2> QED BY <1>1, <1>2, <2>6, OneKeeps DEF z
<1> QED BY <1>7, <1>8

LEMMA PrefixIs ==
    ASSUME NEW f \in FrozenPrefixes
    PROVE  /\ f.text \in Seq(Tokens) /\ f.walked \in Seq(Tokens) /\ Len(f.text) <= ContextCap
           /\ f.walked # <<>> => f.bound
<1>1. f.text \in PrefixTexts /\ f.walked \in PrefixTexts /\ (f.walked # <<>> => f.bound)
  BY DEF FrozenPrefixes
<1>2. \A ts \in PrefixTexts : ts \in Seq(Tokens) /\ Len(ts) <= ContextCap
  <2> TAKE ts \in PrefixTexts
  <2>1. PICK n \in 0 .. PrefixMax : ts \in [1 .. n -> Tokens]
    BY DEF PrefixTexts
  <2>2. n \in Nat /\ n <= ContextCap
    BY SizesAssumption
  <2> QED BY <2>1, <2>2
<1> QED BY <1>1, <1>2

\* An adopted prefix leads where its content does, in a sequence its schema is bound to.
LEMMA AdoptedWalkIs ==
    ASSUME NEW q, NEW f, f.walked # <<>> => f.bound, q.bound
    PROVE  AdoptedWalk(q, f) = WalkOver(0, f.walked)
<1>1. CASE f.bound
  <2>1. PrefixWalk(f) = WalkOver(0, f.walked)
    BY <1>1 DEF PrefixWalk
  <2>2. ~Progressed(f) => PrefixWalk(f) = 0
    BY <1>1 DEF Progressed
  <2> QED BY <2>1, <2>2 DEF AdoptedWalk, StartWalk
<1>2. CASE ~f.bound
  <2> DEFINE w == 0
  <2>1. ~Progressed(f) /\ f.walked = <<>>
    BY <1>2 DEF Progressed
  <2>2. AdoptedWalk(q, f) = w
    BY <2>1 DEF AdoptedWalk, StartWalk
  <2> HIDE DEF w
  <2>3. WalkOver(w, <<>>) = w
    BY WalkNone
  <2> QED BY <2>1, <2>2, <2>3 DEF w
<1> QED BY <1>1, <1>2

LEMMA AdoptKeeps ==
    ASSUME IInv, NEW s \in Seqs, NEW f \in FrozenPrefixes, AdoptPrefix(s, f)
    PROVE  IInv'
<1> DEFINE q == Revoked(seq[s])
           z == [q EXCEPT !.text = f.text, !.layer = 0, !.row = NoToken,
                         !.token = IF f.text = <<>> THEN NoToken ELSE Last(f.text),
                         !.ready = f.text # <<>>, !.walk = AdoptedWalk(q, f),
                         !.history = <<>>, !.order = 0, !.origin = Len(f.text),
                         !.told = f.text, !.walked = f.walked]
<1>1. Quiet /\ seq' = [seq EXCEPT ![s] = IF Progressed(f) /\ ~q.bound THEN q ELSE z]
      /\ UNCHANGED batch
  BY DEF AdoptPrefix
<1>2. Sound(s, q) /\ DOMAIN q = Fields /\ ~q.eligible
  <2> HIDE DEF q
  <2> QED BY VerbIs DEF q
<1> HIDE DEF q
<1> DEFINE n == Len(f.text)
<1>3. /\ f.text \in Seq(Tokens) /\ f.walked \in Seq(Tokens) /\ n \in Nat /\ n <= ContextCap
      /\ (f.walked # <<>> => f.bound) /\ (f.text # <<>> <=> n >= 1)
  <2>1. /\ f.text \in Seq(Tokens) /\ f.walked \in Seq(Tokens) /\ n <= ContextCap
        /\ (f.walked # <<>> => f.bound)
    BY PrefixIs
  <2>2. n \in Nat /\ (f.text # <<>> <=> n >= 1)
    BY <2>1
  <2> QED BY <2>1, <2>2
<1>4. /\ DOMAIN z = Fields
      /\ z.text = f.text /\ z.layer = 0 /\ z.row = NoToken /\ z.ready = (f.text # <<>>)
      /\ z.token = (IF f.text = <<>> THEN NoToken ELSE Last(f.text))
      /\ z.bound = q.bound /\ z.eligible = q.eligible /\ z.history = <<>> /\ z.origin = n
      /\ z.walk = AdoptedWalk(q, f) /\ z.told = f.text /\ z.walked = f.walked
  BY <1>2 DEF Fields
<1> HIDE DEF z
<1>5. z.ready <=> n >= 1
  <2>1. z.ready <=> f.text # <<>>
    BY <1>4, Zenon
  <2> QED BY <1>3, <2>1
<1>6. z.token \in Tokens \cup {NoToken} /\ (~z.ready => z.token = NoToken)
  <2>1. CASE n >= 1
    <3>1. Last(f.text) = f.text[n] /\ n \in 1 .. n
      BY <1>3, <2>1 DEF Last
    <3>2. Last(f.text) \in Tokens
      BY <1>3, <3>1
    <3> QED BY <1>4, <1>5, <2>1, <3>2
  <2>2. CASE ~(n >= 1)
    BY <1>3, <1>4, <2>2
  <2> QED BY <2>1, <2>2
<1>7. z.text \in Seq(Cells) /\ Agrees(z.text, z.told)
  BY <1>3, <1>4, AgreesSame, AgreesTypes
<1>8. Len(z.history) = 0 /\ z.history \in Seq(Tokens)
  BY <1>4
<1>9. Shaped(z)
  BY <1>3, <1>4, <1>6, <1>7, <1>8 DEF Shaped
<1>10. Fits(s, z)
  <2>1. z.origin \in Nat /\ z.origin <= ContextCap /\ Len(z.text) = z.origin
    BY <1>3, <1>4
  <2> QED BY <1>4, <2>1, LimitIs DEF Fits
<1>11. Walks(z)
  BY <1>2, <1>3, <1>4, AdoptedWalkIs DEF Walks
<1>12. Content(z) = z.text
  <2>1. ~HasPending(z) /\ (z.ready => z.layer = 0) /\ (z.layer > 0 => z.row # NoToken)
    BY <1>4, <1>6 DEF HasPending
  <2> QED BY <1>9, <2>1, PendingIs
<1>13. Len(z.history) <= Len(z.text) /\ (z.ready => Len(z.history) < Len(z.text))
  <2>1. Len(z.text) = n
    BY <1>4
  <2> HIDE DEF n
  <2> QED BY <1>3, <1>5, <1>8, <2>1
<1>14. Sound(s, z)
  BY <1>4, <1>7, <1>9, <1>10, <1>11, <1>12, <1>13 DEF Sound
<1>15. CASE Progressed(f) /\ ~q.bound
  BY <1>1, <1>2, <1>15, OneKeeps
<1>16. CASE ~(Progressed(f) /\ ~q.bound)
  <2>1. seq' = [seq EXCEPT ![s] = z]
    BY <1>1, <1>16, Zenon
  <2> QED BY <1>1, <1>14, <2>1, OneKeeps
<1> QED BY <1>15, <1>16

\* A sequence with nothing in it.
LEMMA BlankSound ==
    ASSUME NEW s \in Seqs, NEW z, DOMAIN z = Fields,
           z.text = <<>>, z.layer = 0, z.row = NoToken, z.token = NoToken, z.ready = FALSE,
           z.bound => z.walk = 0, z.history = <<>>, z.origin = 0, z.told = <<>>, z.walked = <<>>
    PROVE  Sound(s, z)
<1>1. /\ <<>> \in Seq(Cells) /\ <<>> \in Seq(Tokens) /\ Len(<<>>) = 0 /\ 0 \in Nat
  OBVIOUS
<1>2. Shaped(z)
  BY <1>1 DEF Shaped
<1>3. Fits(s, z)
  <2>1. HolderLimit(s, z) \in Nat
    BY <1>2, LimitIs DEF Shaped
  <2> QED BY <1>1, <2>1 DEF Fits
<1>4. Walks(z)
  <2> DEFINE w == 0
  <2>1. z.bound => z.walk = w
    OBVIOUS
  <2> HIDE DEF w
  <2>2. WalkOver(w, <<>>) = w
    BY WalkNone
  <2> QED BY <2>1, <2>2 DEF Walks, w
<1>5. Agrees(Content(z), z.told)
  <2>1. ~HasPending(z) /\ (z.ready => z.layer = 0) /\ (z.layer > 0 => z.row # NoToken)
    BY DEF HasPending
  <2>2. Content(z) = z.text
    BY <1>2, <2>1, PendingIs
  <2> QED BY <1>1, <2>2, AgreesSame
<1>6. Len(z.history) <= Len(z.text)
  BY <1>1
<1> QED BY <1>2, <1>3, <1>4, <1>5, <1>6 DEF Sound

LEMMA FreshIs ==
    ASSUME NEW s \in Seqs
    PROVE  Sound(s, Fresh)
<1>1. /\ DOMAIN Fresh = Fields
      /\ Fresh.text = <<>> /\ Fresh.layer = 0 /\ Fresh.row = NoToken /\ Fresh.token = NoToken
      /\ Fresh.ready = FALSE /\ Fresh.bound = FALSE /\ Fresh.history = <<>> /\ Fresh.origin = 0
      /\ Fresh.told = <<>> /\ Fresh.walked = <<>>
  BY DEF Fresh, Fields
<1> DEFINE z == Fresh
<1>2. Sound(s, z)
  <2> HIDE DEF z
  <2> QED BY <1>1, BlankSound DEF z
<1> QED BY <1>2

LEMMA SeqResetKeeps ==
    ASSUME IInv, NEW s \in Seqs, SeqReset(s)
    PROVE  IInv'
<1> DEFINE z == ResetOf(seq[s])
<1>1. Quiet /\ seq' = [seq EXCEPT ![s] = z] /\ UNCHANGED batch
  BY DEF SeqReset
<1>2. /\ DOMAIN z = Fields
      /\ z.text = <<>> /\ z.layer = 0 /\ z.row = NoToken /\ z.token = NoToken /\ z.ready = FALSE
      /\ z.bound = seq[s].bound /\ z.walk = StartWalk(seq[s].bound)
      /\ z.history = <<>> /\ z.origin = 0 /\ z.told = <<>> /\ z.walked = <<>>
  BY DEF ResetOf, Fresh, Fields
<1> HIDE DEF z
<1>3. z.bound => z.walk = 0
  BY <1>2 DEF StartWalk
<1>4. Sound(s, z)
  BY <1>2, <1>3, BlankSound
<1> QED BY <1>1, <1>4, OneKeeps

LEMMA SetSchemaKeeps ==
    ASSUME IInv, NEW s \in Seqs, NEW b \in BOOLEAN, SetSchema(s, b)
    PROVE  IInv'
<1> DEFINE q == seq[s]
           z == [q EXCEPT !.bound = b, !.walk = StartWalk(b)]
<1>0. Sound(s, q) /\ q.eligible /\ Quiet /\ UNCHANGED batch
  BY DEF IInv, SetSchema
<1>1. seq' = [seq EXCEPT ![s] = z]
  BY DEF SetSchema, IInv
<1> HIDE DEF q
<1>2. Shaped(q) /\ DOMAIN q = Fields
  BY <1>0, SoundIs
<1>3. /\ DOMAIN z = Fields /\ z.text = q.text /\ z.told = q.told /\ z.walked = q.walked
      /\ z.history = q.history /\ z.origin = q.origin /\ z.token = q.token /\ z.row = q.row
      /\ z.eligible = q.eligible /\ z.layer = q.layer /\ z.ready = q.ready
      /\ z.bound = b /\ z.walk = StartWalk(b)
  BY <1>2 DEF Fields
<1> HIDE DEF z
<1>4. Shaped(z) /\ Fits(s, z)
  BY <1>0, <1>2, <1>3 DEF Sound, Shaped, Fits, HolderLimit
<1>5. q.walked = <<>>
  BY <1>0 DEF Sound, Walks
<1>6. Walks(z)
  <2> DEFINE w == 0
  <2>1. z.bound => z.walk = w
    BY <1>3 DEF StartWalk
  <2> HIDE DEF w
  <2>2. WalkOver(w, <<>>) = w
    BY WalkNone
  <2> QED BY <1>3, <1>5, <2>1, <2>2 DEF Walks, w
<1>7. Content(z) = Content(q)
  BY <1>3 DEF Content, Pending
<1>8. Sound(s, z)
  BY <1>0, <1>3, <1>4, <1>6, <1>7 DEF Sound
<1> QED BY <1>0, <1>1, <1>8, OneKeeps

\* A saved token is kept where it is still to be read: nothing pending is lost.
LEMMA SaveRestoreKeeps ==
    ASSUME IInv, NEW s \in Seqs, SaveRestore(s)
    PROVE  IInv'
<1> DEFINE p == seq[s]
           q == Revoked(p)
           z == [q EXCEPT !.token = SavedToken(p)]
<1>1. Quiet /\ seq' = [seq EXCEPT ![s] = z] /\ UNCHANGED batch
  BY DEF SaveRestore
<1>2. Sound(s, q) /\ DOMAIN q = Fields /\ \A x \in Fields \ {"eligible"} : q[x] = p[x]
  <2> HIDE DEF q
  <2> QED BY VerbIs DEF q
<1> HIDE DEF p, q
<1>3. /\ DOMAIN z = Fields /\ z.text = q.text /\ z.told = q.told /\ z.walked = q.walked
      /\ z.history = q.history /\ z.origin = q.origin /\ z.row = q.row
      /\ z.eligible = q.eligible /\ z.layer = q.layer /\ z.ready = q.ready
      /\ z.bound = q.bound /\ z.walk = q.walk /\ z.token = SavedToken(p)
  BY <1>2 DEF Fields
<1> HIDE DEF z
<1>4. p.layer = q.layer /\ p.ready = q.ready /\ p.token = q.token
  BY <1>2 DEF Fields
<1>5. z.token = IF q.layer = 0 /\ ~q.ready THEN q.token ELSE NoToken
  BY <1>3, <1>4 DEF SavedToken
<1>6. Shaped(q) /\ q.layer \in Nat
  BY <1>2 DEF Sound, Shaped
<1>7. Shaped(z)
  BY <1>3, <1>5, <1>6 DEF Shaped
<1>8. Fits(s, z) /\ Walks(z)
  BY <1>2, <1>3 DEF Sound, Fits, HolderLimit, Walks
<1>9. Content(z) = Content(q)
  <2>1. CASE q.layer > 0
    BY <1>3, <2>1 DEF Content, Pending
  <2>2. CASE ~(q.layer > 0) /\ q.ready
    BY <1>3, <2>2 DEF Content, Pending
  <2>3. CASE ~(q.layer > 0) /\ ~q.ready
    <3>1. z.token = q.token
      BY <1>5, <1>6, <2>3
    <3> QED BY <1>3, <2>3, <3>1 DEF Content, Pending
  <2> QED BY <2>1, <2>2, <2>3
<1>10. Sound(s, z)
  BY <1>2, <1>3, <1>7, <1>8, <1>9 DEF Sound
<1> QED BY <1>1, <1>10, OneKeeps

\* A jump reads the pending token and the drafted ones it keeps, and tells, walks and
\* feeds the latter.
LEMMA JumpedSound ==
    ASSUME NEW s \in Seqs, NEW q, Sound(s, q), ~q.eligible, q.bound, q.layer = 0, ~q.ready,
           q.token # NoToken, NEW d \in Seq(Tokens), NEW j \in 0 .. Len(d), j + 1 <= Headroom(s, q),
           NEW p, NEW installed \in BOOLEAN
    PROVE  Sound(s, Jumped(q, p, d, j, installed))
<1> DEFINE kept == SubSeq(d, 1, j)
           r == IF installed THEN InstallAntiLm(q, p) ELSE q
           z == [r EXCEPT !.text = (@ \o <<q.token>>) \o kept,
                          !.history = IF p = Greedy THEN @ ELSE @ \o kept,
                          !.walk = WalkOver(@, kept),
                          !.token = IF j = 0 THEN @ ELSE d[j],
                          !.ready = TRUE,
                          !.told = @ \o kept, !.walked = @ \o kept]
           m == Len(q.text)
           limit == HolderLimit(s, q)
<1>1. Jumped(q, p, d, j, installed) = z
  BY DEF Jumped
<1>2. /\ Shaped(q) /\ DOMAIN q = Fields /\ m \in Nat /\ limit \in Nat /\ Headroom(s, q) = limit - m
      /\ Len(q.history) \in Nat /\ Len(q.history) <= m /\ HasPending(q) /\ RowToken(q) = q.token
      /\ Agrees(q.text \o <<q.token>>, q.told)
  <2>1. HasPending(q) /\ RowToken(q) = q.token
    BY DEF HasPending, RowToken
  <2> QED BY <2>1, SoundIs
<1>3. /\ q.text \in Seq(Cells) /\ q.walked \in Seq(Tokens) /\ q.history \in Seq(Tokens)
      /\ q.origin \in Nat /\ q.token \in Tokens \cup {NoToken} /\ q.row \in Cells \cup {NoToken}
  BY <1>2 DEF Shaped
<1>4. kept \in Seq(Tokens) /\ Len(kept) = j /\ j \in Nat /\ (j # 0 => d[j] \in Tokens)
  <2>1. kept \in Seq(Tokens) /\ Len(kept) = j /\ j \in Nat
    BY HeadOf
  <2>2. j # 0 => j \in 1 .. Len(d)
    OBVIOUS
  <2> QED BY <2>1, <2>2
<1>5. /\ DOMAIN r = Fields /\ \A x \in Fields \ {"history", "order"} : r[x] = q[x]
      /\ r.history \in Seq(Tokens) /\ Len(r.history) \in Nat /\ Len(r.history) <= Len(q.history)
  <2>1. CASE installed
    <3>1. r = InstallAntiLm(q, p)
      BY <2>1
    <3> HIDE DEF r, kept, m
    <3> QED BY <1>2, <1>3, <3>1, InstallIs
  <2>2. CASE ~installed
    <3>1. r = q
      BY <2>2
    <3> HIDE DEF r, kept
    <3> QED BY <1>2, <1>3, <3>1
  <2> QED BY <2>1, <2>2
<1> HIDE DEF r, kept
<1>6. /\ r.text = q.text /\ r.told = q.told /\ r.walked = q.walked /\ r.layer = 0
      /\ r.origin = q.origin /\ r.token = q.token /\ r.row = q.row /\ r.bound = q.bound
      /\ r.walk = q.walk /\ r.eligible = q.eligible
  BY <1>5 DEF Fields
<1>7. /\ DOMAIN z = Fields /\ z.text = (q.text \o <<q.token>>) \o kept /\ z.told = q.told \o kept
      /\ z.walked = q.walked \o kept /\ z.walk = WalkOver(q.walk, kept) /\ z.layer = 0
      /\ z.origin = q.origin /\ z.row = q.row /\ z.bound = q.bound /\ z.eligible = q.eligible
      /\ z.ready = TRUE
      /\ z.token = (IF j = 0 THEN q.token ELSE d[j])
      /\ z.history = (IF p = Greedy THEN r.history ELSE r.history \o kept)
  <2>1. /\ DOMAIN z = Fields /\ z.text = (r.text \o <<q.token>>) \o kept /\ z.told = r.told \o kept
        /\ z.walked = r.walked \o kept /\ z.walk = WalkOver(r.walk, kept) /\ z.layer = r.layer
        /\ z.origin = r.origin /\ z.row = r.row /\ z.bound = r.bound /\ z.eligible = r.eligible
        /\ z.ready = TRUE
        /\ z.token = (IF j = 0 THEN r.token ELSE d[j])
        /\ z.history = (IF p = Greedy THEN r.history ELSE r.history \o kept)
    BY <1>5 DEF Fields
  <2> HIDE DEF z
  <2> QED BY <1>6, <2>1
<1> HIDE DEF z
<1> DEFINE a == q.text \o <<q.token>>
<1>8. a \in Seq(Cells) /\ Len(a) = m + 1
  <2>1. q.token \in Cells
    BY <1>3, Constant
  <2> QED BY <1>3, <2>1
<1>9. Agrees(a, q.told) /\ z.text = a \o kept
  BY <1>2, <1>7
<1> HIDE DEF a
<1>10. Agrees(z.text, z.told)
  BY <1>4, <1>7, <1>9, AgreesSame, AgreesJoined
<1>11. z.text \in Seq(Cells) /\ Len(z.text) = m + 1 + j
  <2>1. kept \in Seq(Cells)
    BY <1>4, AgreesSame, AgreesTypes
  <2>2. a \o kept \in Seq(Cells) /\ Len(a \o kept) = Len(a) + Len(kept)
    <3>1. a \in Seq(Cells)
      BY <1>8
    <3> HIDE DEF m
    <3> QED BY <2>1, <3>1, JoinedIs
  <2>3. z.text \in Seq(Cells) /\ Len(z.text) = Len(a) + Len(kept)
    BY <1>9, <2>2
  <2> HIDE DEF m
  <2> QED BY <1>4, <1>8, <2>3
<1>12. z.history \in Seq(Tokens) /\ Len(z.history) \in Nat /\ Len(z.history) <= Len(r.history) + j
  <2>1. CASE p = Greedy
    BY <1>4, <1>5, <1>7, <2>1
  <2>2. CASE p # Greedy
    <3>1. z.history = r.history \o kept
      BY <1>7, <2>2
    <3> DEFINE h == r.history
    <3>2. h \in Seq(Tokens) /\ kept \in Seq(Tokens)
      BY <1>4, <1>5
    <3> HIDE DEF h
    <3>3. h \o kept \in Seq(Tokens) /\ Len(h \o kept) = Len(h) + Len(kept)
      BY <3>2, JoinedIs
    <3>4. z.history \in Seq(Tokens) /\ Len(z.history) = Len(r.history) + Len(kept)
      BY <3>1, <3>3 DEF h
    <3> QED BY <1>4, <1>5, <3>4
  <2> QED BY <2>1, <2>2
<1>13. z.walked \in Seq(Tokens) /\ z.told \in Seq(Tokens) /\ z.token \in Tokens \cup {NoToken}
  <2>1. q.walked \o kept \in Seq(Tokens)
    BY <1>3, <1>4
  <2> QED BY <1>3, <1>4, <1>7, <1>10, <2>1, AgreesTypes
<1>14. Shaped(z)
  BY <1>3, <1>7, <1>11, <1>12, <1>13 DEF Shaped
<1>15. HolderLimit(s, z) = limit
  BY <1>7 DEF HolderLimit
<1>16. Len(z.text) <= limit /\ Len(z.history) < Len(z.text)
  <2> HIDE DEF m, limit
  <2>1. j + 1 <= limit - m
    BY <1>2
  <2>2. m + 1 + j <= limit
    BY <1>2, <1>4, <2>1
  <2>3. Len(r.history) + j < m + 1 + j
    BY <1>2, <1>4, <1>5
  <2> QED BY <1>2, <1>4, <1>5, <1>11, <1>12, <2>2, <2>3
<1>17. Fits(s, z)
  <2> HIDE DEF limit
  <2> QED BY <1>7, <1>15, <1>16 DEF Fits
<1>18. Walks(z)
  <2>1. q.walk = WalkOver(0, q.walked)
    BY DEF Sound, Walks
  <2> DEFINE b == q.walked
  <2>2. b \in Seq(Tokens)
    BY <1>3
  <2> HIDE DEF b
  <2>3. WalkOver(0, b \o kept) = WalkOver(WalkOver(0, b), kept)
    BY <1>4, <2>2, WalkJoined
  <2>4. z.walk = WalkOver(0, z.walked)
    BY <1>7, <2>1, <2>3 DEF b
  <2> QED BY <1>7, <2>4 DEF Walks
<1>19. Content(z) = z.text
  <2>1. ~HasPending(z) /\ (z.ready => z.layer = 0) /\ (z.layer > 0 => z.row # NoToken)
    BY <1>7 DEF HasPending
  <2> QED BY <1>14, <2>1, PendingIs
<1>20. Sound(s, z)
  <2> HIDE DEF m, limit
  <2>1. Len(z.history) <= Len(z.text)
    BY <1>2, <1>4, <1>11, <1>12, <1>16
  <2> QED BY <1>7, <1>10, <1>14, <1>16, <1>17, <1>18, <1>19, <2>1 DEF Sound
<1> QED BY <1>1, <1>20

LEMMA JumpForwardKeeps ==
    ASSUME IInv, NEW s \in Seqs, NEW d \in Seq(Tokens), NEW p, JumpForward(s, d, p)
    PROVE  IInv'
<1> DEFINE q == Revoked(seq[s])
           k == DraftLength(s, q, d)
<1>1. UNCHANGED batch /\ Quiet /\ q.layer = 0
  BY DEF JumpForward
<1>2. Sound(s, q) /\ ~q.eligible
  <2> HIDE DEF q
  <2> QED BY VerbIs DEF q
<1>3. \/ seq' = [seq EXCEPT ![s] = q]
      \/ /\ q.bound /\ ~q.ready /\ q.token # NoToken /\ ~(Headroom(s, q) <= 0) /\ k # 0
         /\ \E j \in 0 .. k, installed \in BOOLEAN :
               seq' = [seq EXCEPT ![s] = Jumped(q, p, d, j, installed)]
  BY DEF JumpForward
<1> HIDE DEF q
<1>4. k \in 0 .. Len(d) /\ (k # 0 => k <= Headroom(s, q) - 1) /\ Len(d) \in Nat
  <2> HIDE DEF k
  <2> QED BY DraftLengthIs DEF k
<1> HIDE DEF k
<1>5. CASE seq' = [seq EXCEPT ![s] = q]
  BY <1>1, <1>2, <1>5, OneKeeps
<1>6. ASSUME q.bound, ~q.ready, q.token # NoToken, k # 0, NEW j \in 0 .. k, NEW installed \in BOOLEAN,
             seq' = [seq EXCEPT ![s] = Jumped(q, p, d, j, installed)]
      PROVE  IInv'
  <2>1. Headroom(s, q) \in Int
    <3>1. HolderLimit(s, q) \in Nat /\ Len(q.text) \in Nat
          /\ Headroom(s, q) = HolderLimit(s, q) - Len(q.text)
      BY <1>2, SoundIs
    <3> QED BY <3>1
  <2>2. j \in 0 .. Len(d) /\ j + 1 <= Headroom(s, q)
    BY <1>4, <1>6, <2>1
  <2> DEFINE z == Jumped(q, p, d, j, installed)
  <2>3. Sound(s, z)
    BY <1>1, <1>2, <1>6, <2>2, JumpedSound
  <2>4. seq' = [seq EXCEPT ![s] = z]
    BY <1>6
  <2> HIDE DEF z
  <2> QED BY <1>1, <2>3, <2>4, OneKeeps
<1> QED BY <1>3, <1>5, <1>6

-----------------------------------------------------------------------------
(* The theorems. *)

LEMMA SpansAre ==
    \A ts \in Spans : ts \in Seq(Tokens)
BY SizesAssumption DEF Spans

\* A sequence's context is what was told, up to rows a failed prefill tore; its walk is of
\* its content; it is within its limit and holds its history: in every state, whatever
\* fails and is tried again.
THEOREM Invariance == Spec => []IInv
<1>1. Init => IInv
  <2> SUFFICES ASSUME Init PROVE IInv
    OBVIOUS
  <2>1. DOMAIN seq = Seqs /\ \A s \in Seqs : seq[s] = Fresh
    BY DEF Init
  <2>2. batch = Idle /\ 1 .. Len(batch.left) = {}
    BY IdleIs DEF Init
  <2> QED BY <2>1, <2>2, IdleIs, FreshIs DEF IInv
<1>2. IInv /\ [Next]_vars => IInv'
  <2> SUFFICES ASSUME IInv, [Next]_vars PROVE IInv'
    OBVIOUS
  <2>1. ASSUME NEW b \in Batches, NEW p \in Params, NEW n \in 1 .. NumLayers, DecodeStep(b, p, n)
        PROVE  IInv'
    <3>1. n \in Nat
      BY Constant
    <3> QED BY <2>1, <3>1, DecodeStepKeeps
  <2>2. CASE RefuseLimit
    BY <2>2, RefuseLimitKeeps
  <2>3. CASE LayersFail \/ LayersPending
    BY <2>3, LayersKeep
  <2>4. CASE FinishFails \/ FinishRowCommits
    BY <2>4, FinishKeeps
  <2>5. ASSUME NEW s \in Full, NEW ts \in Spans, NEW w \in BOOLEAN, Prefill(s, ts, w) PROVE IInv'
    BY <2>5, PrefillKeeps, SpansAre, FullAssumption
  <2>6. ASSUME NEW s \in Seqs, Prefill(s, << 0 >>, FALSE) PROVE IInv'
    <3> DEFINE ts == << 0 >>
               w == FALSE
    <3>1. ts \in Seq(Tokens) /\ w \in BOOLEAN
      BY Constant
    <3>2. Prefill(s, ts, w)
      BY <2>6
    <3> HIDE DEF ts, w
    <3> QED BY <3>1, <3>2, PrefillKeeps
  <2>7. ASSUME NEW s \in Full, PrefillFails(s) PROVE IInv'
    BY <2>7, PrefillFailsKeeps, FullAssumption
  <2>8. ASSUME NEW s \in Full, NEW f \in FrozenPrefixes, AdoptPrefix(s, f) PROVE IInv'
    BY <2>8, AdoptKeeps, FullAssumption
  <2>9. ASSUME NEW s \in Seqs, SeqReset(s) PROVE IInv'
    BY <2>9, SeqResetKeeps
  <2>10. ASSUME NEW s \in Full, NEW b \in BOOLEAN, SetSchema(s, b) PROVE IInv'
    BY <2>10, SetSchemaKeeps, FullAssumption
  <2>11. ASSUME NEW s \in Full, SaveRestore(s) PROVE IInv'
    BY <2>11, SaveRestoreKeeps, FullAssumption
  <2>12. ASSUME NEW s \in Full, NEW d \in Spans, NEW p \in Params, JumpForward(s, d, p) PROVE IInv'
    BY <2>12, JumpForwardKeeps, SpansAre, FullAssumption
  <2>13. CASE UNCHANGED vars
    BY <2>13 DEF vars, IInv
  <2>14. CASE Next
    BY <2>1, <2>2, <2>3, <2>4, <2>5, <2>6, <2>7, <2>8, <2>9, <2>10, <2>11, <2>12, <2>14, Zenon DEF Next
  <2> QED BY <2>13, <2>14
<1> QED BY <1>1, <1>2, PTL DEF Spec

\* The damped-greedy history never outgrows the context it was fed from, so no save of a
\* sequence is refused for it.
THEOREM HistoryFitsHolds == Spec => []HistoryFits
<1>1. IInv => HistoryFits
  BY DEF IInv, Sound, HistoryFits
<1> QED BY <1>1, Invariance, PTL

\* The context is exactly what the caller fed and was told, through budgets that end inside
\* a token, batches that end early, finishes that fail, dead ends, jumps, saves and restores.
THEOREM TextIsToldHolds == Spec => []TextIsTold
<1>1. IInv => TextIsTold
  <2> SUFFICES ASSUME IInv, NEW s \in Seqs, Torn \notin Range(Content(seq[s]))
               PROVE  Content(seq[s]) = seq[s].told
    BY DEF TextIsTold
  <2>1. Agrees(Content(seq[s]), seq[s].told)
    BY DEF IInv, Sound
  <2> QED BY <2>1, AgreesIs
<1> QED BY <1>1, Invariance, PTL

\* The walk of a bound schema is at the state that the content it took leads to.
THEOREM WalkIsOfContentHolds == Spec => []WalkIsOfContent
<1>1. IInv => WalkIsOfContent
  BY DEF IInv, Sound, Walks, WalkIsOfContent
<1> QED BY <1>1, Invariance, PTL

-----------------------------------------------------------------------------
(* Decoding one token at a time. *)

\* g is n decodes, one after the other, from q.
Run(g, q, p, n) == g = [i \in 0 .. n |-> IF i = 0 THEN q ELSE Emit(RowRun(g[i - 1]), p)]

LEMMA RunAt ==
    ASSUME NEW g, NEW q, NEW p, NEW n \in Nat, Run(g, q, p, n)
    PROVE  /\ DOMAIN g = 0 .. n /\ g[0] = q
           /\ \A i \in 1 .. n : g[i] = Emit(RowRun(g[i - 1]), p)
<1>1. DOMAIN g = 0 .. n
  BY DEF Run
<1>2. \A i \in 0 .. n : g[i] = IF i = 0 THEN q ELSE Emit(RowRun(g[i - 1]), p)
  BY DEF Run
<1>3. 0 \in 0 .. n /\ \A i \in 1 .. n : i \in 0 .. n /\ i # 0
  OBVIOUS
<1> QED BY <1>1, <1>2, <1>3

LEMMA RunMade ==
    ASSUME NEW g, NEW q, NEW p, NEW n \in Nat, g = [i \in 0 .. n |-> g[i]], g[0] = q,
           \A i \in 1 .. n : g[i] = Emit(RowRun(g[i - 1]), p)
    PROVE  Run(g, q, p, n)
<1>1. \A i \in 0 .. n : g[i] = IF i = 0 THEN q ELSE Emit(RowRun(g[i - 1]), p)
  <2> TAKE i \in 0 .. n
  <2>1. CASE i = 0
    BY <2>1
  <2>2. CASE i # 0
    <3>1. i \in 1 .. n
      BY <2>2
    <3> QED BY <2>2, <3>1
  <2> QED BY <2>1, <2>2
<1> QED BY <1>1 DEF Run

\* As many decodes as one likes can follow each other.
LEMMA RunExists ==
    ASSUME NEW q, NEW p, NEW n \in Nat
    PROVE  \E g : Run(g, q, p, n)
<1> DEFINE Bad == {m \in Nat : ~\E g : Run(g, q, p, m)}
<1> SUFFICES ASSUME Bad # {} PROVE FALSE
  OBVIOUS
<1>1. PICK m \in Bad : \A k \in Bad : m <= k
  <2>1. Bad \subseteq Nat
    OBVIOUS
  <2> HIDE DEF Bad
  <2> QED BY <2>1, LeastOf
<1>2. m \in Nat /\ ~\E g : Run(g, q, p, m)
  OBVIOUS
<1>3. CASE m = 0
  <2> DEFINE g == [i \in 0 .. 0 |-> q]
  <2>1. g = [i \in 0 .. m |-> g[i]] /\ g[0] = q /\ 1 .. m = {}
    BY <1>3
  <2> HIDE DEF g
  <2>2. Run(g, q, p, m)
    BY <1>2, <2>1, RunMade
  <2> QED BY <1>2, <2>2
<1>4. CASE m # 0
  <2> DEFINE k == m - 1
  <2>1. k \in Nat /\ k < m /\ m = k + 1
    BY <1>2, <1>4
  <2>2. k \notin Bad
    <3> HIDE DEF Bad
    <3> QED BY <1>1, <1>2, <2>1
  <2>3. PICK h : Run(h, q, p, k)
    BY <2>1, <2>2
  <2> HIDE DEF k, Bad
  <2>4. /\ DOMAIN h = 0 .. k /\ h[0] = q
        /\ \A i \in 1 .. k : h[i] = Emit(RowRun(h[i - 1]), p)
    BY <2>1, <2>3, RunAt
  <2> DEFINE g == [i \in 0 .. m |-> IF i = m THEN Emit(RowRun(h[k]), p) ELSE h[i]]
  <2>5. g = [i \in 0 .. m |-> g[i]] /\ g[0] = q
    BY <1>2, <1>4, <2>4
  <2>6. \A i \in 1 .. m : g[i] = Emit(RowRun(g[i - 1]), p)
    <3> TAKE i \in 1 .. m
    <3>1. CASE i = m
      <4>1. i - 1 = k /\ k \in 0 .. m /\ k # m /\ m \in 0 .. m
        BY <2>1, <3>1
      <4> QED BY <3>1, <4>1
    <3>2. CASE i # m
      <4>1. i \in 1 .. k /\ i \in 0 .. m /\ i - 1 \in 0 .. m /\ i - 1 # m
        BY <2>1, <3>2
      <4>2. g[i] = h[i] /\ g[i - 1] = h[i - 1]
        BY <3>2, <4>1
      <4> QED BY <2>4, <4>1, <4>2
    <3> QED BY <3>1, <3>2
  <2> HIDE DEF g
  <2>7. Run(g, q, p, m)
    BY <1>2, <2>5, <2>6, RunMade
  <2> QED BY <1>2, <2>7
<1> QED BY <1>3, <1>4

LEMMA DecodesIs ==
    ASSUME NEW q, NEW p, NEW g, g = Decodes(q, p)
    PROVE  g[0] = q /\ \A i \in 1 .. MaxChunk : g[i] = Emit(RowRun(g[i - 1]), p)
<1> DEFINE R(h) == h = [j \in 0 .. MaxChunk |-> IF j = 0 THEN q ELSE Emit(RowRun(h[j - 1]), p)]
           all == CHOOSE h : R(h)
<1>0. MaxChunk \in Nat
  BY SizesAssumption
<1>1. g = all
  BY DEF Decodes
<1>2. R(all)
  <2>1. PICK h : Run(h, q, p, MaxChunk)
    BY <1>0, RunExists
  <2>2. R(h)
    BY <2>1 DEF Run
  <2> HIDE DEF R
  <2> QED BY <2>2
<1>3. Run(g, q, p, MaxChunk)
  <2> HIDE DEF all
  <2> QED BY <1>1, <1>2 DEF Run
<1> QED BY <1>0, <1>3, RunAt

-----------------------------------------------------------------------------
(* One decode, as a draft foresees it. *)

LEMMA HeadNext ==
    ASSUME NEW S, NEW ts \in Seq(S), NEW i \in 0 .. Len(ts), i < Len(ts)
    PROVE  /\ SubSeq(ts, 1, i + 1) = SubSeq(ts, 1, i) \o <<ts[i + 1]>>
           /\ SubSeq(ts, 1, i) \in Seq(S) /\ ts[i + 1] \in S
OBVIOUS

LEMMA WalkNext ==
    ASSUME NEW w, NEW ts \in Seq(Tokens), NEW i \in 0 .. Len(ts), i < Len(ts)
    PROVE  WalkOver(w, SubSeq(ts, 1, i + 1)) = Step(WalkOver(w, SubSeq(ts, 1, i)), ts[i + 1])
<1> DEFINE a == SubSeq(ts, 1, i)
           t == ts[i + 1]
           b == <<t>>
<1>1. SubSeq(ts, 1, i + 1) = a \o b /\ a \in Seq(Tokens) /\ t \in Tokens
  BY HeadNext
<1>2. b \in Seq(Tokens)
  BY <1>1
<1> HIDE DEF a, b
<1>3. WalkOver(w, a \o b) = WalkOver(WalkOver(w, a), b)
  BY <1>1, <1>2, WalkJoined
<1>4. WalkOver(WalkOver(w, a), b) = Step(WalkOver(w, a), t)
  BY WalkOne DEF b
<1> QED BY <1>1, <1>3, <1>4 DEF a

LEMMA InstalledIs ==
    ASSUME NEW q, DOMAIN q = Fields, NEW p, NEW r, r = InstallAntiLm(q, p)
    PROVE  /\ DOMAIN r = Fields /\ \A x \in Fields \ {"history", "order"} : r[x] = q[x]
           /\ r.history = (IF p = Greedy THEN q.history ELSE Prepared(q, p))
           /\ r.order = (IF p = Greedy THEN q.order ELSE p)
<1>1. CASE p = Greedy
  <2>1. r = q
    BY <1>1 DEF InstallAntiLm
  <2> QED BY <1>1, <2>1
<1>2. CASE p # Greedy
  <2> DEFINE h == Prepared(q, p)
  <2>1. r = [q EXCEPT !.order = p, !.history = h]
    BY <1>2 DEF InstallAntiLm
  <2> HIDE DEF h
  <2>2. /\ DOMAIN r = Fields /\ \A x \in Fields \ {"history", "order"} : r[x] = q[x]
        /\ r.history = h /\ r.order = p
    BY <2>1 DEF Fields
  <2> QED BY <1>2, <2>2 DEF h
<1> QED BY <1>1, <1>2

\* A finish that the schema admits.
LEMMA EmittedIs ==
    ASSUME NEW q, DOMAIN q = Fields, q.bound, NEW p, NEW t,
           t = FinishRow(q, q.text, q.walk, Prepared(q, p)), CanStep(q.walk, t), NEW z, z = Emit(q, p)
    PROVE  /\ DOMAIN z = Fields /\ z.text = q.text /\ z.token = t /\ z.layer = 0
           /\ z.bound /\ z.walk = Step(q.walk, t)
           /\ z.told = Append(q.told, t) /\ z.walked = Append(q.walked, t)
           /\ z.history = (IF p = Greedy THEN q.history ELSE Append(Prepared(q, p), t))
           /\ z.order = (IF p = Greedy THEN q.order ELSE p)
<1> DEFINE r == InstallAntiLm(q, p)
           fed == [r EXCEPT !.history = IF p = Greedy THEN @ ELSE Append(@, t),
                            !.walk = IF q.bound THEN Step(@, t) ELSE @,
                            !.token = t, !.layer = 0, !.ready = FALSE,
                            !.told = Append(@, t), !.walked = IF q.bound THEN Append(@, t) ELSE @]
<1>1. z = fed
  BY DEF Emit
<1>2. /\ DOMAIN r = Fields /\ \A x \in Fields \ {"history", "order"} : r[x] = q[x]
      /\ r.history = (IF p = Greedy THEN q.history ELSE Prepared(q, p))
      /\ r.order = (IF p = Greedy THEN q.order ELSE p)
  <2> HIDE DEF r
  <2> QED BY InstalledIs DEF r
<1> HIDE DEF r
<1>3. /\ r.text = q.text /\ r.told = q.told /\ r.walked = q.walked /\ r.bound = q.bound
      /\ r.walk = q.walk
  BY <1>2 DEF Fields
<1>4. /\ DOMAIN fed = Fields /\ fed.text = r.text /\ fed.token = t /\ fed.layer = 0
      /\ fed.bound = r.bound /\ fed.walk = Step(r.walk, t)
      /\ fed.told = Append(r.told, t) /\ fed.walked = Append(r.walked, t)
      /\ fed.history = (IF p = Greedy THEN r.history ELSE Append(r.history, t))
      /\ fed.order = r.order
  BY <1>2 DEF Fields
<1> HIDE DEF fed
<1> QED BY <1>1, <1>2, <1>3, <1>4

LEMMA AppendJoined ==
    ASSUME NEW S, NEW b \in Seq(S), NEW c \in Seq(S), NEW v \in S
    PROVE  Append(b \o c, v) = b \o (c \o <<v>>)
<1> DEFINE m == Len(b)
           n == Len(c)
           bc == b \o c
           cv == c \o <<v>>
           l == Append(bc, v)
           r == b \o cv
<1>1. m \in Nat /\ n \in Nat
  OBVIOUS
<1>2. bc \in Seq(S) /\ Len(bc) = m + n
      /\ \A i \in 1 .. m + n : bc[i] = IF i <= m THEN b[i] ELSE c[i - m]
  OBVIOUS
<1>3. cv \in Seq(S) /\ Len(cv) = n + 1 /\ \A i \in 1 .. n + 1 : cv[i] = IF i <= n THEN c[i] ELSE v
  OBVIOUS
<1> HIDE DEF bc, cv
<1>4. l \in Seq(S) /\ Len(l) = m + n + 1
      /\ \A i \in 1 .. m + n + 1 : l[i] = IF i <= m + n THEN bc[i] ELSE v
  BY <1>1, <1>2
<1>5. r \in Seq(S) /\ Len(r) = m + n + 1
      /\ \A i \in 1 .. m + n + 1 : r[i] = IF i <= m THEN b[i] ELSE cv[i - m]
  BY <1>1, <1>3
<1> HIDE DEF l, r, m, n
<1>6. \A i \in 1 .. m + n + 1 : l[i] = r[i]
  <2> TAKE i \in 1 .. m + n + 1
  <2>1. CASE i <= m
    BY <1>1, <1>2, <1>4, <1>5, <2>1
  <2>2. CASE m < i /\ i <= m + n
    <3>1. i \in 1 .. m + n /\ i - m \in 1 .. n + 1 /\ i - m <= n /\ ~(i <= m)
      BY <1>1, <2>2
    <3>2. l[i] = c[i - m]
      BY <1>2, <1>4, <2>2, <3>1
    <3>3. r[i] = cv[i - m]
      BY <1>5, <3>1
    <3> QED BY <1>3, <3>1, <3>2, <3>3
  <2>3. CASE i = m + n + 1
    <3>1. i - m = n + 1 /\ ~(i <= m) /\ ~(i <= m + n) /\ n + 1 \in 1 .. n + 1 /\ ~(n + 1 <= n)
      BY <1>1, <2>3
    <3>2. l[i] = v /\ r[i] = cv[n + 1] /\ cv[n + 1] = v
      BY <1>3, <1>4, <1>5, <3>1
    <3> QED BY <3>2
  <2> QED BY <1>1, <2>1, <2>2, <2>3
<1>7. l = r
  BY <1>1, <1>4, <1>5, <1>6
<1> QED BY <1>7 DEF l, r, bc, cv

LEMMA RowRunIs ==
    ASSUME NEW q, DOMAIN q = Fields, q.layer = 0, NEW x, x = RowRun(q)
    PROVE  /\ DOMAIN x = Fields /\ x.text = Append(q.text, q.token)
           /\ \A f \in Fields \ {"text", "row"} : x[f] = q[f]
<1> DEFINE t == RowToken(q)
<1>1. t = q.token
  BY DEF RowToken
<1>2. x = [q EXCEPT !.text = Append(@, t), !.row = NoToken]
  BY DEF RowRun
<1> HIDE DEF t
<1>3. /\ DOMAIN x = Fields /\ x.text = Append(q.text, t)
      /\ \A f \in Fields \ {"text", "row"} : x[f] = q[f]
  BY <1>2 DEF Fields
<1> QED BY <1>1, <1>3

\* z is what i decodes of a draft's tokens, foreseen from q, lead to.
Foreseen(q, p, d, i, z) ==
    LET head == SubSeq(d, 1, i) IN
    /\ DOMAIN z = Fields /\ z.layer = 0 /\ z.bound
    /\ Append(z.text, z.token) = (q.text \o <<q.token>>) \o head
    /\ z.token = (IF i = 0 THEN q.token ELSE d[i])
    /\ z.walk = WalkOver(q.walk, head)
    /\ z.told = q.told \o head /\ z.walked = q.walked \o head
    /\ p = Greedy => z.history = q.history /\ z.order = q.order
    /\ p # Greedy => Prepared(z, p) = Prepared(q, p) \o head
    /\ i = 0 => z.history = q.history /\ z.order = q.order
    /\ i > 0 /\ p # Greedy => z.order = p

LEMMA ForeseenFirst ==
    ASSUME NEW q, Shaped(q), q.layer = 0, q.bound, NEW p, NEW d
    PROVE  Foreseen(q, p, d, 0, q)
<1> DEFINE head == SubSeq(d, 1, 0)
<1>1. head = <<>>
  OBVIOUS
<1>2. DOMAIN q = Fields /\ q.text \in Seq(Cells) /\ q.told \in Seq(Tokens) /\ q.walked \in Seq(Tokens)
      /\ q.history \in Seq(Tokens) /\ q.token \in Cells \cup {NoToken}
  BY Constant DEF Shaped
<1>3. \A S : \A a \in Seq(S) : a \o <<>> = a
  OBVIOUS
<1>4. /\ q.told \o head = q.told /\ q.walked \o head = q.walked
      /\ Prepared(q, p) \o head = Prepared(q, p)
  <2>1. Prepared(q, p) \in Seq(Tokens)
    BY <1>2, PreparedIs
  <2> QED BY <1>1, <1>2, <1>3, <2>1
<1>5. (q.text \o <<q.token>>) \o head = Append(q.text, q.token)
  <2> DEFINE S == Cells \cup {NoToken}
             a == q.text
             t == q.token
  <2>1. a \in Seq(S) /\ t \in S
    BY <1>2
  <2> HIDE DEF S, a, t
  <2>2. a \o <<t>> \in Seq(S) /\ a \o <<t>> = Append(a, t)
    BY <2>1
  <2>3. (a \o <<t>>) \o <<>> = a \o <<t>>
    BY <1>3, <2>2
  <2> QED BY <1>1, <2>2, <2>3 DEF a, t
<1>6. q.walk = WalkOver(q.walk, head)
  BY <1>1, WalkNone
<1>7. Append(q.text, q.token) = (q.text \o <<q.token>>) \o head
  BY <1>5
<1> DEFINE i == 0
<1>8. i = 0 /\ ~(i > 0) /\ head = SubSeq(d, 1, i)
  OBVIOUS
<1> HIDE DEF head, i
<1>9. Foreseen(q, p, d, i, q)
  BY <1>2, <1>4, <1>6, <1>7, <1>8 DEF Foreseen
<1> QED BY <1>9 DEF i

\* The check of row i found the draft's next token: the decode from there tells it.
LEMMA ForeseenNext ==
    ASSUME NEW q, Shaped(q), q.bound, q.token \in Tokens, NEW p, NEW d \in Seq(Tokens),
           NEW i \in 0 .. Len(d), i < Len(d), CheckRow(q, p, d, i),
           CanStep(WalkOver(q.walk, SubSeq(d, 1, i)), d[i + 1]),
           NEW z, Foreseen(q, p, d, i, z), NEW y, y = Emit(RowRun(z), p)
    PROVE  Foreseen(q, p, d, i + 1, y)
<1> DEFINE head == SubSeq(d, 1, i)
           next == SubSeq(d, 1, i + 1)
           t == d[i + 1]
           x == RowRun(z)
           a == q.text \o <<q.token>>
<1>1. head \in Seq(Tokens) /\ t \in Tokens /\ next = head \o <<t>>
  BY HeadNext
<1>2. WalkOver(q.walk, next) = Step(WalkOver(q.walk, head), t)
  BY WalkNext
<1>3. /\ q.text \in Seq(Cells) /\ q.told \in Seq(Tokens) /\ q.walked \in Seq(Tokens)
      /\ q.history \in Seq(Tokens) /\ q.token \in Cells /\ t \in Cells /\ head \in Seq(Cells)
  <2>1. head \in Seq(Cells)
    BY <1>1, AgreesSame, AgreesTypes
  <2> QED BY <1>1, <2>1, Constant DEF Shaped
<1>4. /\ DOMAIN z = Fields /\ z.layer = 0 /\ z.bound
      /\ Append(z.text, z.token) = a \o head
      /\ z.walk = WalkOver(q.walk, head)
      /\ z.told = q.told \o head /\ z.walked = q.walked \o head
      /\ p = Greedy => z.history = q.history /\ z.order = q.order
      /\ p # Greedy => Prepared(z, p) = Prepared(q, p) \o head
  BY DEF Foreseen
<1>5. CheckRow(q, p, d, i) <=>
          FinishRow(q, a \o head, WalkOver(q.walk, head), HistoryAt(q, p, d, i)) = t
  BY DEF CheckRow
<1>6. HistoryAt(q, p, d, i) = IF p = Greedy THEN <<>> ELSE Prepared(q, p) \o head
  BY DEF HistoryAt
<1>7. 0 .. Len(d) \subseteq Nat /\ i + 1 # 0 /\ i + 1 > 0
  OBVIOUS
<1> HIDE DEF head, next, t, a
<1>8. /\ DOMAIN x = Fields /\ x.text = a \o head
      /\ \A f \in Fields \ {"text", "row"} : x[f] = z[f]
  <2> HIDE DEF x
  <2>1. /\ DOMAIN x = Fields /\ x.text = Append(z.text, z.token)
        /\ \A f \in Fields \ {"text", "row"} : x[f] = z[f]
    BY <1>4, RowRunIs DEF x
  <2> QED BY <1>4, <2>1
<1> HIDE DEF x
<1>9. /\ x.bound /\ x.walk = z.walk /\ x.told = z.told /\ x.walked = z.walked
      /\ x.history = z.history /\ x.order = z.order
  BY <1>4, <1>8 DEF Fields
<1>10. Prepared(x, p) = IF p = Greedy THEN <<>> ELSE Prepared(q, p) \o head
  <2>1. Prepared(x, p) = Prepared(z, p)
    BY <1>9 DEF Prepared
  <2>2. CASE p = Greedy
    BY <2>2 DEF Prepared
  <2>3. CASE p # Greedy
    BY <1>4, <2>1, <2>3
  <2> QED BY <2>2, <2>3
<1>11. t = FinishRow(x, x.text, x.walk, Prepared(x, p))
  <2> DEFINE h == HistoryAt(q, p, d, i)
             w == WalkOver(q.walk, head)
             u == a \o head
  <2>1. Prepared(x, p) = h /\ x.walk = w /\ x.text = u
    BY <1>4, <1>6, <1>8, <1>9, <1>10
  <2>2. t = FinishRow(q, u, w, h)
    BY <1>5
  <2> HIDE DEF h, w, u
  <2>3. FinishRow(x, u, w, h) = FinishRow(q, u, w, h)
    BY <1>9 DEF FinishRow
  <2> QED BY <2>1, <2>2, <2>3
<1>12. CanStep(x.walk, t)
  BY <1>4, <1>9 DEF head, t
<1>13. /\ DOMAIN y = Fields /\ y.text = x.text /\ y.token = t /\ y.layer = 0
       /\ y.bound /\ y.walk = Step(x.walk, t)
       /\ y.told = Append(x.told, t) /\ y.walked = Append(x.walked, t)
       /\ y.history = (IF p = Greedy THEN x.history ELSE Append(Prepared(x, p), t))
       /\ y.order = (IF p = Greedy THEN x.order ELSE p)
  <2>1. y = Emit(x, p)
    BY DEF x
  <2>2. DOMAIN x = Fields /\ x.bound
    BY <1>8, <1>9
  <2> QED BY <1>11, <1>12, <2>1, <2>2, EmittedIs
<1>14. \A S : \A b \in Seq(S), c \in Seq(S) : \A v \in S : Append(b \o c, v) = b \o (c \o <<v>>)
  BY AppendJoined
<1>15. Append(y.text, y.token) = a \o next
  <2>1. a \in Seq(Cells)
    BY <1>3 DEF a
  <2>2. Append(a \o head, t) = a \o (head \o <<t>>)
    BY <1>3, <1>14, <2>1
  <2> QED BY <1>1, <1>8, <1>13, <2>2
<1>16. y.told = q.told \o next /\ y.walked = q.walked \o next
  <2>1. Append(q.told \o head, t) = q.told \o (head \o <<t>>)
    BY <1>1, <1>3, <1>14
  <2>2. Append(q.walked \o head, t) = q.walked \o (head \o <<t>>)
    BY <1>1, <1>3, <1>14
  <2> QED BY <1>1, <1>4, <1>9, <1>13, <2>1, <2>2
<1>17. p # Greedy => y.order = p /\ Prepared(y, p) = Prepared(q, p) \o next
  <2> SUFFICES ASSUME p # Greedy PROVE y.order = p /\ Prepared(y, p) = Prepared(q, p) \o next
    OBVIOUS
  <2> DEFINE h == Prepared(q, p)
  <2>1. h \in Seq(Tokens)
    BY <1>3, PreparedIs
  <2> HIDE DEF h
  <2>2. Append(h \o head, t) = h \o (head \o <<t>>)
    BY <1>1, <1>14, <2>1
  <2>3. y.order = p /\ y.history = Append(h \o head, t)
    BY <1>10, <1>13 DEF h
  <2>4. Prepared(y, p) = y.history
    BY <2>3 DEF Prepared
  <2> QED BY <1>1, <2>2, <2>3, <2>4 DEF h
<1>18. y.walk = WalkOver(q.walk, next)
  BY <1>2, <1>4, <1>9, <1>13
<1>19. y.token = d[i + 1]
  BY <1>13 DEF t
<1>20. p = Greedy => y.history = q.history /\ y.order = q.order
  BY <1>4, <1>9, <1>13
<1> QED BY <1>4, <1>7, <1>9, <1>13, <1>15, <1>16, <1>17, <1>18, <1>19, <1>20 DEF Foreseen, next, a

-----------------------------------------------------------------------------
(* The jump. *)

\* Each row that a jump keeps is where as many decodes would be.
LEMMA JumpForeseen ==
    ASSUME NEW q, Shaped(q), q.layer = 0, q.bound, q.token \in Tokens, NEW p,
           NEW d \in Seq(Tokens), NEW k \in 0 .. Len(d), CanWalk(q.walk, SubSeq(d, 1, k)),
           NEW j \in 0 .. k, \A r \in 0 .. j - 1 : CheckRow(q, p, d, r), j <= MaxChunk
    PROVE  Foreseen(q, p, d, j, Decodes(q, p)[j])
<1> DEFINE g == Decodes(q, p)
           Bad == {i \in 0 .. j : ~Foreseen(q, p, d, i, g[i])}
<1>0. MaxChunk \in Nat /\ j \in Nat /\ k \in Nat /\ Len(d) \in Nat
  BY SizesAssumption
<1>1. g[0] = q /\ \A i \in 1 .. MaxChunk : g[i] = Emit(RowRun(g[i - 1]), p)
  <2> HIDE DEF g
  <2> QED BY DecodesIs DEF g
<1> HIDE DEF g
<1>2. CASE Bad = {}
  <2>1. j \in 0 .. j
    BY <1>0
  <2> QED BY <1>2, <2>1 DEF g
<1>3. CASE Bad # {}
  <2>1. PICK m \in Bad : \A n \in Bad : m <= n
    <3>1. Bad \subseteq Nat
      OBVIOUS
    <3> HIDE DEF Bad
    <3> QED BY <1>3, <3>1, LeastOf
  <2>2. m \in 0 .. j /\ ~Foreseen(q, p, d, m, g[m])
    OBVIOUS
  <2>3. m # 0
    BY <1>1, <2>2, ForeseenFirst
  <2> DEFINE i == m - 1
  <2>4. i \in 0 .. j /\ i < m /\ m = i + 1 /\ m \in 1 .. MaxChunk
        /\ i \in 0 .. Len(d) /\ i < Len(d) /\ i \in 0 .. j - 1 /\ i < k
    BY <1>0, <2>2, <2>3
  <2>5. i \notin Bad
    <3> HIDE DEF Bad
    <3>1. i \in Nat /\ m \in Nat
      BY <2>2, <2>4
    <3> HIDE DEF i
    <3> QED BY <2>1, <2>4, <3>1
  <2> HIDE DEF i
  <2>6. Foreseen(q, p, d, i, g[i])
    BY <2>4, <2>5
  <2>7. g[m] = Emit(RowRun(g[i]), p)
    <3>1. m - 1 = i
      BY <2>4, <1>0
    <3> QED BY <1>1, <2>4, <3>1
  <2>8. CanStep(WalkOver(q.walk, SubSeq(d, 1, i)), d[i + 1])
    <3> DEFINE ts == SubSeq(d, 1, k)
    <3>1. Len(ts) = k /\ SubSeq(ts, 1, i) = SubSeq(d, 1, i) /\ ts[i + 1] = d[i + 1]
      BY <1>0, <2>4
    <3>2. \A n \in 1 .. Len(ts) : CanStep(WalkOver(q.walk, SubSeq(ts, 1, n - 1)), ts[n])
      BY DEF CanWalk
    <3> HIDE DEF ts
    <3>3. m \in 1 .. Len(ts) /\ m - 1 = i
      BY <1>0, <2>4, <3>1
    <3>4. CanStep(WalkOver(q.walk, SubSeq(ts, 1, m - 1)), ts[m])
      BY <3>2, <3>3
    <3> QED BY <2>4, <3>1, <3>3, <3>4
  <2>9. CheckRow(q, p, d, i)
    BY <2>4
  <2>10. Foreseen(q, p, d, i + 1, g[m])
    BY <2>4, <2>6, <2>7, <2>8, <2>9, ForeseenNext
  <2> QED BY <2>2, <2>4, <2>10
<1> QED BY <1>2, <1>3

\* r is q but for the history.
Alike(q, r) == DOMAIN r = Fields /\ \A x \in Fields \ {"history", "order"} : r[x] = q[x]

LEMMA JumpedAsDecoded ==
    ASSUME NEW q, Shaped(q), q.layer = 0, q.bound, q.token \in Tokens, NEW p,
           NEW d \in Seq(Tokens), Len(d) <= MaxChunk,
           NEW k \in 0 .. Len(d), CanWalk(q.walk, SubSeq(d, 1, k)),
           NEW j \in 0 .. k, NEW installed \in BOOLEAN, Confirmed(q, p, d, j, installed),
           NEW z, z = Jumped(q, p, d, j, installed)
    PROVE  AsDecoded(q, z, p)
<1> DEFINE g == Decodes(q, p)[j]
           kept == SubSeq(d, 1, j)
           i == InstallAntiLm(q, p)
           r == IF installed THEN i ELSE q
<1>0. MaxChunk \in Nat /\ j \in Nat /\ j <= MaxChunk /\ j \in 0 .. MaxChunk /\ (j # 0 => j > 0)
  BY SizesAssumption
<1>1. (\A n \in 0 .. j - 1 : CheckRow(q, p, d, n)) /\ (j > 0 => installed)
  BY DEF Confirmed
<1>2. Foreseen(q, p, d, j, g)
  BY <1>0, <1>1, JumpForeseen
<1>3. DOMAIN q = Fields /\ q.history \in Seq(Tokens)
  BY DEF Shaped
<1> HIDE DEF g
<1>4. /\ Append(g.text, g.token) = (q.text \o <<q.token>>) \o kept
      /\ g.token = (IF j = 0 THEN q.token ELSE d[j])
      /\ g.walk = WalkOver(q.walk, kept)
      /\ g.told = q.told \o kept /\ g.walked = q.walked \o kept
      /\ p = Greedy => g.history = q.history /\ g.order = q.order
      /\ p # Greedy => Prepared(g, p) = Prepared(q, p) \o kept
      /\ j = 0 => g.history = q.history /\ g.order = q.order
      /\ j > 0 /\ p # Greedy => g.order = p
  BY <1>2 DEF Foreseen
<1>5. j = 0 => kept = <<>>
  BY <1>0
<1> HIDE DEF kept
<1>6. /\ z.text = (q.text \o <<q.token>>) \o kept
      /\ z.token = (IF j = 0 THEN q.token ELSE d[j])
      /\ z.walk = WalkOver(q.walk, kept)
      /\ z.told = q.told \o kept /\ z.walked = q.walked \o kept
      /\ z.order = r.order
      /\ z.history = IF p = Greedy THEN r.history ELSE r.history \o kept
  <2>1. (installed => r = InstallAntiLm(q, p)) /\ (~installed => r = q)
    OBVIOUS
  <2>2. z = [r EXCEPT !.text = (@ \o <<q.token>>) \o kept,
                      !.history = IF p = Greedy THEN @ ELSE @ \o kept,
                      !.walk = WalkOver(@, kept),
                      !.token = IF j = 0 THEN @ ELSE d[j],
                      !.ready = TRUE,
                      !.told = @ \o kept, !.walked = @ \o kept]
    BY DEF Jumped, kept
  <2> HIDE DEF r, i
  <2>3. Alike(q, r)
    <3>1. CASE installed
      BY <1>3, <2>1, <3>1, InstalledIs DEF Alike
    <3>2. CASE ~installed
      BY <1>3, <2>1, <3>2 DEF Alike
    <3> QED BY <3>1, <3>2
  <2>4. /\ r.text = q.text /\ r.told = q.told /\ r.walked = q.walked /\ r.token = q.token
        /\ r.walk = q.walk /\ DOMAIN r = Fields
    BY <2>3 DEF Alike, Fields
  <2>5. /\ z.text = (r.text \o <<q.token>>) \o kept
        /\ z.token = (IF j = 0 THEN r.token ELSE d[j])
        /\ z.walk = WalkOver(r.walk, kept)
        /\ z.told = r.told \o kept /\ z.walked = r.walked \o kept
        /\ z.order = r.order
        /\ z.history = (IF p = Greedy THEN r.history ELSE r.history \o kept)
    BY <2>2, <2>4 DEF Fields
  <2> QED BY <2>4, <2>5
<1> HIDE DEF r
<1>7. /\ i.history = (IF p = Greedy THEN q.history ELSE Prepared(q, p))
      /\ i.order = (IF p = Greedy THEN q.order ELSE p)
      /\ p = Greedy => i = q
  <2>1. p = Greedy => i = q
    BY DEF InstallAntiLm
  <2> HIDE DEF i
  <2> QED BY <1>3, <2>1, InstalledIs DEF i
<1> HIDE DEF i
<1>8. <<z.history, z.order>> \in
          {<<g.history, g.order>>} \cup IF j = 0 THEN {<<i.history, i.order>>} ELSE {}
  <2>1. /\ installed => r = i
        /\ ~installed => r = q
        /\ z.order = r.order
        /\ z.history = IF p = Greedy THEN r.history ELSE r.history \o kept
    BY <1>6 DEF r
  <2>2. CASE j = 0
    <3>1. r.history \in Seq(Tokens)
      <4>1. Prepared(q, p) \in Seq(Tokens)
        BY <1>3, PreparedIs
      <4> QED BY <1>3, <1>7, <2>1, <4>1
    <3>2. \A S : \A a \in Seq(S) : a \o <<>> = a
      OBVIOUS
    <3>3. z.history = r.history
      BY <1>5, <2>1, <2>2, <3>1, <3>2
    <3>4. r = i \/ r = q
      BY <2>1
    <3> QED BY <1>4, <2>1, <2>2, <3>3, <3>4
  <2>3. CASE j # 0 /\ p = Greedy
    BY <1>4, <1>7, <2>1, <2>3
  <2>4. CASE j # 0 /\ p # Greedy
    <3>1. r = i /\ g.order = p
      BY <1>0, <1>1, <1>4, <2>1, <2>4
    <3>2. z.history = Prepared(q, p) \o kept /\ z.order = p
      BY <1>7, <2>1, <2>4, <3>1
    <3>3. Prepared(g, p) = g.history
      BY <2>4, <3>1 DEF Prepared
    <3> QED BY <1>4, <2>4, <3>1, <3>2, <3>3
  <2> QED BY <2>2, <2>3, <2>4
<1>9. /\ z.text = Append(g.text, g.token) /\ z.token = g.token /\ z.walk = g.walk
      /\ z.told = g.told /\ z.walked = g.walked
  BY <1>4, <1>6
<1> QED BY <1>0, <1>8, <1>9 DEF AsDecoded, g, i

\* A jump is some number of decodes and the next token's layers: the tokens, the walk and
\* the history are those that decoding one token at a time would give, however much of the
\* draft is confirmed and wherever a pass, a finish or a feed fails.
THEOREM JumpIsDecodeHolds == Spec => JumpIsDecode
<1> DEFINE Leap == \A s \in Full : ~seq[s].ready /\ seq'[s].ready /\ Quiet =>
                      \A d \in Spans, p \in Params :
                          JumpForward(s, d, p) => AsDecoded(Revoked(seq[s]), seq'[s], p)
<1>1. IInv => Leap
  <2> SUFFICES ASSUME IInv, NEW s \in Full, ~seq[s].ready, seq'[s].ready,
                      NEW d \in Spans, NEW p \in Params, JumpForward(s, d, p)
               PROVE  AsDecoded(Revoked(seq[s]), seq'[s], p)
    OBVIOUS
  <2> DEFINE q == Revoked(seq[s])
             k == DraftLength(s, q, d)
  <2>1. q.layer = 0
        /\ \/ seq' = [seq EXCEPT ![s] = q]
           \/ /\ q.bound /\ q.token # NoToken
              /\ \E j \in 0 .. k, installed \in BOOLEAN :
                    /\ Confirmed(q, p, d, j, installed)
                    /\ seq' = [seq EXCEPT ![s] = Jumped(q, p, d, j, installed)]
    BY DEF JumpForward
  <2> HIDE DEF q
  <2>2. s \in Seqs /\ DOMAIN seq = Seqs
    BY FullAssumption DEF IInv
  <2>3. Sound(s, q) /\ \A x \in Fields \ {"eligible"} : q[x] = seq[s][x]
    BY <2>2, VerbIs DEF q
  <2>4. Shaped(q) /\ q.token \in Tokens \cup {NoToken} /\ ~q.ready
    <3>1. Shaped(q)
      BY <2>2, <2>3, SoundIs
    <3>2. q.ready = seq[s].ready
      BY <2>3 DEF Fields
    <3> QED BY <3>1, <3>2 DEF Shaped
  <2>5. d \in Seq(Tokens) /\ Len(d) \in Nat /\ Len(d) <= MaxChunk
    <3>1. d \in Seq(Tokens)
      BY SpansAre
    <3>2. PICK n \in 0 .. MaxChunk : d \in [1 .. n -> Tokens]
      BY DEF Spans
    <3>3. Len(d) = n
      BY <3>2
    <3> QED BY <3>1, <3>3, SizesAssumption
  <2>6. k \in 0 .. Len(d) /\ CanWalk(q.walk, SubSeq(d, 1, k))
    <3> HIDE DEF k
    <3> QED BY <2>5, DraftLengthIs DEF k
  <2> HIDE DEF k
  <2>7. seq'[s] # q
    BY <2>4
  <2>8. PICK j \in 0 .. k, installed \in BOOLEAN :
            /\ q.bound /\ q.token # NoToken
            /\ Confirmed(q, p, d, j, installed)
            /\ seq'[s] = Jumped(q, p, d, j, installed)
    BY <2>1, <2>2, <2>7
  <2>9. AsDecoded(q, seq'[s], p)
    BY <2>1, <2>4, <2>5, <2>6, <2>8, JumpedAsDecoded
  <2> QED BY <2>9 DEF q
<1>2. IInv => [Leap]_vars
  BY <1>1
<1> QED BY <1>2, Invariance, PTL DEF JumpIsDecode
=============================================================================
