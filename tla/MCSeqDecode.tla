---------------------------- MODULE MCSeqDecode ----------------------------
\* SeqDecode with two tokens and a schema of three states.
EXTENDS SeqDecode

CONSTANTS s1, s2

\* State 0 allows both tokens (one of them leads back), state 1 forces one, state 2 accepts and allows none.
SomeSchema == (<<0, 0>> :> 0) @@ (<<0, 1>> :> 1) @@ (<<1, 1>> :> 2)

SomeBatches == {<<s1>>, <<s2, s1>>}
SomeBudget == (s1 :> 3) @@ (s2 :> 1)

\* Least used in the history, then the last row's token again.
SomeArgmax(rows, legal, hist) ==
    LET used(t) == Cardinality({i \in 1 .. Len(hist) : hist[i] = t})
        taste == IF rows = <<>> THEN 0 ELSE Last(rows)
        score(t) == 2 * used(t) + (IF t = taste THEN 0 ELSE 1)
    IN  CHOOSE t \in legal : \A u \in legal : score(t) < score(u) \/ (score(t) = score(u) /\ t <= u)
=============================================================================
