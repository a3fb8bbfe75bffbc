----------------------------- MODULE MCGpuRows -----------------------------
\* GpuRows with two tokens, two layers and two-row pages.
EXTENDS GpuRows, FiniteSets, TLC

\* State 0 allows both tokens (one of them leads on), state 1 forces one, state 2 allows none.
SomeSchema == (<<0, 0>> :> 0) @@ (<<0, 1>> :> 1) @@ (<<1, 1>> :> 2)

\* Where both tokens are legal, mostly the first: loops of several tokens go on.
SomePick(text, legal) ==
    LET ones == Cardinality({i \in 1 .. Len(text) : text[i] = 1})
    IN  IF legal = Tokens THEN (IF (ones + Len(text)) % 4 = 0 THEN 1 ELSE 0) ELSE CHOOSE t \in legal : TRUE
=============================================================================
