----------------------------- MODULE GpuOneRow -----------------------------
(***************************************************************************)
(* What a GPU sequence promises, read one row at a time: a text, a token   *)
(* the caller has in hand, or a last row held at full depth whose finish   *)
(* is still to come.  There are no chunks, passes, pages or layers here.   *)
(***************************************************************************)
EXTENDS Integers, Sequences

CONSTANTS
    Vocab,          \* vocab_size
    Most,           \* most rows that one call reads
    Finish(_, _),   \* the token a finish answers with after a text, at a walk state
    Step(_, _)      \* the walk state past a token

VARIABLE seq

NoToken == -1
DeadEnd == -2

Start == [text |-> <<>>, walk |-> 0, hand |-> NoToken, held |-> FALSE]
Init  == seq = Start

\* The token in hand becomes the last row; its finish answers with the next one.
Read(x)   == [x EXCEPT !.text = Append(@, x.hand), !.hand = NoToken, !.held = TRUE]
Answer(x) ==
    LET t == Finish(x.text, x.walk)
    IN  IF t = DeadEnd THEN x
        ELSE [x EXCEPT !.hand = t, !.walk = Step(@, t), !.held = FALSE]

\* The states of a plain decode loop: n tokens later, while there is one to read.
Loop ==
    LET plain[n \in 0 .. Most] ==
            IF n = 0 THEN {seq} ELSE {Answer(Read(x)) : x \in {y \in plain[n - 1] : y.hand # NoToken}}
    IN  UNION {plain[n] : n \in 0 .. Most}

Reading == {Read(x) : x \in {y \in Loop : y.hand # NoToken}}

Lost(x) == [x EXCEPT !.hand = NoToken, !.held = FALSE]

\* The loop goes on by some tokens, and ends with one in hand or with its row held.
Decode == seq.hand # NoToken /\ seq' \in Loop \cup Reading

Fed(ts) == [seq EXCEPT !.text = @ \o ts, !.hand = NoToken, !.held = TRUE]
Prompts == UNION {[1 .. n -> 0 .. Vocab - 1] : n \in 1 .. Most}

Feed    == \E ts \in Prompts : seq' = Fed(ts)
Speak   == seq.held /\ seq' = Answer(seq)

\* A row is refused, or the row a call should hold is gone: what was read before it stays.
\* A held row may be lost without a refusal, then: whether a jump at rest keeps its own is
\* asked apart, by JumpRestsAtDepth of GpuRows, and the answer is no.
Lose    == seq' \in {Lost(seq)} \cup {Lost(Fed(ts)) : ts \in Prompts} \cup {Lost(x) : x \in Reading}
Reset   == seq' = Start

Next == Decode \/ Feed \/ Speak \/ Lose \/ Reset
Spec == Init /\ [][Next]_seq
=============================================================================
