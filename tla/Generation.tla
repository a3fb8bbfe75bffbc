----------------------------- MODULE Generation -----------------------------
(***************************************************************************)
(* What the sequence and prefix verbs of src/src/sslm_abi.cpp promise,     *)
(* with no pages, no rows and no layers.  A handle has a text, the tokens  *)
(* its model has read.  Whoever else shares, copies, restores or releases  *)
(* what, a handle's text and the token it would produce next are its own:  *)
(* only its own calls change them.  PagedKv implements this.               *)
(***************************************************************************)
EXTENDS Sequences, Naturals

CONSTANTS Seqs, Prefixes, Tokens, NoToken

VARIABLES
    view,  \* view[h]: what handle h stands for
    kept   \* the view the last blob saved carries

generationVars == <<view, kept>>

\* text: the tokens read; doing: the text with the token half read, or <<>>; token:
\* the one produced and not read yet, or the last one read; ready: the next token
\* can be produced with no reading.
View(text, doing, token, ready, frozen) ==
    [text |-> text, doing |-> doing, token |-> token, ready |-> ready, frozen |-> frozen, open |-> TRUE]
Closed == [View(<<>>, <<>>, NoToken, FALSE, FALSE) EXCEPT !.open = FALSE]
Empty == View(<<>>, <<>>, NoToken, FALSE, FALSE)

Becomes(h, v) ==
    /\ view'[h] = v
    /\ view' = [view EXCEPT ![h] = v]
    /\ UNCHANGED kept
Filling(h) == view[h].open /\ ~view[h].frozen

Init ==
    /\ view = [h \in Seqs \cup Prefixes |-> Closed]
    /\ kept = Closed

Open(h) == ~view[h].open /\ Becomes(h, Empty)
Close(h) == view[h].open /\ Becomes(h, Closed)

\* The handle's text grows by the tokens it is given: a prefill, or a jump, which reads
\* the pending token first.
Read(h) ==
    /\ Filling(h)
    /\ LET text == view'[h].text
           old == Len(view[h].text)
       IN /\ old < Len(text) /\ SubSeq(text, 1, old) = view[h].text
          /\ \A i \in old + 1 .. Len(text) : text[i] \in Tokens
          /\ Becomes(h, View(text, <<>>, text[Len(text)], h \in Seqs, FALSE))

\* A decode reads the pending token, at once or in several calls ...
ReadPending(s) ==
    /\ Filling(s) /\ ~view[s].ready
    /\ LET t == IF view[s].doing = <<>> THEN Append(view[s].text, view[s].token) ELSE view[s].doing
       IN \/ Becomes(s, [view[s] EXCEPT !.doing = t])
          \/ view'[s].token \in Tokens /\ Becomes(s, View(t, <<>>, view'[s].token, FALSE, FALSE))
          \/ Becomes(s, [view[s] EXCEPT !.text = t, !.doing = <<>>, !.ready = TRUE])

\* ... and produces the next one from the text, or nothing at all.
Produce(s) ==
    /\ Filling(s) /\ view[s].ready
    /\ view'[s].token \in Tokens
    /\ Becomes(s, [view[s] EXCEPT !.token = view'[s].token, !.ready = FALSE, !.doing = <<>>])

Clear(s) == view[s].open /\ Becomes(s, Empty)
Freeze(q) == view[q].open /\ Becomes(q, [view[q] EXCEPT !.frozen = TRUE])

\* A sequence goes on from a frozen prefix's text; so does a new prefix.
Adopt(s, q) ==
    /\ view[s].open /\ view[q].frozen
    /\ Becomes(s, [view[q] EXCEPT !.ready = view[q].token # NoToken, !.frozen = FALSE])
Branch(q, p) ==
    /\ ~view[q].open /\ view[p].frozen
    /\ Becomes(q, [view[p] EXCEPT !.frozen = FALSE])

\* A blob carries a handle's view; a sequence's token only where it is still to be read.
Kept(v) == [v EXCEPT !.token = IF v.frozen \/ (v.doing = <<>> /\ ~v.ready) THEN @ ELSE NoToken]
Keep(h) ==
    /\ view[h].open /\ (h \in Prefixes => view[h].frozen)
    /\ kept' = Kept(view[h])
    /\ UNCHANGED view
Resume(h) ==
    /\ kept.open /\ (kept.frozen <=> h \in Prefixes) /\ ~view[h].open
    /\ Becomes(h, kept)

Next ==
    \/ \E h \in Seqs \cup Prefixes : Open(h) \/ Close(h) \/ Read(h) \/ Keep(h) \/ Resume(h)
    \/ \E s \in Seqs : ReadPending(s) \/ Produce(s) \/ Clear(s)
    \/ \E q \in Prefixes : Freeze(q)
    \/ \E s \in Seqs, q \in Prefixes : Adopt(s, q)
    \/ \E q, p \in Prefixes : Branch(q, p)

Spec == Init /\ [][Next]_generationVars
=============================================================================
