----------------------------- MODULE PageLease -----------------------------
(***************************************************************************)
(* What the page allocator promises its users, with no counts, no tables   *)
(* and no lists: a page is lent to one holder or to several that share it, *)
(* is taken back only when nobody has it any more, and is lent again only  *)
(* when it carries nothing of those who had it.  KvPages implements this   *)
(* (its header comment and the refcount law of src/src/kv_pages.h).        *)
(***************************************************************************)
CONSTANTS Pages, Holders

VARIABLES
    owners,  \* owners[p]: the holders that have page p
    ready,   \* the pages that can be lent
    tainted  \* the pages that carry rows somebody wrote

leaseVars == <<owners, ready, tainted>>

Init ==
    /\ owners = [p \in Pages |-> {}]
    /\ ready = Pages
    /\ tainted = {}

\* A call of holder h gives up some of its pages and gets others: one that somebody
\* has already (a share), or a ready one (a draw).
Exchange(h) ==
    /\ \A p \in Pages : owners'[p] \ {h} = owners[p] \ {h}
    /\ LET drawn == {p \in Pages : owners[p] = {} /\ owners'[p] # {}}
       IN drawn \subseteq ready /\ ready' = ready \ drawn
    /\ UNCHANGED tainted

\* A holder writes a page it has to itself.
Write(h) ==
    /\ tainted \subseteq tainted'
    /\ \A p \in tainted' \ tainted : owners[p] = {h}
    /\ UNCHANGED <<owners, ready>>

\* Pages that nobody has are wiped ...
Wipe ==
    /\ tainted' \subseteq tainted
    /\ \A p \in tainted \ tainted' : owners[p] = {} /\ p \notin ready
    /\ UNCHANGED <<owners, ready>>

\* ... and then become ready again.
Return ==
    /\ ready \subseteq ready'
    /\ \A p \in ready' \ ready : owners[p] = {} /\ p \notin tainted
    /\ UNCHANGED <<owners, tainted>>

Next ==
    \/ \E h \in Holders : Exchange(h) \/ Write(h)
    \/ Wipe
    \/ Return

Spec == Init /\ [][Next]_leaseVars
=============================================================================
