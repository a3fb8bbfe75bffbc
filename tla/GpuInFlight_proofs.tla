------------------------- MODULE GpuInFlight_proofs -------------------------
(***************************************************************************)
(* Proofs about GpuInFlight, for any threads, handles, batches and bounds: *)
(* nothing runs or is submitted beside a recording, a pooled handle finds  *)
(* the pool's seat free, what the device may still run is kept, a handle   *)
(* is Submitted exactly when its token holds work, and a quiet device      *)
(* admits.  IInv is the conjunction of the parts below; each action keeps  *)
(* each part.                                                              *)
(***************************************************************************)
EXTENDS GpuInFlight, FiniteSetTheorems, TLAPS

(* The parts are stated of a thread's record r, and of the values of the
   variables they read. *)

Stages == {"out", "slots", "guarded", "recording", "signal", "retry", "hand", "take",
           "wait", "land", "lower"}
Verbs  == {"none", "step", "batch", "prefill", "poll", "ready", "drain"}
Thens  == {"none", "drop", "finish", "take", "return"}
Works  == [id : Nat, v : Nat]
Items  == [sort : {"work", "signal"}, id : Nat]
Calls  == [at : Stages, verb : Verbs, h : Handles \cup {NoWork}, rest : Seq(Handles),
           parts : Nat, work : Works \cup {NoWork}, v : Nat, cur : Nat, then : Thens,
           down : 0..2, gone : BOOLEAN]

TypeOK ==
    /\ submitted \in Nat /\ observed \in Nat /\ unsignaled \in BOOLEAN /\ lost \in BOOLEAN
    /\ fence \in Nat /\ queue \in Seq(Items) /\ completed \in Nat
    /\ state \in SUBSET Handles /\ token \in [Handles -> Works \cup {NoWork}]
    /\ graveyard \in SUBSET Nat
    /\ process \in Int /\ pooled \in Int /\ seat \in Handles \cup {NoWork}
    /\ claims \in SUBSET Handles /\ th \in [Threads -> Calls]

Submits(r) == r.at \in {"guarded", "recording", "signal", "retry", "hand"}
Waits(r)   == r.at \in {"wait", "land"}
Holds(r)   == r.at \in {"signal", "retry", "hand"} \/ (Waits(r) /\ r.then \in {"drop", "finish"})
Signaled(r) == r.at \in {"hand", "wait", "land"}

\* What a call is doing fits its verb.
Shape(r) ==
    /\ r.at = "out" => r.h = NoWork /\ r.rest = <<>>
    /\ r.at = "slots" => r.verb = "batch" /\ r.h = NoWork /\ r.rest # <<>>
    /\ r.at \notin {"out", "slots"} => (r.h = NoWork <=> r.verb = "drain")
    /\ r.rest # <<>> => r.verb = "batch"
    /\ r.parts > 1 => r.verb = "prefill"
    /\ Submits(r) => r.verb \in {"step", "batch", "prefill"}
    /\ r.at = "hand" => r.then = "drop"
    /\ r.at = "take" => r.verb \in {"batch", "poll", "ready"}
    /\ r.at = "lower" => r.verb \in {"batch", "prefill", "poll", "ready"}
    /\ Waits(r) => \/ r.then = "drop" /\ r.verb \in {"step", "batch", "prefill"}
                   \/ r.then = "finish" /\ r.verb \in {"batch", "prefill", "poll", "ready"}
                   \/ r.then = "take" /\ r.verb = "poll" /\ r.at = "land"
                   \/ r.then = "return" /\ r.verb = "drain"
    /\ (r.work # NoWork) <=> Holds(r)
    /\ Signaled(r) /\ r.work # NoWork => r.work.v = r.v
    /\ r.at # "lower" => r.down = 0

Shapes == \A t \in Threads : Shape(th[t])

\* P1's precondition lasts: two calls are about different handles, and one polls, or
\* both decode one same handle.
NamesOf(r) == (IF r.h = NoWork THEN {} ELSE {r.h}) \cup {r.rest[i] : i \in DOMAIN r.rest}
Decoder(r) == r.verb \in {"step", "batch"}

Apart(r, s) ==
    \/ r.at = "out" \/ s.at = "out"
    \/ (r.verb = "poll" \/ s.verb = "poll") /\ NamesOf(r) \cap NamesOf(s) = {}
    \/ Decoder(r) /\ Decoder(s) /\ \E x \in Handles : NamesOf(r) = {x} /\ NamesOf(s) = {x}

Hosts == \A t, u \in Threads : t # u => Apart(th[t], th[u])

\* One call at most, polls aside, is past its slots' choice, and a decode there has
\* claimed its handle.
Busy(r) == r.at \notin {"out", "slots"} /\ r.verb # "poll"

OneBusy == \A t, u \in Threads : Busy(th[t]) /\ Busy(th[u]) => t = u

Claimed ==
    /\ \A t \in Threads : Busy(th[t]) /\ Decoder(th[t]) => th[t].h \in claims
    /\ \A h \in claims : \E t \in Threads :
          Busy(th[t]) /\ Decoder(th[t]) /\ th[t].h = h

\* What the ledger, the fence and the queue know of each other.
Ordered ==
    /\ observed <= completed /\ completed <= submitted /\ submitted <= fence
    /\ \A i \in DOMAIN queue : queue[i].sort = "signal" =>
          completed < queue[i].id /\ queue[i].id <= submitted
    /\ \A i, j \in DOMAIN queue :
          i < j /\ queue[i].sort = "signal" /\ queue[j].sort = "signal" => queue[i].id < queue[j].id
    /\ ~unsignaled => \A i \in DOMAIN queue : queue[i].sort = "work" =>
          \E j \in DOMAIN queue : i < j /\ queue[j].sort = "signal"

\* A record's values are of the past.
Timed(r, su, ob, co, fe) ==
    /\ Signaled(r) => r.v <= su
    /\ r.at = "land" => r.v <= co /\ r.cur <= ob
    /\ r.work # NoWork => r.work.id <= (IF r.at = "signal" THEN fe + 1 ELSE fe)

Times ==
    /\ \A t \in Threads : Timed(th[t], submitted, observed, completed, fence)
    /\ \A h \in Handles : token[h] # NoWork => token[h].v <= submitted /\ token[h].id <= fence

\* A recording has all that was submitted observed; what it executes is unsignaled.
Recordings ==
    \A t \in Threads :
        /\ At(t, "recording") => ~unsignaled /\ observed = submitted
        /\ th[t].at \in {"signal", "retry"} => unsignaled

\* The work that a token or a call holds, and of it what a signal was made for.
Carried(tok, T) ==
    {w \in Works : (\E h \in Handles : tok[h] = w) \/ \E t \in Threads : T[t].work = w}
Awaited(tok, T) ==
    {w \in Works : (\E h \in Handles : tok[h] = w)
                    \/ \E t \in Threads : Signaled(T[t]) /\ T[t].work = w}

\* The value to wait for is the one whose signal is queued behind the work.
Behind(q, i, v) == \E j \in DOMAIN q : i < j /\ q[j].sort = "signal" /\ q[j].id = v

Follows ==
    \A w \in Awaited(token, th) : \A i \in DOMAIN queue :
        queue[i].sort = "work" /\ queue[i].id = w.id => Behind(queue, i, w.v)

\* What queued work uses is held.
Keeps ==
    \A i \in DOMAIN queue : queue[i].sort = "work" =>
        queue[i].id \in graveyard \/ \E w \in Carried(token, th) : w.id = queue[i].id

\* A Submitted handle without a token is one call's to lower.
Lowerer(r) == r.at # "out" /\ (r.verb = "prefill" \/ r.at = "lower" \/ (Waits(r) /\ r.then = "finish"))
Holding(r) == Lowerer(r) /\ r.down = 0
Lowered(r) == r.at = "lower" /\ r.down > 0
Taking(r)  == r.at = "take" \/ (r.at = "land" /\ r.then = "take")

Tokens ==
    /\ \A h \in Handles : token[h] # NoWork => h \in state
    /\ \A h \in state : token[h] = NoWork =>
          \E t \in Threads : Holding(th[t]) /\ th[t].h = h
    /\ \A t \in Threads : Holding(th[t]) => th[t].h \in state /\ token[th[t].h] = NoWork
    /\ \A t \in Threads : Taking(th[t]) => th[t].h \in state /\ token[th[t].h] # NoWork
    /\ \A t \in Threads : Lowered(th[t]) => th[t].h \notin state

\* The counts are of the handles Submitted and of those being lowered.
Counted(st, T) == st \cup {T[t].h : t \in {u \in Threads : Lowered(T[u])}}

Counts ==
    /\ IsFiniteSet(Counted(state, th))
    /\ process = Cardinality(Counted(state, th))
    /\ pooled = Cardinality(Counted(state, th) \cap Pooled)

Seats ==
    seat # NoWork => \/ seat \in state
                     \/ \E t \in Threads : At(t, "lower") /\ th[t].down = 1 /\ th[t].h = seat

\* What the guard found lasts until the handle is raised: only decodes of the same
\* handle, or the batch itself, have raised one since.
Admits(r, C) ==
    r.at # "out" /\ Decoder(r) =>
        /\ NamesOf(r) \cap Pooled # {} => \A x \in C : r.h = x \/ NamesOf(r) = {x}
        /\ NamesOf(r) \cap Pooled = {} => C \cap Pooled = {}

Admitted == \A t \in Threads : Admits(th[t], Counted(state, th))

\* A decode that has not handed its work over finds its handle not Submitted.
Owing(r) == Decoder(r) /\ (Submits(r) \/ (Waits(r) /\ r.then = "drop"))
Owed == \A t \in Threads : Owing(th[t]) => th[t].h \notin Counted(state, th)

\* What is submitted and not observed is somebody's to observe.
Observers ==
    ~lost /\ observed < submitted =>
        \/ \E h \in Handles : token[h] # NoWork /\ token[h].v = submitted
        \/ \E t \in Threads : Signaled(th[t]) /\ th[t].v = submitted

IInv ==
    /\ TypeOK /\ Shapes /\ Hosts /\ OneBusy /\ Claimed /\ Ordered /\ Times /\ Recordings
    /\ Follows /\ Keeps /\ Tokens /\ Counts /\ Seats /\ Admitted /\ Owed /\ Observers

-----------------------------------------------------------------------------
(* What a step makes of the record of the thread that takes it. *)

USE DEF At, Goes, In, Decodes, Lowers, ledger, device, counts

LEMMA NoWorkIsNone == NoWork \notin Works /\ NoWork \notin Handles
BY HandlesAssumption DEF Works

LEMMA OutShape == Out \in Calls /\ Shape(Out) /\ NamesOf(Out) = {}
<1>1. <<>> \in Seq(Handles)
  OBVIOUS
<1>2. Out \in Calls
  BY <1>1 DEF Out, Calls, Stages, Verbs, Thens
<1>3. Shape(Out)
  BY DEF Out, Shape, Submits, Waits, Holds, Signaled
<1>4. {<<>>[i] : i \in DOMAIN <<>>} = {}
  OBVIOUS
<1>5. NamesOf(Out) = {}
  BY <1>4 DEF NamesOf, Out
<1> QED BY <1>2, <1>3, <1>5

LEMMA RestOfTail ==
    ASSUME NEW S, NEW s \in Seq(S), s # <<>>
    PROVE  /\ Head(s) \in S /\ Tail(s) \in Seq(S)
           /\ {s[i] : i \in DOMAIN s} = {Head(s)} \cup {Tail(s)[i] : i \in DOMAIN Tail(s)}
<1>1. Head(s) \in S /\ Tail(s) \in Seq(S) /\ Len(s) \in Nat /\ Len(s) > 0 /\ Head(s) = s[1]
      /\ Len(Tail(s)) = Len(s) - 1 /\ \A i \in 1..Len(Tail(s)) : Tail(s)[i] = s[i+1]
  OBVIOUS
<1>2. DOMAIN s = 1..Len(s) /\ DOMAIN Tail(s) = 1..(Len(s) - 1)
  BY <1>1
<1>3. ASSUME NEW i \in DOMAIN s PROVE s[i] \in {Head(s)} \cup {Tail(s)[j] : j \in DOMAIN Tail(s)}
  <2>1. CASE i = 1
    BY <2>1, <1>1
  <2>2. CASE i # 1
    <3>1. i - 1 \in DOMAIN Tail(s) /\ Tail(s)[i-1] = s[i]
      BY <2>2, <1>1, <1>2
    <3> QED BY <3>1
  <2> QED BY <2>1, <2>2
<1>4. ASSUME NEW i \in DOMAIN Tail(s) PROVE Tail(s)[i] \in {s[j] : j \in DOMAIN s}
  <2>1. i + 1 \in DOMAIN s /\ Tail(s)[i] = s[i+1]
    BY <1>1, <1>2
  <2> QED BY <2>1
<1>5. Head(s) \in {s[j] : j \in DOMAIN s}
  BY <1>1, <1>2
<1> QED BY <1>1, <1>3, <1>4, <1>5

\* A record narrows another: the call goes on about no other handles.
Narrows(r, s) ==
    /\ s.at # "out"
    /\ r.at = "out" \/ (r.verb = s.verb /\ NamesOf(r) \subseteq NamesOf(s) /\ (Decoder(r) => NamesOf(r) # {}))

LEMMA SomeName == ASSUME NEW r \in Calls, Shape(r), r.at # "out", Decoder(r) PROVE NamesOf(r) # {}
<1>1. CASE r.at = "slots"
  <2>1. r.rest \in Seq(Handles) /\ r.rest # <<>>
    BY <1>1 DEF Shape, Calls
  <2>2. Head(r.rest) \in {r.rest[i] : i \in DOMAIN r.rest}
    BY <2>1, RestOfTail
  <2> QED BY <2>2 DEF NamesOf
<1>2. CASE r.at # "slots"
  BY <1>2 DEF Shape, NamesOf, Decoder, Calls
<1> QED BY <1>1, <1>2

\* How a call ends or goes on.
LEMMA AfterShape ==
    ASSUME NEW t \in Threads, NEW l, th[t] \in Calls, Shape(th[t]), th[t].at \notin {"out", "slots"}
    PROVE  /\ After(t, l) \in Calls /\ Shape(After(t, l)) /\ Narrows(After(t, l), th[t])
           /\ After(t, l).work = NoWork
           /\ \/ Lowers(t) /\ After(t, l).at = "lower" /\ After(t, l).h = th[t].h /\ After(t, l).down = 0
              \/ ~Lowers(t) /\ After(t, l).at \in {"out", "slots"} /\ After(t, l).h = NoWork /\ After(t, l).verb # "prefill" 
<1>1. CASE Lowers(t)
  <2> DEFINE r == [th[t] EXCEPT !.at = "lower", !.work = NoWork]
  <2>1. After(t, l) = r
    BY <1>1 DEF After
  <2>2. r \in Calls
    BY DEF Calls, Stages
  <2>3. Shape(r)
    BY <1>1 DEF Shape, Calls, Submits, Waits, Holds, Signaled
  <2>4. NamesOf(r) = NamesOf(th[t]) /\ ~Decoder(r)
    BY <1>1 DEF NamesOf, Calls, Decoder
  <2>5. Narrows(r, th[t])
    BY <2>4 DEF Narrows, Calls
  <2> QED BY <1>1, <2>1, <2>2, <2>3, <2>5 DEF Shape, Calls
<1>2. CASE ~Lowers(t) /\ (th[t].rest = <<>> \/ l)
  <2>1. After(t, l) = Out
    BY <1>2 DEF After
  <2> QED BY <1>2, <2>1, OutShape DEF Narrows, Out
<1>3. CASE ~Lowers(t) /\ ~(th[t].rest = <<>> \/ l)
  <2> DEFINE r == [Out EXCEPT !.at = "slots", !.verb = "batch", !.rest = th[t].rest]
  <2>1. After(t, l) = r
    BY <1>3 DEF After
  <2>2. r \in Calls
    BY OutShape DEF Calls, Stages, Verbs
  <2>3. Shape(r)
    BY <1>3, OutShape DEF Shape, Calls, Submits, Waits, Holds, Signaled, Out
  <2>4. NamesOf(r) \subseteq NamesOf(th[t]) /\ r.verb = th[t].verb
    BY <1>3 DEF NamesOf, Calls, Out, Shape
  <2>5. Narrows(r, th[t])
    BY <2>2, <2>3, <2>4, SomeName DEF Narrows, Calls, Out
  <2>6. r.work = NoWork /\ r.at = "slots" /\ r.h = NoWork /\ r.verb = "batch"
    BY DEF Out
  <2> QED BY <1>3, <2>1, <2>2, <2>3, <2>5, <2>6
<1> QED BY <1>1, <1>2, <1>3

\* What every step of a call does to its thread's record: a call that goes on is
\* about no other handles.
Moves(t) ==
    /\ th' = [th EXCEPT ![t] = th'[t]]
    /\ th'[t] \in Calls /\ Shape(th'[t])

LEMMA GoesTo ==
    ASSUME NEW t \in Threads, NEW r, TypeOK, Goes(t, r), r \in Calls, Shape(r)
    PROVE  Moves(t) /\ th'[t] = r
BY DEF Moves, TypeOK

LEMMA Before == ASSUME NEW t \in Threads, TypeOK, Shapes PROVE th[t] \in Calls /\ Shape(th[t])
BY DEF TypeOK, Shapes

LEMMA SlotMoves ==
    ASSUME NEW t \in Threads, TypeOK, Shapes, Slot(t)
    PROVE  Moves(t) /\ Narrows(th'[t], th[t])
<1> DEFINE s == th[t]
           h == Head(s.rest)
           rest == Tail(s.rest)
           free == h \notin claims /\ h \notin state
<1>1. s \in Calls /\ Shape(s) /\ s.at = "slots"
  BY Before DEF Slot
<1>2. s.rest \in Seq(Handles) /\ s.rest # <<>> /\ s.h = NoWork /\ s.verb = "batch" /\ s.work = NoWork
      /\ s.down = 0
  BY <1>1 DEF Calls, Shape, Holds, Waits
<1>3. /\ h \in Handles /\ rest \in Seq(Handles)
      /\ {s.rest[i] : i \in DOMAIN s.rest} = {h} \cup {rest[i] : i \in DOMAIN rest}
  BY <1>2, RestOfTail
<1>4. h # NoWork
  BY <1>3, NoWorkIsNone
<1> HIDE DEF h, rest
<1>5. CASE free
  <2> DEFINE r == [s EXCEPT !.at = "guarded", !.h = h, !.rest = rest]
  <2>1. Goes(t, r)
    BY <1>5 DEF Slot, h, rest
  <2>2. r \in Calls
    BY <1>1, <1>3 DEF Calls, Stages
  <2>3. Shape(r)
    BY <1>1, <1>2, <1>4 DEF Shape, Calls, Submits, Holds, Waits, Signaled
  <2>4. NamesOf(r) = {h} \cup {rest[i] : i \in DOMAIN rest}
    BY <1>1, <1>4 DEF NamesOf, Calls
  <2>5. Narrows(r, s)
    BY <2>4, <1>1, <1>2, <1>3 DEF Narrows, NamesOf, Calls
  <2> QED BY <2>1, <2>2, <2>3, <2>5, GoesTo
<1>6. CASE ~free /\ rest = <<>>
  <2>1. Goes(t, Out)
    BY <1>6 DEF Slot, h, rest
  <2>2. Narrows(Out, s)
    BY <1>1 DEF Narrows, Out
  <2> QED BY <2>1, <2>2, OutShape, GoesTo
<1>7. CASE ~free /\ rest # <<>>
  <2> DEFINE r == [s EXCEPT !.rest = rest]
  <2>1. Goes(t, r)
    BY <1>7 DEF Slot, h, rest
  <2>2. r \in Calls
    BY <1>1, <1>3 DEF Calls, Stages
  <2>3. Shape(r)
    BY <1>1, <1>2, <1>4, <1>7 DEF Shape, Calls, Submits, Holds, Waits, Signaled
  <2>4. NamesOf(r) \subseteq NamesOf(s)
    BY <1>1, <1>2, <1>3 DEF NamesOf, Calls
  <2>5. Narrows(r, s)
    BY <2>4, <2>2, <2>3, <1>1, SomeName DEF Narrows, Calls
  <2> QED BY <2>1, <2>2, <2>3, <2>5, GoesTo
<1> QED BY <1>5, <1>6, <1>7

\* Steps that leave the names and the verb alone.
LEMMA SameNames ==
    ASSUME NEW r \in Calls, NEW s \in Calls, Shape(r), s.at # "out", r.at # "out",
           r.verb = s.verb, r.h = s.h, r.rest = s.rest
    PROVE  Narrows(r, s)
<1>1. NamesOf(r) = NamesOf(s)
  BY DEF NamesOf
<1> QED BY <1>1, SomeName DEF Narrows

LEMMA BeginMoves ==
    ASSUME NEW t \in Threads, TypeOK, Shapes, BeginRecording(t)
    PROVE  Moves(t) /\ Narrows(th'[t], th[t])
<1> DEFINE r == [th[t] EXCEPT !.at = "recording"]
<1>1. th[t] \in Calls /\ Shape(th[t]) /\ At(t, "guarded") /\ Goes(t, r)
  BY Before DEF BeginRecording
<1>2. r \in Calls /\ r.at # "out" /\ r.verb = th[t].verb /\ r.h = th[t].h /\ r.rest = th[t].rest
  BY <1>1 DEF Calls, Stages
<1>3. Shape(r)
  BY <1>1 DEF Calls, Shape, Submits, Holds, Waits, Signaled
<1> QED BY <1>1, <1>2, <1>3, GoesTo, SameNames

LEMMA ExecuteMoves ==
    ASSUME NEW t \in Threads, TypeOK, Shapes, Execute(t)
    PROVE  Moves(t) /\ Narrows(th'[t], th[t])
<1> DEFINE r == [th[t] EXCEPT !.at = "signal", !.work = [id |-> fence + 1, v |-> 0]]
<1>1. th[t] \in Calls /\ Shape(th[t]) /\ At(t, "recording") /\ Goes(t, r)
  BY Before DEF Execute
<1>2. [id |-> fence + 1, v |-> 0] \in Works
  BY DEF Works, TypeOK
<1>3. r \in Calls /\ r.at # "out" /\ r.verb = th[t].verb /\ r.h = th[t].h /\ r.rest = th[t].rest
  BY <1>1, <1>2 DEF Calls, Stages
<1>4. [id |-> fence + 1, v |-> 0] # NoWork
  BY <1>2, NoWorkIsNone
<1>5. Shape(r)
  BY <1>1, <1>4 DEF Calls, Shape, Submits, Holds, Waits, Signaled
<1> QED BY <1>1, <1>3, <1>5, GoesTo, SameNames

LEMMA SignalMoves ==
    ASSUME NEW t \in Threads, TypeOK, Shapes, Signal(t)
    PROVE  Moves(t) /\ Narrows(th'[t], th[t])
<1> DEFINE s == th[t]
           r == [s EXCEPT !.at = IF @ = "retry" THEN "wait" ELSE "hand", !.then = "drop",
                          !.work = [@ EXCEPT !.v = fence'], !.v = fence']
           w == [s.work EXCEPT !.v = fence']
<1>1. s \in Calls /\ Shape(s) /\ s.at \in {"signal", "retry"} /\ Goes(t, r)
  BY Before DEF Signal
<1>2. s.work \in Works /\ fence' \in Nat
  BY <1>1 DEF Shape, Holds, Calls, Signal, TypeOK
<1>3. w \in Works /\ w # NoWork /\ w.v = fence'
  BY <1>2, NoWorkIsNone DEF Works
<1> DEFINE q == [s EXCEPT !.at = IF s.at = "retry" THEN "wait" ELSE "hand", !.then = "drop",
                          !.work = w, !.v = fence']
<1>4. Goes(t, q)
  BY <1>1
<1> HIDE DEF w
<1>5. q \in Calls /\ q.at # "out" /\ q.verb = s.verb /\ q.h = s.h /\ q.rest = s.rest
  BY <1>1, <1>2, <1>3 DEF Calls, Stages, Thens
<1>6. Shape(q)
  BY <1>1, <1>2, <1>3 DEF Calls, Shape, Submits, Holds, Waits, Signaled
<1> HIDE DEF q
<1>7. Moves(t) /\ th'[t] = q
  BY <1>4, <1>5, <1>6, GoesTo
<1>8. Narrows(q, s)
  BY <1>1, <1>5, <1>6, SameNames
<1> QED BY <1>7, <1>8

LEMMA HandOverMoves ==
    ASSUME NEW t \in Threads, TypeOK, Shapes, HandOver(t)
    PROVE  Moves(t) /\ Narrows(th'[t], th[t])
<1> DEFINE r == [th[t] EXCEPT !.at = "take", !.work = NoWork]
<1>1. th[t] \in Calls /\ Shape(th[t]) /\ At(t, "hand") /\ Decodes(t)
  BY Before DEF HandOver
<1>2. CASE th[t].verb = "step"
  <2>1. Goes(t, Out) /\ Narrows(Out, th[t])
    BY <1>1, <1>2 DEF HandOver, Narrows, Out
  <2> QED BY <2>1, OutShape, GoesTo
<1>3. CASE th[t].verb = "batch"
  <2>1. Goes(t, r)
    BY <1>3 DEF HandOver
  <2>2. r \in Calls /\ r.at # "out" /\ r.verb = th[t].verb /\ r.h = th[t].h /\ r.rest = th[t].rest
    BY <1>1 DEF Calls, Stages
  <2>3. Shape(r)
    BY <1>1, <1>3 DEF Calls, Shape, Submits, Holds, Waits, Signaled
  <2> QED BY <1>1, <2>1, <2>2, <2>3, GoesTo, SameNames
<1> QED BY <1>1, <1>2, <1>3

LEMMA PartSubmittedMoves ==
    ASSUME NEW t \in Threads, TypeOK, Shapes, PartSubmitted(t)
    PROVE  Moves(t) /\ Narrows(th'[t], th[t])
<1> DEFINE r == [th[t] EXCEPT !.at = "wait", !.then = "finish"]
<1>1. th[t] \in Calls /\ Shape(th[t]) /\ At(t, "hand") /\ th[t].verb = "prefill" /\ Goes(t, r)
  BY Before DEF PartSubmitted
<1>2. r \in Calls /\ r.at # "out" /\ r.verb = th[t].verb /\ r.h = th[t].h /\ r.rest = th[t].rest
  BY <1>1 DEF Calls, Stages, Thens
<1>3. Shape(r)
  BY <1>1 DEF Calls, Shape, Submits, Holds, Waits, Signaled
<1> HIDE DEF r
<1>4. Moves(t) /\ th'[t] = r
  BY <1>1, <1>2, <1>3, GoesTo
<1>5. Narrows(r, th[t])
  BY <1>1, <1>2, <1>3, SameNames
<1> QED BY <1>4, <1>5

LEMMA HandFailsMoves ==
    ASSUME NEW t \in Threads, TypeOK, Shapes, HandFails(t)
    PROVE  Moves(t) /\ Narrows(th'[t], th[t])
<1> DEFINE r == [th[t] EXCEPT !.at = "wait"]
<1>1. th[t] \in Calls /\ Shape(th[t]) /\ At(t, "hand") /\ Goes(t, r)
  BY Before DEF HandFails
<1>2. r \in Calls /\ r.at # "out" /\ r.verb = th[t].verb /\ r.h = th[t].h /\ r.rest = th[t].rest
  BY <1>1 DEF Calls, Stages
<1>3. Shape(r)
  BY <1>1 DEF Calls, Shape, Submits, Holds, Waits, Signaled
<1> QED BY <1>1, <1>2, <1>3, GoesTo, SameNames

LEMMA TakeMoves ==
    ASSUME NEW t \in Threads, TypeOK, Shapes, Tokens, Take(t)
    PROVE  Moves(t) /\ Narrows(th'[t], th[t])
<1> DEFINE w == token[th[t].h]
           r == [th[t] EXCEPT !.at = "wait", !.then = "finish", !.work = w, !.v = w.v]
<1>1. th[t] \in Calls /\ Shape(th[t]) /\ At(t, "take") /\ Goes(t, r)
  BY Before DEF Take
<1>2. w \in Works /\ w # NoWork
  BY <1>1 DEF Tokens, Taking, Shape, TypeOK
<1>3. w.v \in Nat
  BY <1>2 DEF Works
<1> HIDE DEF w
<1>4. r \in Calls /\ r.at # "out" /\ r.verb = th[t].verb /\ r.h = th[t].h /\ r.rest = th[t].rest
  BY <1>1, <1>2, <1>3 DEF Calls, Stages, Thens
<1>5. Shape(r)
  BY <1>1, <1>2 DEF Calls, Shape, Submits, Holds, Waits, Signaled
<1> HIDE DEF r
<1>6. Moves(t) /\ th'[t] = r
  BY <1>1, <1>4, <1>5, GoesTo
<1>7. th[t].at # "out"
  BY <1>1 DEF At
<1>8. Narrows(r, th[t])
  BY ONLY <1>1, <1>4, <1>5, <1>7, SameNames
<1> QED BY <1>6, <1>8

LEMMA WaitedMoves ==
    ASSUME NEW t \in Threads, TypeOK, Shapes, Waited(t)
    PROVE  Moves(t) /\ Narrows(th'[t], th[t])
<1> DEFINE r == [th[t] EXCEPT !.at = "land", !.cur = observed]
<1>1. th[t] \in Calls /\ Shape(th[t]) /\ At(t, "wait") /\ Goes(t, r)
  BY Before DEF Waited
<1>2. r \in Calls /\ r.at # "out" /\ r.verb = th[t].verb /\ r.h = th[t].h /\ r.rest = th[t].rest
  BY <1>1 DEF Calls, Stages, TypeOK
<1>3. Shape(r)
  BY <1>1 DEF Calls, Shape, Submits, Holds, Waits, Signaled
<1> QED BY <1>1, <1>2, <1>3, GoesTo, SameNames

\* The call is given up, or goes on to its next slot.
Ends(t) == \E l \in BOOLEAN : th'[t] = After(t, l)

\* Steps that end a call's work on one handle.
LEMMA AfterMoves ==
    ASSUME NEW t \in Threads, NEW l, TypeOK, Shapes, th[t].at \notin {"out", "slots"},
           Goes(t, After(t, l))
    PROVE  Moves(t) /\ Narrows(th'[t], th[t]) /\ th'[t] = After(t, l)
<1>1. After(t, l) \in Calls /\ Shape(After(t, l)) /\ Narrows(After(t, l), th[t])
  BY Before, AfterShape
<1> QED BY <1>1, GoesTo

LEMMA SignalFailsMoves ==
    ASSUME NEW t \in Threads, TypeOK, Shapes, SignalFails(t)
    PROVE  Moves(t) /\ Narrows(th'[t], th[t])
<1> DEFINE r == [th[t] EXCEPT !.at = "retry"]
<1>1. th[t] \in Calls /\ Shape(th[t]) /\ th[t].at \in {"signal", "retry"}
  BY Before DEF SignalFails
<1>2. CASE At(t, "signal")
  <2>1. Goes(t, r)
    BY <1>2 DEF SignalFails
  <2>2. r \in Calls /\ r.at # "out" /\ r.verb = th[t].verb /\ r.h = th[t].h /\ r.rest = th[t].rest
    BY <1>1 DEF Calls, Stages
  <2>3. Shape(r)
    BY <1>1 DEF Calls, Shape, Submits, Holds, Waits, Signaled
  <2> QED BY <1>1, <2>1, <2>2, <2>3, GoesTo, SameNames
<1>3. CASE At(t, "retry")
  <2>1. Goes(t, After(t, TRUE))
    BY <1>3 DEF SignalFails
  <2> QED BY <1>1, <2>1, AfterMoves
<1> QED BY <1>1, <1>2, <1>3

LEMMA WaitFailsMoves ==
    ASSUME NEW t \in Threads, TypeOK, Shapes, WaitFails(t)
    PROVE  Moves(t) /\ Narrows(th'[t], th[t])
<1> DEFINE r == [th[t] EXCEPT !.at = "lower", !.work = NoWork, !.gone = TRUE]
<1>1. th[t] \in Calls /\ Shape(th[t]) /\ At(t, "wait")
  BY Before DEF WaitFails
<1>2. CASE th[t].then = "finish"
  <2>1. Goes(t, r)
    BY <1>2 DEF WaitFails, Caught
  <2>2. r \in Calls /\ r.at # "out" /\ r.verb = th[t].verb /\ r.h = th[t].h /\ r.rest = th[t].rest
    BY <1>1 DEF Calls, Stages
  <2>3. Shape(r)
    BY <1>1, <1>2 DEF Calls, Shape, Submits, Holds, Waits, Signaled
  <2> QED BY <1>1, <2>1, <2>2, <2>3, GoesTo, SameNames
<1>3. CASE th[t].then # "finish"
  <2>1. Goes(t, After(t, TRUE))
    BY <1>3 DEF WaitFails, Caught
  <2> QED BY <1>1, <2>1, AfterMoves
<1> QED BY <1>2, <1>3

\* A call goes on with its handle.
Continues(r, s) ==
    /\ r.at \notin {"out", "slots"} /\ s.at \notin {"out", "slots"}
    /\ r.verb = s.verb /\ r.h = s.h /\ r.rest = s.rest

\* What the steps that branch make of the thread's record and of its claim.
LEMMA HandOverIs ==
    ASSUME NEW t \in Threads, TypeOK, Shapes, HandOver(t)
    PROVE  /\ th[t].at = "hand" /\ Decoder(th[t])
           /\ \/ th'[t] = Out /\ th'[t].at = "out" /\ claims' = Unclaimed(t)
              \/ th'[t].at = "take" /\ Continues(th'[t], th[t]) /\ claims' = claims
<1>1. th[t] \in Calls /\ th[t].at = "hand" /\ Decoder(th[t])
  BY Before DEF HandOver, Decoder
<1>2. CASE th[t].verb = "step"
  <2>1. Goes(t, Out) /\ claims' = Unclaimed(t)
    BY <1>2 DEF HandOver
  <2> QED BY <1>1, <2>1 DEF TypeOK, Out
<1>3. CASE th[t].verb # "step"
  <2>1. Goes(t, [th[t] EXCEPT !.at = "take", !.work = NoWork]) /\ claims' = claims
    BY <1>3 DEF HandOver
  <2> QED BY <1>1, <2>1 DEF TypeOK, Calls, Continues
<1> QED BY <1>2, <1>3

LEMMA SignalFailsIs ==
    ASSUME NEW t \in Threads, TypeOK, Shapes, SignalFails(t)
    PROVE  \/ /\ th[t].at = "signal" /\ th'[t].at = "retry" /\ Continues(th'[t], th[t])
              /\ th'[t].work = th[t].work /\ th'[t].down = th[t].down
              /\ graveyard' = graveyard /\ claims' = claims
           \/ /\ th[t].at = "retry" /\ th'[t] = After(t, TRUE)
              /\ graveyard' = Kept(th[t].work) /\ claims' = Unclaimed(t)
<1>1. th[t] \in Calls /\ th[t].at \in {"signal", "retry"}
  BY Before DEF SignalFails
<1>2. CASE th[t].at = "signal"
  <2>1. Goes(t, [th[t] EXCEPT !.at = "retry"]) /\ graveyard' = graveyard /\ claims' = claims
    BY <1>2 DEF SignalFails
  <2> QED BY <1>1, <1>2, <2>1 DEF TypeOK, Calls, Continues
<1>3. CASE th[t].at = "retry"
  <2>1. Goes(t, After(t, TRUE)) /\ graveyard' = Kept(th[t].work) /\ claims' = Unclaimed(t)
    BY <1>3 DEF SignalFails
  <2> QED BY <1>3, <2>1 DEF TypeOK
<1> QED BY <1>1, <1>2, <1>3

LEMMA WaitFailsIs ==
    ASSUME NEW t \in Threads, TypeOK, Shapes, WaitFails(t)
    PROVE  /\ th[t].at = "wait"
           /\ \/ /\ th[t].then = "finish" /\ th'[t].at = "lower" /\ Continues(th'[t], th[t])
                 /\ th'[t].work = NoWork /\ th'[t].down = th[t].down /\ claims' = claims
              \/ th[t].then = "drop" /\ th'[t] = After(t, TRUE) /\ claims' = Unclaimed(t)
              \/ /\ th[t].then = "return" /\ th[t].verb = "drain" /\ th'[t] = After(t, TRUE)
                 /\ claims' = Unclaimed(t)
<1>1. th[t] \in Calls /\ Shape(th[t]) /\ th[t].at = "wait"
  BY Before DEF WaitFails
<1>2. CASE th[t].then = "finish"
  <2>1. Goes(t, [th[t] EXCEPT !.at = "lower", !.work = NoWork, !.gone = TRUE]) /\ claims' = claims
    BY <1>2 DEF WaitFails, Caught
  <2> QED BY <1>1, <1>2, <2>1 DEF TypeOK, Calls, Continues
<1>3. CASE th[t].then # "finish"
  <2>1. Goes(t, After(t, TRUE)) /\ claims' = Unclaimed(t)
    BY <1>3 DEF WaitFails, Caught
  <2>2. th[t].then = "drop" \/ (th[t].then = "return" /\ th[t].verb = "drain")
    BY <1>1, <1>3 DEF Shape, Waits
  <2> QED BY <1>1, <2>1, <2>2 DEF TypeOK
<1> QED BY <1>2, <1>3

\* RaiseObserved's exchange failed.
Again(t) == th[t].v > th[t].cur /\ observed # th[t].cur

LEMMA LandIs ==
    ASSUME NEW t \in Threads, TypeOK, Shapes, Land(t)
    PROVE  /\ th[t].at = "land"
           /\ \/ /\ Again(t) /\ th'[t].at = "land" /\ Continues(th'[t], th[t]) /\ th'[t].then = th[t].then
                 /\ th'[t].down = th[t].down /\ th'[t].work = th[t].work /\ th'[t].v = th[t].v
                 /\ th'[t].cur = observed /\ observed' = observed /\ claims' = claims
              \/ /\ ~Again(t) /\ th[t].then = "take" /\ th'[t].at = "take" /\ Continues(th'[t], th[t])
                 /\ th'[t].down = th[t].down /\ claims' = claims
              \/ /\ ~Again(t) /\ th[t].then = "finish" /\ Continues(th'[t], th[t])
                 /\ th'[t].at = "lower" \/ (th'[t].at = "guarded" /\ th[t].verb = "prefill")
                 /\ th'[t].down = th[t].down /\ claims' = claims
              \/ /\ ~Again(t) /\ th[t].then = "drop" /\ Ends(t) /\ claims' = Unclaimed(t)
              \/ /\ ~Again(t) /\ th[t].then = "return" /\ th[t].verb = "drain" /\ Ends(t)
                 /\ claims' = Unclaimed(t)
<1>1. th[t] \in Calls /\ Shape(th[t]) /\ th[t].at = "land"
  BY Before DEF Land
<1>2. CASE Again(t)
  <2>1. Goes(t, [th[t] EXCEPT !.cur = observed]) /\ observed' = observed /\ claims' = claims
    BY <1>2 DEF Land, Again, Exchanged, Reloaded
  <2> QED BY <1>1, <1>2, <2>1 DEF TypeOK, Calls, Continues
<1>3. CASE ~Again(t) /\ th[t].then = "take"
  <2>1. Goes(t, [th[t] EXCEPT !.at = "take"]) /\ claims' = claims
    BY <1>3 DEF Land, Again, Exchanged
  <2> QED BY <1>1, <1>3, <2>1 DEF TypeOK, Calls, Continues
<1>4. CASE ~Again(t) /\ th[t].then = "finish"
  <2>1. Goes(t, [th[t] EXCEPT !.at = IF th[t].parts > 1 THEN "guarded" ELSE "lower",
                              !.parts = IF @ > 1 THEN @ - 1 ELSE @, !.work = NoWork]) /\ claims' = claims
    BY <1>4 DEF Land, Again, Exchanged
  <2>2. /\ th'[t].at = (IF th[t].parts > 1 THEN "guarded" ELSE "lower") /\ th'[t].down = th[t].down
        /\ th'[t].verb = th[t].verb /\ th'[t].h = th[t].h /\ th'[t].rest = th[t].rest
    BY <1>1, <2>1 DEF TypeOK, Calls
  <2>3. th'[t].at = "lower" \/ (th'[t].at = "guarded" /\ th[t].verb = "prefill")
    BY <1>1, <2>2 DEF Shape
  <2> QED BY <1>1, <1>4, <2>1, <2>2, <2>3 DEF Continues
<1>5. CASE ~Again(t) /\ th[t].then \notin {"take", "finish"}
  <2>1. /\ \E l \in BOOLEAN : Goes(t, After(t, l))
        /\ claims' = IF th[t].then = "drop" THEN Unclaimed(t) ELSE claims
    BY <1>5 DEF Land, Again, Exchanged
  <2>2. th[t].then = "drop" \/ (th[t].then = "return" /\ th[t].verb = "drain")
    BY <1>1, <1>5 DEF Shape, Waits
  <2>3. claims' = Unclaimed(t)
    BY <2>1, <2>2 DEF Unclaimed
  <2>4. Ends(t)
    BY <2>1 DEF TypeOK, Goes, Ends
  <2> QED BY <1>1, <1>5, <2>2, <2>3, <2>4
<1> QED BY <1>2, <1>3, <1>4, <1>5

LEMMA LandMoves ==
    ASSUME NEW t \in Threads, TypeOK, Shapes, Land(t)
    PROVE  Moves(t) /\ Narrows(th'[t], th[t])
<1> DEFINE s == th[t]
           a == [s EXCEPT !.cur = observed]
           k == [s EXCEPT !.at = "take"]
           f == [s EXCEPT !.at = IF s.parts > 1 THEN "guarded" ELSE "lower",
                          !.parts = IF s.parts > 1 THEN s.parts - 1 ELSE s.parts, !.work = NoWork]
<1>1. s \in Calls /\ Shape(s) /\ At(t, "land")
  BY Before DEF Land
<1>2. /\ Again(t) => Goes(t, a)
      /\ ~Again(t) /\ s.then = "take" => Goes(t, k)
      /\ ~Again(t) /\ s.then = "finish" => Goes(t, f)
      /\ ~Again(t) /\ s.then \notin {"take", "finish"} => \E l \in BOOLEAN : Goes(t, After(t, l))
  BY DEF Land, Again, Exchanged, Reloaded
<1>3. CASE Again(t)
  <2>2. a \in Calls /\ a.at # "out" /\ a.verb = s.verb /\ a.h = s.h /\ a.rest = s.rest
    BY <1>1 DEF Calls, TypeOK
  <2>3. Shape(a)
    BY <1>1 DEF Calls, Shape, Submits, Holds, Waits, Signaled
  <2>4. Goes(t, a)
    BY <1>2, <1>3
  <2> QED BY <1>1, <2>2, <2>3, <2>4, GoesTo, SameNames
<1>4. CASE ~Again(t) /\ s.then = "take"
  <2>2. k \in Calls /\ k.at # "out" /\ k.verb = s.verb /\ k.h = s.h /\ k.rest = s.rest
    BY <1>1 DEF Calls, Stages
  <2>3. Shape(k)
    BY <1>1, <1>4 DEF Calls, Shape, Submits, Holds, Waits, Signaled
  <2>4. Goes(t, k)
    BY <1>2, <1>4
  <2> QED BY <1>1, <2>2, <2>3, <2>4, GoesTo, SameNames
<1>5. CASE ~Again(t) /\ s.then = "finish"
  <2> DEFINE p == IF s.parts > 1 THEN s.parts - 1 ELSE s.parts
             g == IF s.parts > 1 THEN "guarded" ELSE "lower"
  <2>1. p \in Nat /\ g \in Stages /\ g # "out"
    BY <1>1 DEF Calls, Stages
  <2>2. f \in Calls /\ f.at # "out" /\ f.verb = s.verb /\ f.h = s.h /\ f.rest = s.rest
    <3>1. f = [s EXCEPT !.at = g, !.parts = p, !.work = NoWork]
      OBVIOUS
    <3> HIDE DEF f, g, p
    <3> QED BY <1>1, <2>1, <3>1 DEF Calls
  <2>3. Shape(f)
    BY <1>1, <1>5 DEF Calls, Shape, Submits, Holds, Waits, Signaled
  <2>4. Goes(t, f)
    BY <1>2, <1>5
  <2> HIDE DEF f
  <2>5. Moves(t) /\ th'[t] = f
    BY <2>2, <2>3, <2>4, GoesTo
  <2> QED BY <1>1, <2>2, <2>3, <2>5, SameNames
<1>6. CASE ~Again(t) /\ s.then \notin {"take", "finish"}
  BY <1>1, <1>2, <1>6, AfterMoves
<1> QED BY <1>3, <1>4, <1>5, <1>6

LEMMA LowerMoves ==
    ASSUME NEW t \in Threads, TypeOK, Shapes, Lower(t)
    PROVE  Moves(t) /\ Narrows(th'[t], th[t])
<1> DEFINE r == [th[t] EXCEPT !.down = th[t].down + 1]
<1>1. th[t] \in Calls /\ Shape(th[t]) /\ At(t, "lower")
  BY Before DEF Lower
<1>2. CASE th[t].down = 2
  <2>1. PICK l \in BOOLEAN : Goes(t, After(t, th[t].gone \/ l))
    BY <1>2 DEF Lower, Lowering
  <2> QED BY <1>1, <2>1, AfterMoves
<1>3. CASE th[t].down # 2
  <2>1. th[t].down \in {0, 1}
    BY <1>1, <1>3 DEF Calls
  <2>2. Goes(t, r)
    <3>1. th[t].down + 1 # Len(Lowering) /\ Len(Lowering) = 3
      BY <2>1 DEF Lowering
    <3> QED BY <3>1 DEF Lower
  <2>3. r \in Calls /\ r.at # "out" /\ r.verb = th[t].verb /\ r.h = th[t].h /\ r.rest = th[t].rest
    BY <1>1, <2>1 DEF Calls
  <2>4. Shape(r)
    BY <1>1 DEF Calls, Shape, Submits, Holds, Waits, Signaled
  <2> QED BY <1>1, <2>2, <2>3, <2>4, GoesTo, SameNames
<1> QED BY <1>2, <1>3

LEMMA LowerEnds ==
    ASSUME NEW t \in Threads, TypeOK, Lower(t), th[t].down = 2
    PROVE  \E l : th'[t] = After(t, l)
<1>1. PICK l \in BOOLEAN : Goes(t, After(t, th[t].gone \/ l))
  BY DEF Lower, Lowering
<1> QED BY <1>1 DEF TypeOK, Goes

LEMMA RefusedMoves ==
    ASSUME NEW t \in Threads, TypeOK, Shapes, BeginRefused(t)
    PROVE  Moves(t) /\ Narrows(th'[t], th[t]) /\ th'[t] = After(t, TRUE)
BY AfterMoves DEF BeginRefused

LEMMA AbandonMoves ==
    ASSUME NEW t \in Threads, TypeOK, Shapes, AbandonRecording(t)
    PROVE  Moves(t) /\ Narrows(th'[t], th[t]) /\ Ends(t)
<1>1. PICK l \in BOOLEAN : Goes(t, After(t, l))
  BY DEF AbandonRecording
<1>2. th[t].at \notin {"out", "slots"}
  BY DEF AbandonRecording
<1> QED BY <1>1, <1>2, AfterMoves DEF Ends

LEMMA InCallMoves ==
    ASSUME NEW t \in Threads, TypeOK, Shapes, Tokens, InCall(t) \/ WaitFails(t)
    PROVE  Moves(t) /\ Narrows(th'[t], th[t])
BY SlotMoves, RefusedMoves, BeginMoves, AbandonMoves, ExecuteMoves, SignalMoves, SignalFailsMoves,
   HandOverMoves, PartSubmittedMoves, HandFailsMoves, TakeMoves, WaitedMoves, LandMoves, LowerMoves,
   WaitFailsMoves DEF InCall

-----------------------------------------------------------------------------
(* A call begins. *)

LEMMA NoRest ==
    ASSUME NEW r, r.rest = <<>>
    PROVE  NamesOf(r) = (IF r.h = NoWork THEN {} ELSE {r.h})
<1>1. {<<>>[i] : i \in DOMAIN <<>>} = {}
  OBVIOUS
<1> QED BY <1>1 DEF NamesOf

LEMMA StepMoves ==
    ASSUME NEW t \in Threads, NEW h \in Handles, TypeOK, Shapes, Step(t, h)
    PROVE  /\ Moves(t) /\ th[t].at = "out" /\ NamesOf(th'[t]) = {h}
           /\ th'[t].at = "guarded" /\ th'[t].verb = "step" /\ th'[t].h = h /\ th'[t].work = NoWork
           /\ th'[t].down = 0
<1> DEFINE r == [Out EXCEPT !.at = "guarded", !.verb = "step", !.h = h]
<1>1. Goes(t, r) /\ th[t].at = "out"
  BY DEF Step
<1>2. h \in Handles \cup {NoWork} /\ 0 \in Nat
  OBVIOUS
<1>3. "guarded" \in Stages /\ "step" \in Verbs /\ "none" \in Thens
  BY DEF Stages, Verbs, Thens
<1>4. r \in Calls
  BY <1>2, <1>3, OutShape DEF Calls
<1>5. /\ r.at = "guarded" /\ r.verb = "step" /\ r.h = h /\ r.rest = <<>> /\ r.work = NoWork
      /\ r.parts = 0 /\ r.then = "none" /\ r.down = 0 /\ r.v = 0 /\ r.cur = 0
  BY DEF Out
<1> HIDE DEF r
<1>6. Shape(r)
  BY <1>2, <1>5, NoWorkIsNone DEF Shape, Submits, Holds, Waits, Signaled
<1>7. NamesOf(r) = {h}
  BY <1>2, <1>5, NoWorkIsNone, NoRest
<1> QED BY <1>1, <1>4, <1>5, <1>6, <1>7, GoesTo

LEMMA ReadyMoves ==
    ASSUME NEW t \in Threads, NEW h \in Handles, TypeOK, Shapes, Ready(t, h)
    PROVE  /\ Moves(t) /\ th[t].at = "out" /\ NamesOf(th'[t]) = {h}
           /\ th'[t].at = "take" /\ th'[t].verb = "ready" /\ th'[t].h = h /\ th'[t].work = NoWork
           /\ th'[t].down = 0
<1> DEFINE r == [Out EXCEPT !.at = "take", !.verb = "ready", !.h = h]
<1>1. Goes(t, r) /\ th[t].at = "out"
  BY DEF Ready
<1>2. h \in Handles \cup {NoWork} /\ 0 \in Nat
  OBVIOUS
<1>3. "take" \in Stages /\ "ready" \in Verbs /\ "none" \in Thens
  BY DEF Stages, Verbs, Thens
<1>4. r \in Calls
  BY <1>2, <1>3, OutShape DEF Calls
<1>5. /\ r.at = "take" /\ r.verb = "ready" /\ r.h = h /\ r.rest = <<>> /\ r.work = NoWork
      /\ r.parts = 0 /\ r.then = "none" /\ r.down = 0 /\ r.v = 0 /\ r.cur = 0
  BY DEF Out
<1> HIDE DEF r
<1>6. Shape(r)
  BY <1>2, <1>5, NoWorkIsNone DEF Shape, Submits, Holds, Waits, Signaled
<1>7. NamesOf(r) = {h}
  BY <1>2, <1>5, NoWorkIsNone, NoRest
<1> QED BY <1>1, <1>4, <1>5, <1>6, <1>7, GoesTo

LEMMA BatchMoves ==
    ASSUME NEW t \in Threads, NEW hs \in Batches, TypeOK, Shapes, Batch(t, hs)
    PROVE  Moves(t) /\ th[t].at = "out" /\ NamesOf(th'[t]) = {hs[i] : i \in DOMAIN hs}
           /\ th'[t].at = "slots" /\ th'[t].verb = "batch" /\ th'[t].h = NoWork /\ th'[t].work = NoWork
<1> DEFINE r == [Out EXCEPT !.at = "slots", !.verb = "batch", !.rest = hs]
<1>1. Goes(t, r) /\ th[t].at = "out"
  BY DEF Batch
<1>2. hs \in Seq(Handles) /\ hs # <<>>
  BY BatchAssumption
<1>3. r \in Calls
  BY <1>2, OutShape DEF Calls, Stages, Verbs
<1>4. r.at = "slots" /\ r.verb = "batch" /\ r.h = NoWork /\ r.rest = hs /\ r.work = NoWork
      /\ r.parts = 0 /\ r.down = 0
  BY DEF Out
<1> HIDE DEF r
<1>5. Shape(r)
  BY <1>2, <1>4 DEF Shape, Submits, Holds, Waits, Signaled
<1>6. NamesOf(r) = {hs[i] : i \in DOMAIN hs}
  BY <1>4 DEF NamesOf
<1> QED BY <1>1, <1>3, <1>4, <1>5, <1>6, GoesTo

LEMMA PrefillMoves ==
    ASSUME NEW t \in Threads, NEW h \in Handles, NEW n \in Parts, TypeOK, Shapes,
           Prefill(t, h, n)
    PROVE  /\ Moves(t) /\ th[t].at = "out" /\ NamesOf(th'[t]) = {h}
           /\ th'[t].at = "guarded" /\ th'[t].verb = "prefill" /\ th'[t].h = h /\ th'[t].work = NoWork
           /\ th'[t].down = 0
<1> DEFINE r == [Out EXCEPT !.at = "guarded", !.verb = "prefill", !.h = h, !.parts = n]
<1>1. Goes(t, r) /\ th[t].at = "out"
  BY DEF Prefill
<1>2. h \in Handles \cup {NoWork} /\ n \in Nat /\ 0 \in Nat
  BY BoundAssumption
<1>3. "guarded" \in Stages /\ "prefill" \in Verbs /\ "none" \in Thens
  BY DEF Stages, Verbs, Thens
<1>4. r \in Calls
  BY <1>2, <1>3, OutShape DEF Calls
<1>5. /\ r.at = "guarded" /\ r.verb = "prefill" /\ r.h = h /\ r.rest = <<>> /\ r.work = NoWork
      /\ r.parts = n /\ r.then = "none" /\ r.down = 0 /\ r.v = 0 /\ r.cur = 0
  BY DEF Out
<1> HIDE DEF r
<1>6. Shape(r)
  BY <1>2, <1>5, NoWorkIsNone DEF Shape, Submits, Holds, Waits, Signaled
<1>7. NamesOf(r) = {h}
  BY <1>2, <1>5, NoWorkIsNone, NoRest
<1> QED BY <1>1, <1>4, <1>5, <1>6, <1>7, GoesTo

\* Outside every call about it, a Submitted handle's token holds work.
LEMMA Idle ==
    ASSUME TypeOK, Tokens, NEW h \in Handles, \A u \in Threads : h \notin NamesOf(th[u])
    PROVE  h \in state <=> token[h] # NoWork
<1>1. ASSUME NEW u \in Threads, th[u].h = h PROVE FALSE
  BY <1>1, NoWorkIsNone DEF NamesOf
<1> QED BY <1>1 DEF Tokens

LEMMA NamesIs == ASSUME NEW u \in Threads PROVE Names(u) = NamesOf(th[u])
BY DEF Names, OnHandle, NamesOf

LEMMA PollFinds ==
    ASSUME NEW t \in Threads, NEW h \in Handles, TypeOK, Shapes, Tokens, Poll(t, h)
    PROVE  token[h] \in Works /\ token[h] # NoWork
<1>1. th[t].at = "out" /\ MayPoll(t, h) /\ h \in state
  BY DEF Poll
<1>2. ASSUME NEW u \in Threads PROVE h \notin NamesOf(th[u])
  <2>1. CASE th[u].at = "out"
    <3>1. th[u].h = NoWork /\ th[u].rest = <<>>
      BY <2>1 DEF Shapes, Shape
    <3> QED BY <3>1 DEF NamesOf
  <2>2. CASE th[u].at # "out"
    BY <1>1, <2>2, NamesIs DEF MayPoll, Others
  <2> QED BY <2>1, <2>2
<1>3. token[h] # NoWork
  BY <1>1, <1>2, Idle
<1> QED BY <1>3 DEF TypeOK

LEMMA PollMoves ==
    ASSUME NEW t \in Threads, NEW h \in Handles, TypeOK, Shapes, Tokens, Poll(t, h)
    PROVE  /\ Moves(t) /\ th[t].at = "out" /\ NamesOf(th'[t]) = {h}
           /\ th'[t].at = "land" /\ th'[t].verb = "poll" /\ th'[t].h = h /\ th'[t].work = NoWork
           /\ th'[t].down = 0
           /\ th'[t].then = "take" /\ th'[t].v = token[h].v /\ th'[t].cur = observed
<1> DEFINE r == [Out EXCEPT !.at = "land", !.verb = "poll", !.h = h, !.then = "take",
                            !.v = token[h].v, !.cur = observed]
<1>1. Goes(t, r) /\ th[t].at = "out"
  BY DEF Poll
<1>2. h \in Handles \cup {NoWork} /\ 0 \in Nat /\ token[h].v \in Nat /\ observed \in Nat
  BY PollFinds DEF Works, TypeOK
<1>3. "land" \in Stages /\ "poll" \in Verbs /\ "take" \in Thens
  BY DEF Stages, Verbs, Thens
<1>4. r \in Calls
  BY <1>2, <1>3, OutShape DEF Calls
<1>5. /\ r.at = "land" /\ r.verb = "poll" /\ r.h = h /\ r.rest = <<>> /\ r.work = NoWork
      /\ r.parts = 0 /\ r.then = "take" /\ r.down = 0 /\ r.v = token[h].v /\ r.cur = observed
  BY DEF Out
<1> HIDE DEF r
<1>6. Shape(r)
  BY <1>2, <1>5, NoWorkIsNone DEF Shape, Submits, Holds, Waits, Signaled
<1>7. NamesOf(r) = {h}
  BY <1>2, <1>5, NoWorkIsNone, NoRest
<1> QED BY <1>1, <1>4, <1>5, <1>6, <1>7, GoesTo

LEMMA DrainMoves ==
    ASSUME NEW t \in Threads, TypeOK, Shapes, Drain(t)
    PROVE  /\ Moves(t) /\ th[t].at = "out" /\ NamesOf(th'[t]) = {}
           /\ th'[t].at = "wait" /\ th'[t].verb = "drain" /\ th'[t].h = NoWork /\ th'[t].work = NoWork
           /\ th'[t].down = 0
           /\ th'[t].then = "return" /\ th'[t].v = submitted
<1> DEFINE r == [Out EXCEPT !.at = "wait", !.verb = "drain", !.then = "return", !.v = submitted]
<1>1. Goes(t, r) /\ th[t].at = "out"
  BY DEF Drain
<1>2. NoWork \in Handles \cup {NoWork} /\ 0 \in Nat /\ submitted \in Nat /\ 0 \in Nat
  BY DEF TypeOK
<1>3. "wait" \in Stages /\ "drain" \in Verbs /\ "return" \in Thens
  BY DEF Stages, Verbs, Thens
<1>4. r \in Calls
  BY <1>2, <1>3, OutShape DEF Calls
<1>5. /\ r.at = "wait" /\ r.verb = "drain" /\ r.h = NoWork /\ r.rest = <<>> /\ r.work = NoWork
      /\ r.parts = 0 /\ r.then = "return" /\ r.down = 0 /\ r.v = submitted /\ r.cur = 0
  BY DEF Out
<1> HIDE DEF r
<1>6. Shape(r)
  BY <1>2, <1>5, NoWorkIsNone DEF Shape, Submits, Holds, Waits, Signaled
<1>7. NamesOf(r) = {}
  BY <1>2, <1>5, NoWorkIsNone, NoRest
<1> QED BY <1>1, <1>4, <1>5, <1>6, <1>7, GoesTo

-----------------------------------------------------------------------------
(* The types, the shapes and P1's precondition. *)

LEMMA OthersStay ==
    ASSUME NEW t \in Threads, TypeOK, Moves(t)
    PROVE  /\ th' \in [Threads -> Calls]
           /\ \A u \in Threads \ {t} : th'[u] = th[u]
BY DEF TypeOK, Moves

LEMMA ShapesKept == ASSUME NEW t \in Threads, TypeOK, Shapes, Moves(t) PROVE Shapes'
BY DEF TypeOK, Moves, Shapes

LEMMA ApartIsMutual == ASSUME NEW r, NEW s, Apart(r, s) PROVE Apart(s, r)
BY DEF Apart

LEMMA HostsOf ==
    ASSUME NEW t \in Threads, TypeOK, Hosts, Moves(t),
           \A u \in Threads \ {t} : Apart(th'[t], th[u])
    PROVE  Hosts'
<1> SUFFICES ASSUME NEW a \in Threads, NEW b \in Threads, a # b PROVE Apart(th'[a], th'[b])
  BY DEF Hosts
<1>1. CASE a = t
  BY <1>1, OthersStay
<1>2. CASE b = t
  <2>1. Apart(th'[t], th[a]) /\ th'[a] = th[a]
    BY <1>2, OthersStay
  <2> QED BY <1>2, <2>1, ApartIsMutual
<1>3. CASE a # t /\ b # t
  BY <1>3, OthersStay DEF Hosts
<1> QED BY <1>1, <1>2, <1>3

LEMMA HostsNarrow ==
    ASSUME NEW t \in Threads, TypeOK, Hosts, Moves(t), Narrows(th'[t], th[t])
    PROVE  Hosts'
<1> SUFFICES ASSUME NEW u \in Threads, u # t PROVE Apart(th'[t], th[u])
  BY HostsOf
<1>1. Apart(th[t], th[u])
  BY DEF Hosts
<1>2. CASE th'[t].at = "out" \/ th[u].at = "out"
  BY <1>2 DEF Apart
<1>3. CASE th'[t].at # "out" /\ th[u].at # "out"
  BY <1>1, <1>3 DEF Apart, Narrows, Decoder
<1> QED BY <1>2, <1>3

LEMMA StepHosts ==
    ASSUME NEW t \in Threads, NEW h \in Handles, TypeOK, Shapes, Hosts, Step(t, h)
    PROVE  Hosts'
<1> SUFFICES ASSUME NEW u \in Threads, u # t PROVE Apart(th'[t], th[u])
  BY StepMoves, HostsOf
<1>1. CASE th[u].at = "out"
  BY <1>1 DEF Apart
<1>2. CASE th[u].at # "out"
  <2>1. \/ th[u].verb = "poll" /\ NamesOf(th[u]) \cap {h} = {}
        \/ Decoder(th[u]) /\ NamesOf(th[u]) = {h}
    BY <1>2, NamesIs DEF Step, MayDecode, Others, Decoder
  <2> QED BY <2>1, StepMoves DEF Apart, Decoder
<1> QED BY <1>1, <1>2

LEMMA BatchHosts ==
    ASSUME NEW t \in Threads, NEW hs \in Batches, TypeOK, Shapes, Hosts, Batch(t, hs)
    PROVE  Hosts'
<1> DEFINE N == {hs[i] : i \in DOMAIN hs}
<1> SUFFICES ASSUME NEW u \in Threads, u # t PROVE Apart(th'[t], th[u])
  BY BatchMoves, HostsOf
<1>1. CASE th[u].at = "out"
  BY <1>1 DEF Apart
<1>2. CASE th[u].at # "out"
  <2>1. \/ th[u].verb = "poll" /\ NamesOf(th[u]) \cap N = {}
        \/ Decoder(th[u]) /\ NamesOf(th[u]) = N /\ Cardinality(N) = 1
    BY <1>2, NamesIs DEF Batch, MayDecode, Others, Decoder
  <2>2. NamesOf(th'[t]) = N /\ th'[t].verb = "batch"
    BY BatchMoves
  <2>3. N \subseteq Handles /\ IsFiniteSet(N)
    <3>1. hs \in Seq(Handles)
      BY BatchAssumption
    <3>2. IsFiniteSet(1..Len(hs)) /\ DOMAIN hs = 1..Len(hs)
      BY <3>1, FS_Interval
    <3>3. hs \in [1..Len(hs) -> N] /\ N \subseteq Handles
      BY <3>1, <3>2
    <3>4. \A x \in N : \E i \in 1..Len(hs) : hs[i] = x
      BY <3>2
    <3>5. hs \in Surjection(1..Len(hs), N)
      BY <3>3, <3>4 DEF Surjection
    <3> QED BY <3>2, <3>3, <3>5, FS_Surjection
  <2> HIDE DEF N
  <2>4. CASE Cardinality(N) = 1 /\ Decoder(th[u]) /\ NamesOf(th[u]) = N
    <3>1. PICK x : N = {x}
      BY <2>3, <2>4, FS_Singleton
    <3> QED BY <2>2, <2>3, <2>4, <3>1 DEF Apart, Decoder
  <2>5. CASE th[u].verb = "poll" /\ NamesOf(th[u]) \cap N = {}
    BY <2>2, <2>5 DEF Apart
  <2> QED BY <2>1, <2>4, <2>5
<1> QED BY <1>1, <1>2

\* A call that blocks is beside polls of other handles only.
LEMMA BlockHosts ==
    ASSUME NEW t \in Threads, NEW N, TypeOK, Hosts, Moves(t), NamesOf(th'[t]) \subseteq N, MayBlock(t, N)
    PROVE  Hosts'
<1> SUFFICES ASSUME NEW u \in Threads, u # t PROVE Apart(th'[t], th[u])
  BY HostsOf
<1>1. CASE th[u].at = "out"
  BY <1>1 DEF Apart
<1>2. CASE th[u].at # "out"
  <2>1. th[u].verb = "poll" /\ NamesOf(th[u]) \cap N = {}
    BY <1>2, NamesIs DEF MayBlock, Others
  <2> QED BY <2>1 DEF Apart
<1> QED BY <1>1, <1>2

LEMMA PollHosts ==
    ASSUME NEW t \in Threads, NEW h \in Handles, TypeOK, Shapes, Tokens, Hosts, Poll(t, h)
    PROVE  Hosts'
<1> SUFFICES ASSUME NEW u \in Threads, u # t PROVE Apart(th'[t], th[u])
  BY PollMoves, HostsOf
<1>1. CASE th[u].at = "out"
  BY <1>1 DEF Apart
<1>2. CASE th[u].at # "out"
  <2>1. h \notin NamesOf(th[u])
    BY <1>2, NamesIs DEF Poll, MayPoll, Others
  <2> QED BY <2>1, PollMoves DEF Apart
<1> QED BY <1>1, <1>2

\* What any step but the device's does to the threads.
LEMMA ThreadsMove ==
    ASSUME NEW t \in Threads, TypeOK, Shapes, Tokens, Call(t) \/ InCall(t) \/ WaitFails(t)
    PROVE  Moves(t)
BY InCallMoves, StepMoves, BatchMoves, PrefillMoves, PollMoves, ReadyMoves, DrainMoves DEF Call

LEMMA HostsKept ==
    ASSUME NEW t \in Threads, TypeOK, Shapes, Tokens, Hosts, Call(t) \/ InCall(t) \/ WaitFails(t)
    PROVE  Hosts'
<1>1. CASE InCall(t) \/ WaitFails(t)
  BY <1>1, InCallMoves, HostsNarrow
<1>2. ASSUME NEW h \in Handles, Step(t, h) PROVE Hosts'
  BY <1>2, StepHosts
<1>3. ASSUME NEW hs \in Batches, Batch(t, hs) PROVE Hosts'
  BY <1>3, BatchHosts
<1>4. ASSUME NEW h \in Handles, NEW n \in Parts, Prefill(t, h, n) PROVE Hosts'
  <2>1. MayBlock(t, {h})
    BY <1>4 DEF Prefill
  <2> QED BY <1>4, <2>1, PrefillMoves, BlockHosts
<1>5. ASSUME NEW h \in Handles, Poll(t, h) PROVE Hosts'
  BY <1>5, PollHosts
<1>6. ASSUME NEW h \in Handles, Ready(t, h) PROVE Hosts'
  <2>1. MayBlock(t, {h})
    BY <1>6 DEF Ready
  <2> QED BY <1>6, <2>1, ReadyMoves, BlockHosts
<1>7. ASSUME Drain(t) PROVE Hosts'
  <2>1. MayBlock(t, {})
    BY <1>7 DEF Drain
  <2> QED BY <1>7, <2>1, DrainMoves, BlockHosts
<1> QED BY <1>1, <1>2, <1>3, <1>4, <1>5, <1>6, <1>7 DEF Call
-----------------------------------------------------------------------------
(* One call at most is past its slots' choice; a decode there has claimed. *)

LEMMA BusyStays ==
    ASSUME NEW t \in Threads, TypeOK, OneBusy, Moves(t), Busy(th'[t]) => Busy(th[t])
    PROVE  OneBusy'
BY OthersStay DEF OneBusy

LEMMA BusyEnters ==
    ASSUME NEW t \in Threads, TypeOK, OneBusy, Moves(t), \A u \in Threads \ {t} : ~Busy(th[u])
    PROVE  OneBusy'
BY OthersStay DEF OneBusy

\* Nobody else is busy when a handle the others might be busy with is not claimed.
LEMMA NoneBusy ==
    ASSUME NEW t \in Threads, NEW h \in Handles, TypeOK, Shapes, Claimed, h \notin claims,
           NEW u \in Threads, NEW r, Apart(r, th[u]), r.at # "out", r.verb # "poll",
           h \in NamesOf(r), Decoder(r)
    PROVE  ~Busy(th[u])
<1> SUFFICES ASSUME Busy(th[u]) PROVE FALSE
  OBVIOUS
<1>1. Decoder(th[u]) /\ \E x \in Handles : NamesOf(r) = {x} /\ NamesOf(th[u]) = {x}
  BY DEF Apart, Busy
<1>2. NamesOf(th[u]) = {h}
  BY <1>1
<1>3. th[u].h # NoWork
  BY <1>1, Before DEF Shape, Busy, Decoder
<1>4. th[u].h = h
  BY <1>2, <1>3 DEF NamesOf
<1> QED BY <1>1, <1>4 DEF Claimed

LEMMA BlockAlone ==
    ASSUME NEW t \in Threads, NEW N, MayBlock(t, N), NEW u \in Threads, u # t
    PROVE  ~Busy(th[u]) /\ (th[u].at # "out" => th[u].verb = "poll")
BY DEF MayBlock, Others, Busy

\* The claims follow their thread.
LEMMA ClaimsStay ==
    ASSUME NEW t \in Threads, TypeOK, Claimed, Moves(t), claims' = claims,
           (Busy(th[t]) /\ Decoder(th[t])) <=> (Busy(th'[t]) /\ Decoder(th'[t])),
           Busy(th'[t]) /\ Decoder(th'[t]) => th'[t].h = th[t].h
    PROVE  Claimed'
BY OthersStay DEF Claimed

LEMMA ClaimsEnd ==
    ASSUME NEW t \in Threads, TypeOK, OneBusy, Claimed, Moves(t), Busy(th[t]),
           claims' = Unclaimed(t), ~Busy(th'[t]) \/ ~Decoder(th'[t]),
           ~Decoder(th[t]) => ~Decoder(th'[t]) \/ ~Busy(th'[t])
    PROVE  Claimed'
<1>1. CASE Decoder(th[t])
  <2>1. claims' = claims \ {th[t].h}
    BY <1>1 DEF Unclaimed, Decoder
  <2>2. ASSUME NEW h \in claims PROVE h = th[t].h
    BY <1>1, <2>2 DEF Claimed, OneBusy
  <2>3. claims' = {}
    BY <2>1, <2>2
  <2>4. ASSUME NEW u \in Threads, Busy(th'[u]), Decoder(th'[u]) PROVE FALSE
    BY <2>4, OthersStay DEF OneBusy
  <2> QED BY <2>3, <2>4 DEF Claimed
<1>2. CASE ~Decoder(th[t])
  <2>1. claims' = claims
    BY <1>2 DEF Unclaimed, Decoder
  <2> QED BY <1>2, <2>1, OthersStay DEF Claimed
<1> QED BY <1>1, <1>2

LEMMA ClaimsBegin ==
    ASSUME NEW t \in Threads, NEW h \in Handles, TypeOK, Claimed, Moves(t), ~Busy(th[t]),
           claims' = claims \cup {h}, th'[t].h = h, Busy(th'[t]), Decoder(th'[t])
    PROVE  Claimed'
<1>1. ASSUME NEW u \in Threads, Busy(th'[u]), Decoder(th'[u]) PROVE th'[u].h \in claims'
  BY <1>1, OthersStay DEF Claimed
<1>2. ASSUME NEW k \in claims' PROVE \E u \in Threads : Busy(th'[u]) /\ Decoder(th'[u]) /\ th'[u].h = k
  <2>1. CASE k = h
    BY <2>1
  <2>2. CASE k # h
    <3>1. PICK u \in Threads : Busy(th[u]) /\ Decoder(th[u]) /\ th[u].h = k
      BY <1>2, <2>2 DEF Claimed
    <3> QED BY <3>1, OthersStay
  <2> QED BY <2>1, <2>2
<1> QED BY <1>1, <1>2 DEF Claimed

LEMMA BusyContinues ==
    ASSUME NEW t \in Threads, TypeOK, OneBusy, Claimed, Moves(t), Continues(th'[t], th[t]), claims' = claims
    PROVE  OneBusy' /\ Claimed'
<1>1. Busy(th'[t]) <=> Busy(th[t])
  BY DEF Continues, Busy
<1>2. Decoder(th'[t]) <=> Decoder(th[t])
  BY DEF Continues, Decoder
<1>3. th'[t].h = th[t].h
  BY DEF Continues
<1> QED BY <1>1, <1>2, <1>3, BusyStays, ClaimsStay

LEMMA BusyEnds ==
    ASSUME NEW t \in Threads, NEW l, TypeOK, Shapes, OneBusy, Claimed, Moves(t), Busy(th[t]),
           th'[t] = After(t, l), claims' = Unclaimed(t)
    PROVE  OneBusy' /\ Claimed'
<1>1. \/ th'[t].at \in {"out", "slots"}
      \/ th'[t].at = "lower" /\ Lowers(t) /\ Narrows(th'[t], th[t])
  BY AfterShape, Before DEF Busy
<1>2. Decoder(th[t]) => ~Busy(th'[t])
  BY <1>1 DEF Busy, Decoder
<1>3. ~Decoder(th[t]) => ~Decoder(th'[t]) \/ ~Busy(th'[t])
  BY <1>1 DEF Busy, Decoder, Narrows
<1> QED BY <1>2, <1>3, BusyStays, ClaimsEnd

\* The steps that go on.
LEMMA Continue ==
    ASSUME NEW t \in Threads, TypeOK, Shapes, Tokens,
           \/ BeginRecording(t) \/ Execute(t) \/ Signal(t) \/ PartSubmitted(t) \/ HandFails(t)
           \/ Take(t) \/ Waited(t)
    PROVE  Continues(th'[t], th[t]) /\ claims' = claims
<1> USE Before DEF Continues, TypeOK, Calls
<1>1. CASE BeginRecording(t)
  BY <1>1 DEF BeginRecording
<1>2. CASE Execute(t)
  BY <1>2 DEF Execute
<1>3. CASE Signal(t)
  BY <1>3 DEF Signal
<1>4. CASE PartSubmitted(t)
  BY <1>4 DEF PartSubmitted
<1>5. CASE HandFails(t)
  BY <1>5 DEF HandFails
<1>6. CASE Take(t)
  BY <1>6 DEF Take
<1>7. CASE Waited(t)
  BY <1>7 DEF Waited
<1> QED BY <1>1, <1>2, <1>3, <1>4, <1>5, <1>6, <1>7

LEMMA SlotBusy ==
    ASSUME NEW t \in Threads, TypeOK, Shapes, Hosts, OneBusy, Claimed, Slot(t)
    PROVE  OneBusy' /\ Claimed'
<1> DEFINE h == Head(th[t].rest)
<1>1. th[t] \in Calls /\ Shape(th[t]) /\ At(t, "slots") /\ Moves(t) /\ ~Busy(th[t])
      /\ Decoder(th[t])
  BY Before, SlotMoves DEF Slot, Busy, Shape, Decoder
<1>2. th[t].rest \in Seq(Handles) /\ th[t].rest # <<>>
  BY <1>1 DEF Calls, Shape
<1>3. h \in Handles /\ h \in NamesOf(th[t])
  BY <1>2, RestOfTail DEF NamesOf
<1> HIDE DEF h
<1>4. CASE h \notin claims /\ h \notin state
  <2>1. ASSUME NEW u \in Threads \ {t} PROVE ~Busy(th[u])
    <3>1. Apart(th[t], th[u])
      BY DEF Hosts
    <3> QED BY <1>1, <1>3, <1>4, <3>1, NoneBusy DEF Decoder
  <2>2. claims' = claims \cup {h} /\ th'[t].at = "guarded" /\ th'[t].h = h /\ th'[t].verb = th[t].verb
    BY <1>1, <1>4 DEF Slot, h, TypeOK, Calls
  <2>3. Busy(th'[t]) /\ Decoder(th'[t])
    BY <1>1, <2>2 DEF Busy, Decoder
  <2> QED BY <1>1, <1>3, <2>1, <2>2, <2>3, BusyEnters, ClaimsBegin
<1>5. CASE ~(h \notin claims /\ h \notin state)
  <2>1. claims' = claims
    BY <1>5 DEF Slot, h
  <2>2. th'[t].at \in {"out", "slots"}
    <3>1. CASE Tail(th[t].rest) = <<>>
      BY <1>5, <3>1 DEF Slot, h, TypeOK, Out
    <3>2. CASE Tail(th[t].rest) # <<>>
      BY <1>1, <1>5, <3>2 DEF Slot, h, TypeOK, Calls
    <3> QED BY <3>1, <3>2
  <2>3. ~Busy(th'[t])
    BY <2>2 DEF Busy
  <2> QED BY <1>1, <2>1, <2>3, BusyStays, ClaimsStay
<1> QED BY <1>4, <1>5

LEMMA EndBusy ==
    ASSUME NEW t \in Threads, TypeOK, Shapes, OneBusy, Claimed,
           BeginRefused(t) \/ AbandonRecording(t) \/ SignalFails(t) \/ HandOver(t)
    PROVE  OneBusy' /\ Claimed'
<1>1. CASE BeginRefused(t)
  <2>1. Busy(th[t]) /\ claims' = Unclaimed(t)
    BY <1>1, Before DEF BeginRefused, Busy, Shape, Submits
  <2> QED BY <1>1, <2>1, RefusedMoves, BusyEnds
<1>2. CASE AbandonRecording(t)
  <2>1. Busy(th[t]) /\ claims' = Unclaimed(t)
    BY <1>2, Before DEF AbandonRecording, Busy, Shape, Submits
  <2> QED BY <1>2, <2>1, AbandonMoves, BusyEnds DEF Ends
<1>3. CASE SignalFails(t)
  <2>1. Busy(th[t])
    BY <1>3, Before DEF SignalFails, Busy, Shape, Submits
  <2> QED BY <1>3, <2>1, SignalFailsIs, SignalFailsMoves, BusyContinues, BusyEnds
<1>4. CASE HandOver(t)
  <2>1. CASE th'[t].at = "out" /\ claims' = Unclaimed(t)
    <3>1. Busy(th[t]) /\ ~Busy(th'[t])
      BY <1>4, <2>1 DEF HandOver, Busy
    <3> QED BY <1>4, <2>1, <3>1, HandOverMoves, BusyStays, ClaimsEnd
  <2>2. CASE Continues(th'[t], th[t]) /\ claims' = claims
    BY <1>4, <2>2, HandOverMoves, BusyContinues
  <2> QED BY <1>4, <2>1, <2>2, HandOverIs
<1> QED BY <1>1, <1>2, <1>3, <1>4

LEMMA WaitFailsBusy ==
    ASSUME NEW t \in Threads, TypeOK, Shapes, OneBusy, Claimed, WaitFails(t)
    PROVE  OneBusy' /\ Claimed'
<1>1. th[t].then # "finish" => Busy(th[t])
  BY WaitFailsIs, Before DEF Busy, Shape, Waits
<1> QED BY <1>1, WaitFailsIs, WaitFailsMoves, BusyContinues, BusyEnds

LEMMA LandBusy ==
    ASSUME NEW t \in Threads, TypeOK, Shapes, OneBusy, Claimed, Land(t)
    PROVE  OneBusy' /\ Claimed'
<1>1. th[t].then \in {"drop", "return"} => Busy(th[t])
  BY LandIs, Before DEF Busy, Shape, Waits
<1> QED BY <1>1, LandIs, LandMoves, BusyContinues, BusyEnds DEF Ends

LEMMA LowerBusy ==
    ASSUME NEW t \in Threads, TypeOK, Shapes, OneBusy, Claimed, Lower(t)
    PROVE  OneBusy' /\ Claimed'
<1>1. th[t] \in Calls /\ Shape(th[t]) /\ At(t, "lower") /\ Moves(t) /\ Len(Lowering) = 3
  BY Before, LowerMoves DEF Lower, Lowering
<1>2. CASE th[t].down # 2
  <2>1. th[t].down + 1 # 3
    BY <1>1, <1>2 DEF Calls
  <2>2. claims' = claims /\ Goes(t, [th[t] EXCEPT !.down = th[t].down + 1])
    BY <1>1, <2>1 DEF Lower
  <2>3. Continues(th'[t], th[t])
    BY <1>1, <2>2 DEF Continues, TypeOK, Calls
  <2> QED BY <1>1, <2>2, <2>3, BusyContinues
<1>3. CASE th[t].down = 2
  <2>1. claims' = Unclaimed(t) /\ At(t, "lower")
    BY <1>1, <1>3 DEF Lower
  <2>2. PICK l : th'[t] = After(t, l)
    BY <1>3, LowerEnds
  <2>3. CASE th[t].verb # "poll"
    <3>1. Busy(th[t])
      BY <1>1, <2>3 DEF Busy
    <3> QED BY <1>1, <2>1, <2>2, <3>1, BusyEnds
  <2>4. CASE th[t].verb = "poll"
    <3>1. claims' = claims /\ ~Busy(th[t])
      BY <2>1, <2>4 DEF Unclaimed, Busy
    <3>2. ~Busy(th'[t])
      BY <1>1, <2>2, AfterShape DEF Busy
    <3> QED BY <1>1, <3>1, <3>2, BusyStays, ClaimsStay
  <2> QED BY <2>3, <2>4
<1> QED BY <1>2, <1>3

LEMMA StepBusy ==
    ASSUME NEW t \in Threads, NEW h \in Handles, TypeOK, Shapes, Hosts, OneBusy, Claimed, Step(t, h)
    PROVE  OneBusy' /\ Claimed'
<1>1. Moves(t) /\ th[t].at = "out" /\ NamesOf(th'[t]) = {h} /\ th'[t].at = "guarded"
      /\ th'[t].verb = "step" /\ th'[t].h = h
  BY StepMoves
<1>2. ~Busy(th[t]) /\ Busy(th'[t]) /\ Decoder(th'[t])
  BY <1>1 DEF Busy, Decoder
<1>3. h \notin claims /\ claims' = claims \cup {h}
  BY DEF Step
<1>4. ASSUME NEW u \in Threads \ {t} PROVE ~Busy(th[u])
  <2>1. Apart(th'[t], th[u])
    BY <1>1, StepHosts, OthersStay DEF Hosts
  <2> QED BY <1>1, <1>2, <1>3, <2>1, NoneBusy
<1> QED BY <1>1, <1>2, <1>3, <1>4, BusyEnters, ClaimsBegin

LEMMA BlockBusy ==
    ASSUME NEW t \in Threads, NEW N, TypeOK, OneBusy, Claimed, Moves(t), MayBlock(t, N), th[t].at = "out",
           ~Decoder(th'[t]), claims' = claims
    PROVE  OneBusy' /\ Claimed'
<1>1. ~Busy(th[t])
  BY DEF Busy
<1> QED BY <1>1, BlockAlone, BusyEnters, ClaimsStay

LEMMA BusyKept ==
    ASSUME NEW t \in Threads, TypeOK, Shapes, Hosts, OneBusy, Claimed, Tokens,
           Call(t) \/ InCall(t) \/ WaitFails(t)
    PROVE  OneBusy' /\ Claimed'
<1>1. ASSUME NEW h \in Handles, Step(t, h) PROVE OneBusy' /\ Claimed'
  BY <1>1, StepBusy
<1>2. ASSUME NEW hs \in Batches, Batch(t, hs) PROVE OneBusy' /\ Claimed'
  <2>1. Moves(t) /\ ~Busy(th[t]) /\ ~Busy(th'[t]) /\ claims' = claims
    BY <1>2, BatchMoves DEF Busy, Batch
  <2> QED BY <2>1, BusyStays, ClaimsStay
<1>3. ASSUME NEW h \in Handles, NEW n \in Parts, Prefill(t, h, n) PROVE OneBusy' /\ Claimed'
  <2>1. MayBlock(t, {h}) /\ claims' = claims /\ Moves(t) /\ th[t].at = "out" /\ ~Decoder(th'[t])
    BY <1>3, PrefillMoves DEF Prefill, Decoder
  <2> QED BY <2>1, BlockBusy
<1>4. ASSUME NEW h \in Handles, Poll(t, h) PROVE OneBusy' /\ Claimed'
  <2>1. Moves(t) /\ ~Busy(th[t]) /\ ~Busy(th'[t]) /\ claims' = claims
    BY <1>4, PollMoves DEF Busy, Poll
  <2> QED BY <2>1, BusyStays, ClaimsStay
<1>5. ASSUME NEW h \in Handles, Ready(t, h) PROVE OneBusy' /\ Claimed'
  <2>1. MayBlock(t, {h}) /\ claims' = claims /\ Moves(t) /\ th[t].at = "out" /\ ~Decoder(th'[t])
    BY <1>5, ReadyMoves DEF Ready, Decoder
  <2> QED BY <2>1, BlockBusy
<1>6. ASSUME Drain(t) PROVE OneBusy' /\ Claimed'
  <2>1. MayBlock(t, {}) /\ claims' = claims /\ Moves(t) /\ th[t].at = "out" /\ ~Decoder(th'[t])
    BY <1>6, DrainMoves DEF Drain, Decoder
  <2> QED BY <2>1, BlockBusy
<1>7. ASSUME InCall(t) \/ WaitFails(t) PROVE OneBusy' /\ Claimed'
  <2>1. Moves(t)
    BY <1>7, InCallMoves
  <2> QED BY <1>7, <2>1, Continue, BusyContinues, SlotBusy, EndBusy, WaitFailsBusy, LandBusy, LowerBusy DEF InCall
<1> QED BY <1>1, <1>2, <1>3, <1>4, <1>5, <1>6, <1>7 DEF Call
-----------------------------------------------------------------------------
(* The ledger, the fence and the queue. *)

\* A thread that submits is busy, and so the only one.
LEMMA SubmitterBusy ==
    ASSUME NEW t \in Threads, Shapes, Submits(th[t]) PROVE Busy(th[t])
BY DEF Shapes, Shape, Submits, Busy

\* What a step that neither executes nor signals does to the ledger and the queue.
LedgerSteady ==
    /\ unsignaled' = unsignaled /\ submitted' = submitted /\ queue' = queue /\ completed' = completed
    /\ fence' \in Nat /\ fence <= fence' /\ lost' \in BOOLEAN /\ (lost => lost')
    /\ observed' \in Nat /\ observed <= observed' /\ observed' <= completed'
    
LEMMA LandLedger ==
    ASSUME NEW t \in Threads, TypeOK, Ordered, Times, Land(t)
    PROVE  /\ UNCHANGED <<submitted, unsignaled, lost, device>>
           /\ observed' \in Nat /\ observed <= observed' /\ observed' <= completed
           /\ ~Again(t) => th[t].v <= observed'
<1>1. th[t] \in Calls /\ th[t].at = "land"
  BY DEF TypeOK, Land
<1>2. th[t].v \in Nat /\ th[t].cur \in Nat /\ th[t].v <= completed /\ th[t].cur <= observed
  BY <1>1 DEF Times, Timed, Calls
<1>3. observed' = IF th[t].v > th[t].cur /\ ~Again(t) THEN th[t].v ELSE observed
  BY DEF Land, Again, Exchanged
<1>4. UNCHANGED <<submitted, unsignaled, lost, device>>
  BY DEF Land
<1> QED BY <1>2, <1>3, <1>4 DEF TypeOK, Ordered, Again

LEMMA Steady ==
    ASSUME NEW t \in Threads, TypeOK, Ordered, Times, Call(t) \/ InCall(t) \/ WaitFails(t),
           ~Execute(t), ~Signal(t)
    PROVE  LedgerSteady
<1> USE DEF LedgerSteady, TypeOK, Ordered
<1>1. CASE UNCHANGED <<ledger, device>>
  BY <1>1
<1>2. CASE Land(t)
  BY <1>2, LandLedger
<1>3. CASE SignalFails(t)
  BY <1>3 DEF SignalFails
<1>4. CASE WaitFails(t)
  BY <1>4 DEF WaitFails
<1>5. ASSUME Call(t) PROVE UNCHANGED <<ledger, device>>
  BY <1>5 DEF Call, Step, Batch, Prefill, Poll, Ready, Drain
<1>6. ASSUME InCall(t), ~Land(t), ~SignalFails(t) PROVE UNCHANGED <<ledger, device>>
  BY <1>6 DEF InCall, Slot, BeginRefused, BeginRecording, AbandonRecording, HandOver, PartSubmitted,
              HandFails, Take, Waited, Lower
<1> QED BY <1>1, <1>2, <1>3, <1>4, <1>5, <1>6

LEMMA SteadyOrdered == ASSUME TypeOK, Ordered, LedgerSteady PROVE Ordered'
BY DEF Ordered, TypeOK, LedgerSteady

\* A queue's items after one more, and after the first is gone.
LEMMA OneMore ==
    ASSUME NEW q \in Seq(Items), NEW x \in Items, NEW r, r = Append(q, x)
    PROVE  /\ r \in Seq(Items) /\ DOMAIN q = 1..Len(q) /\ Len(q) \in Nat
           /\ DOMAIN r = 1..(Len(q) + 1) /\ r[Len(q) + 1] = x
           /\ \A i \in 1..Len(q) : r[i] = q[i]
OBVIOUS

LEMMA FirstGone ==
    ASSUME NEW q \in Seq(Items), q # <<>>, NEW r, r = Tail(q)
    PROVE  /\ r \in Seq(Items) /\ Len(q) \in Nat \ {0} /\ DOMAIN q = 1..Len(q) /\ q[1] \in Items
           /\ Head(q) = q[1] /\ DOMAIN r = 1..(Len(q) - 1)
           /\ \A i \in 1..(Len(q) - 1) : r[i] = q[i + 1]
OBVIOUS

LEMMA ItemOf ==
    ASSUME TypeOK, NEW i \in DOMAIN queue
    PROVE  queue[i] \in Items /\ queue[i].id \in Nat /\ queue[i].sort \in {"work", "signal"}
<1>1. queue \in Seq(Items)
  BY DEF TypeOK
<1>2. queue[i] \in Items
  BY <1>1
<1> QED BY <1>2 DEF Items

LEMMA ExecuteOrdered ==
    ASSUME NEW t \in Threads, TypeOK, Ordered, Execute(t)
    PROVE  Ordered'
<1> DEFINE x == [sort |-> "work", id |-> fence + 1]
           n == Len(queue)
<1>1. x \in Items /\ x.sort = "work"
  BY DEF Items, TypeOK
<1>2. queue' = Append(queue, x) /\ unsignaled' = TRUE /\ UNCHANGED <<submitted, observed, fence, completed>>
  BY DEF Execute
<1> HIDE DEF x
<1>3. /\ DOMAIN queue = 1..n /\ n \in Nat /\ DOMAIN queue' = 1..(n + 1)
      /\ queue'[n + 1] = x /\ \A i \in 1..n : queue'[i] = queue[i]
  BY <1>1, <1>2, OneMore DEF TypeOK
<1>4. ASSUME NEW i \in DOMAIN queue', queue'[i].sort = "signal"
      PROVE  i \in DOMAIN queue /\ queue'[i] = queue[i]
  BY <1>1, <1>3, <1>4
<1>5. \A i \in DOMAIN queue' : queue'[i].sort = "signal" =>
         completed' < queue'[i].id /\ queue'[i].id <= submitted'
  BY <1>2, <1>4 DEF Ordered
<1>6. \A i, j \in DOMAIN queue' :
         i < j /\ queue'[i].sort = "signal" /\ queue'[j].sort = "signal" => queue'[i].id < queue'[j].id
  BY <1>4 DEF Ordered
<1>7. observed' <= completed' /\ completed' <= submitted' /\ submitted' <= fence'
  BY <1>2 DEF Ordered
<1> QED BY <1>2, <1>5, <1>6, <1>7 DEF Ordered

LEMMA SignalOrdered ==
    ASSUME NEW t \in Threads, TypeOK, Ordered, Signal(t)
    PROVE  Ordered'
<1> DEFINE x == [sort |-> "signal", id |-> fence']
           n == Len(queue)
<1>2. queue' = Append(queue, x) /\ unsignaled' = FALSE /\ submitted' = fence' /\ fence' = fence + 1
      /\ UNCHANGED <<observed, completed>>
  BY DEF Signal
<1>1. x \in Items /\ x.sort = "signal" /\ x.id = fence + 1
  BY <1>2 DEF Items, TypeOK
<1> HIDE DEF x
<1>3. /\ DOMAIN queue = 1..n /\ n \in Nat /\ DOMAIN queue' = 1..(n + 1)
      /\ queue'[n + 1] = x /\ \A i \in 1..n : queue'[i] = queue[i]
  BY <1>1, <1>2, OneMore DEF TypeOK
<1>4. ASSUME NEW i \in 1..n PROVE queue[i] \in Items /\ queue[i].id \in Nat
  BY <1>3, <1>4, ItemOf
<1>5. ASSUME NEW i \in DOMAIN queue', queue'[i].sort = "signal"
      PROVE  completed' < queue'[i].id /\ queue'[i].id <= submitted'
  <2>1. CASE i = n + 1
    BY <1>1, <1>2, <1>3, <2>1 DEF Ordered, TypeOK
  <2>2. CASE i # n + 1
    <3>1. i \in 1..n /\ queue'[i] = queue[i]
      BY <1>3, <2>2
    <3>2. completed < queue[i].id /\ queue[i].id <= submitted
      BY <1>3, <1>5, <3>1 DEF Ordered
    <3> QED BY <1>2, <1>4, <3>1, <3>2 DEF Ordered, TypeOK
  <2> QED BY <2>1, <2>2
<1>6. ASSUME NEW i \in DOMAIN queue', NEW j \in DOMAIN queue',
             i < j, queue'[i].sort = "signal", queue'[j].sort = "signal"
      PROVE  queue'[i].id < queue'[j].id
  <2>1. i \in 1..n /\ queue'[i] = queue[i]
    BY <1>3, <1>6
  <2>2. CASE j = n + 1
    <3>1. queue[i].id <= submitted
      BY <1>3, <1>6, <2>1 DEF Ordered
    <3> QED BY <1>1, <1>2, <1>3, <1>4, <2>1, <2>2, <3>1 DEF Ordered, TypeOK
  <2>3. CASE j # n + 1
    <3>1. j \in 1..n /\ queue'[j] = queue[j]
      BY <1>3, <2>3
    <3> QED BY <1>3, <1>6, <2>1, <3>1 DEF Ordered
  <2> QED BY <2>2, <2>3
<1>7. observed' <= completed' /\ completed' <= submitted' /\ submitted' <= fence'
  BY <1>2 DEF Ordered, TypeOK
<1>8. ASSUME NEW i \in DOMAIN queue', queue'[i].sort = "work"
      PROVE  \E j \in DOMAIN queue' : i < j /\ queue'[j].sort = "signal"
  <2>1. i < n + 1 /\ n + 1 \in DOMAIN queue' /\ queue'[n + 1].sort = "signal"
    BY <1>1, <1>3, <1>8
  <2> QED BY <2>1
<1> QED BY <1>5, <1>6, <1>7, <1>8 DEF Ordered

LEMMA DeviceOrdered ==
    ASSUME TypeOK, Ordered, Device
    PROVE  Ordered' /\ completed' \in Nat /\ completed <= completed'
<1> DEFINE n == Len(queue)
           x == queue[1]
<1>1. queue # <<>> /\ queue' = Tail(queue) /\ UNCHANGED <<ledger, fence>>
      /\ completed' = IF Head(queue).sort = "signal" THEN Head(queue).id ELSE completed
  BY DEF Device
<1>2. /\ n \in Nat \ {0} /\ DOMAIN queue = 1..n /\ Head(queue) = x /\ x \in Items
      /\ DOMAIN queue' = 1..(n - 1) /\ \A i \in 1..(n - 1) : queue'[i] = queue[i + 1]
  BY <1>1, FirstGone DEF TypeOK
<1>3. ASSUME NEW i \in DOMAIN queue'
      PROVE  i + 1 \in DOMAIN queue /\ 1 \in DOMAIN queue /\ queue'[i] = queue[i + 1] /\ 1 < i + 1
             /\ queue[i + 1].id \in Nat
  <2>1. i + 1 \in 1..n /\ 1 \in 1..n /\ queue'[i] = queue[i + 1] /\ 1 < i + 1
    BY <1>2
  <2> QED BY <2>1, <1>2, ItemOf
<1>4. x.id \in Nat /\ 1 \in DOMAIN queue
  BY <1>2 DEF Items
<1>5. completed' \in Nat /\ completed <= completed' /\ completed' <= submitted
  BY <1>1, <1>2, <1>4 DEF TypeOK, Ordered
<1>6. ASSUME NEW i \in DOMAIN queue', queue'[i].sort = "signal"
      PROVE  completed' < queue'[i].id /\ queue'[i].id <= submitted'
  BY <1>1, <1>2, <1>3, <1>4, <1>6 DEF Ordered, TypeOK
<1>7. ASSUME NEW i \in DOMAIN queue', NEW j \in DOMAIN queue',
             i < j, queue'[i].sort = "signal", queue'[j].sort = "signal"
      PROVE  queue'[i].id < queue'[j].id
  <2>1. i + 1 < j + 1
    BY <1>2, <1>7
  <2> QED BY <1>3, <1>7, <2>1 DEF Ordered
<1>8. ASSUME ~unsignaled', NEW i \in DOMAIN queue', queue'[i].sort = "work"
      PROVE  \E j \in DOMAIN queue' : i < j /\ queue'[j].sort = "signal"
  <2>1. PICK k \in DOMAIN queue : i + 1 < k /\ queue[k].sort = "signal"
    BY <1>1, <1>3, <1>8 DEF Ordered
  <2>2. k - 1 \in DOMAIN queue' /\ i < k - 1 /\ queue'[k - 1] = queue[k]
    BY <1>2, <2>1
  <2> QED BY <2>1, <2>2
<1>9. observed' <= completed' /\ completed' <= submitted' /\ submitted' <= fence'
  BY <1>1, <1>5 DEF Ordered, TypeOK
<1> QED BY <1>5, <1>6, <1>7, <1>8, <1>9 DEF Ordered

\* A call that neither waits nor holds work.
Quiet(r) == r.at \notin {"hand", "wait", "land"} /\ r.work = NoWork

LEMMA QuietTimed == ASSUME NEW r, Quiet(r), NEW su, NEW ob, NEW co, NEW fe PROVE Timed(r, su, ob, co, fe)
BY DEF Timed, Quiet, Signaled

LEMMA QuietAfter ==
    ASSUME NEW t \in Threads, TypeOK, Shapes, NEW l, th[t].at \notin {"out", "slots"}
    PROVE  Quiet(After(t, l))
BY Before, AfterShape DEF Quiet

LEMMA QuietShape ==
    ASSUME NEW r, Shape(r), r.at \in {"out", "slots", "guarded", "recording", "take", "lower"}
    PROVE  Quiet(r)
BY DEF Shape, Quiet, Holds, Waits

LEMMA QuietSteps ==
    ASSUME NEW t \in Threads, TypeOK, Shapes, Tokens,
           \/ Slot(t) \/ BeginRefused(t) \/ BeginRecording(t) \/ AbandonRecording(t) \/ HandOver(t) \/ Lower(t)
           \/ \E h \in Handles : Step(t, h) \/ Ready(t, h)
           \/ \E hs \in Batches : Batch(t, hs)
           \/ \E h \in Handles, n \in Parts : Prefill(t, h, n)
    PROVE  Quiet(th'[t])
<1>1. CASE Slot(t)
  <2>1. Shape(th'[t]) /\ th'[t].at \in {"out", "slots", "guarded"}
    BY <1>1, SlotMoves DEF Slot, Moves, TypeOK, Out, Calls
  <2> QED BY <2>1, QuietShape
<1>2. CASE BeginRefused(t)
  BY <1>2, RefusedMoves, QuietAfter DEF BeginRefused
<1>3. CASE AbandonRecording(t)
  BY <1>3, AbandonMoves, QuietAfter DEF AbandonRecording, Ends
<1>4. CASE BeginRecording(t)
  <2>1. Shape(th'[t]) /\ th'[t].at = "recording"
    BY <1>4, BeginMoves DEF BeginRecording, Moves, TypeOK, Calls
  <2> QED BY <2>1, QuietShape
<1>5. CASE HandOver(t)
  <2>1. Shape(th'[t]) /\ th'[t].at \in {"out", "take"}
    BY <1>5, HandOverIs, HandOverMoves DEF Moves
  <2> QED BY <2>1, QuietShape
<1>6. CASE Lower(t) /\ th[t].down = 2
  <2>1. At(t, "lower") /\ \E l : th'[t] = After(t, l)
    BY <1>6, LowerEnds DEF Lower
  <2> QED BY <2>1, QuietAfter
<1>7. CASE Lower(t) /\ th[t].down # 2
  <2>1. At(t, "lower") /\ th[t] \in Calls
    BY <1>7, Before DEF Lower
  <2>2. th[t].down + 1 # Len(Lowering)
    BY <1>7, <2>1 DEF Lowering, Calls
  <2>3. Goes(t, [th[t] EXCEPT !.down = th[t].down + 1])
    BY <1>7, <2>2 DEF Lower
  <2>4. th'[t] = [th[t] EXCEPT !.down = th[t].down + 1]
    BY <2>3 DEF Goes, TypeOK
  <2>5. th'[t].at = "lower"
    BY <2>1, <2>4 DEF Calls
  <2>6. Shape(th'[t])
    BY <1>7, LowerMoves DEF Moves
  <2> QED BY <2>5, <2>6, QuietShape
<1>8. ASSUME NEW h \in Handles, Step(t, h) \/ Ready(t, h) PROVE Quiet(th'[t])
  BY <1>8, StepMoves, ReadyMoves DEF Quiet
<1>9. ASSUME NEW hs \in Batches, Batch(t, hs) PROVE Quiet(th'[t])
  BY <1>9, BatchMoves DEF Quiet
<1>10. ASSUME NEW h \in Handles, NEW n \in Parts, Prefill(t, h, n) PROVE Quiet(th'[t])
  BY <1>10, PrefillMoves DEF Quiet
<1> QED BY <1>1, <1>2, <1>3, <1>4, <1>5, <1>6, <1>7, <1>8, <1>9, <1>10

\* The steps that leave what is waited for and the work alone.
LEMMA SameWork ==
    ASSUME NEW t \in Threads, TypeOK, Shapes, PartSubmitted(t) \/ HandFails(t) \/ Waited(t)
    PROVE  /\ Signaled(th'[t]) /\ Signaled(th[t]) /\ th'[t].work = th[t].work /\ th'[t].v = th[t].v
           /\ th'[t].at = "land" => completed >= th[t].v /\ th'[t].cur = observed
           /\ th'[t].at \in {"wait", "land"}
<1>1. CASE PartSubmitted(t)
  BY <1>1, Before DEF PartSubmitted, TypeOK, Calls, Signaled
<1>2. CASE HandFails(t)
  BY <1>2, Before DEF HandFails, TypeOK, Calls, Signaled
<1>3. CASE Waited(t)
  BY <1>3, Before DEF Waited, TypeOK, Calls, Signaled
<1> QED BY <1>1, <1>2, <1>3

\* The steps that make, signal and hand on work.
LEMMA ExecuteMakes ==
    ASSUME NEW t \in Threads, TypeOK, Execute(t)
    PROVE  th'[t].at = "signal" /\ th'[t].work = [id |-> fence + 1, v |-> 0]
BY Before DEF Execute, TypeOK, Calls

LEMMA SignalMakes ==
    ASSUME NEW t \in Threads, TypeOK, Shapes, Signal(t)
    PROVE  /\ th[t].work \in Works /\ th'[t].at \in {"hand", "wait"} /\ th'[t].then = "drop"
           /\ th'[t].v = fence' /\ th'[t].work \in Works
           /\ th'[t].work.id = th[t].work.id /\ th'[t].work.v = fence'
<1>1. th[t] \in Calls /\ Shape(th[t]) /\ th[t].at \in {"signal", "retry"} /\ fence' \in Nat
  BY Before DEF Signal, TypeOK
<1>2. th[t].work \in Works
  BY <1>1 DEF Shape, Holds, Calls
<1>3. /\ th'[t].at \in {"hand", "wait"} /\ th'[t].then = "drop" /\ th'[t].v = fence'
      /\ th'[t].work = [th[t].work EXCEPT !.v = fence']
  BY <1>1 DEF Signal, TypeOK, Calls
<1>4. [th[t].work EXCEPT !.v = fence'] \in Works
  BY <1>1, <1>2 DEF Works
<1> QED BY <1>2, <1>3, <1>4 DEF Works

LEMMA RetryMakes ==
    ASSUME NEW t \in Threads, TypeOK, Shapes, SignalFails(t)
    PROVE  \/ /\ th[t].at = "signal" /\ th'[t].at = "retry" /\ th'[t].work = th[t].work
              /\ graveyard' = graveyard
           \/ th[t].at = "retry" /\ Quiet(th'[t]) /\ graveyard' = Kept(th[t].work)
BY SignalFailsIs, QuietAfter

LEMMA WaitFailsMakes ==
    ASSUME NEW t \in Threads, TypeOK, Shapes, WaitFails(t)
    PROVE  Quiet(th'[t])
BY WaitFailsIs, QuietAfter DEF Quiet

LEMMA TakeMakes ==
    ASSUME NEW t \in Threads, TypeOK, Shapes, Tokens, Take(t)
    PROVE  /\ th[t].h \in Handles /\ token[th[t].h] \in Works /\ token' = [token EXCEPT ![th[t].h] = NoWork]
           /\ th'[t].at = "wait" /\ th'[t].then = "finish"
           /\ th'[t].work = token[th[t].h] /\ th'[t].v = token[th[t].h].v
<1>1. th[t] \in Calls /\ Shape(th[t]) /\ At(t, "take")
  BY Before DEF Take
<1>2. th[t].h \in Handles /\ token[th[t].h] \in Works
  BY <1>1 DEF Shape, Calls, Tokens, Taking, TypeOK
<1> QED BY <1>1, <1>2 DEF Take, TypeOK, Calls

LEMMA LandMakes ==
    ASSUME NEW t \in Threads, TypeOK, Shapes, Land(t)
    PROVE  \/ /\ Again(t) /\ th'[t].at = "land" /\ th'[t].work = th[t].work /\ th'[t].v = th[t].v
              /\ th'[t].cur = observed /\ observed' = observed
              /\ th'[t].then = th[t].then
           \/ ~Again(t) /\ Quiet(th'[t])
<1>1. th'[t].at \in {"take", "lower", "guarded"} => Quiet(th'[t])
  BY LandMoves, QuietShape DEF Moves
<1> QED BY <1>1, LandIs, QuietAfter DEF Ends

\* Where a step may leave its thread.
LEMMA EndsAt ==
    ASSUME NEW t \in Threads, TypeOK, Shapes, NEW l, th[t].at \notin {"out", "slots"}
    PROVE  After(t, l).at \in {"out", "slots", "lower"}
BY Before, AfterShape

LEMMA ToRecording ==
    ASSUME NEW t \in Threads, TypeOK, Shapes, Tokens, Call(t) \/ InCall(t) \/ WaitFails(t)
    PROVE  /\ th'[t].at = "recording" => BeginRecording(t)
           /\ th'[t].at \in {"signal", "retry"} => Execute(t) \/ (SignalFails(t) /\ th[t].at = "signal")
<1>1. CASE Slot(t)
  <2>1. th'[t].at \in {"out", "slots", "guarded"}
    BY <1>1, Before DEF Slot, TypeOK, Out, Calls
  <2> QED BY <2>1
<1>2. CASE BeginRefused(t) \/ AbandonRecording(t)
  BY <1>2, RefusedMoves, AbandonMoves, EndsAt DEF BeginRefused, AbandonRecording, Ends
<1>3. CASE BeginRecording(t)
  BY <1>3, Before DEF BeginRecording, TypeOK, Calls
<1>4. CASE Execute(t)
  BY <1>4, ExecuteMakes
<1>5. CASE Signal(t)
  BY <1>5, SignalMakes
<1>6. CASE SignalFails(t)
  BY <1>6, SignalFailsIs, EndsAt
<1>7. CASE HandOver(t)
  BY <1>7, HandOverIs
<1>8. CASE PartSubmitted(t) \/ HandFails(t) \/ Waited(t)
  BY <1>8, SameWork
<1>9. CASE Take(t)
  BY <1>9, TakeMakes
<1>10. CASE Land(t)
  BY <1>10, LandIs, EndsAt DEF Ends
<1>11. CASE Lower(t)
  <2>1. CASE th[t].down = 2
    <3>1. At(t, "lower") /\ \E l : th'[t] = After(t, l)
      BY <1>11, <2>1, LowerEnds DEF Lower
    <3> QED BY <3>1, EndsAt
  <2>2. CASE th[t].down # 2
    <3>1. th[t].down + 1 # Len(Lowering)
      BY <2>2, Before DEF Lowering, Calls
    <3> QED BY <1>11, <3>1, Before DEF Lower, TypeOK, Calls
  <2> QED BY <2>1, <2>2
<1>12. CASE WaitFails(t)
  BY <1>12, WaitFailsIs, EndsAt
<1>13. CASE Call(t)
  BY <1>13, StepMoves, BatchMoves, PrefillMoves, PollMoves, ReadyMoves, DrainMoves DEF Call
<1> QED BY <1>1, <1>2, <1>3, <1>4, <1>5, <1>6, <1>7, <1>8, <1>9, <1>10, <1>11, <1>12, <1>13 DEF InCall
-----------------------------------------------------------------------------
(* Values are of the past; a recording has everything observed. *)

TokenTimes(tok, su, fe) ==
    \A h \in Handles : tok[h] # NoWork => tok[h].v <= su /\ tok[h].id <= fe

LEMMA TimesOf ==
    ASSUME NEW t \in Threads, TypeOK, Times, Moves(t),
           submitted' \in Nat, observed' \in Nat, completed' \in Nat, fence' \in Nat,
           submitted <= submitted', observed <= observed', completed <= completed', fence <= fence',
           Timed(th'[t], submitted', observed', completed', fence'),
           TokenTimes(token', submitted', fence')
    PROVE  Times'
<1>1. ASSUME NEW u \in Threads PROVE Timed(th'[u], submitted', observed', completed', fence')
  <2>1. CASE u = t
    BY <2>1
  <2>2. CASE u # t
    <3>1. th'[u] = th[u] /\ th[u] \in Calls /\ Timed(th[u], submitted, observed, completed, fence)
      BY <2>2, OthersStay DEF Times, TypeOK
    <3>2. th[u].v \in Nat /\ th[u].cur \in Nat /\ (th[u].work # NoWork => th[u].work.id \in Nat)
      BY <3>1 DEF Calls, Works
    <3> QED BY <3>1, <3>2 DEF Timed, TypeOK
  <2> QED BY <2>1, <2>2
<1> QED BY <1>1 DEF Times, TokenTimes

LEMMA TokensOld ==
    ASSUME TypeOK, Times, submitted' \in Nat, fence' \in Nat, submitted <= submitted', fence <= fence'
    PROVE  TokenTimes(token, submitted', fence')
<1>1. ASSUME NEW h \in Handles, token[h] # NoWork PROVE token[h].v \in Nat /\ token[h].id \in Nat
  BY <1>1 DEF TypeOK, Works
<1> QED BY <1>1 DEF Times, TypeOK, TokenTimes

\* The token's changes: a hand-over fills it, a finish empties it.
LEMMA TokenSteps ==
    ASSUME NEW t \in Threads, Call(t) \/ InCall(t) \/ WaitFails(t), ~HandOver(t), ~Take(t)
    PROVE  token' = token
<1>1. CASE Call(t)
  BY <1>1 DEF Call, Step, Batch, Prefill, Poll, Ready, Drain
<1>2. CASE WaitFails(t)
  BY <1>2 DEF WaitFails
<1>3. CASE InCall(t)
  BY <1>3 DEF InCall, Slot, BeginRefused, BeginRecording, AbandonRecording, Execute, Signal, SignalFails,
              PartSubmitted, HandFails, Waited, Land, Lower
<1> QED BY <1>1, <1>2, <1>3

LEMMA HandOverToken ==
    ASSUME NEW t \in Threads, TypeOK, Shapes, HandOver(t)
    PROVE  /\ th[t].h \in Handles /\ th[t].work \in Works /\ th[t].work.v = th[t].v
           /\ token' = [token EXCEPT ![th[t].h] = th[t].work]
           /\ Raise(th[t].h) /\ Signaled(th[t])
<1>1. th[t] \in Calls /\ Shape(th[t]) /\ At(t, "hand") /\ Decodes(t)
  BY Before DEF HandOver
<1>2. th[t].h # NoWork /\ th[t].work # NoWork /\ th[t].work.v = th[t].v /\ Signaled(th[t])
  BY <1>1 DEF Shape, Holds, Signaled
<1> QED BY <1>1, <1>2 DEF HandOver, Calls

LEMMA TokenTimesKept ==
    ASSUME NEW t \in Threads, TypeOK, Shapes, Tokens, Times, Call(t) \/ InCall(t) \/ WaitFails(t),
           submitted' \in Nat, fence' \in Nat, submitted <= submitted', fence <= fence'
    PROVE  TokenTimes(token', submitted', fence')
<1>1. CASE HandOver(t)
  <2>1. th[t].work.v <= submitted /\ th[t].work.id <= fence /\ th[t].work.v \in Nat /\ th[t].work.id \in Nat
    <3>1. Timed(th[t], submitted, observed, completed, fence) /\ At(t, "hand")
      BY <1>1 DEF Times, HandOver
    <3>2. th[t].work \in Works
      BY <1>1, HandOverToken
    <3>3. th[t].work # NoWork
      BY <3>2, NoWorkIsNone
    <3> QED BY <1>1, <3>1, <3>2, <3>3, HandOverToken DEF Timed, Works
  <2>2. \A h \in Handles : token'[h] = IF h = th[t].h THEN th[t].work ELSE token[h]
    BY <1>1, HandOverToken DEF TypeOK
  <2> QED BY <2>1, <2>2, TokensOld DEF TokenTimes, TypeOK
<1>2. CASE Take(t)
  <2>1. \A h \in Handles : token'[h] # NoWork => token'[h] = token[h]
    BY <1>2, TakeMakes DEF TypeOK
  <2> QED BY <2>1, TokensOld DEF TokenTimes
<1>3. CASE ~HandOver(t) /\ ~Take(t)
  BY <1>3, TokenSteps, TokensOld
<1> QED BY <1>1, <1>2, <1>3

\* What the thread that steps knows of the values.
LEMMA TimedKept ==
    ASSUME NEW t \in Threads, TypeOK, Shapes, Tokens, Ordered, Times,
           Call(t) \/ InCall(t) \/ WaitFails(t)
    PROVE  Timed(th'[t], submitted', observed', completed', fence')
<1>1. th[t] \in Calls /\ Timed(th[t], submitted, observed, completed, fence)
      /\ th[t].v \in Nat /\ th[t].cur \in Nat /\ (th[t].work # NoWork => th[t].work.id \in Nat)
  BY Before DEF Times, Calls, Works
<1>2. CASE Quiet(th'[t])
  BY <1>2, QuietTimed
<1>3. CASE PartSubmitted(t) \/ HandFails(t) \/ Waited(t)
  <2>1. UNCHANGED <<submitted, observed, completed, fence>>
    BY <1>3 DEF PartSubmitted, HandFails, Waited
  <2> QED BY <1>1, <1>3, <2>1, SameWork DEF Timed, TypeOK, Signaled
<1>4. CASE Execute(t)
  <2>2. [id |-> fence + 1, v |-> 0].id = fence + 1
    OBVIOUS
  <2>1. th'[t].at = "signal" /\ th'[t].work.id = fence + 1 /\ fence' = fence
    BY <1>4, <2>2, ExecuteMakes DEF Execute
  <2> QED BY <2>1 DEF Timed, Signaled, TypeOK
<1>5. CASE Signal(t)
  <2>1. fence' = fence + 1 /\ submitted' = fence' /\ th[t].at \in {"signal", "retry"}
    BY <1>5 DEF Signal
  <2>2. th[t].work # NoWork /\ th[t].work.id \in Nat
    BY <1>5, SignalMakes, NoWorkIsNone DEF Works
  <2> QED BY <1>1, <1>5, <2>1, <2>2, SignalMakes DEF Timed, TypeOK
<1>6. CASE SignalFails(t)
  <2>1. fence' = fence + 1
    BY <1>6 DEF SignalFails
  <2>2. CASE th'[t].at = "retry" /\ th[t].at = "signal" /\ th'[t].work = th[t].work
    BY <1>1, <2>1, <2>2 DEF Timed, TypeOK, Signaled
  <2> QED BY <1>2, <1>6, <2>2, RetryMakes
<1>7. CASE Take(t)
  <2>1. UNCHANGED <<submitted, fence>>
    BY <1>7 DEF Take
  <2>2. token[th[t].h] # NoWork
    BY <1>7, TakeMakes, NoWorkIsNone
  <2>3. token[th[t].h].v <= submitted /\ token[th[t].h].id <= fence
    BY <1>7, <2>2, TakeMakes DEF Times
  <2> QED BY <1>7, <2>1, <2>3, TakeMakes DEF Timed
<1>8. CASE Land(t)
  <2>1. UNCHANGED <<submitted, completed, fence>>
    BY <1>8 DEF Land
  <2>2. CASE th'[t].at = "land" /\ th'[t].work = th[t].work /\ th'[t].v = th[t].v
              /\ th'[t].cur = observed /\ observed' = observed
    BY <1>1, <1>8, <2>1, <2>2 DEF Timed, TypeOK, Signaled, Land
  <2> QED BY <1>2, <1>8, <2>2, LandMakes
<1>9. CASE WaitFails(t)
  BY <1>2, <1>9, WaitFailsMakes
<1>10. ASSUME NEW h \in Handles, Poll(t, h) PROVE Timed(th'[t], submitted', observed', completed', fence')
  <2>1. UNCHANGED <<submitted, observed, completed, fence>> /\ completed >= token[h].v
    BY <1>10 DEF Poll
  <2>2. token[h].v \in Nat
    BY <1>10, PollFinds DEF Works
  <2> QED BY <1>10, <2>1, <2>2, PollMoves DEF Timed, TypeOK, Ordered, Signaled
<1>11. CASE Drain(t)
  <2>1. UNCHANGED <<submitted, observed, completed, fence>>
    BY <1>11 DEF Drain
  <2> QED BY <1>11, <2>1, DrainMoves DEF Timed, TypeOK
<1> QED BY <1>2, <1>3, <1>4, <1>5, <1>6, <1>7, <1>8, <1>9, <1>10, <1>11, QuietSteps DEF InCall, Call

\* Every step's effect on the values.
LEMMA Grows ==
    ASSUME NEW t \in Threads, TypeOK, Ordered, Times, Call(t) \/ InCall(t) \/ WaitFails(t)
    PROVE  /\ submitted' \in Nat /\ observed' \in Nat /\ completed' \in Nat /\ fence' \in Nat
           /\ submitted <= submitted' /\ observed <= observed' /\ completed <= completed' /\ fence <= fence'
<1>1. CASE Execute(t)
  BY <1>1 DEF Execute, TypeOK
<1>2. CASE Signal(t)
  BY <1>2 DEF Signal, TypeOK, Ordered
<1>3. CASE ~Execute(t) /\ ~Signal(t)
  BY <1>3, Steady DEF LedgerSteady, TypeOK
<1> QED BY <1>1, <1>2, <1>3

LEMMA TimesKept ==
    ASSUME NEW t \in Threads, TypeOK, Shapes, Tokens, Ordered, Times, Call(t) \/ InCall(t) \/ WaitFails(t)
    PROVE  Times' /\ Ordered'
<1>1. Times'
  BY ThreadsMove, TimedKept, TokenTimesKept, Grows, TimesOf
<1>2. Ordered'
  BY Steady, SteadyOrdered, ExecuteOrdered, SignalOrdered
<1> QED BY <1>1, <1>2

\* At a recording's begin all is observed, and until its end only its own call submits.
LEMMA RecordingsKept ==
    ASSUME NEW t \in Threads, TypeOK, Shapes, Tokens, OneBusy, Ordered, Times, Recordings,
           Call(t) \/ InCall(t) \/ WaitFails(t)
    PROVE  Recordings'
<1>1. ASSUME NEW u \in Threads, u # t, At(u, "recording")
      PROVE  ~unsignaled' /\ observed' = submitted'
  <2>1. ~Submits(th[t])
    BY <1>1, SubmitterBusy DEF OneBusy, Submits
  <2>2. LedgerSteady
    BY <2>1, Steady DEF Submits, Execute, Signal
  <2> QED BY <1>1, <2>2 DEF LedgerSteady, Recordings, TypeOK, Ordered
<1>2. ASSUME NEW u \in Threads, u # t, th[u].at \in {"signal", "retry"} PROVE unsignaled'
  <2>1. ~Submits(th[t])
    BY <1>2, SubmitterBusy DEF OneBusy, Submits
  <2>2. LedgerSteady
    BY <2>1, Steady DEF Submits, Execute, Signal
  <2> QED BY <1>2, <2>2 DEF LedgerSteady, Recordings
<1>3. th'[t].at = "recording" => ~unsignaled' /\ observed' = submitted'
  <2> SUFFICES ASSUME th'[t].at = "recording" PROVE ~unsignaled' /\ observed' = submitted'
    OBVIOUS
  <2>1. BeginRecording(t)
    BY ToRecording
  <2> QED BY <2>1 DEF BeginRecording, Stranded, Unobserved, TypeOK, Ordered
<1>4. th'[t].at \in {"signal", "retry"} => unsignaled'
  <2>1. CASE Execute(t)
    BY <2>1 DEF Execute
  <2>2. CASE SignalFails(t) /\ th[t].at = "signal"
    BY <2>2 DEF SignalFails, Recordings
  <2> QED BY <2>1, <2>2, ToRecording
<1> QED BY <1>1, <1>2, <1>3, <1>4, ThreadsMove, OthersStay DEF Recordings
-----------------------------------------------------------------------------
(* The types. *)

LEMMA KeptType == ASSUME TypeOK, NEW w \in Works \cup {NoWork} PROVE Kept(w) \in SUBSET Nat
BY DEF Kept, TypeOK, Works

LEMMA QueueType ==
    ASSUME NEW t \in Threads, TypeOK, Execute(t) \/ Signal(t)
    PROVE  queue' \in Seq(Items)
<1>1. CASE Execute(t)
  <2>1. [sort |-> "work", id |-> fence + 1] \in Items /\ queue' = Append(queue, [sort |-> "work", id |-> fence + 1])
    BY <1>1 DEF Execute, Items, TypeOK
  <2> QED BY <2>1, OneMore DEF TypeOK
<1>2. CASE Signal(t)
  <2>1. [sort |-> "signal", id |-> fence'] \in Items /\ queue' = Append(queue, [sort |-> "signal", id |-> fence'])
    BY <1>2 DEF Signal, Items, TypeOK
  <2> QED BY <2>1, OneMore DEF TypeOK
<1> QED BY <1>1, <1>2

LEMMA TokenType ==
    ASSUME NEW t \in Threads, TypeOK, Shapes, Tokens, Call(t) \/ InCall(t) \/ WaitFails(t)
    PROVE  token' \in [Handles -> Works \cup {NoWork}]
<1>1. CASE HandOver(t)
  BY <1>1, HandOverToken DEF TypeOK
<1>2. CASE Take(t)
  BY <1>2, TakeMakes DEF TypeOK
<1> QED BY <1>1, <1>2, TokenSteps DEF TypeOK

LEMMA LedgerType ==
    ASSUME NEW t \in Threads, TypeOK, Ordered, Times, Call(t) \/ InCall(t) \/ WaitFails(t)
    PROVE  unsignaled' \in BOOLEAN /\ lost' \in BOOLEAN /\ queue' \in Seq(Items)
<1>1. CASE Execute(t)
  BY <1>1, QueueType DEF Execute, TypeOK
<1>2. CASE Signal(t)
  BY <1>2, QueueType DEF Signal, TypeOK
<1>3. CASE ~Execute(t) /\ ~Signal(t)
  BY <1>3, Steady DEF LedgerSteady, TypeOK
<1> QED BY <1>1, <1>2, <1>3

LEMMA RaiseType ==
    ASSUME NEW h \in Handles, TypeOK, Raise(h)
    PROVE  /\ state' \in SUBSET Handles /\ process' \in Int /\ pooled' \in Int
           /\ seat' \in Handles \cup {NoWork}
BY DEF Raise, TypeOK

\* The counts change when a handle is raised or lowered.
CountsStay == UNCHANGED <<state, process, pooled, seat>>

LEMMA CountSteps ==
    ASSUME NEW t \in Threads, Call(t) \/ InCall(t) \/ WaitFails(t), ~HandOver(t), ~Lower(t),
           ~ \E h \in Handles, n \in Parts : Prefill(t, h, n)
    PROVE  CountsStay
<1> USE DEF CountsStay
<1>1. CASE Call(t)
  BY <1>1 DEF Call, Step, Batch, Poll, Ready, Drain
<1>2. CASE WaitFails(t)
  BY <1>2 DEF WaitFails
<1>3. CASE InCall(t)
  BY <1>3 DEF InCall, Slot, BeginRefused, BeginRecording, AbandonRecording, Execute, Signal, SignalFails,
              PartSubmitted, HandFails, Take, Waited, Land
<1> QED BY <1>1, <1>2, <1>3

LEMMA CountType ==
    ASSUME NEW t \in Threads, TypeOK, Shapes, Call(t) \/ InCall(t) \/ WaitFails(t)
    PROVE  /\ state' \in SUBSET Handles /\ process' \in Int /\ pooled' \in Int
           /\ seat' \in Handles \cup {NoWork}
<1>1. CASE HandOver(t)
  BY <1>1, HandOverToken, RaiseType
<1>2. CASE Lower(t)
  BY <1>2 DEF Lower, TypeOK
<1>3. ASSUME NEW h \in Handles, NEW n \in Parts, Prefill(t, h, n)
      PROVE  /\ state' \in SUBSET Handles /\ process' \in Int /\ pooled' \in Int
             /\ seat' \in Handles \cup {NoWork}
  BY <1>3, RaiseType DEF Prefill
<1> QED BY <1>1, <1>2, <1>3, CountSteps DEF CountsStay, TypeOK

\* The graveyard changes when a signal's retry or a wait fails.
LEMMA GraveSteps ==
    ASSUME NEW t \in Threads, Call(t) \/ InCall(t) \/ WaitFails(t), ~SignalFails(t), ~WaitFails(t)
    PROVE  graveyard' = graveyard
<1>1. CASE Call(t)
  BY <1>1 DEF Call, Step, Batch, Prefill, Poll, Ready, Drain
<1>2. CASE InCall(t)
  BY <1>2 DEF InCall, Slot, BeginRefused, BeginRecording, AbandonRecording, Execute, Signal,
              HandOver, PartSubmitted, HandFails, Take, Waited, Land, Lower
<1> QED BY <1>1, <1>2

LEMMA GraveType ==
    ASSUME NEW t \in Threads, TypeOK, Shapes, Call(t) \/ InCall(t) \/ WaitFails(t)
    PROVE  graveyard' \in SUBSET Nat
<1>0. th[t].work \in Works \cup {NoWork}
  BY Before DEF Calls
<1>1. CASE SignalFails(t)
  BY <1>0, <1>1, KeptType, RetryMakes DEF TypeOK
<1>2. CASE WaitFails(t)
  BY <1>0, <1>2, KeptType DEF WaitFails
<1> QED BY <1>1, <1>2, GraveSteps DEF TypeOK

LEMMA TypesKept ==
    ASSUME NEW t \in Threads, TypeOK, Shapes, Tokens, Ordered, Times, OneBusy, Claimed, Hosts,
           Call(t) \/ InCall(t) \/ WaitFails(t)
    PROVE  TypeOK'
<1>1. th' \in [Threads -> Calls]
  BY ThreadsMove, OthersStay
<1>2. claims' \in SUBSET Handles
  <2>1. Claimed' 
    BY BusyKept
  <2>2. ASSUME NEW h \in claims' PROVE h \in Handles
    <3>1. PICK u \in Threads : Busy(th'[u]) /\ Decoder(th'[u]) /\ th'[u].h = h
      BY <2>1 DEF Claimed
    <3>2. Shape(th'[u]) /\ th'[u] \in Calls
      BY <1>1, ThreadsMove, ShapesKept DEF Shapes
    <3> QED BY <3>1, <3>2 DEF Shape, Busy, Decoder, Calls
  <2> QED BY <2>2
<1> QED BY <1>1, <1>2, Grows, LedgerType, TokenType, CountType, GraveType DEF TypeOK
-----------------------------------------------------------------------------
(* What queued work uses is held until the device has run it. *)

\* Work neither appears nor goes, and none more is waited for.
LEMMA SameCarried ==
    ASSUME NEW t \in Threads, TypeOK, Moves(t), token' = token, th'[t].work = th[t].work
    PROVE  /\ Carried(token', th') = Carried(token, th)
           /\ (Signaled(th'[t]) => Signaled(th[t])) => Awaited(token', th') \subseteq Awaited(token, th)
BY OthersStay DEF Carried, Awaited

\* A call's work goes.
LEMMA LessCarried ==
    ASSUME NEW t \in Threads, TypeOK, Moves(t), token' = token, th'[t].work = NoWork
    PROVE  /\ Awaited(token', th') \subseteq Awaited(token, th)
           /\ \A w \in Carried(token, th) : w \in Carried(token', th') \/ w = th[t].work
<1>1. NoWork \notin Works
  BY NoWorkIsNone
<1> QED BY <1>1, OthersStay DEF Carried, Awaited

LEMMA FollowsLess ==
    ASSUME Follows, queue' = queue, Awaited(token', th') \subseteq Awaited(token, th)
    PROVE  Follows'
BY DEF Follows, Behind

LEMMA KeepsSame ==
    ASSUME TypeOK, Keeps, queue' = queue, graveyard \subseteq graveyard',
           \A i \in DOMAIN queue : queue[i].sort = "work" =>
              \A w \in Carried(token, th) : w.id = queue[i].id =>
                  w.id \in graveyard' \/ \E x \in Carried(token', th') : x.id = w.id
    PROVE  Keeps'
BY DEF Keeps

\* Work whose signal the fence has passed is not queued any more.
LEMMA NotQueued ==
    ASSUME TypeOK, Ordered, Follows, NEW w \in Awaited(token, th), w.v <= completed,
           NEW i \in DOMAIN queue, queue[i].sort = "work"
    PROVE  queue[i].id # w.id
<1> SUFFICES ASSUME queue[i].id = w.id PROVE FALSE
  OBVIOUS
<1>1. PICK j \in DOMAIN queue : queue[j].sort = "signal" /\ queue[j].id = w.v
  BY DEF Follows, Behind
<1>2. completed < queue[j].id /\ queue[j].id \in Nat
  BY <1>1, ItemOf DEF Ordered
<1> QED BY <1>1, <1>2 DEF TypeOK

LEMMA WorkSame ==
    ASSUME NEW t \in Threads, TypeOK, Follows, Keeps, Moves(t), token' = token, queue' = queue,
           graveyard' = graveyard, th'[t].work = th[t].work, Signaled(th'[t]) => Signaled(th[t])
    PROVE  Follows' /\ Keeps'
BY SameCarried, FollowsLess, KeepsSame

LEMMA WorkNone ==
    ASSUME NEW t \in Threads, TypeOK, Follows, Keeps, Moves(t), token' = token, queue' = queue,
           graveyard' = graveyard, th'[t].work = NoWork, th[t].work = NoWork
    PROVE  Follows' /\ Keeps'
<1>1. Awaited(token', th') \subseteq Awaited(token, th)
  BY LessCarried
<1>2. Carried(token', th') = Carried(token, th)
  BY SameCarried
<1> QED BY <1>1, <1>2, FollowsLess, KeepsSame

\* Work given up is kept alive.
LEMMA WorkKept ==
    ASSUME NEW t \in Threads, TypeOK, Follows, Keeps, Moves(t), token' = token, queue' = queue,
           graveyard' = Kept(th[t].work), th'[t].work = NoWork
    PROVE  Follows' /\ Keeps'
<1>1. Follows'
  BY LessCarried, FollowsLess
<1>2. graveyard \subseteq graveyard' /\ (th[t].work \in Works => th[t].work.id \in graveyard')
  BY NoWorkIsNone DEF Kept
<1>3. ASSUME NEW w \in Carried(token, th)
      PROVE  w.id \in graveyard' \/ \E x \in Carried(token', th') : x.id = w.id
  BY <1>2, LessCarried DEF Carried
<1> QED BY <1>1, <1>2, <1>3, KeepsSame

\* Work freed has been run.
LEMMA WorkFreed ==
    ASSUME NEW t \in Threads, TypeOK, Shapes, Ordered, Times, Follows, Keeps, Moves(t), token' = token, queue' = queue,
           graveyard' = graveyard, th'[t].work = NoWork, th[t].at = "land"
    PROVE  Follows' /\ Keeps'
<1>1. Follows'
  BY LessCarried, FollowsLess
<1>2. ASSUME th[t].work \in Works
      PROVE  th[t].work \in Awaited(token, th) /\ th[t].work.v <= completed
  <2>1. Shape(th[t]) /\ Signaled(th[t]) /\ th[t].work # NoWork /\ th[t].v <= completed
    BY <1>2, NoWorkIsNone, Before DEF Signaled, Times, Timed
  <2> QED BY <1>2, <2>1 DEF Awaited, Shape
<1>3. ASSUME NEW i \in DOMAIN queue, queue[i].sort = "work", NEW w \in Carried(token, th), w.id = queue[i].id
      PROVE  \E x \in Carried(token', th') : x.id = w.id
  <2>1. w # th[t].work
    <3> SUFFICES ASSUME w = th[t].work PROVE FALSE
      OBVIOUS
    <3>1. w \in Works
      BY DEF Carried
    <3> QED BY <1>2, <1>3, <3>1, NotQueued
  <2> QED BY <2>1, LessCarried
<1> QED BY <1>1, <1>3, KeepsSame

LEMMA ExecuteWork ==
    ASSUME NEW t \in Threads, TypeOK, Shapes, Ordered, Times, Recordings, Follows, Keeps, Tokens, Execute(t)
    PROVE  Follows' /\ Keeps'
<1> DEFINE x == [sort |-> "work", id |-> fence + 1]
           w == [id |-> fence + 1, v |-> 0]
           n == Len(queue)
<1>1. At(t, "recording") /\ queue' = Append(queue, x) /\ token' = token /\ graveyard' = graveyard
  BY DEF Execute
<1>2. x \in Items /\ x.sort = "work" /\ x.id = fence + 1 /\ w \in Works /\ w.id = fence + 1
  BY DEF Items, Works, TypeOK
<1>3. th'[t].at = "signal" /\ th'[t].work = w
  BY ExecuteMakes
<1>4. Moves(t) /\ th[t].work = NoWork
  BY <1>1, ExecuteMoves, Before DEF Shape, Holds, Waits
<1> HIDE DEF x, w
<1>5. /\ DOMAIN queue = 1..n /\ n \in Nat /\ DOMAIN queue' = 1..(n + 1)
      /\ queue'[n + 1] = x /\ \A i \in 1..n : queue'[i] = queue[i]
  BY <1>1, <1>2, OneMore DEF TypeOK
\* Nothing was queued that is not done, so no awaited work is.
<1>6. ASSUME NEW i \in DOMAIN queue PROVE queue[i].sort # "work"
  <2> SUFFICES ASSUME queue[i].sort = "work" PROVE FALSE
    OBVIOUS
  <2>1. ~unsignaled /\ observed = submitted
    BY <1>1 DEF Recordings
  <2>2. PICK j \in DOMAIN queue : i < j /\ queue[j].sort = "signal"
    BY <2>1 DEF Ordered
  <2>3. completed < queue[j].id /\ queue[j].id <= submitted /\ queue[j].id \in Nat
    BY <2>2, ItemOf DEF Ordered
  <2> QED BY <2>1, <2>3 DEF Ordered, TypeOK
<1>7. ASSUME NEW i \in DOMAIN queue', queue'[i].sort = "work" PROVE queue'[i].id = fence + 1
  BY <1>2, <1>5, <1>6, <1>7
<1>8. ASSUME NEW y \in Awaited(token', th') PROVE y.id <= fence /\ y.id \in Nat
  <2>1. y \in Works /\ y # NoWork
    BY NoWorkIsNone DEF Awaited
  <2>2. CASE \E h \in Handles : token[h] = y
    BY <2>1, <2>2 DEF Times, Works
  <2>3. ASSUME NEW u \in Threads, Signaled(th'[u]), th'[u].work = y PROVE y.id <= fence
    <3>1. u # t
      BY <1>3, <2>3 DEF Signaled
    <3>2. Timed(th[u], submitted, observed, completed, fence) /\ th[u].work = y /\ Signaled(th[u])
      BY <1>4, <2>3, <3>1, OthersStay DEF Times
    <3> QED BY <2>1, <3>2 DEF Timed, Signaled
  <2> QED BY <1>1, <2>1, <2>2, <2>3 DEF Awaited, Works
<1>9. Follows'
  <2>1. ASSUME NEW y \in Awaited(token', th'), NEW i \in DOMAIN queue', queue'[i].sort = "work" PROVE queue'[i].id # y.id
    BY <1>7, <1>8, <2>1 DEF TypeOK
  <2> QED BY <2>1 DEF Follows
<1>10. w \in Carried(token', th')
  BY <1>2, <1>3 DEF Carried
<1>11. Keeps'
  BY <1>2, <1>7, <1>10 DEF Keeps
<1> QED BY <1>9, <1>11

LEMMA SignalWork ==
    ASSUME NEW t \in Threads, TypeOK, Shapes, Follows, Keeps, Tokens, Signal(t)
    PROVE  Follows' /\ Keeps'
<1> DEFINE x == [sort |-> "signal", id |-> fence']
           n == Len(queue)
           w == th'[t].work
<1>1. queue' = Append(queue, x) /\ token' = token /\ graveyard' = graveyard /\ fence' = fence + 1
      /\ th[t].at \in {"signal", "retry"}
  BY DEF Signal
<1>2. x \in Items /\ x.sort = "signal" /\ x.id = fence'
  BY <1>1 DEF Items, TypeOK
<1>3. Moves(t) /\ th[t].work \in Works /\ w \in Works /\ w.id = th[t].work.id /\ w.v = fence'
  BY SignalMoves, SignalMakes
<1> HIDE DEF x, w
<1>4. /\ DOMAIN queue = 1..n /\ n \in Nat /\ DOMAIN queue' = 1..(n + 1)
      /\ queue'[n + 1] = x /\ \A i \in 1..n : queue'[i] = queue[i]
  BY <1>1, <1>2, OneMore DEF TypeOK
<1>5. ASSUME NEW i \in DOMAIN queue', queue'[i].sort = "work"
      PROVE  i \in DOMAIN queue /\ queue[i] = queue'[i] /\ i < n + 1
  BY <1>2, <1>4, <1>5
<1>6. ASSUME NEW y \in Awaited(token', th'), y # w PROVE y \in Awaited(token, th)
  <2>1. CASE \E h \in Handles : token[h] = y
    BY <2>1 DEF Awaited
  <2>2. ASSUME NEW u \in Threads, Signaled(th'[u]), th'[u].work = y PROVE y \in Awaited(token, th)
    <3>1. u # t
      BY <1>6, <2>2 DEF w
    <3> QED BY <1>3, <2>2, <3>1, OthersStay DEF Awaited
  <2> QED BY <1>1, <1>6, <2>1, <2>2 DEF Awaited
<1>7. ASSUME NEW y \in Awaited(token', th'), NEW i \in DOMAIN queue', queue'[i].sort = "work",
             queue'[i].id = y.id
      PROVE  Behind(queue', i, y.v)
  <2>1. CASE y = w
    BY <1>2, <1>3, <1>4, <1>5, <1>7, <2>1 DEF Behind
  <2>2. CASE y # w
    <3>1. PICK j \in DOMAIN queue : i < j /\ queue[j].sort = "signal" /\ queue[j].id = y.v
      BY <1>5, <1>6, <1>7, <2>2 DEF Follows, Behind
    <3>2. j \in DOMAIN queue' /\ queue'[j] = queue[j]
      BY <1>4
    <3> QED BY <3>1, <3>2 DEF Behind
  <2> QED BY <2>1, <2>2
<1>8. Follows'
  BY <1>7 DEF Follows
<1>9. ASSUME NEW y \in Carried(token, th) PROVE \E z \in Carried(token', th') : z.id = y.id
  <2>1. w \in Carried(token', th')
    BY <1>3 DEF Carried, w
  <2>2. CASE y = th[t].work
    BY <1>3, <2>1, <2>2
  <2>3. CASE y # th[t].work
    <3>1. y \in Carried(token', th')
      BY <1>1, <1>3, <2>3, OthersStay DEF Carried
    <3> QED BY <3>1
  <2> QED BY <2>2, <2>3
<1>10. ASSUME NEW i \in DOMAIN queue', queue'[i].sort = "work"
       PROVE  queue'[i].id \in graveyard' \/ \E z \in Carried(token', th') : z.id = queue'[i].id
  <2>1. queue[i].id \in graveyard \/ \E y \in Carried(token, th) : y.id = queue[i].id
    BY <1>5, <1>10 DEF Keeps
  <2> QED BY <1>1, <1>5, <1>9, <1>10, <2>1
<1>11. Keeps'
  BY <1>10 DEF Keeps
<1> QED BY <1>8, <1>11

LEMMA DeviceWork ==
    ASSUME TypeOK, Follows, Keeps, Device
    PROVE  Follows' /\ Keeps'
<1> DEFINE n == Len(queue)
<1>1. queue # <<>> /\ queue' = Tail(queue) /\ UNCHANGED <<token, graveyard, th>>
  BY DEF Device
<1>2. /\ n \in Nat \ {0} /\ DOMAIN queue = 1..n
      /\ DOMAIN queue' = 1..(n - 1) /\ \A i \in 1..(n - 1) : queue'[i] = queue[i + 1]
  BY <1>1, FirstGone DEF TypeOK
<1>3. ASSUME NEW i \in DOMAIN queue' PROVE i + 1 \in DOMAIN queue /\ queue'[i] = queue[i + 1]
  BY <1>2
<1>4. ASSUME NEW y \in Awaited(token', th'), NEW i \in DOMAIN queue', queue'[i].sort = "work",
             queue'[i].id = y.id
      PROVE  Behind(queue', i, y.v)
  <2>1. y \in Awaited(token, th)
    BY <1>1, <1>4
  <2>2. PICK j \in DOMAIN queue : i + 1 < j /\ queue[j].sort = "signal" /\ queue[j].id = y.v
    BY <1>3, <1>4, <2>1 DEF Follows, Behind
  <2>3. j - 1 \in DOMAIN queue' /\ i < j - 1 /\ queue'[j - 1] = queue[j]
    BY <1>2, <2>2
  <2> QED BY <2>2, <2>3 DEF Behind
<1>5. Follows'
  BY <1>4 DEF Follows
<1>6. Keeps'
  BY <1>1, <1>3 DEF Keeps
<1> QED BY <1>5, <1>6

LEMMA TakeWork ==
    ASSUME NEW t \in Threads, TypeOK, Shapes, Tokens, Follows, Keeps, Take(t)
    PROVE  Follows' /\ Keeps'
<1> DEFINE g == th[t].h
<1>1. /\ g \in Handles /\ token[g] \in Works /\ token' = [token EXCEPT ![g] = NoWork]
      /\ th'[t].work = token[g] /\ Signaled(th'[t]) /\ Moves(t)
  BY TakeMakes, TakeMoves DEF Signaled
<1>2. queue' = queue /\ graveyard' = graveyard /\ At(t, "take")
  BY DEF Take
<1>3. th[t].work = NoWork
  BY <1>2, Before DEF Shape, Holds, Waits
<1> HIDE DEF g
<1>4. ASSUME NEW w \in Works
      PROVE  (\E h \in Handles : token[h] = w) \/ (\E u \in Threads : th[u].work = w)
             => (\E h \in Handles : token'[h] = w) \/ (\E u \in Threads : th'[u].work = w)
  <2>1. ASSUME NEW h \in Handles, token[h] = w
        PROVE  (\E k \in Handles : token'[k] = w) \/ (\E u \in Threads : th'[u].work = w)
    BY <1>1, <2>1 DEF TypeOK
  <2>2. ASSUME NEW u \in Threads, th[u].work = w PROVE \E k \in Threads : th'[k].work = w
    <3>1. u # t
      BY <1>3, <1>4, <2>2, NoWorkIsNone
    <3> QED BY <1>1, <2>2, <3>1, OthersStay
  <2> QED BY <2>1, <2>2
<1>5. Carried(token, th) \subseteq Carried(token', th')
  BY <1>4 DEF Carried
<1>6. ASSUME NEW w \in Works
      PROVE  (\E h \in Handles : token'[h] = w) \/ (\E u \in Threads : Signaled(th'[u]) /\ th'[u].work = w)
             => (\E h \in Handles : token[h] = w) \/ (\E u \in Threads : Signaled(th[u]) /\ th[u].work = w)
  <2>1. ASSUME NEW h \in Handles, token'[h] = w PROVE token[h] = w
    BY <1>1, <1>6, <2>1, NoWorkIsNone DEF TypeOK
  <2>2. ASSUME NEW u \in Threads, Signaled(th'[u]), th'[u].work = w
        PROVE  (\E h \in Handles : token[h] = w) \/ (\E k \in Threads : Signaled(th[k]) /\ th[k].work = w)
    BY <1>1, <2>2, OthersStay
  <2> QED BY <2>1, <2>2
<1>7. Awaited(token', th') \subseteq Awaited(token, th)
  BY <1>6 DEF Awaited
<1> QED BY <1>2, <1>5, <1>7, FollowsLess, KeepsSame

LEMMA HandOverWork ==
    ASSUME NEW t \in Threads, TypeOK, Shapes, Tokens, Owed, Follows, Keeps, HandOver(t)
    PROVE  Follows' /\ Keeps'
<1> DEFINE g == th[t].h
<1>1. /\ g \in Handles /\ th[t].work \in Works /\ token' = [token EXCEPT ![g] = th[t].work]
      /\ Signaled(th[t]) /\ Moves(t) /\ Quiet(th'[t])
  BY HandOverToken, HandOverMoves, QuietSteps
<1>2. queue' = queue /\ graveyard' = graveyard
  BY DEF HandOver
<1>3. token[g] = NoWork
  <2>1. g \notin state
    BY DEF Owed, Owing, Submits, HandOver, Decoder, Counted
  <2> QED BY <1>1, <2>1 DEF Tokens
<1> HIDE DEF g
<1>4. ASSUME NEW w \in Works
      PROVE  (\E h \in Handles : token[h] = w) \/ (\E u \in Threads : th[u].work = w)
             => (\E h \in Handles : token'[h] = w) \/ (\E u \in Threads : th'[u].work = w)
  <2>1. ASSUME NEW h \in Handles, token[h] = w PROVE token'[h] = w
    BY <1>1, <1>3, <1>4, <2>1, NoWorkIsNone DEF TypeOK
  <2>2. ASSUME NEW u \in Threads, th[u].work = w
        PROVE  (\E h \in Handles : token'[h] = w) \/ (\E k \in Threads : th'[k].work = w)
    <3>1. CASE u = t
      <4>1. token'[g] = w
        BY <1>1, <2>2, <3>1 DEF TypeOK
      <4> QED BY <1>1, <4>1
    <3>2. CASE u # t
      BY <1>1, <2>2, <3>2, OthersStay
    <3> QED BY <3>1, <3>2
  <2> QED BY <2>1, <2>2
<1>5. Carried(token, th) \subseteq Carried(token', th')
  BY <1>4 DEF Carried
<1>6. ASSUME NEW w \in Works
      PROVE  (\E h \in Handles : token'[h] = w) \/ (\E u \in Threads : Signaled(th'[u]) /\ th'[u].work = w)
             => (\E h \in Handles : token[h] = w) \/ (\E u \in Threads : Signaled(th[u]) /\ th[u].work = w)
  <2>1. ASSUME NEW h \in Handles, token'[h] = w
        PROVE  (\E k \in Handles : token[k] = w) \/ (\E u \in Threads : Signaled(th[u]) /\ th[u].work = w)
    BY <1>1, <2>1 DEF TypeOK
  <2>2. ASSUME NEW u \in Threads, Signaled(th'[u]), th'[u].work = w
        PROVE  \E k \in Threads : Signaled(th[k]) /\ th[k].work = w
    BY <1>1, <2>2, OthersStay DEF Quiet, Signaled
  <2> QED BY <2>1, <2>2
<1>7. Awaited(token', th') \subseteq Awaited(token, th)
  BY <1>6 DEF Awaited
<1> QED BY <1>2, <1>5, <1>7, FollowsLess, KeepsSame

LEMMA WorkSteps ==
    ASSUME NEW t \in Threads, TypeOK, Shapes, Tokens, Owed, Ordered, Times, Recordings, Follows, Keeps,
           Call(t) \/ InCall(t) \/ WaitFails(t)
    PROVE  Follows' /\ Keeps'
<1>1. Moves(t)
  BY ThreadsMove
<1>2. CASE Execute(t) \/ Signal(t) \/ Take(t) \/ HandOver(t)
  BY <1>2, ExecuteWork, SignalWork, TakeWork, HandOverWork
<1>3. CASE ~(Execute(t) \/ Signal(t) \/ Take(t) \/ HandOver(t))
  <2>1. token' = token /\ queue' = queue
    BY <1>3, TokenSteps, Steady DEF LedgerSteady
  <2>2. CASE WaitFails(t)
    <3>1. graveyard' = Kept(th[t].work) /\ th'[t].work = NoWork
      BY <2>2, WaitFailsMakes DEF WaitFails, Quiet
    <3> QED BY <1>1, <2>1, <3>1, WorkKept
  <2>3. CASE SignalFails(t)
    <3>1. CASE /\ th[t].at = "signal" /\ th'[t].at = "retry" /\ th'[t].work = th[t].work
               /\ graveyard' = graveyard
      BY <1>1, <2>1, <3>1, WorkSame DEF Signaled
    <3>2. CASE th[t].at = "retry" /\ Quiet(th'[t]) /\ graveyard' = Kept(th[t].work)
      BY <1>1, <2>1, <3>2, WorkKept DEF Quiet
    <3> QED BY <2>3, <3>1, <3>2, RetryMakes
  <2>4. CASE ~WaitFails(t) /\ ~SignalFails(t)
    <3>1. graveyard' = graveyard
      BY <2>4, GraveSteps
    <3>2. CASE Land(t)
      <4>1. CASE th'[t].at = "land" /\ th'[t].work = th[t].work
        BY <1>1, <2>1, <3>1, <3>2, <4>1, WorkSame DEF Signaled, Land
      <4>2. CASE Quiet(th'[t])
        BY <1>1, <2>1, <3>1, <3>2, <4>2, WorkFreed DEF Quiet, Land
      <4> QED BY <3>2, <4>1, <4>2, LandMakes
    <3>3. CASE PartSubmitted(t) \/ HandFails(t) \/ Waited(t)
      BY <1>1, <2>1, <3>1, <3>3, SameWork, WorkSame
    <3>4. CASE Call(t)
      <4>1. th[t].work = NoWork /\ th'[t].work = NoWork
        <5>1. th[t].at = "out" /\ th'[t].work = NoWork
          BY <3>4, StepMoves, BatchMoves, PrefillMoves, PollMoves, ReadyMoves, DrainMoves DEF Call
        <5> QED BY <5>1, Before DEF Shape, Holds, Waits
      <4> QED BY <1>1, <2>1, <3>1, <4>1, WorkNone
    <3>5. CASE Slot(t) \/ BeginRefused(t) \/ BeginRecording(t) \/ AbandonRecording(t) \/ Lower(t)
      <4>1. th'[t].work = NoWork
        BY <3>5, QuietSteps DEF Quiet
      <4>2. th[t].work = NoWork
        BY <3>5, Before DEF Slot, BeginRefused, BeginRecording, AbandonRecording, Lower, Shape, Holds, Waits
      <4> QED BY <1>1, <2>1, <3>1, <4>1, <4>2, WorkNone
    <3> QED BY <1>3, <2>4, <3>2, <3>3, <3>4, <3>5 DEF InCall
  <2> QED BY <2>2, <2>3, <2>4
<1> QED BY <1>2, <1>3

-----------------------------------------------------------------------------
(* What is submitted and not observed is somebody's to observe. *)

LEMMA ObserversStay ==
    ASSUME NEW t \in Threads, TypeOK, Ordered, Observers, Moves(t), LedgerSteady, token' = token,
           Signaled(th[t]) /\ th[t].v = submitted =>
              \/ Signaled(th'[t]) /\ th'[t].v = submitted
              \/ lost' \/ observed' >= submitted
    PROVE  Observers'
<1> SUFFICES ASSUME ~lost', observed' < submitted'
             PROVE  \/ \E h \in Handles : token'[h] # NoWork /\ token'[h].v = submitted'
                    \/ \E u \in Threads : Signaled(th'[u]) /\ th'[u].v = submitted'
  BY DEF Observers
<1>1. ~lost /\ observed < submitted /\ submitted' = submitted /\ ~(observed' >= submitted)
  BY DEF LedgerSteady, TypeOK
<1>2. CASE \E h \in Handles : token[h] # NoWork /\ token[h].v = submitted
  BY <1>1, <1>2
<1>3. ASSUME NEW u \in Threads, Signaled(th[u]), th[u].v = submitted
      PROVE  \E k \in Threads : Signaled(th'[k]) /\ th'[k].v = submitted
  <2>1. CASE u = t
    BY <1>1, <1>3, <2>1
  <2>2. CASE u # t
    BY <1>3, <2>2, OthersStay
  <2> QED BY <2>1, <2>2
<1> QED BY <1>1, <1>2, <1>3 DEF Observers

LEMMA ObserversKept ==
    ASSUME NEW t \in Threads, TypeOK, Shapes, Tokens, Owed, Ordered, Times, Observers, Recordings,
           Call(t) \/ InCall(t) \/ WaitFails(t)
    PROVE  Observers'
<1>1. Moves(t)
  BY ThreadsMove
<1>2. CASE Execute(t)
  <2>1. observed' = submitted'
    BY <1>2 DEF Execute, Recordings
  <2>2. ~(observed' < submitted')
    BY <1>2, <2>1 DEF TypeOK, Execute
  <2> QED BY <2>2 DEF Observers
<1>3. CASE Signal(t)
  <2>1. Signaled(th'[t]) /\ th'[t].v = submitted'
    BY <1>3, SignalMakes DEF Signal, Signaled
  <2> QED BY <2>1 DEF Observers
<1>4. CASE Take(t)
  <2> DEFINE g == th[t].h
  <2>1. /\ g \in Handles /\ token' = [token EXCEPT ![g] = NoWork]
        /\ Signaled(th'[t]) /\ th'[t].v = token[g].v /\ ~Signaled(th[t])
    BY <1>4, TakeMakes DEF Signaled, Take
  <2>2. UNCHANGED ledger
    BY <1>4 DEF Take
  <2> HIDE DEF g
  <2>3. ASSUME NEW h \in Handles, token[h] # NoWork, token[h].v = submitted
        PROVE  \/ \E k \in Handles : token'[k] # NoWork /\ token'[k].v = submitted
               \/ \E u \in Threads : Signaled(th'[u]) /\ th'[u].v = submitted
    BY <2>1, <2>3 DEF TypeOK
  <2>4. ASSUME NEW u \in Threads, Signaled(th[u]), th[u].v = submitted
        PROVE  \E k \in Threads : Signaled(th'[k]) /\ th'[k].v = submitted
    BY <1>1, <2>1, <2>4, OthersStay
  <2> QED BY <2>2, <2>3, <2>4 DEF Observers
<1>5. CASE HandOver(t)
  <2> DEFINE g == th[t].h
  <2>1. /\ g \in Handles /\ token' = [token EXCEPT ![g] = th[t].work] /\ th[t].work # NoWork
        /\ th[t].work.v = th[t].v
    BY <1>5, HandOverToken, NoWorkIsNone
  <2>2. UNCHANGED ledger
    BY <1>5 DEF HandOver
  <2>3. token[g] = NoWork
    <3>1. g \notin state
      BY <1>5 DEF Owed, Owing, Submits, HandOver, Decoder, Counted
    <3> QED BY <2>1, <3>1 DEF Tokens
  <2> HIDE DEF g
  <2>4. ASSUME NEW h \in Handles, token[h] # NoWork, token[h].v = submitted
        PROVE  \E k \in Handles : token'[k] # NoWork /\ token'[k].v = submitted
    BY <2>1, <2>3, <2>4 DEF TypeOK
  <2>5. ASSUME NEW u \in Threads, Signaled(th[u]), th[u].v = submitted
        PROVE  \/ \E k \in Handles : token'[k] # NoWork /\ token'[k].v = submitted
               \/ \E k \in Threads : Signaled(th'[k]) /\ th'[k].v = submitted
    <3>1. CASE u = t
      <4>1. token'[g] # NoWork /\ token'[g].v = submitted
        BY <2>1, <2>5, <3>1 DEF TypeOK
      <4> QED BY <2>1, <4>1
    <3>2. CASE u # t
      BY <1>1, <2>5, <3>2, OthersStay
    <3> QED BY <3>1, <3>2
  <2> QED BY <2>2, <2>4, <2>5 DEF Observers
<1>6. CASE ~(Execute(t) \/ Signal(t) \/ Take(t) \/ HandOver(t))
  <2>1. LedgerSteady /\ token' = token
    BY <1>6, Steady, TokenSteps
  <2>2. CASE WaitFails(t)
    <3>1. lost'
      BY <2>2 DEF WaitFails
    <3> QED BY <3>1 DEF Observers
  <2>3. CASE Land(t)
    <3>1. CASE th'[t].at = "land" /\ th'[t].v = th[t].v
      BY <1>1, <2>1, <3>1, ObserversStay DEF Signaled
    <3>2. CASE ~Again(t)
      <4>1. th[t].v <= observed'
        BY <2>3, <3>2, LandLedger
      <4> QED BY <1>1, <2>1, <4>1, ObserversStay
    <3> QED BY <2>3, <3>1, <3>2, LandMakes
  <2>4. CASE PartSubmitted(t) \/ HandFails(t) \/ Waited(t)
    BY <1>1, <2>1, <2>4, SameWork, ObserversStay
  <2>5. CASE Call(t) \/ Slot(t) \/ BeginRefused(t) \/ BeginRecording(t) \/ AbandonRecording(t) \/ Lower(t)
             \/ SignalFails(t)
    <3>1. ~Signaled(th[t])
      <4>1. Call(t) => th[t].at = "out"
        BY DEF Call, Step, Batch, Prefill, Poll, Ready, Drain
      <4> QED BY <2>5, <4>1 DEF Slot, BeginRefused, BeginRecording, AbandonRecording, Lower, SignalFails, Signaled
    <3> QED BY <1>1, <2>1, <3>1, ObserversStay
  <2> QED BY <1>6, <2>2, <2>3, <2>4, <2>5 DEF InCall
<1> QED BY <1>2, <1>3, <1>4, <1>5, <1>6
-----------------------------------------------------------------------------
(* Handles Submitted: their tokens, the counts and the pool's seat. *)

\* One call at most has a handle on hand, whoever else may have named it.
LEMMA Sole ==
    ASSUME NEW t \in Threads, NEW u \in Threads, Shapes, Hosts, OneBusy, th[t].h # NoWork, th[t].h = th[u].h
    PROVE  t = u
<1> SUFFICES ASSUME t # u PROVE FALSE
  OBVIOUS
<1>1. th[t].at \notin {"out", "slots"} /\ th[u].at \notin {"out", "slots"}
  BY DEF Shapes, Shape
<1>2. th[t].h \in NamesOf(th[t]) /\ th[t].h \in NamesOf(th[u])
  BY DEF NamesOf
<1>3. Decoder(th[t]) /\ Decoder(th[u])
  BY <1>1, <1>2 DEF Hosts, Apart
<1> QED BY <1>1, <1>3 DEF OneBusy, Busy, Decoder

\* Which of its handle's states a call answers for.
SamePhase(r, s) ==
    /\ Holding(r) <=> Holding(s)
    /\ Taking(r) <=> Taking(s)
    /\ Lowered(r) <=> Lowered(s)
    /\ Holding(s) \/ Taking(s) \/ Lowered(s) => r.h = s.h

LEMMA AfterPhase ==
    ASSUME NEW t \in Threads, NEW l, TypeOK, Shapes, th[t].at \notin {"out", "slots", "lower", "take"},
           ~(Waits(th[t]) /\ th[t].then \in {"finish", "take"})
    PROVE  SamePhase(After(t, l), th[t]) /\ After(t, l).h \in {NoWork, th[t].h}
<1>1. th[t] \in Calls /\ Shape(th[t]) /\ th[t].down = 0
  BY Before DEF Shape
<1>2. CASE Lowers(t) /\ After(t, l).at = "lower" /\ After(t, l).h = th[t].h /\ After(t, l).down = 0
  BY <1>1, <1>2 DEF SamePhase, Holding, Taking, Lowered, Lowerer, Waits
<1>3. CASE ~Lowers(t) /\ After(t, l).at \in {"out", "slots"} /\ After(t, l).h = NoWork /\ After(t, l).verb # "prefill"
  BY <1>1, <1>3 DEF SamePhase, Holding, Taking, Lowered, Lowerer, Waits
<1> QED BY <1>1, <1>2, <1>3, AfterShape

LEMMA ContinuePhase ==
    ASSUME NEW t \in Threads, TypeOK, Shapes, Tokens,
           \/ BeginRecording(t) \/ Execute(t) \/ Signal(t) \/ PartSubmitted(t) \/ HandFails(t) \/ Waited(t)
    PROVE  SamePhase(th'[t], th[t])
<1>1. th[t] \in Calls /\ Shape(th[t]) /\ Continues(th'[t], th[t]) /\ Shape(th'[t])
  BY Before, Continue, ThreadsMove DEF InCall, Moves
<1>2. th[t].down = 0 /\ th'[t].down = 0 /\ th[t].at \notin {"lower", "take"} /\ th'[t].at \notin {"lower", "take"}
      /\ (th[t].verb # "prefill" => ~(Waits(th[t]) /\ th[t].then = "finish" /\ ~(Waits(th'[t]) /\ th'[t].then = "finish")))
      /\ (th[t].verb # "prefill" => ~(Waits(th'[t]) /\ th'[t].then = "finish" /\ ~(Waits(th[t]) /\ th[t].then = "finish")))
      /\ ~Taking(th[t]) /\ ~Taking(th'[t])
  <2>1. CASE BeginRecording(t)
    BY <1>1, <2>1 DEF BeginRecording, TypeOK, Calls, Shape, Waits, Taking
  <2>2. CASE Execute(t)
    BY <1>1, <2>2 DEF Execute, TypeOK, Calls, Shape, Waits, Taking
  <2>3. CASE Signal(t)
    BY <1>1, <2>3, SignalMakes DEF Signal, Shape, Waits, Taking
  <2>4. CASE PartSubmitted(t)
    BY <1>1, <2>4 DEF PartSubmitted, TypeOK, Calls, Shape, Waits, Taking
  <2>5. CASE HandFails(t)
    BY <1>1, <2>5 DEF HandFails, TypeOK, Calls, Shape, Waits, Taking
  <2>6. CASE Waited(t)
    BY <1>1, <2>6 DEF Waited, TypeOK, Calls, Shape, Waits, Taking
  <2> QED BY <2>1, <2>2, <2>3, <2>4, <2>5, <2>6
<1> QED BY <1>1, <1>2 DEF SamePhase, Holding, Lowered, Lowerer, Continues

LEMMA NoPhase ==
    ASSUME NEW r, NEW s, r.at \in {"out", "slots"} \/ (r.at = "guarded" /\ r.verb # "prefill"), s.at \in {"out", "slots"},
           s.verb # "prefill" \/ s.at = "out", r.verb # "prefill" \/ r.at = "out"
    PROVE  SamePhase(r, s)
BY DEF SamePhase, Holding, Taking, Lowered, Lowerer, Waits

\* The steps that leave every handle's state, token and counts alone.
Aside(t) ==
    \/ Slot(t) \/ BeginRefused(t) \/ BeginRecording(t) \/ AbandonRecording(t) \/ Execute(t)
    \/ Signal(t) \/ SignalFails(t) \/ PartSubmitted(t) \/ HandFails(t) \/ Waited(t) \/ Land(t)
    \/ WaitFails(t) \/ Drain(t) \/ (\E h \in Handles : Step(t, h)) \/ (\E hs \in Batches : Batch(t, hs))

LEMMA LandPhase ==
    ASSUME NEW t \in Threads, TypeOK, Shapes, Land(t)
    PROVE  SamePhase(th'[t], th[t])
<1>1. Shape(th[t]) /\ th[t].down = 0 /\ th[t].at = "land"
  BY LandIs, Before DEF Shape
<1>2. CASE Again(t)
  <2>1. th'[t].at = "land" /\ Continues(th'[t], th[t]) /\ th'[t].then = th[t].then /\ th'[t].down = 0
    BY <1>1, <1>2, LandIs
  <2> QED BY <1>1, <2>1 DEF SamePhase, Holding, Taking, Lowered, Lowerer, Waits, Continues
<1>3. CASE ~Again(t) /\ th[t].then = "take"
  <2>1. th'[t].at = "take" /\ Continues(th'[t], th[t]) /\ th'[t].down = 0
    BY <1>1, <1>3, LandIs
  <2> QED BY <1>1, <1>3, <2>1 DEF SamePhase, Holding, Taking, Lowered, Lowerer, Waits, Continues
<1>4. CASE ~Again(t) /\ th[t].then = "finish"
  <2>1. /\ th'[t].at = "lower" \/ (th'[t].at = "guarded" /\ th[t].verb = "prefill")
        /\ Continues(th'[t], th[t]) /\ th'[t].down = 0
    BY <1>1, <1>4, LandIs
  <2> QED BY <1>1, <1>4, <2>1 DEF SamePhase, Holding, Taking, Lowered, Lowerer, Waits, Continues
<1>5. CASE ~Again(t) /\ th[t].then \notin {"take", "finish"}
  <2>1. \E l : th'[t] = After(t, l)
    BY <1>5, LandIs DEF Ends
  <2> QED BY <1>1, <1>5, <2>1, AfterPhase
<1> QED BY <1>2, <1>3, <1>4, <1>5

LEMMA AsidePhase ==
    ASSUME NEW t \in Threads, TypeOK, Shapes, Tokens, Aside(t)
    PROVE  SamePhase(th'[t], th[t])
<1>0. th[t] \in Calls /\ Shape(th[t])
  BY Before
<1>1. CASE Slot(t)
  <2>1. th'[t].at \in {"out", "slots", "guarded"} /\ th[t].at = "slots" /\ th[t].verb = "batch"
    BY <1>0, <1>1 DEF Slot, TypeOK, Out, Calls, Shape
  <2>2. th'[t].at # "out" => th'[t].verb = "batch"
    BY <1>1, <2>1, SlotMoves DEF Narrows
  <2> QED BY <2>1, <2>2, NoPhase
<1>2. CASE BeginRefused(t) \/ AbandonRecording(t)
  BY <1>2, RefusedMoves, AbandonMoves, AfterPhase DEF BeginRefused, AbandonRecording, Waits, Ends
<1>3. CASE SignalFails(t)
  <2>1. CASE th[t].at = "signal"
    <3>1. th'[t].at = "retry" /\ Continues(th'[t], th[t]) /\ th'[t].down = th[t].down
      BY <1>3, <2>1, SignalFailsIs
    <3> QED BY <2>1, <3>1 DEF SamePhase, Holding, Taking, Lowered, Lowerer, Waits, Continues
  <2>2. CASE th[t].at # "signal"
    BY <1>3, <2>2, SignalFailsIs, AfterPhase DEF Waits
  <2> QED BY <2>1, <2>2
<1>4. CASE Land(t)
  BY <1>4, LandPhase
<1>5. CASE WaitFails(t)
  <2>1. th[t].at = "wait" /\ th[t].down = 0
    BY <1>0, <1>5, WaitFailsIs DEF Shape
  <2>2. CASE th[t].then = "finish"
    <3>1. th'[t].at = "lower" /\ Continues(th'[t], th[t]) /\ th'[t].down = 0
      BY <1>5, <2>1, <2>2, WaitFailsIs
    <3> QED BY <2>1, <2>2, <3>1 DEF SamePhase, Holding, Taking, Lowered, Lowerer, Waits, Continues
  <2>3. CASE th[t].then # "finish"
    BY <1>5, <2>1, <2>3, WaitFailsIs, AfterPhase
  <2> QED BY <2>2, <2>3
<1>6. CASE Drain(t)
  <2>1. th[t].at = "out" /\ th'[t].at = "wait" /\ th'[t].verb = "drain" /\ th'[t].then = "return"
    BY <1>6, DrainMoves
  <2> QED BY <2>1 DEF SamePhase, Holding, Taking, Lowered, Lowerer, Waits
<1>7. ASSUME NEW h \in Handles, Step(t, h) PROVE SamePhase(th'[t], th[t])
  BY <1>7, StepMoves, NoPhase
<1>8. ASSUME NEW hs \in Batches, Batch(t, hs) PROVE SamePhase(th'[t], th[t])
  BY <1>8, BatchMoves, NoPhase
<1> QED BY <1>1, <1>2, <1>3, <1>4, <1>5, <1>6, <1>7, <1>8, ContinuePhase DEF Aside

LEMMA AsideStays ==
    ASSUME NEW t \in Threads, TypeOK, Shapes, Tokens, Aside(t)
    PROVE  Moves(t) /\ token' = token /\ CountsStay
<1>1. Call(t) \/ InCall(t) \/ WaitFails(t)
  BY DEF Aside, Call, InCall
<1>2. token' = token /\ CountsStay
  <2> USE DEF CountsStay
  <2>1. CASE WaitFails(t) \/ Drain(t) \/ (\E h \in Handles : Step(t, h)) \/ (\E hs \in Batches : Batch(t, hs))
    BY <2>1 DEF WaitFails, Drain, Step, Batch
  <2>2. CASE ~(WaitFails(t) \/ Drain(t) \/ (\E h \in Handles : Step(t, h)) \/ (\E hs \in Batches : Batch(t, hs)))
    BY <2>2 DEF Aside, Slot, BeginRefused, BeginRecording, AbandonRecording, Execute, Signal, SignalFails,
                PartSubmitted, HandFails, Waited, Land
  <2> QED BY <2>1, <2>2
<1> QED BY <1>1, <1>2, ThreadsMove

\* A call whose phase stays leaves what is said of handles true.
LEMMA PhaseStays ==
    ASSUME NEW t \in Threads, TypeOK, Shapes, Tokens, Counts, Moves(t), SamePhase(th'[t], th[t]),
           token' = token, CountsStay
    PROVE  Tokens' /\ Counts' /\ Counted(state', th') = Counted(state, th)
<1>1. ASSUME NEW u \in Threads PROVE SamePhase(th'[u], th[u])
  BY OthersStay DEF SamePhase
<1>2. Counted(state', th') = Counted(state, th)
  BY <1>1 DEF Counted, SamePhase, CountsStay
<1>3. Tokens'
  BY <1>1 DEF Tokens, SamePhase, CountsStay
<1>4. Counts'
  BY <1>2 DEF Counts, CountsStay
<1> QED BY <1>2, <1>3, <1>4

LEMMA SeatsStay ==
    ASSUME NEW t \in Threads, TypeOK, Shapes, Seats, Moves(t), SamePhase(th'[t], th[t]), CountsStay,
           th[t].at # "lower"
    PROVE  Seats'
BY OthersStay DEF Seats, CountsStay

\* SetGpuSeqState out of Submitted, store by store.
LEMMA LowerMakes ==
    ASSUME NEW t \in Threads, TypeOK, Shapes, Lower(t)
    PROVE  /\ th[t].h \in Handles /\ th[t].at = "lower" /\ token' = token
           /\ \/ /\ th[t].down = 0 /\ th'[t].at = "lower" /\ th'[t].down = 1 /\ th'[t].h = th[t].h
                 /\ state' = state \ {th[t].h} /\ UNCHANGED <<process, pooled, seat>>
                 /\ Continues(th'[t], th[t])
              \/ /\ th[t].down = 1 /\ th'[t].at = "lower" /\ th'[t].down = 2 /\ th'[t].h = th[t].h
                 /\ seat' = (IF seat = th[t].h THEN NoWork ELSE seat) /\ UNCHANGED <<process, pooled, state>>
                 /\ Continues(th'[t], th[t])
              \/ /\ th[t].down = 2 /\ th'[t].at \in {"out", "slots"} /\ th'[t].h = NoWork /\ th'[t].verb # "prefill"
                 /\ process' = process - 1
                 /\ pooled' = pooled - (IF th[t].h \in Pooled THEN 1 ELSE 0)
                 /\ UNCHANGED <<state, seat>>
<1>1. th[t] \in Calls /\ Shape(th[t]) /\ th[t].at = "lower" /\ token' = token
  BY Before DEF Lower
<1>2. th[t].h \in Handles
  BY <1>1 DEF Shape, Calls
<1>3. CASE th[t].down = 0
  <2>1. /\ Goes(t, [th[t] EXCEPT !.down = 1])
        /\ state' = state \ {th[t].h} /\ process' = process /\ seat' = seat /\ pooled' = pooled - 0
    BY <1>3 DEF Lower, Lowering
  <2>2. pooled' = pooled
    BY <2>1 DEF TypeOK
  <2>3. th'[t].at = "lower" /\ th'[t].down = 1 /\ th'[t].h = th[t].h /\ Continues(th'[t], th[t])
    BY <1>1, <2>1 DEF TypeOK, Calls, Continues
  <2> QED BY <1>1, <1>2, <1>3, <2>1, <2>2, <2>3
<1>4. CASE th[t].down = 1
  <2>1. /\ Goes(t, [th[t] EXCEPT !.down = 2])
        /\ state' = state /\ process' = process /\ pooled' = pooled - 0
        /\ seat' = (IF seat = th[t].h THEN NoWork ELSE seat)
    BY <1>4 DEF Lower, Lowering
  <2>2. pooled' = pooled
    BY <2>1 DEF TypeOK
  <2>3. th'[t].at = "lower" /\ th'[t].down = 2 /\ th'[t].h = th[t].h /\ Continues(th'[t], th[t])
    BY <1>1, <2>1 DEF TypeOK, Calls, Continues
  <2> QED BY <1>1, <1>2, <1>4, <2>1, <2>2, <2>3
<1>5. CASE th[t].down = 2
  <2>1. /\ state' = state /\ seat' = seat
        /\ process' = process - 1 /\ pooled' = pooled - (IF th[t].h \in Pooled THEN 1 ELSE 0)
    BY <1>5 DEF Lower, Lowering
  <2>2. PICK l : th'[t] = After(t, l)
    BY <1>5, LowerEnds
  <2>3. th'[t].at \in {"out", "slots"} /\ th'[t].h = NoWork /\ th'[t].verb # "prefill"
    BY <1>1, <2>2, AfterShape
  <2> QED BY <1>1, <1>2, <1>5, <2>1, <2>3
<1>6. th[t].down \in {0, 1, 2}
  BY <1>1 DEF Calls
<1> QED BY <1>3, <1>4, <1>5, <1>6

LEMMA CountedIs ==
    ASSUME TypeOK, Shapes
    PROVE  Counted(state, th) \in SUBSET Handles
<1>1. ASSUME NEW u \in Threads, Lowered(th[u]) PROVE th[u].h \in Handles
  BY <1>1, Before DEF Lowered, Shape, Calls
<1> QED BY <1>1 DEF Counted, TypeOK

\* The first store: the handle leaves the state and is still counted.
LEMMA LowerState ==
    ASSUME NEW t \in Threads, TypeOK, Shapes, Hosts, OneBusy, Tokens, Counts, Seats, Lower(t), th[t].down = 0
    PROVE  Tokens' /\ Counts' /\ Seats' /\ Counted(state', th') = Counted(state, th)
<1> DEFINE h == th[t].h
<1>1. /\ Moves(t) /\ h \in Handles /\ h # NoWork /\ th[t].at = "lower" /\ token' = token
      /\ th'[t].at = "lower" /\ th'[t].down = 1 /\ th'[t].h = h
      /\ state' = state \ {h} /\ UNCHANGED <<process, pooled, seat>>
  BY LowerMoves, LowerMakes, NoWorkIsNone
<1>2. Holding(th[t]) /\ ~Lowered(th[t]) /\ Lowered(th'[t]) /\ ~Holding(th'[t]) /\ ~Taking(th'[t])
  BY <1>1 DEF Holding, Lowerer, Lowered, Taking
<1>3. h \in state /\ token[h] = NoWork
  BY <1>2 DEF Tokens
<1>4. ASSUME NEW u \in Threads, u # t PROVE th'[u] = th[u] /\ th[u].h # h
  BY <1>1, <1>4, OthersStay, Sole
<1> HIDE DEF h
<1>5. Counted(state', th') = Counted(state, th)
  <2>1. ASSUME NEW x \in Counted(state', th') PROVE x \in Counted(state, th)
    <3>1. CASE x \in state'
      BY <1>1, <3>1 DEF Counted
    <3>2. ASSUME NEW u \in Threads, Lowered(th'[u]), x = th'[u].h PROVE x \in Counted(state, th)
      BY <1>1, <1>3, <1>4, <3>2 DEF Counted
    <3> QED BY <3>1, <3>2 DEF Counted
  <2>2. ASSUME NEW x \in Counted(state, th) PROVE x \in Counted(state', th')
    <3>1. CASE x = h
      BY <1>1, <1>2, <3>1 DEF Counted
    <3>2. CASE x # h /\ x \in state
      BY <1>1, <3>2 DEF Counted
    <3>3. ASSUME NEW u \in Threads, Lowered(th[u]), x = th[u].h PROVE x \in Counted(state', th')
      BY <1>2, <1>4, <3>3 DEF Counted
    <3> QED BY <3>1, <3>2, <3>3 DEF Counted
  <2> QED BY <2>1, <2>2
<1>6. Counts'
  BY <1>1, <1>5 DEF Counts
<1>7. Seats'
  <2> SUFFICES ASSUME seat # NoWork, seat # h
               PROVE  seat \in state' \/ \E u \in Threads : th'[u].at = "lower" /\ th'[u].down = 1 /\ th'[u].h = seat
    BY <1>1 DEF Seats
  <2> QED BY <1>1, <1>4 DEF Seats
<1>8. Tokens'
  <2>1. \A k \in Handles : token'[k] # NoWork => k \in state'
    BY <1>1, <1>3 DEF Tokens
  <2>2. ASSUME NEW k \in state', token'[k] = NoWork PROVE \E u \in Threads : Holding(th'[u]) /\ th'[u].h = k
    <3>1. PICK u \in Threads : Holding(th[u]) /\ th[u].h = k
      BY <1>1, <2>2 DEF Tokens
    <3>2. k # h
      BY <1>1, <2>2
    <3>3. u # t
      BY <3>1, <3>2 DEF h
    <3> QED BY <1>4, <3>1, <3>3
  <2>3. ASSUME NEW u \in Threads, Holding(th'[u]) PROVE th'[u].h \in state' /\ token'[th'[u].h] = NoWork
    BY <1>1, <1>2, <1>4, <2>3 DEF Tokens
  <2>4. ASSUME NEW u \in Threads, Taking(th'[u]) PROVE th'[u].h \in state' /\ token'[th'[u].h] # NoWork
    BY <1>1, <1>2, <1>4, <2>4 DEF Tokens
  <2>5. ASSUME NEW u \in Threads, Lowered(th'[u]) PROVE th'[u].h \notin state'
    BY <1>1, <1>4, <2>5 DEF Tokens
  <2> QED BY <2>1, <2>2, <2>3, <2>4, <2>5 DEF Tokens
<1> QED BY <1>5, <1>6, <1>7, <1>8

\* The second: the pool's pointer.
LEMMA LowerSeat ==
    ASSUME NEW t \in Threads, TypeOK, Shapes, Hosts, OneBusy, Tokens, Counts, Seats, Lower(t), th[t].down = 1
    PROVE  Tokens' /\ Counts' /\ Seats' /\ Counted(state', th') = Counted(state, th)
<1>1. /\ Moves(t) /\ th[t].at = "lower" /\ token' = token
      /\ th'[t].at = "lower" /\ th'[t].down = 2 /\ th'[t].h = th[t].h
      /\ seat' = (IF seat = th[t].h THEN NoWork ELSE seat) /\ UNCHANGED <<process, pooled, state>>
  BY LowerMoves, LowerMakes
<1>2. SamePhase(th'[t], th[t])
  BY <1>1 DEF SamePhase, Holding, Lowerer, Lowered, Taking
<1>3. ASSUME NEW u \in Threads PROVE SamePhase(th'[u], th[u])
  BY <1>1, <1>2, OthersStay DEF SamePhase
<1>4. Counted(state', th') = Counted(state, th)
  BY <1>1, <1>3 DEF Counted, SamePhase
<1>5. Tokens' /\ Counts'
  BY <1>1, <1>3, <1>4 DEF Tokens, Counts, SamePhase
<1>6. Seats'
  <2> SUFFICES ASSUME seat # NoWork, seat # th[t].h
               PROVE  seat \in state \/ \E u \in Threads : th'[u].at = "lower" /\ th'[u].down = 1 /\ th'[u].h = seat
    BY <1>1 DEF Seats
  <2> QED BY <1>1, OthersStay DEF Seats
<1> QED BY <1>4, <1>5, <1>6

\* The third: the counts; the handle is not counted any more.
LEMMA LowerCounts ==
    ASSUME NEW t \in Threads, TypeOK, Shapes, Hosts, OneBusy, Tokens, Counts, Seats, Lower(t), th[t].down = 2
    PROVE  Tokens' /\ Counts' /\ Seats' /\ Counted(state', th') = Counted(state, th) \ {th[t].h}
<1> DEFINE h == th[t].h
           C == Counted(state, th)
           D == Counted(state', th')
<1>1. /\ Moves(t) /\ h \in Handles /\ h # NoWork /\ th[t].at = "lower" /\ token' = token
      /\ th'[t].at \in {"out", "slots"} /\ th'[t].h = NoWork /\ th'[t].verb # "prefill"
      /\ process' = process - 1 /\ pooled' = pooled - (IF h \in Pooled THEN 1 ELSE 0)
      /\ UNCHANGED <<state, seat>>
  BY LowerMoves, LowerMakes, NoWorkIsNone
<1>2. Lowered(th[t]) /\ ~Holding(th[t]) /\ ~Lowered(th'[t]) /\ ~Holding(th'[t]) /\ ~Taking(th'[t])
  BY <1>1 DEF Holding, Lowerer, Lowered, Taking, Waits
<1>3. h \notin state
  BY <1>2 DEF Tokens
<1>4. ASSUME NEW u \in Threads, u # t PROVE th'[u] = th[u] /\ th[u].h # h
  BY <1>1, <1>4, OthersStay, Sole
<1> HIDE DEF h
<1>5. D = C \ {h} /\ h \in C
  <2>1. ASSUME NEW x \in D PROVE x \in C /\ x # h
    <3>1. CASE x \in state
      BY <1>3, <3>1 DEF Counted
    <3>2. ASSUME NEW u \in Threads, Lowered(th'[u]), x = th'[u].h PROVE x \in C /\ x # h
      BY <1>2, <1>4, <3>2 DEF Counted
    <3> QED BY <1>1, <3>1, <3>2 DEF Counted
  <2>2. ASSUME NEW x \in C, x # h PROVE x \in D
    <3>1. CASE x \in state
      BY <1>1, <3>1 DEF Counted
    <3>2. ASSUME NEW u \in Threads, Lowered(th[u]), x = th[u].h PROVE x \in D
      BY <1>4, <2>2, <3>2 DEF Counted, h
    <3> QED BY <3>1, <3>2 DEF Counted
  <2>3. h \in C
    BY <1>2 DEF Counted, h
  <2> QED BY <2>1, <2>2, <2>3
<1> HIDE DEF C, D
<1>6. Counts'
  <2>1. IsFiniteSet(C) /\ process = Cardinality(C) /\ pooled = Cardinality(C \cap Pooled)
    BY DEF Counts, C
  <2>2. IsFiniteSet(D) /\ Cardinality(D) = Cardinality(C) - 1
    BY <1>5, <2>1, FS_RemoveElement
  <2>3. IsFiniteSet(C \cap Pooled)
    BY <2>1, FS_Subset
  <2>4. pooled' = Cardinality(D \cap Pooled)
    <3>1. CASE h \in Pooled
      <4>1. D \cap Pooled = (C \cap Pooled) \ {h} /\ h \in C \cap Pooled
        BY <1>5, <3>1
      <4>2. Cardinality((C \cap Pooled) \ {h}) = Cardinality(C \cap Pooled) - 1
        BY <2>3, <4>1, FS_RemoveElement
      <4>3. pooled' = pooled - 1
        BY <1>1, <3>1
      <4>4. Cardinality(D \cap Pooled) = Cardinality((C \cap Pooled) \ {h})
        BY <4>1, Zenon
      <4> QED BY <2>1, <4>2, <4>3, <4>4
    <3>2. CASE h \notin Pooled
      <4>1. D \cap Pooled = C \cap Pooled
        BY <1>5, <3>2
      <4>2. pooled' = pooled - 0
        BY <1>1, <3>2
      <4>3. Cardinality(C \cap Pooled) \in Nat
        BY <2>3, FS_CardinalityType
      <4>4. Cardinality(D \cap Pooled) = Cardinality(C \cap Pooled)
        BY <4>1, Zenon
      <4> QED BY <2>1, <4>2, <4>3, <4>4
    <3> QED BY <3>1, <3>2
  <2> QED BY <1>1, <2>1, <2>2, <2>4 DEF Counts, D
<1>7. Seats'
  <2> SUFFICES ASSUME seat # NoWork
               PROVE  seat \in state \/ \E u \in Threads : th'[u].at = "lower" /\ th'[u].down = 1 /\ th'[u].h = seat
    BY <1>1 DEF Seats
  <2> QED BY <1>4 DEF Seats
<1>8. Tokens'
  <2>1. ASSUME NEW k \in state, token[k] = NoWork PROVE \E u \in Threads : Holding(th'[u]) /\ th'[u].h = k
    <3>1. PICK u \in Threads : Holding(th[u]) /\ th[u].h = k
      BY <2>1 DEF Tokens
    <3> QED BY <1>2, <1>4, <3>1
  <2>2. ASSUME NEW u \in Threads
        PROVE  /\ Holding(th'[u]) => th'[u].h \in state /\ token[th'[u].h] = NoWork
               /\ Taking(th'[u]) => th'[u].h \in state /\ token[th'[u].h] # NoWork
               /\ Lowered(th'[u]) => th'[u].h \notin state
    BY <1>2, <1>4 DEF Tokens
  <2> QED BY <1>1, <2>1, <2>2 DEF Tokens
<1> QED BY <1>5, <1>6, <1>7, <1>8 DEF C, D, h

\* A handle more to count.
LEMMA CountOne ==
    ASSUME NEW C, NEW h, IsFiniteSet(C), h \notin C
    PROVE  /\ IsFiniteSet(C \cup {h}) /\ Cardinality(C \cup {h}) = Cardinality(C) + 1
           /\ h \in Pooled => Cardinality((C \cup {h}) \cap Pooled) = Cardinality(C \cap Pooled) + 1
           /\ h \notin Pooled => Cardinality((C \cup {h}) \cap Pooled) = Cardinality(C \cap Pooled)
<1>1. IsFiniteSet(C \cup {h}) /\ Cardinality(C \cup {h}) = Cardinality(C) + 1
  BY FS_AddElement
<1>2. ASSUME h \in Pooled PROVE Cardinality((C \cup {h}) \cap Pooled) = Cardinality(C \cap Pooled) + 1
  <2>1. (C \cup {h}) \cap Pooled = (C \cap Pooled) \cup {h}
    BY <1>2
  <2>2. IsFiniteSet(C \cap Pooled)
    BY FS_Subset
  <2>3. h \notin C \cap Pooled
    OBVIOUS
  <2>4. Cardinality((C \cap Pooled) \cup {h}) = Cardinality(C \cap Pooled) + 1
    BY <2>2, <2>3, FS_AddElement
  <2>5. Cardinality((C \cup {h}) \cap Pooled) = Cardinality((C \cap Pooled) \cup {h})
    BY <2>1, Zenon
  <2> QED BY <2>4, <2>5
<1>3. ASSUME h \notin Pooled PROVE Cardinality((C \cup {h}) \cap Pooled) = Cardinality(C \cap Pooled)
  <2>1. (C \cup {h}) \cap Pooled = C \cap Pooled
    BY <1>3
  <2> QED BY <2>1, Zenon
<1> QED BY <1>1, <1>2, <1>3

LEMMA RaiseCounts ==
    ASSUME NEW h \in Handles, TypeOK, Counts, Raise(h), h \notin Counted(state, th),
           Counted(state', th') = Counted(state, th) \cup {h}
    PROVE  Counts'
<1> DEFINE C == Counted(state, th)
           D == Counted(state', th')
<1>1. IsFiniteSet(C) /\ process = Cardinality(C) /\ pooled = Cardinality(C \cap Pooled) /\ h \notin C
  BY DEF Counts
<1>2. process' = process + 1 /\ pooled' = pooled + (IF h \in Pooled THEN 1 ELSE 0)
  BY DEF Raise
<1>3. D = C \cup {h}
  OBVIOUS
<1> HIDE DEF C, D
<1>4. IsFiniteSet(D) /\ Cardinality(D) = Cardinality(C) + 1
  BY <1>1, <1>3, CountOne, Zenon
<1>5. pooled' = Cardinality(D \cap Pooled)
  <2>1. CASE h \in Pooled
    <3>1. Cardinality(D \cap Pooled) = Cardinality(C \cap Pooled) + 1
      BY <1>1, <1>3, <2>1, CountOne, Zenon
    <3> QED BY <1>1, <1>2, <2>1, <3>1
  <2>2. CASE h \notin Pooled
    <3>1. Cardinality(D \cap Pooled) = Cardinality(C \cap Pooled)
      BY <1>1, <1>3, <2>2, CountOne, Zenon
    <3> QED BY <1>1, <1>2, <2>2, <3>1 DEF TypeOK
  <2> QED BY <2>1, <2>2
<1> QED BY <1>1, <1>2, <1>4, <1>5 DEF Counts, D

\* Beside a call that blocks, no other has its handle on hand.
LEMMA BlockSole ==
    ASSUME NEW t \in Threads, NEW h \in Handles, Shapes, MayBlock(t, {h}), NEW u \in Threads, u # t
    PROVE  th[u].h # h /\ h \notin NamesOf(th[u])
<1>1. CASE th[u].at = "out"
  <2>1. th[u].h = NoWork /\ th[u].rest = <<>>
    BY <1>1 DEF Shapes, Shape
  <2>2. NamesOf(th[u]) = {}
    BY <2>1, NoRest
  <2> QED BY <2>1, <2>2, NoWorkIsNone
<1>2. CASE th[u].at # "out"
  <2>1. h \notin NamesOf(th[u])
    BY <1>2, NamesIs DEF MayBlock, Others
  <2> QED BY <2>1, NoWorkIsNone DEF NamesOf
<1> QED BY <1>1, <1>2

LEMMA PrefillHandles ==
    ASSUME NEW t \in Threads, NEW h \in Handles, NEW n \in Parts, TypeOK, Shapes, Tokens, Counts, Seats,
           Prefill(t, h, n)
    PROVE  /\ Tokens' /\ Counts' /\ Seats' /\ h \notin Counted(state, th)
           /\ Counted(state', th') = Counted(state, th) \cup {h}
<1>1. /\ Moves(t) /\ th[t].at = "out" /\ th'[t].at = "guarded" /\ th'[t].verb = "prefill" /\ th'[t].h = h
      /\ th'[t].down = 0 /\ token' = token /\ state' = state \cup {h} /\ h \notin state /\ MayBlock(t, {h})
      /\ Raise(h) /\ seat' \in {h, seat}
  BY PrefillMoves DEF Prefill, Raise
<1>2. Holding(th'[t]) /\ ~Lowered(th'[t]) /\ ~Taking(th'[t]) /\ ~Holding(th[t]) /\ ~Lowered(th[t]) /\ ~Taking(th[t])
  BY <1>1 DEF Holding, Lowerer, Lowered, Taking
<1>3. ASSUME NEW u \in Threads, u # t PROVE th'[u] = th[u] /\ th[u].h # h
  BY <1>1, <1>3, OthersStay, BlockSole
<1>4. h \notin Counted(state, th)
  BY <1>1, <1>2, <1>3 DEF Counted
<1>5. Counted(state', th') = Counted(state, th) \cup {h}
  <2>1. ASSUME NEW u \in Threads PROVE Lowered(th'[u]) <=> Lowered(th[u])
    BY <1>2, <1>3
  <2>2. ASSUME NEW u \in Threads, Lowered(th[u]) PROVE th'[u].h = th[u].h
    BY <1>2, <1>3, <2>2
  <2> QED BY <1>1, <2>1, <2>2 DEF Counted
<1>6. Counts'
  BY <1>1, <1>4, <1>5, RaiseCounts
<1>7. Seats'
  <2> SUFFICES ASSUME seat # NoWork, seat # h
               PROVE  seat \in state' \/ \E u \in Threads : th'[u].at = "lower" /\ th'[u].down = 1 /\ th'[u].h = seat
    BY <1>1 DEF Seats
  <2> QED BY <1>1, <1>3 DEF Seats
<1>8. Tokens'
  <2>1. \A k \in Handles : token[k] # NoWork => k \in state'
    BY <1>1 DEF Tokens
  <2>2. ASSUME NEW k \in state', token[k] = NoWork PROVE \E u \in Threads : Holding(th'[u]) /\ th'[u].h = k
    <3>1. CASE k = h
      BY <1>1, <1>2, <3>1
    <3>2. CASE k # h
      BY <1>1, <1>2, <1>3, <2>2, <3>2 DEF Tokens
    <3> QED BY <3>1, <3>2
  <2>3. ASSUME NEW u \in Threads
        PROVE  /\ Holding(th'[u]) => th'[u].h \in state' /\ token[th'[u].h] = NoWork
               /\ Taking(th'[u]) => th'[u].h \in state' /\ token[th'[u].h] # NoWork
               /\ Lowered(th'[u]) => th'[u].h \notin state'
    BY <1>1, <1>2, <1>3 DEF Tokens
  <2> QED BY <1>1, <2>1, <2>2, <2>3 DEF Tokens
<1> QED BY <1>4, <1>5, <1>6, <1>7, <1>8

LEMMA HandOverHandles ==
    ASSUME NEW t \in Threads, TypeOK, Shapes, Hosts, OneBusy, Tokens, Counts, Seats, Owed, HandOver(t)
    PROVE  /\ Tokens' /\ Counts' /\ Seats' /\ th[t].h \notin Counted(state, th)
           /\ Counted(state', th') = Counted(state, th) \cup {th[t].h}
<1> DEFINE h == th[t].h
<1>1. /\ Moves(t) /\ h \in Handles /\ th[t].work \in Works /\ token' = [token EXCEPT ![h] = th[t].work]
      /\ Raise(h) /\ state' = state \cup {h} /\ seat' \in {h, seat}
      /\ th[t].at = "hand" /\ Decoder(th[t])
  BY HandOverMoves, HandOverToken DEF HandOver, Raise, Decoder
<1>2. th'[t].at = "out" \/ (th'[t].at = "take" /\ th'[t].h = h)
  BY HandOverIs DEF Continues
<1>3. ~Holding(th[t]) /\ ~Lowered(th[t]) /\ ~Taking(th[t])
  BY <1>1 DEF Holding, Lowerer, Lowered, Taking, Decoder, Waits
<1>4. ~Lowered(th'[t]) /\ (Taking(th'[t]) => th'[t].h = h)
  BY <1>2 DEF Lowered, Taking
<1>5. ~Holding(th'[t])
  <2>1. th'[t].verb = th[t].verb \/ th'[t].at = "out"
    BY <1>1, HandOverMoves DEF Narrows
  <2> QED BY <1>1, <1>2, <2>1 DEF Holding, Lowerer, Waits, Decoder
<1>6. h \notin Counted(state, th) /\ h \notin state
  BY <1>1 DEF Owed, Owing, Submits, Counted
<1>7. ASSUME NEW u \in Threads, u # t PROVE th'[u] = th[u] /\ th[u].h # h
  BY <1>1, <1>7, OthersStay, Sole, NoWorkIsNone
<1>8. token'[h] = th[t].work /\ token'[h] # NoWork /\ \A k \in Handles \ {h} : token'[k] = token[k]
  BY <1>1, NoWorkIsNone DEF TypeOK
<1> HIDE DEF h
<1>9. Counted(state', th') = Counted(state, th) \cup {h}
  <2>1. ASSUME NEW u \in Threads PROVE Lowered(th'[u]) <=> Lowered(th[u])
    BY <1>3, <1>4, <1>7
  <2>2. ASSUME NEW u \in Threads, Lowered(th[u]) PROVE th'[u].h = th[u].h
    BY <1>3, <1>7, <2>2
  <2> QED BY <1>1, <2>1, <2>2 DEF Counted
<1>10. Counts'
  BY <1>1, <1>6, <1>9, RaiseCounts
<1>11. Seats'
  <2> SUFFICES ASSUME seat # NoWork, seat # h
               PROVE  seat \in state' \/ \E u \in Threads : th'[u].at = "lower" /\ th'[u].down = 1 /\ th'[u].h = seat
    BY <1>1 DEF Seats
  <2> QED BY <1>1, <1>7 DEF Seats
<1>12. Tokens'
  <2>0. \A u \in Threads : (Holding(th[u]) \/ Taking(th[u]) => th[u].h \in Handles)
    BY DEF Tokens, TypeOK
  <2>1. ASSUME NEW k \in Handles, token'[k] # NoWork PROVE k \in state'
    BY <1>1, <1>8, <2>1 DEF Tokens
  <2>2. ASSUME NEW k \in state', token'[k] = NoWork PROVE \E u \in Threads : Holding(th'[u]) /\ th'[u].h = k
    <3>1. k # h /\ k \in state /\ token[k] = NoWork
      BY <1>1, <1>8, <2>2 DEF TypeOK
    <3>2. PICK u \in Threads : Holding(th[u]) /\ th[u].h = k
      BY <3>1 DEF Tokens
    <3> QED BY <1>3, <1>7, <3>2
  <2>3. ASSUME NEW u \in Threads
        PROVE  /\ Holding(th'[u]) => th'[u].h \in state' /\ token'[th'[u].h] = NoWork
               /\ Taking(th'[u]) => th'[u].h \in state' /\ token'[th'[u].h] # NoWork
               /\ Lowered(th'[u]) => th'[u].h \notin state'
    <3>1. CASE u = t
      BY <1>1, <1>4, <1>5, <1>8, <3>1
    <3>2. CASE u # t
      BY <1>1, <1>7, <1>8, <2>0, <3>2 DEF Tokens
    <3> QED BY <3>1, <3>2
  <2> QED BY <2>1, <2>2, <2>3 DEF Tokens
<1> QED BY <1>6, <1>9, <1>10, <1>11, <1>12 DEF h

LEMMA TakeHandles ==
    ASSUME NEW t \in Threads, TypeOK, Shapes, Hosts, OneBusy, Tokens, Counts, Seats, Take(t)
    PROVE  Tokens' /\ Counts' /\ Seats' /\ Counted(state', th') = Counted(state, th)
<1> DEFINE h == th[t].h
<1>1. /\ Moves(t) /\ h \in Handles /\ h \in state /\ token' = [token EXCEPT ![h] = NoWork] /\ CountsStay
      /\ th[t].at = "take" /\ th'[t].at = "wait" /\ th'[t].then = "finish" /\ th'[t].h = h /\ th'[t].down = 0
  <2>1. Moves(t) /\ th[t].at = "take" /\ Continues(th'[t], th[t])
    BY TakeMoves, Continue DEF Take
  <2>2. th'[t].h = th[t].h
    BY <2>1, TakeMakes DEF Continues
  <2>3. h \in state
    BY <2>1 DEF Tokens, Taking
  <2> QED BY <2>1, <2>2, <2>3, TakeMakes DEF Take, CountsStay, Moves, Shape
<1>2. Holding(th'[t]) /\ ~Lowered(th'[t]) /\ ~Taking(th'[t]) /\ ~Lowered(th[t]) /\ Taking(th[t])
  BY <1>1 DEF Holding, Lowerer, Lowered, Taking, Waits
<1>3. ASSUME NEW u \in Threads, u # t PROVE th'[u] = th[u] /\ th[u].h # h
  BY <1>1, <1>3, OthersStay, Sole, NoWorkIsNone
<1>4. token'[h] = NoWork /\ \A k \in Handles \ {h} : token'[k] = token[k]
  BY <1>1 DEF TypeOK
<1> HIDE DEF h
<1>5. Counted(state', th') = Counted(state, th)
  <2>1. ASSUME NEW u \in Threads PROVE Lowered(th'[u]) <=> Lowered(th[u])
    BY <1>2, <1>3
  <2>2. ASSUME NEW u \in Threads, Lowered(th[u]) PROVE th'[u].h = th[u].h
    BY <1>2, <1>3, <2>2
  <2> QED BY <1>1, <2>1, <2>2 DEF Counted, CountsStay
<1>6. Counts'
  BY <1>1, <1>5 DEF Counts, CountsStay
<1>7. Seats'
  BY <1>1, <1>3 DEF Seats, CountsStay
<1>8. Tokens'
  <2>0. \A u \in Threads : (Holding(th[u]) \/ Taking(th[u]) => th[u].h \in Handles)
    BY DEF Tokens, TypeOK
  <2>1. ASSUME NEW k \in Handles, token'[k] # NoWork PROVE k \in state'
    BY <1>1, <1>4, <2>1 DEF Tokens, CountsStay
  <2>2. ASSUME NEW k \in state', token'[k] = NoWork PROVE \E u \in Threads : Holding(th'[u]) /\ th'[u].h = k
    <3>1. CASE k = h
      BY <1>1, <1>2, <3>1
    <3>2. CASE k # h
      <4>1. k \in state /\ token[k] = NoWork
        BY <1>1, <1>4, <2>2, <3>2 DEF TypeOK, CountsStay
      <4>2. PICK u \in Threads : Holding(th[u]) /\ th[u].h = k
        BY <4>1 DEF Tokens
      <4>3. u # t
        BY <3>2, <4>2 DEF h
      <4> QED BY <1>3, <4>2, <4>3
    <3> QED BY <3>1, <3>2
  <2>3. ASSUME NEW u \in Threads
        PROVE  /\ Holding(th'[u]) => th'[u].h \in state' /\ token'[th'[u].h] = NoWork
               /\ Taking(th'[u]) => th'[u].h \in state' /\ token'[th'[u].h] # NoWork
               /\ Lowered(th'[u]) => th'[u].h \notin state'
    <3>1. CASE u = t
      BY <1>1, <1>2, <1>4, <3>1 DEF CountsStay
    <3>2. CASE u # t
      BY <1>1, <1>3, <1>4, <2>0, <3>2 DEF Tokens, CountsStay
    <3> QED BY <3>1, <3>2
  <2> QED BY <2>1, <2>2, <2>3 DEF Tokens
<1> QED BY <1>5, <1>6, <1>7, <1>8

\* A ready call begins on a handle Submitted whose token holds work.
LEMMA ReadyHandles ==
    ASSUME NEW t \in Threads, NEW h \in Handles, TypeOK, Shapes, Tokens, Counts, Seats, Poll(t, h) \/ Ready(t, h)
    PROVE  Tokens' /\ Counts' /\ Seats' /\ Counted(state', th') = Counted(state, th)
<1>1. /\ Moves(t) /\ th[t].at = "out" /\ th'[t].h = h /\ th'[t].verb \in {"poll", "ready"}
      /\ th'[t].at = "take" \/ (th'[t].at = "land" /\ th'[t].then = "take")
      /\ token' = token /\ CountsStay /\ h \in state
  BY PollMoves, ReadyMoves DEF Poll, Ready, CountsStay
<1>2. token[h] # NoWork
  <2>1. CASE Poll(t, h)
    BY <2>1, PollFinds
  <2>2. CASE Ready(t, h)
    <3>1. MayBlock(t, {h})
      BY <2>2 DEF Ready
    <3>2. NamesOf(th[t]) = {}
      BY <1>1, NoRest DEF Shapes, Shape
    <3>3. \A u \in Threads : h \notin NamesOf(th[u])
      BY <3>1, <3>2, BlockSole
    <3> QED BY <1>1, <3>3, Idle
  <2> QED BY <2>1, <2>2
<1>3. Taking(th'[t]) /\ ~Holding(th'[t]) /\ ~Lowered(th'[t]) /\ ~Holding(th[t]) /\ ~Lowered(th[t])
  BY <1>1 DEF Holding, Lowerer, Lowered, Taking, Waits
<1>4. ASSUME NEW u \in Threads, u # t PROVE th'[u] = th[u]
  BY <1>1, <1>4, OthersStay
<1>5. Counted(state', th') = Counted(state, th)
  BY <1>1, <1>3, <1>4 DEF Counted, CountsStay
<1>6. Counts'
  BY <1>1, <1>5 DEF Counts, CountsStay
<1>7. Seats'
  BY <1>1, <1>4 DEF Seats, CountsStay
<1>8. Tokens'
  BY <1>1, <1>2, <1>3, <1>4 DEF Tokens, CountsStay
<1> QED BY <1>5, <1>6, <1>7, <1>8

\* How the counted handles change.
Raises(t) == HandOver(t) \/ \E h \in Handles, n \in Parts : Prefill(t, h, n)

LEMMA AsideHandles ==
    ASSUME NEW t \in Threads, TypeOK, Shapes, Tokens, Counts, Seats, Aside(t)
    PROVE  Tokens' /\ Counts' /\ Seats' /\ Counted(state', th') = Counted(state, th)
<1>1. Moves(t) /\ token' = token /\ CountsStay /\ SamePhase(th'[t], th[t])
  BY AsideStays, AsidePhase
<1>2. th[t].at # "lower"
  BY DEF Aside, Slot, BeginRefused, BeginRecording, AbandonRecording, Execute, Signal, SignalFails,
         PartSubmitted, HandFails, Waited, Land, WaitFails, Drain, Step, Batch
<1> QED BY <1>1, <1>2, PhaseStays, SeatsStay

LEMMA LowerHandles ==
    ASSUME NEW t \in Threads, TypeOK, Shapes, Hosts, OneBusy, Tokens, Counts, Seats, Lower(t)
    PROVE  Tokens' /\ Counts' /\ Seats' /\ Counted(state', th') \subseteq Counted(state, th)
<1>1. th[t].down \in 0..2
  BY Before DEF Calls
<1> QED BY <1>1, LowerState, LowerSeat, LowerCounts

LEMMA HandlesKept ==
    ASSUME NEW t \in Threads, TypeOK, Shapes, Hosts, OneBusy, Tokens, Counts, Seats, Owed,
           Call(t) \/ InCall(t) \/ WaitFails(t)
    PROVE  /\ Tokens' /\ Counts' /\ Seats'
           /\ Raises(t) \/ Counted(state', th') \subseteq Counted(state, th)
<1>1. CASE Aside(t)
  BY <1>1, AsideHandles
<1>2. CASE Lower(t)
  BY <1>2, LowerHandles
<1>3. CASE HandOver(t)
  BY <1>3, HandOverHandles DEF Raises
<1>4. CASE Take(t)
  BY <1>4, TakeHandles
<1>5. ASSUME NEW h \in Handles, NEW n \in Parts, Prefill(t, h, n) PROVE Tokens' /\ Counts' /\ Seats' /\ Raises(t)
  BY <1>5, PrefillHandles DEF Raises
<1>6. ASSUME NEW h \in Handles, Poll(t, h) \/ Ready(t, h)
      PROVE  Tokens' /\ Counts' /\ Seats' /\ Counted(state', th') \subseteq Counted(state, th)
  BY <1>6, ReadyHandles
<1>7. \/ Aside(t) \/ Lower(t) \/ HandOver(t) \/ Take(t)
      \/ \E h \in Handles : Poll(t, h) \/ Ready(t, h)
      \/ \E h \in Handles, n \in Parts : Prefill(t, h, n)
  BY DEF Aside, Call, InCall
<1> QED BY <1>1, <1>2, <1>3, <1>4, <1>5, <1>6, <1>7

\* A decode that claims its handle finds it counted by nobody.
LEMMA FreeOwes ==
    ASSUME NEW t \in Threads, NEW h \in Handles, TypeOK, Shapes, Hosts', Claimed, Moves(t),
           h \notin claims, h \notin state, th[t].at \in {"out", "slots"},
           th'[t].at = "guarded", th'[t].h = h, Decoder(th'[t])
    PROVE  h \notin Counted(state, th)
<1> SUFFICES ASSUME NEW u \in Threads, Lowered(th[u]), th[u].h = h PROVE FALSE
  BY DEF Counted
<1>1. u # t /\ th'[u] = th[u]
  BY OthersStay DEF Lowered
<1>2. h \in NamesOf(th'[t]) /\ h \in NamesOf(th[u])
  BY NoWorkIsNone DEF NamesOf
<1>3. Apart(th'[t], th[u])
  BY <1>1 DEF Hosts
<1>4. ~Busy(th[u])
  BY <1>2, <1>3, NoneBusy DEF Decoder
<1>5. th[u].verb = "poll"
  BY <1>4 DEF Busy, Lowered
<1> QED BY <1>2, <1>3, <1>5 DEF Apart, Lowered, Decoder

LEMMA EndsUnowed ==
    ASSUME NEW r, r.at \in {"out", "slots", "lower", "take"} \/ ~Decoder(r)
    PROVE  ~Owing(r)
BY DEF Owing, Submits, Waits

\* Any other step of a decode that owes its handle found it so.
LEMMA OwingSteps ==
    ASSUME NEW t \in Threads, TypeOK, Shapes, Tokens, Call(t) \/ InCall(t) \/ WaitFails(t), Owing(th'[t])
    PROVE  \/ \E h \in Handles : Step(t, h)
           \/ Slot(t)
           \/ Owing(th[t]) /\ th'[t].h = th[t].h /\ ~Raises(t)
<1>0. th[t] \in Calls /\ Shape(th[t])
  BY Before
<1>7. ASSUME HandOver(t) PROVE FALSE
  BY <1>7, HandOverIs, EndsUnowed
<1>11. ASSUME NEW h \in Handles, NEW n \in Parts, Prefill(t, h, n) PROVE FALSE
  BY <1>11, PrefillMoves, EndsUnowed DEF Decoder
<1>12. ~Raises(t)
  BY <1>7, <1>11 DEF Raises
<1>1. CASE \/ BeginRecording(t) \/ Execute(t) \/ Signal(t) \/ PartSubmitted(t) \/ HandFails(t)
           \/ Take(t) \/ Waited(t)
  <2>1. Continues(th'[t], th[t])
    BY <1>1, Continue
  <2>2. Owing(th[t])
    <3>1. CASE BeginRecording(t) \/ Execute(t) \/ Signal(t) \/ PartSubmitted(t) \/ HandFails(t)
      BY <2>1, <3>1 DEF BeginRecording, Execute, Signal, PartSubmitted, HandFails, Owing, Submits, Continues, Decoder
    <3>2. CASE Take(t)
      BY <3>2, TakeMakes DEF Owing, Submits, Waits
    <3>3. CASE Waited(t)
      <4>1. th'[t].then = th[t].then /\ th[t].at = "wait" /\ th'[t].at = "land"
        BY <1>0, <3>3 DEF Waited, TypeOK, Calls
      <4> QED BY <2>1, <4>1 DEF Owing, Submits, Waits, Continues, Decoder
    <3> QED BY <1>1, <3>1, <3>2, <3>3
  <2> QED BY <1>12, <2>1, <2>2 DEF Continues
<1>2. CASE BeginRefused(t) \/ AbandonRecording(t)
  BY <1>0, <1>2, RefusedMoves, AbandonMoves, EndsAt, EndsUnowed DEF BeginRefused, AbandonRecording, Ends
<1>3. CASE SignalFails(t)
  BY <1>3, <1>12, SignalFailsIs, EndsAt, EndsUnowed DEF Owing, Submits, Decoder, Continues
<1>4. CASE Land(t)
  BY <1>4, <1>12, LandIs, EndsAt, EndsUnowed DEF Ends, Owing, Submits, Waits, Decoder, Continues
<1>5. CASE WaitFails(t)
  BY <1>5, WaitFailsIs, EndsAt, EndsUnowed
<1>6. CASE Lower(t)
  BY <1>6, LowerMakes, EndsUnowed
<1>8. CASE Drain(t)
  BY <1>8, DrainMoves, EndsUnowed DEF Decoder
<1>9. ASSUME NEW h \in Handles, Poll(t, h) \/ Ready(t, h) PROVE FALSE
  BY <1>9, PollMoves, ReadyMoves, EndsUnowed DEF Decoder
<1>10. ASSUME NEW hs \in Batches, Batch(t, hs) PROVE FALSE
  BY <1>10, BatchMoves, EndsUnowed
<1> QED BY <1>1, <1>2, <1>3, <1>4, <1>5, <1>6, <1>7, <1>8, <1>9, <1>10, <1>11 DEF Call, InCall

LEMMA OwedKept ==
    ASSUME NEW t \in Threads, TypeOK, Shapes, Hosts, OneBusy, Claimed, Tokens, Counts, Seats, Owed,
           Call(t) \/ InCall(t) \/ WaitFails(t)
    PROVE  Owed'
<1> SUFFICES ASSUME NEW u \in Threads, Owing(th'[u]) PROVE th'[u].h \notin Counted(state', th')
  BY DEF Owed
<1>1. Moves(t) /\ Hosts'
  BY ThreadsMove, HostsKept
<1>2. CASE u # t
  <2>1. th'[u] = th[u] /\ th[u].h \notin Counted(state, th)
    BY <1>1, <1>2, OthersStay DEF Owed
  <2>2. CASE HandOver(t)
    <3>1. th[t].h # th[u].h
      BY <1>2, <2>2, HandOverToken, Sole, NoWorkIsNone
    <3> QED BY <2>1, <2>2, <3>1, HandOverHandles
  <2>3. ASSUME NEW h \in Handles, NEW n \in Parts, Prefill(t, h, n) PROVE th[u].h \notin Counted(state', th')
    <3>1. th[u].h # h
      BY <1>2, <2>3, BlockSole DEF Prefill
    <3> QED BY <2>1, <2>3, <3>1, PrefillHandles
  <2>4. CASE ~Raises(t)
    BY <2>1, <2>4, HandlesKept
  <2> QED BY <2>1, <2>2, <2>3, <2>4 DEF Raises
<1>3. CASE u = t
  <2>1. ASSUME NEW h \in Handles, Step(t, h) PROVE th'[t].h \notin Counted(state', th')
    <3>0. /\ h \notin claims /\ h \notin state /\ th[t].at = "out"
          /\ th'[t].at = "guarded" /\ th'[t].h = h /\ Decoder(th'[t])
      BY <2>1, StepMoves DEF Step, Decoder
    <3>1. th'[t].h \notin Counted(state, th)
      BY <1>1, <3>0, FreeOwes
    <3> QED BY <2>1, <3>1, AsideHandles DEF Aside
  <2>2. CASE Slot(t)
    <3> DEFINE h == Head(th[t].rest)
    <3>0. th[t] \in Calls /\ th[t].at = "slots" /\ th[t].rest # <<>>
      BY <2>2, Before DEF Slot, Shape
    <3>1. h \in Handles
      BY <3>0, RestOfTail DEF Calls
    <3>2. th'[t].at = "guarded"
      BY <1>3, <2>2, <3>0, SlotMoves, EndsUnowed DEF Slot, TypeOK, Out, Calls
    <3>3. h \notin claims /\ h \notin state /\ th'[t].h = h
      BY <2>2, <3>0, <3>2 DEF Slot, TypeOK, Out, Calls
    <3>4. th'[t].h \notin Counted(state, th)
      BY <1>1, <1>3, <3>0, <3>1, <3>2, <3>3, FreeOwes DEF Owing
    <3> QED BY <1>3, <2>2, <3>4, AsideHandles DEF Aside
  <2>3. CASE Owing(th[t]) /\ th'[t].h = th[t].h /\ ~Raises(t)
    <3>1. th[t].h \notin Counted(state, th)
      BY <2>3 DEF Owed
    <3>2. Counted(state', th') \subseteq Counted(state, th)
      BY <2>3, HandlesKept
    <3> QED BY <1>3, <2>3, <3>1, <3>2
  <2>4. \/ \E h \in Handles : Step(t, h)
        \/ Slot(t)
        \/ Owing(th[t]) /\ th'[t].h = th[t].h /\ ~Raises(t)
    BY <1>3, OwingSteps
  <2> QED BY <1>3, <2>1, <2>2, <2>3, <2>4
<1> QED BY <1>2, <1>3

\* A call that narrows is admitted as it was.
LEMMA AdmitsNarrow ==
    ASSUME NEW r \in Calls, NEW s \in Calls, Shape(r), Shape(s), Narrows(r, s), NEW C, NEW D, D \subseteq C,
           D \subseteq Handles, Admits(s, C), r.at = "out" \/ ~Decoder(r) \/ r.h = s.h \/ s.h \notin D
    PROVE  Admits(r, D)
<1> SUFFICES ASSUME r.at # "out", Decoder(r) PROVE Admits(r, D)
  BY DEF Admits
<1>1. s.at # "out" /\ Decoder(s) /\ NamesOf(r) \subseteq NamesOf(s) /\ NamesOf(r) # {}
  BY DEF Narrows, Decoder
<1>2. ASSUME NEW x \in D, x = s.h PROVE x = r.h /\ x \in NamesOf(r)
  BY <1>2, NoWorkIsNone DEF NamesOf
<1>3. ASSUME NamesOf(r) \cap Pooled # {}, NEW x \in D PROVE r.h = x \/ NamesOf(r) = {x}
  <2>1. s.h = x \/ NamesOf(s) = {x}
    BY <1>1, <1>3 DEF Admits
  <2> QED BY <1>1, <1>2, <1>3, <2>1
<1>4. ASSUME NamesOf(r) \cap Pooled = {}, NEW x \in D, x \in Pooled PROVE FALSE
  <2>1. CASE NamesOf(s) \cap Pooled = {}
    BY <1>1, <1>4, <2>1 DEF Admits
  <2>2. CASE NamesOf(s) \cap Pooled # {}
    <3>1. s.h = x \/ NamesOf(s) = {x}
      BY <1>1, <1>4, <2>2 DEF Admits
    <3>2. x \in NamesOf(r)
      BY <1>1, <1>2, <1>4, <3>1
    <3> QED BY <1>4, <3>2
  <2> QED BY <2>1, <2>2
<1>5. NamesOf(r) \cap Pooled = {} => D \cap Pooled = {}
  BY <1>4
<1> QED BY <1>3, <1>5 DEF Admits

\* The handle that a call leaves behind is not counted.
LEMMA LeavesUncounted ==
    ASSUME NEW t \in Threads, NEW l, TypeOK, Shapes, Owed, th[t].at \notin {"out", "slots", "lower", "take"},
           ~(Waits(th[t]) /\ th[t].then \in {"finish", "take"}), Moves(t), Narrows(th'[t], th[t]),
           th'[t] = After(t, l)
    PROVE  th'[t].at = "out" \/ ~Decoder(th'[t]) \/ th[t].h \notin Counted(state, th)
<1> SUFFICES ASSUME th'[t].at # "out", Decoder(th'[t]) PROVE th[t].h \notin Counted(state, th)
  OBVIOUS
<1>1. th[t] \in Calls /\ Shape(th[t]) /\ Decoder(th[t])
  BY Before DEF Narrows, Decoder
<1>2. Submits(th[t]) \/ Waits(th[t])
  BY <1>1 DEF Calls, Stages, Submits, Waits
<1>3. Waits(th[t]) => th[t].then = "drop"
  BY <1>1 DEF Shape, Decoder
<1> QED BY <1>1, <1>2, <1>3 DEF Owed, Owing

LEMMA NarrowSteps ==
    ASSUME NEW t \in Threads, TypeOK, Shapes, Hosts, OneBusy, Tokens, Counts, Seats, Owed,
           InCall(t) \/ WaitFails(t)
    PROVE  \/ th'[t].at = "out" \/ ~Decoder(th'[t]) \/ th'[t].h = th[t].h
           \/ th[t].h \notin Counted(state', th')
<1>0. th[t] \in Calls /\ Shape(th[t]) /\ Moves(t) /\ Narrows(th'[t], th[t])
  BY Before, InCallMoves
<1>1. CASE \/ BeginRecording(t) \/ Execute(t) \/ Signal(t) \/ PartSubmitted(t) \/ HandFails(t)
           \/ Take(t) \/ Waited(t)
  BY <1>1, Continue DEF Continues
<1>2. CASE Slot(t)
  <2>1. th[t].h = NoWork
    BY <1>0, <1>2 DEF Slot, Shape
  <2>2. Counted(state', th') = Counted(state, th)
    BY <1>2, AsideHandles DEF Aside
  <2> QED BY <2>1, <2>2, CountedIs, NoWorkIsNone
<1>3. CASE BeginRefused(t) \/ AbandonRecording(t)
  <2>1. th[t].at \in {"guarded", "recording"} /\ \E l : th'[t] = After(t, l)
    BY <1>3, RefusedMoves, AbandonMoves DEF BeginRefused, AbandonRecording, Ends
  <2>2. Counted(state', th') = Counted(state, th)
    BY <1>3, AsideHandles DEF Aside
  <2> QED BY <1>0, <2>1, <2>2, LeavesUncounted DEF Waits
<1>4. CASE SignalFails(t)
  <2>1. Counted(state', th') = Counted(state, th)
    BY <1>4, AsideHandles DEF Aside
  <2> QED BY <1>0, <1>4, <2>1, SignalFailsIs, LeavesUncounted DEF Waits, Continues
<1>5. CASE Land(t)
  <2>1. Counted(state', th') = Counted(state, th)
    BY <1>5, AsideHandles DEF Aside
  <2> QED BY <1>0, <1>5, <2>1, LandIs, LeavesUncounted DEF Continues, Ends
<1>6. CASE WaitFails(t)
  <2>1. Counted(state', th') = Counted(state, th)
    BY <1>6, AsideHandles DEF Aside
  <2> QED BY <1>0, <1>6, <2>1, WaitFailsIs, LeavesUncounted DEF Continues
<1>7. CASE Lower(t)
  <2>1. CASE th[t].down = 2
    BY <1>7, <2>1, LowerCounts
  <2>2. CASE th[t].down # 2
    BY <1>7, <2>2, LowerMakes
  <2> QED BY <2>1, <2>2
<1>8. CASE HandOver(t)
  BY <1>8, HandOverIs DEF Continues
<1> QED BY <1>1, <1>2, <1>3, <1>4, <1>5, <1>6, <1>7, <1>8 DEF InCall

\* The guard admits a decode of the handles N.
LEMMA GuardAdmits ==
    ASSUME TypeOK, Counts, NEW N, Guard(N \cap Pooled # {}), NEW r, NamesOf(r) = N
    PROVE  Admits(r, Counted(state, th))
<1> DEFINE C == Counted(state, th)
<1>1. IsFiniteSet(C) /\ process = Cardinality(C) /\ pooled = Cardinality(C \cap Pooled)
  BY DEF Counts
<1> HIDE DEF C
<1>2. CASE N \cap Pooled # {}
  <2>1. C = {}
    BY <1>1, <1>2, FS_EmptySet DEF Guard
  <2> QED BY <1>2, <2>1 DEF Admits, C
<1>3. CASE N \cap Pooled = {}
  <2>1. IsFiniteSet(C \cap Pooled) /\ Cardinality(C \cap Pooled) = 0
    BY <1>1, <1>3, FS_Subset DEF Guard
  <2>2. C \cap Pooled = {}
    BY <2>1, FS_EmptySet
  <2> QED BY <1>3, <2>2 DEF Admits, C
<1> QED BY <1>2, <1>3

LEMMA AdmittedKept ==
    ASSUME NEW t \in Threads, TypeOK, Shapes, Hosts, OneBusy, Claimed, Tokens, Counts, Seats, Owed, Admitted,
           TypeOK', Call(t) \/ InCall(t) \/ WaitFails(t)
    PROVE  Admitted'
<1> DEFINE C == Counted(state, th)
           D == Counted(state', th')
<1> SUFFICES ASSUME NEW u \in Threads PROVE Admits(th'[u], D)
  BY DEF Admitted
<1>1. Moves(t) /\ Shapes'
  BY ThreadsMove, ShapesKept
<1>2. th[u] \in Calls /\ Shape(th[u]) /\ th'[u] \in Calls /\ Shape(th'[u]) /\ C \subseteq Handles /\ D \subseteq Handles
  <2>1. D \subseteq Handles
    <3>1. ASSUME NEW w \in Threads, Lowered(th'[w]) PROVE th'[w].h \in Handles
      <4>1. th'[w] \in Calls /\ Shape(th'[w]) /\ th'[w].at = "lower"
        BY <1>1, <3>1 DEF TypeOK, Lowered, Shapes
      <4>2. th'[w].h # NoWork
        BY <4>1 DEF Shape
      <4> QED BY <4>1, <4>2 DEF Calls
    <3> QED BY <3>1 DEF Counted, TypeOK
  <2> QED BY <1>1, <2>1, Before, CountedIs DEF TypeOK, Shapes
<1>3. Admits(th[u], C)
  BY DEF Admitted
<1> HIDE DEF C, D
<1>4. CASE u # t
  <2>1. th'[u] = th[u]
    BY <1>1, <1>4, OthersStay
  <2>2. CASE HandOver(t)
    <3> DEFINE h == th[t].h
    <3>1. D = C \cup {h} /\ h \in Handles
      BY <2>2, HandOverHandles, HandOverToken DEF C, D
    <3>2. th[t].at # "out" /\ Decoder(th[t]) /\ h \in NamesOf(th[t])
      BY <2>2, <3>1, NoWorkIsNone DEF HandOver, Decoder, NamesOf
    <3>3. Apart(th[t], th[u])
      BY <1>4 DEF Hosts
    <3> HIDE DEF h
    <3>4. th[u].at # "out" /\ Decoder(th[u]) => NamesOf(th[u]) = {h}
      BY <3>2, <3>3 DEF Apart, Decoder
    <3> QED BY <1>3, <2>1, <3>1, <3>4 DEF Admits
  <2>3. ASSUME NEW h \in Handles, NEW n \in Parts, Prefill(t, h, n) PROVE Admits(th'[u], D)
    <3>1. th[u].at # "out" => th[u].verb = "poll"
      BY <1>4, <2>3, BlockAlone DEF Prefill
    <3> QED BY <2>1, <3>1 DEF Admits, Decoder
  <2>4. CASE ~Raises(t)
    <3>1. D \subseteq C
      BY <2>4, HandlesKept DEF C, D
    <3> QED BY <1>3, <2>1, <3>1 DEF Admits
  <2> QED BY <2>2, <2>3, <2>4 DEF Raises
<1>5. CASE u = t
  <2>1. CASE HandOver(t)
    <3> DEFINE h == th[t].h
    <3>1. D = C \cup {h} /\ h \in Handles
      BY <2>1, HandOverHandles, HandOverToken DEF C, D
    <3>2. Narrows(th'[t], th[t])
      BY <2>1, HandOverMoves
    <3>3. th'[t].at = "out" \/ ~Decoder(th'[t]) \/ th'[t].h = h
      BY <2>1, HandOverIs DEF Continues
    <3>4. Admits(th'[t], C)
      BY <1>2, <1>3, <1>5, <3>2, <3>3, AdmitsNarrow
    <3>5. th'[t].h = h => h \in NamesOf(th'[t])
      BY <3>1, NoWorkIsNone DEF NamesOf
    <3> HIDE DEF h
    <3> QED BY <1>5, <3>1, <3>3, <3>4, <3>5 DEF Admits
  <2>2. CASE (InCall(t) \/ WaitFails(t)) /\ ~HandOver(t)
    <3>1. ~Raises(t)
      BY <2>2, <1>1, InCallMoves DEF Raises, Prefill, Narrows
    <3>2. D \subseteq C
      BY <3>1, HandlesKept DEF C, D
    <3>3. Narrows(th'[t], th[t])
      BY <2>2, InCallMoves
    <3>4. th'[t].at = "out" \/ ~Decoder(th'[t]) \/ th'[t].h = th[t].h \/ th[t].h \notin D
      BY <2>2, NarrowSteps DEF D
    <3> QED BY <1>2, <1>3, <1>5, <3>2, <3>3, <3>4, AdmitsNarrow
  <2>3. ASSUME NEW h \in Handles, Step(t, h) PROVE Admits(th'[t], D)
    <3>1. D = C
      BY <2>3, AsideHandles DEF Aside, C, D
    <3>2. NamesOf(th'[t]) = {h} /\ Guard(h \in Pooled)
      BY <2>3, StepMoves DEF Step
    <3>3. Guard({h} \cap Pooled # {})
      BY <3>2 DEF Guard
    <3> QED BY <3>1, <3>2, <3>3, GuardAdmits DEF C
  <2>4. ASSUME NEW hs \in Batches, Batch(t, hs) PROVE Admits(th'[t], D)
    <3> DEFINE N == {hs[i] : i \in DOMAIN hs}
    <3>1. D = C
      BY <2>4, AsideHandles DEF Aside, C, D
    <3>2. NamesOf(th'[t]) = N /\ Guard(N \cap Pooled # {})
      BY <2>4, BatchMoves DEF Batch
    <3> HIDE DEF N
    <3> QED BY <3>1, <3>2, GuardAdmits DEF C
  <2>5. ASSUME NEW h \in Handles, Poll(t, h) \/ Ready(t, h) PROVE Admits(th'[t], D)
    BY <2>5, PollMoves, ReadyMoves DEF Admits, Decoder
  <2>6. ASSUME NEW h \in Handles, NEW n \in Parts, Prefill(t, h, n) PROVE Admits(th'[t], D)
    BY <2>6, PrefillMoves DEF Admits, Decoder
  <2>7. CASE Drain(t)
    BY <1>5, <2>7, DrainMoves DEF Admits, Decoder
  <2> QED BY <1>5, <2>1, <2>2, <2>3, <2>4, <2>5, <2>6, <2>7 DEF Call
<1> QED BY <1>4, <1>5

-----------------------------------------------------------------------------
(* The invariant. *)

\* The handles' counts and claims are empty to begin with.
LEMMA Start == Init => IInv
<1> SUFFICES ASSUME Init PROVE IInv
  OBVIOUS
<1>1. \A t \in Threads : th[t] = Out
  BY DEF Init
<1>2. /\ Out.at = "out" /\ Out.verb = "none" /\ Out.h = NoWork /\ Out.work = NoWork /\ Out.down = 0
      /\ Out.rest = <<>>
  BY DEF Out
<1>3. TypeOK
  <2>1. th \in [Threads -> Calls]
    BY OutShape DEF Init
  <2>2. token \in [Handles -> Works \cup {NoWork}] /\ queue \in Seq(Items)
    BY DEF Init
  <2>3. /\ submitted \in Nat /\ observed \in Nat /\ fence \in Nat /\ completed \in Nat
        /\ process \in Int /\ pooled \in Int
    BY DEF Init
  <2>4. /\ unsignaled \in BOOLEAN /\ lost \in BOOLEAN /\ state \in SUBSET Handles /\ graveyard \in SUBSET Nat
        /\ seat \in Handles \cup {NoWork} /\ claims \in SUBSET Handles
    BY DEF Init
  <2> QED BY <2>1, <2>2, <2>3, <2>4 DEF TypeOK
<1>4. Shapes
  BY <1>1, OutShape DEF Shapes
<1>5. Hosts /\ OneBusy /\ Claimed
  BY <1>1, <1>2 DEF Hosts, Apart, OneBusy, Busy, Claimed, Init
<1>6. DOMAIN queue = {}
  BY DEF Init
<1>7. Ordered /\ Follows /\ Keeps
  BY <1>6 DEF Ordered, Follows, Keeps, Init
<1>8. Times
  BY <1>1, <1>2 DEF Times, Timed, Signaled, Init
<1>9. Recordings
  BY <1>1, <1>2 DEF Recordings
<1>10. Counted(state, th) = {}
  BY <1>1, <1>2 DEF Counted, Lowered, Init
<1>11. Counts
  <2>1. IsFiniteSet({}) /\ Cardinality({}) = 0
    BY FS_EmptySet
  <2>2. Counted(state, th) \cap Pooled = {}
    BY <1>10
  <2> QED BY <1>10, <2>1, <2>2 DEF Counts, Init
<1>12. Tokens
  BY <1>1, <1>2 DEF Tokens, Holding, Lowerer, Lowered, Taking, Init
<1>13. Seats /\ Observers
  BY DEF Seats, Observers, Init
<1>14. Admitted /\ Owed
  BY <1>1, <1>2 DEF Admitted, Admits, Owed, Owing, Submits, Waits, Decoder
<1> QED BY <1>3, <1>4, <1>5, <1>7, <1>8, <1>9, <1>11, <1>12, <1>13, <1>14 DEF IInv

\* The device moves its queue and the completed value only.
LEMMA DeviceKeeps == ASSUME IInv, Device PROVE IInv'
<1> USE DEF IInv
<1>1. /\ UNCHANGED <<submitted, observed, unsignaled, lost, fence, state, token, graveyard, process, pooled, seat,
                     claims, th>>
      /\ queue # <<>> /\ queue' = Tail(queue)
  BY DEF Device
<1>2. Ordered' /\ completed' \in Nat /\ completed <= completed'
  BY DeviceOrdered
<1>3. queue' \in Seq(Items)
  BY <1>1, FirstGone DEF TypeOK
<1>4. TypeOK'
  BY <1>1, <1>2, <1>3 DEF TypeOK
<1>5. Shapes' /\ Hosts' /\ OneBusy' /\ Claimed' /\ Recordings'
  BY <1>1 DEF Shapes, Hosts, OneBusy, Claimed, Recordings
<1>6. Times'
  <2>1. ASSUME NEW t \in Threads PROVE Timed(th[t], submitted, observed, completed', fence)
    <3>1. th[t] \in Calls
      BY DEF TypeOK
    <3> QED BY <1>2, <3>1 DEF Times, Timed, TypeOK, Calls
  <2> QED BY <1>1, <2>1 DEF Times
<1>7. Follows' /\ Keeps'
  BY DeviceWork
<1>8. Tokens' /\ Seats' /\ Observers'
  BY <1>1 DEF Tokens, Seats, Observers
<1>9. Counts' /\ Admitted' /\ Owed'
  <2>1. Counted(state', th') = Counted(state, th)
    BY <1>1
  <2> QED BY <1>1, <2>1 DEF Counts, Admitted, Owed
<1> QED BY <1>2, <1>4, <1>5, <1>6, <1>7, <1>8, <1>9

LEMMA StutterKeeps == ASSUME IInv, UNCHANGED vars PROVE IInv'
<1>1. /\ UNCHANGED <<submitted, observed, unsignaled, lost, fence, queue, completed, state, token, graveyard,
                     process, pooled, seat, claims, th>>
  BY DEF vars
<1>2. TypeOK' /\ Shapes' /\ Hosts' /\ OneBusy' /\ Claimed'
  BY <1>1 DEF IInv, TypeOK, Shapes, Hosts, OneBusy, Claimed
<1>3. Ordered' /\ Times' /\ Recordings' /\ Follows' /\ Keeps'
  BY <1>1 DEF IInv, Ordered, Times, Recordings, Follows, Keeps
<1>4. Tokens' /\ Counts' /\ Seats' /\ Admitted' /\ Owed' /\ Observers'
  BY <1>1 DEF IInv, Tokens, Counts, Seats, Admitted, Owed, Observers
<1> QED BY <1>2, <1>3, <1>4 DEF IInv

LEMMA ThreadKeeps ==
    ASSUME IInv, NEW t \in Threads, Call(t) \/ InCall(t) \/ WaitFails(t)
    PROVE  IInv'
<1>0. /\ TypeOK /\ Shapes /\ Hosts /\ OneBusy /\ Claimed /\ Ordered /\ Times /\ Recordings
      /\ Follows /\ Keeps /\ Tokens /\ Counts /\ Seats /\ Admitted /\ Owed /\ Observers
  BY DEF IInv
<1>1. TypeOK'
  BY <1>0, TypesKept
<1>2. Shapes' /\ Hosts'
  BY <1>0, ThreadsMove, ShapesKept, HostsKept
<1>3. OneBusy' /\ Claimed'
  BY <1>0, BusyKept
<1>4. Times' /\ Ordered' /\ Recordings'
  BY <1>0, TimesKept, RecordingsKept
<1>5. Follows' /\ Keeps' /\ Observers'
  BY <1>0, WorkSteps, ObserversKept
<1>6. Tokens' /\ Counts' /\ Seats'
  BY <1>0, HandlesKept
<1>7. Owed' /\ Admitted'
  BY <1>0, <1>1, OwedKept, AdmittedKept
<1> QED BY <1>1, <1>2, <1>3, <1>4, <1>5, <1>6, <1>7 DEF IInv

\* Every part of the invariant holds of every state reached, whatever signals, waits
\* and recordings failed and however calls interleaved.
THEOREM Invariance == Spec => []IInv
<1>1. IInv /\ [Next]_vars => IInv'
  <2> SUFFICES ASSUME IInv, [Next]_vars PROVE IInv'
    OBVIOUS
  <2>1. CASE Device
    BY <2>1, DeviceKeeps
  <2>2. ASSUME NEW t \in Threads, Call(t) \/ InCall(t) \/ WaitFails(t) PROVE IInv'
    BY <2>2, ThreadKeeps
  <2>3. CASE UNCHANGED vars
    BY <2>3, StutterKeeps
  <2> QED BY <2>1, <2>2, <2>3 DEF Next
<1> QED BY <1>1, Start, PTL DEF Spec

\* Each variable keeps its type.
THEOREM TypesHold == Spec => []TypeOK
<1>1. IInv => TypeOK
  BY DEF IInv
<1> QED BY <1>1, Invariance, PTL

\* While a thread records, no other records or submits and the device runs nothing
\* (RecordingAlone): BeginRecording's ledger term found all that was submitted
\* observed, and P1 leaves one call at a time past its slots' choice.
THEOREM RecordsAlone == Spec => []RecordingAlone
<1>1. IInv => RecordingAlone
  <2> SUFFICES ASSUME IInv, NEW t \in Threads, th[t].at = "recording"
               PROVE  /\ Executing = {}
                      /\ \A u \in Threads \ {t} : th[u].at \notin {"recording", "signal", "retry"}
    BY DEF RecordingAlone
  <2> USE DEF IInv
  <2>1. ~unsignaled /\ observed = submitted /\ Shape(th[t])
    BY DEF Recordings, Shapes
  <2>2. ASSUME NEW i \in DOMAIN queue, queue[i].sort = "work" PROVE FALSE
    <3>1. PICK j \in DOMAIN queue : i < j /\ queue[j].sort = "signal"
      BY <2>1, <2>2 DEF Ordered
    <3>2. completed < queue[j].id /\ queue[j].id <= submitted /\ observed <= completed
      BY <3>1 DEF Ordered
    <3>3. queue[j].id \in Nat
      BY <3>1, ItemOf
    <3> QED BY <2>1, <3>2, <3>3 DEF TypeOK
  <2>3. ASSUME NEW u \in Threads \ {t}, th[u].at \in {"recording", "signal", "retry"} PROVE FALSE
    <3>1. Busy(th[t]) /\ Busy(th[u])
      BY <2>3, SubmitterBusy DEF Submits
    <3> QED BY <3>1 DEF OneBusy
  <2> QED BY <2>2, <2>3 DEF Executing
<1> QED BY <1>1, Invariance, PTL

\* What the device may still run is held by a call, a token or the graveyard
\* (ExecutingIsKept): a token is freed only once its value is completed, and its
\* work is queued before the signal of that value.
THEOREM KeepsExecuting == Spec => []ExecutingIsKept
<1>1. IInv => ExecutingIsKept
  <2> SUFFICES ASSUME IInv, NEW i \in DOMAIN queue, queue[i].sort = "work"
               PROVE  queue[i].id \in graveyard
                         \cup {token[h].id : h \in {g \in Handles : token[g] # NoWork}}
                         \cup {th[t].work.id : t \in {u \in Threads : th[u].work # NoWork}}
    BY DEF ExecutingIsKept, Executing
  <2> USE DEF IInv
  <2>1. CASE queue[i].id \in graveyard
    BY <2>1
  <2>2. ASSUME NEW w \in Carried(token, th), w.id = queue[i].id
        PROVE  \/ queue[i].id \in {token[h].id : h \in {g \in Handles : token[g] # NoWork}}
               \/ queue[i].id \in {th[t].work.id : t \in {u \in Threads : th[u].work # NoWork}}
    BY <2>2, NoWorkIsNone DEF Carried
  <2> QED BY <2>1, <2>2 DEF Keeps
<1> QED BY <1>1, Invariance, PTL

\* Between calls a handle is Submitted exactly when its token holds work
\* (SubmittedHolds).
THEOREM HoldsSubmitted == Spec => []SubmittedHolds
<1>1. IInv => SubmittedHolds
  BY Idle, NamesIs DEF IInv, SubmittedHolds
<1> QED BY <1>1, Invariance, PTL

\* Quiet and not stranded, the device admits the next submission of any handle
\* (QuietAdmits): counts, pointer and claims are exact, and what was submitted last
\* was observed by whoever waited for it.
THEOREM AdmitsQuiet == Spec => []QuietAdmits
<1>1. IInv => QuietAdmits
  <2> SUFFICES ASSUME IInv, state = {}, \A t \in Threads : th[t].at = "out", ~Stranded
               PROVE  /\ observed = submitted /\ observed = completed
                      /\ process = 0 /\ pooled = 0 /\ seat = NoWork /\ claims = {}
    BY DEF QuietAdmits
  <2> USE DEF IInv
  <2>1. Counted(state, th) = {}
    BY DEF Counted, Lowered
  <2>2. process = 0 /\ pooled = 0
    <3>1. Counted(state, th) \cap Pooled = {}
      BY <2>1
    <3> QED BY <2>1, <3>1, FS_EmptySet DEF Counts
  <2>3. seat = NoWork
    BY DEF Seats
  <2>4. claims = {}
    BY DEF Claimed, Busy
  <2>5. \A h \in Handles : token[h] = NoWork
    BY DEF Tokens
  <2>6. observed = submitted
    BY <2>5 DEF Observers, Signaled, Stranded, Ordered, TypeOK
  <2>7. observed = completed
    BY <2>6 DEF Ordered, TypeOK
  <2> QED BY <2>2, <2>3, <2>4, <2>6, <2>7
<1> QED BY <1>1, Invariance, PTL

\* A pooled handle becomes Submitted only with the pool's pointer free and no other
\* handle Submitted, any other only with no pooled one Submitted (SeatIsFree): the
\* guard's counts at a prefill, and at a batch's or a step's hand-over what the guard
\* found when the call began, which nothing has changed since but the batch itself.
THEOREM FreeSeat == Spec => SeatIsFree
<1> DEFINE Raised(h) == IF h \in Pooled THEN seat = NoWork /\ state = {} ELSE state \cap Pooled = {}
<1>1. IInv /\ [Next]_vars => [\A h \in state' \ state : Raised(h)]_vars
  <2> SUFFICES ASSUME IInv, Next, NEW k \in state' \ state PROVE Raised(k)
    OBVIOUS
  <2> USE DEF IInv
  <2>1. PICK t \in Threads : Call(t) \/ InCall(t) \/ WaitFails(t)
    BY DEF Next, Device
  <2>2. Seats /\ state \subseteq Counted(state, th)
    BY DEF Counted
  <2>3. ASSUME Counted(state, th) = {} PROVE seat = NoWork /\ state = {}
    <3>1. ASSUME NEW u \in Threads, th[u].at = "lower", th[u].down = 1 PROVE FALSE
      BY <2>3, <3>1 DEF Counted, Lowered
    <3> QED BY <2>2, <2>3, <3>1 DEF Seats
  <2>4. ASSUME NEW h \in Handles, NEW n \in Parts, Prefill(t, h, n) PROVE Raised(k)
    <3>1. k = h /\ Guard(h \in Pooled)
      BY <2>4 DEF Prefill, Raise
    <3>2. IsFiniteSet(Counted(state, th)) /\ process = Cardinality(Counted(state, th))
          /\ pooled = Cardinality(Counted(state, th) \cap Pooled)
      BY DEF Counts
    <3>3. CASE h \in Pooled
      <4>1. Counted(state, th) = {}
        BY <3>1, <3>2, <3>3, FS_EmptySet DEF Guard
      <4> QED BY <2>3, <3>1, <3>3, <4>1
    <3>4. CASE h \notin Pooled
      <4>1. Counted(state, th) \cap Pooled = {}
        BY <3>1, <3>2, <3>4, FS_EmptySet, FS_Subset DEF Guard
      <4> QED BY <2>2, <3>1, <3>4, <4>1
    <3> QED BY <3>3, <3>4
  <2>5. CASE HandOver(t)
    <3>1. k = th[t].h /\ th[t].h \in Handles /\ th[t].h \notin Counted(state, th)
      BY <2>5, HandOverToken, HandOverHandles DEF Raise
    <3>2. th[t].at # "out" /\ Decoder(th[t]) /\ k \in NamesOf(th[t])
      BY <2>5, <3>1, NoWorkIsNone DEF HandOver, Decoder, NamesOf
    <3>3. Admits(th[t], Counted(state, th))
      BY DEF Admitted
    <3>4. CASE k \in Pooled
      <4>1. ASSUME NEW x \in Counted(state, th) PROVE FALSE
        BY <3>1, <3>2, <3>3, <3>4 DEF Admits
      <4> QED BY <2>3, <3>4, <4>1
    <3>5. CASE k \notin Pooled
      <4>1. ASSUME NEW x \in state, x \in Pooled PROVE FALSE
        BY <2>2, <3>1, <3>2, <3>3, <4>1 DEF Admits
      <4> QED BY <3>5, <4>1
    <3> QED BY <3>4, <3>5
  <2>6. CASE ~Raises(t)
    <3>1. CASE Lower(t)
      BY <3>1, LowerMakes
    <3>2. CASE ~Lower(t)
      BY <2>1, <2>6, <3>2, CountSteps DEF Raises, CountsStay
    <3> QED BY <3>1, <3>2
  <2> QED BY <2>4, <2>5, <2>6 DEF Raises
<1>2. Spec => [][\A h \in state' \ state : Raised(h)]_vars
  BY <1>1, Invariance, PTL DEF Spec
<1> QED BY <1>2 DEF SeatIsFree
=============================================================================
