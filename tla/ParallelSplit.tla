--------------------------- MODULE ParallelSplit ---------------------------
(***************************************************************************)
(* A matrix product split over a host's threads:                           *)
(* src/src/forward/parallel_split.cpp, and the task trampoline of          *)
(* src/src/gpu/gpu_inflight_registry.h that every task runs through.       *)
(*                                                                         *)
(* The host gives `run`: it is asked to invoke the tasks 0 .. n-1, each    *)
(* once, on threads of its choosing, and to return when every invocation   *)
(* has returned.  Only the last is relied on.  A host that repeats a task, *)
(* runs it on two threads at once, leaves one out or makes one up is found *)
(* out by RunExactlyOnce, which then reports ParallelForIncomplete.        *)
(*                                                                         *)
(* Several calls may be under way, one to a thread, and a thread that      *)
(* waits in its own `run` may be given a task of another's.  A thread's    *)
(* registry binding says under which call what it submits is registered;   *)
(* a task runs under the binding of the call it belongs to.                *)
(***************************************************************************)
EXTENDS Integers, FiniteSets, Sequences

CONSTANTS
    Threads,
    Groups,          \* row counts of the parts of a matvec group, a sequence each
    MaxTasks,        \* sslm_parallel_for::max_tasks the host may give
    HardMaxTasks,    \* SSLM_PARALLEL_FOR_MAX_TASKS
    Align,           \* rows of a task are a multiple of it, but for the last task's
    K,               \* bytes of a row
    MinWork,         \* kMinRowBytesPerTask
    MaxInvocations,  \* bound: invocations of one task by the host
    None

ASSUME SizesAssumption ==
    /\ {HardMaxTasks, Align, K, MinWork} \subseteq Nat \ {0} /\ MaxInvocations \in Nat
    /\ MaxTasks \subseteq Nat \ {0}
    /\ \A g \in Groups : g \in Seq(Nat)
ASSUME ThreadsAssumption == IsFiniteSet(Threads)

VARIABLES
    job,        \* job[t]: the RunExactlyOnce call thread t is in, or None
    state,      \* state[t][i] of its tasks: 0 not started, 1 admitted, 2 done
    violation,  \* violation[t]
    invoked,    \* invoked[t][i]: invocations the host has made; the last index is no task's
    written,    \* written[t][row]: times the row has been written
    doing,      \* doing[w]: the invocation thread w is in, or None
    binding,    \* binding[w]: t_bound_list, t_call and t_depth of thread w
    result      \* result[t]: what the last call of thread t returned

vars == <<job, state, violation, invoked, written, doing, binding, result>>

Bindings == [list : Threads \cup {None}, call : Threads \cup {0}, depth : {0, 1}]
Calls == [parts : Groups, split : [rows_per_task : Nat, task_count : Nat], captured : Bindings]
Invocations == [of : Threads, task : Nat, part : Nat, saved : Bindings]

ASSUME NoneAssumption == None \notin Threads \cup {0} \cup Calls \cup Invocations

-----------------------------------------------------------------------------
(* The split. *)

Least(a, b) == IF a <= b THEN a ELSE b
Most(a, b)  == IF a <= b THEN b ELSE a
CeilDiv(a, b) == (a + b - 1) \div b

\* Fault: rounded down, the last rows are nobody's.
SplitColumnsUneven(n, work, max_tasks) ==
    LET t == Most(1, Least(Least(Least(max_tasks, HardMaxTasks), CeilDiv(n, Align)), work \div MinWork))
    IN [rows_per_task |-> n \div t, task_count |-> t]

\* At most max_tasks tasks of equally many rows, aligned, none with less work than MinWork
\* unless there is but one.
SplitColumns(n, work, max_tasks) ==
    LET t == Most(1, Least(Least(Least(max_tasks, HardMaxTasks), CeilDiv(n, Align)), work \div MinWork))
        rows == CeilDiv(CeilDiv(n, t), Align) * Align
    IN [rows_per_task |-> rows, task_count |-> CeilDiv(n, rows)]

\* MatvecGroupSplit: no split for a host of one task.  BatchedGemmSplit, of m tokens, is the
\* same with values of its own for Align, K (m by the inner size) and MinWork and a group of one
\* part; that it is not tried for few tokens is left out: then there is no call.
GroupSplit(n, max_tasks) ==
    IF max_tasks < 2 THEN [rows_per_task |-> 0, task_count |-> 0]
    ELSE SplitColumns(n, K * n, max_tasks)

\* Rows of the parts before part p, and of all of them.
Before(parts, p) ==
    LET sum[k \in 0 .. Len(parts)] == IF k = 0 THEN 0 ELSE sum[k - 1] + parts[k]
    IN sum[p - 1]
Total(parts) == Before(parts, Len(parts) + 1)
RowsOf(parts) == UNION {{p} \X (0 .. parts[p] - 1) : p \in 1 .. Len(parts)}

\* MatvecTask: the rows of part p that a task covers.
Covers(j, i, p) ==
    LET begin == i * j.split.rows_per_task
        end == Least(Total(j.parts), begin + j.split.rows_per_task)
        start == Before(j.parts, p)
        lo == Most(begin, start)
        hi == Least(end, start + j.parts[p])
    IN {<<p, r>> : r \in lo - start .. hi - start - 1}

-----------------------------------------------------------------------------
(* Registry bindings. *)

Unbound == [list |-> None, call |-> 0, depth |-> 0]
CurrentList(t, b) == IF b.list # None THEN b.list ELSE t

\* What a call hands to its tasks; outside of any API call it is empty.
Capture(t) == IF binding[t].depth > 0 THEN [binding[t] EXCEPT !.list = CurrentList(t, binding[t])]
              ELSE Unbound

\* Thread w takes binding b; an empty one is taken as well.
Install(w, b) == IF b.depth > 0 THEN b ELSE Unbound

-----------------------------------------------------------------------------
Tasks(j) == 0 .. j.split.task_count - 1

\* What a host may invoke: the tasks, and an index of none.
Indices(j) == 0 .. j.split.task_count

\* Threads that are in no invocation, and whether t is in a call.
Free(w) == doing[w] = None
InCall(t) == job[t] # None

Init ==
    /\ job = [t \in Threads |-> None]
    /\ state = [t \in Threads |-> <<>>]
    /\ violation = [t \in Threads |-> FALSE]
    /\ invoked = [t \in Threads |-> <<>>]
    /\ written = [t \in Threads |-> <<>>]
    /\ doing = [w \in Threads |-> None]
    /\ binding = [w \in Threads |-> Unbound]
    /\ result = [t \in Threads |-> "none"]

\* GpuApiCallScope: a call of the GPU interface opens on a thread that is in none, and closes.
OpenScope(t) ==
    /\ Free(t) /\ ~InCall(t) /\ binding[t].depth = 0
    /\ binding' = [binding EXCEPT ![t] = [list |-> None, call |-> t, depth |-> 1]]
    /\ UNCHANGED <<job, state, violation, invoked, written, doing, result>>

CloseScope(t) ==
    /\ Free(t) /\ ~InCall(t) /\ binding[t].depth > 0
    /\ binding' = [binding EXCEPT ![t].depth = 0]
    /\ UNCHANGED <<job, state, violation, invoked, written, doing, result>>

\* MatvecGroupParallel, when the split has two tasks or more, up to the call of `run`.
Start(t, parts, max_tasks) ==
    LET split == GroupSplit(Total(parts), max_tasks)
        j == [parts |-> parts, split |-> split, captured |-> Capture(t)]
    IN /\ Free(t) /\ ~InCall(t)
       /\ Total(parts) > 0 /\ split.task_count >= 2
       /\ job' = [job EXCEPT ![t] = j]
       /\ state' = [state EXCEPT ![t] = [i \in Tasks(j) |-> 0]]
       /\ violation' = [violation EXCEPT ![t] = FALSE]
       /\ invoked' = [invoked EXCEPT ![t] = [i \in Indices(j) |-> 0]]
       /\ written' = [written EXCEPT ![t] = [row \in RowsOf(parts) |-> 0]]
       /\ result' = [result EXCEPT ![t] = "none"]
       /\ UNCHANGED <<doing, binding>>

\* The host invokes task i of t's run on thread w: the trampoline installs the binding.
Invoke(w, t, i) ==
    /\ Free(w) /\ InCall(t)
    /\ invoked[t][i] < MaxInvocations
    /\ invoked' = [invoked EXCEPT ![t][i] = @ + 1]
    /\ doing' = [doing EXCEPT ![w] = [of |-> t, task |-> i, part |-> 0, saved |-> binding[w]]]
    /\ binding' = [binding EXCEPT ![w] = Install(w, job[t].captured)]
    /\ UNCHANGED <<job, state, violation, written, result>>

\* Fault: a task that is not done yet may be begun again.
AdmitStarted(t, i) == i \in Tasks(job[t]) /\ state[t][i] # 2

\* A task's index, and compare_exchange: one invocation takes it from not started to admitted.
Admit(t, i) == i \in Tasks(job[t]) /\ state[t][i] = 0

\* ExactlyOnceTask begins: an index of no task, or a task begun already, is a violation.
BeginTask(w) ==
    LET d == doing[w]
        t == d.of
    IN /\ ~Free(w) /\ d.part = 0
       /\ IF Admit(t, d.task)
            THEN /\ state' = [state EXCEPT ![t][d.task] = 1]
                 /\ doing' = [doing EXCEPT ![w].part = 1]
                 /\ UNCHANGED <<violation, binding>>
            ELSE /\ violation' = [violation EXCEPT ![t] = TRUE]
                 /\ doing' = [doing EXCEPT ![w] = None]
                 /\ binding' = [binding EXCEPT ![w] = d.saved]
                 /\ UNCHANGED state
       /\ UNCHANGED <<job, invoked, written, result>>

\* The task's body: its rows of one part.
WritePart(w) ==
    LET d == doing[w]
        t == d.of
    IN /\ ~Free(w) /\ d.part \in 1 .. Len(job[t].parts)
       /\ written' = [written EXCEPT ![t] =
              [row \in DOMAIN @ |-> IF row \in Covers(job[t], d.task, d.part) THEN @[row] + 1 ELSE @[row]]]
       /\ doing' = [doing EXCEPT ![w].part = @ + 1]
       /\ UNCHANGED <<job, state, violation, invoked, binding, result>>

\* Fault: the thread is left without a binding.
RestoredNone(w) == Unbound

\* What thread w had before its invocation.
Restored(w) == doing[w].saved

\* The body is through: the task is done, and the trampoline gives the thread its binding back.
EndTask(w) ==
    LET d == doing[w]
        t == d.of
    IN /\ ~Free(w) /\ d.part = Len(job[t].parts) + 1
       /\ state' = [state EXCEPT ![t][d.task] = 2]
       /\ doing' = [doing EXCEPT ![w] = None]
       /\ binding' = [binding EXCEPT ![w] = Restored(w)]
       /\ UNCHANGED <<job, violation, invoked, written, result>>

\* The scan after `run` has returned.
Complete(t) == ~violation[t] /\ \A i \in Tasks(job[t]) : state[t][i] = 2

\* `run` returns when every invocation has, and RunExactlyOnce reports.
RunReturns(t) ==
    /\ InCall(t) /\ Free(t)
    /\ \A w \in Threads : ~Free(w) => doing[w].of # t
    /\ result' = [result EXCEPT ![t] = IF Complete(t) THEN "Ok" ELSE "ParallelForIncomplete"]
    /\ job' = [job EXCEPT ![t] = None]
    /\ state' = [state EXCEPT ![t] = <<>>]
    /\ violation' = [violation EXCEPT ![t] = FALSE]
    /\ invoked' = [invoked EXCEPT ![t] = <<>>]
    /\ written' = [written EXCEPT ![t] = <<>>]
    /\ UNCHANGED <<doing, binding>>

Next ==
    \/ \E t \in Threads :
          \/ OpenScope(t) \/ CloseScope(t) \/ RunReturns(t)
          \/ \E parts \in Groups, m \in MaxTasks : Start(t, parts, m)
    \/ \E w \in Threads :
          \/ \E t \in Threads : \E i \in DOMAIN invoked[t] : Invoke(w, t, i)
          \/ BeginTask(w) \/ WritePart(w) \/ EndTask(w)

Spec == Init /\ [][Next]_vars

-----------------------------------------------------------------------------
CallTypes ==
    \A t \in Threads : InCall(t) =>
        /\ state[t] \in [Tasks(job[t]) -> 0 .. 2]
        /\ invoked[t] \in [Indices(job[t]) -> Nat]
        /\ written[t] \in [RowsOf(job[t].parts) -> Nat]

\* An invocation is of a call that is under way, and its body runs for a task only.
InvocationTypes ==
    \A w \in Threads : ~Free(w) =>
        /\ InCall(doing[w].of) /\ doing[w].task \in Indices(job[doing[w].of])
        /\ doing[w].part <= Len(job[doing[w].of].parts) + 1
        /\ doing[w].part > 0 => doing[w].task \in Tasks(job[doing[w].of])

TypeOK ==
    /\ job \in [Threads -> Calls \cup {None}]
    /\ doing \in [Threads -> Invocations \cup {None}]
    /\ binding \in [Threads -> Bindings]
    /\ violation \in [Threads -> BOOLEAN]
    /\ result \in [Threads -> {"none", "Ok", "ParallelForIncomplete"}]
    /\ state = [t \in Threads |-> state[t]]
    /\ invoked = [t \in Threads |-> invoked[t]]
    /\ written = [t \in Threads |-> written[t]]
    /\ CallTypes /\ InvocationTypes

\* Whatever the host does with the tasks, no row of the output is written twice: not by the
\* second invocation of a task, and not by a neighbour whose rows overlap.
RowsOnce == \A t \in Threads : InCall(t) => \A row \in DOMAIN written[t] : written[t][row] <= 1

\* The host did as asked: each task once, and nothing else.
AsAsked(t) ==
    \A i \in DOMAIN invoked[t] : invoked[t][i] = IF i + 1 \in DOMAIN invoked[t] THEN 1 ELSE 0

\* A call reports Ok just when the host did as asked, and then every row of the group has
\* been written, once.
Returns(t) == InCall(t) /\ ~InCall(t)'
OkIsExactlyOnce ==
    [][\A t \in Threads : Returns(t) =>
          /\ result'[t] = "Ok" <=> AsAsked(t)
          /\ result'[t] = "Ok" => \A row \in RowsOf(job[t].parts) : written[t][row] = 1]_vars

\* A task's body runs under the binding of the call the task is of, even on a thread that is
\* within a call of its own, and that thread has its own binding again afterwards: what it
\* submits then is not taken for the other call's.
BindingsKept ==
    \A w \in Threads :
        /\ ~Free(w) => binding[w].call = job[doing[w].of].captured.call
        /\ Free(w) => binding[w].list = None /\ binding[w].call \in {0, w}
        /\ Free(w) /\ InCall(w) => binding[w].depth = job[w].captured.depth
=============================================================================
