------------------------------ MODULE Executor -------------------------------
(***************************************************************************)
(* What a thread pool promises: every accepted request is started once, in *)
(* the order of acceptance except that it waits for an earlier run of the  *)
(* same runnable to finish, and a closed pool accepts nothing more.        *)
(***************************************************************************)
EXTENDS Naturals, Sequences

CONSTANT Runnables

VARIABLES
    queue,      \* requests accepted and not started, oldest first
    active,     \* runnables that are running
    open        \* are requests accepted?

ExecInit == queue = <<>> /\ active = {} /\ open = TRUE

Accept(r) ==
    /\ open
    /\ queue' = Append(queue, r)
    /\ UNCHANGED <<active, open>>

\* The oldest request that may run is the i-th.
Startable(i) ==
    /\ queue[i] \notin active
    /\ \A j \in 1..i - 1 : queue[j] \in active

Start(i) ==
    /\ Startable(i)
    /\ active' = active \cup {queue[i]}
    /\ queue' = SubSeq(queue, 1, i - 1) \o SubSeq(queue, i + 1, Len(queue))
    /\ UNCHANGED open

Finish(r) ==
    /\ r \in active
    /\ active' = active \ {r}
    /\ UNCHANGED <<queue, open>>

Close == open' = FALSE /\ UNCHANGED <<queue, active>>

ExecNext ==
    \/ \E r \in Runnables : Accept(r) \/ Finish(r)
    \/ \E i \in 1..Len(queue) : Start(i)
    \/ Close

ExecSpec == ExecInit /\ [][ExecNext]_<<queue, active, open>>
==============================================================================
