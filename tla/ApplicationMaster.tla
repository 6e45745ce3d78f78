------------------------- MODULE ApplicationMaster -------------------------
(***************************************************************************)
(* The launcher of a job on YARN (dmlc-core/yarn).  ApplicationMaster asks *)
(* the resource manager for a container for every worker and server, runs  *)
(* a task in it, tries a failed task again a limited number of times and   *)
(* otherwise aborts the job.  Client submits the application, polls it     *)
(* until it ends, and kills it when it did not succeed.                    *)
(*                                                                         *)
(* The callbacks of the two manager clients are synchronized methods, so   *)
(* each is one step on the whole list it is called with.  The managers are *)
(* external: containers are allocated, perhaps more than are needed since  *)
(* a request that was met is never taken back; they start or fail to       *)
(* start, exit in some way and are reported once.                          *)
(***************************************************************************)
EXTENDS Integers, FiniteSets, Sequences, SequencesExt

CONSTANTS
    Task,           \* the numTasks workers and servers
    MaxNumAttempt,  \* maxNumAttempt
    MaxIdle,        \* bound on the containers that never get a task
    MaxBatch        \* bound on the length of the list a callback gets

VARIABLES
    am,         \* the tables of the application master
    master,     \* its main thread: "start", "poll", "SUCCEEDED" or "FAILED"
    client,     \* the client: "submit", "poll", "done" or "killed"
    container,  \* per container: its state at the managers and its task
    reported,   \* containers whose completion was reported
    startError  \* containers whose start error was reported

amVars == <<am, master, client, container, reported, startError>>

\* What is proved holds for any finite set of tasks and any bounds.
LaunchOK == IsFiniteSet(Task) /\ MaxNumAttempt \in Nat /\ MaxIdle \in Nat /\ MaxBatch \in Nat

Container == 1 .. Cardinality(Task) * MaxNumAttempt + MaxIdle
Nobody == "none"

\* pending: pendingTasks; running: runningTasks; finished and killed: how often a task is in
\* finishedTasks and killedTasks; attempt: attemptCounter; abort: startAbort; stop: containers
\* that stopContainerAsync was called for; requests: container requests at the resource manager.
\* failed, tasks and returned are local variables of the callbacks.
EmptyTables ==
    [pending |-> <<>>, running |-> <<>>, finished |-> [t \in Task |-> 0],
     killed |-> [t \in Task |-> 0], attempt |-> [t \in Task |-> 0], abort |-> FALSE,
     stop |-> {}, requests |-> 0, failed |-> <<>>, tasks |-> <<>>, returned |-> FALSE]

Without(f, c) == [d \in DOMAIN f \ {c} |-> f[d]]

Count(table, ts) == [t \in Task |-> table[t] + Cardinality({i \in DOMAIN ts : ts[i] = t})]

\* A loop over a list: the body is done for one element after the other.
ForEach(Body(_, _), a, cs) ==
    LET after[i \in 0 .. Len(cs)] == IF i = 0 THEN a ELSE Body(after[i - 1], cs[i])
    IN  after[Len(cs)]

\* submitTasks
SubmitTasks(a, ts) == [a EXCEPT !.pending = @ \o ts, !.requests = @ + Len(ts)]

\* mutant of AbortJob: running containers are forgotten without being stopped
MutAbortJob(a) ==
    [a EXCEPT !.abort = TRUE,
              !.killed = [t \in Task |-> @[t] + Cardinality({c \in DOMAIN a.running : a.running[c] = t})
                                              + Cardinality({i \in DOMAIN a.pending : a.pending[i] = t})],
              !.requests = @ - Len(a.pending), !.pending = <<>>, !.running = <<>>]

\* abortJob
AbortJob(a) ==
    [a EXCEPT !.abort = TRUE,
              !.stop = @ \cup DOMAIN a.running,
              !.killed = [t \in Task |-> @[t] + Cardinality({c \in DOMAIN a.running : a.running[c] = t})
                                              + Cardinality({i \in DOMAIN a.pending : a.pending[i] = t})],
              !.requests = @ - Len(a.pending), !.pending = <<>>, !.running = <<>>]

\* handleFailure, the body of its loop: a task that failed too often aborts the job.
FailTask(a, c) ==
    IF c \notin DOMAIN a.running THEN a
    ELSE LET t == a.running[c]
             b == [a EXCEPT !.running = Without(@, c), !.attempt[t] = @ + 1,
                            !.tasks = Append(@, t)]
         IN  IF b.attempt[t] >= MaxNumAttempt THEN AbortJob(b) ELSE b

\* handleFailure
HandleFailure(a, cs) ==
    LET b == ForEach(FailTask, a, cs)
    IN  [(IF b.abort THEN [b EXCEPT !.killed = Count(@, b.tasks)] ELSE SubmitTasks(b, b.tasks))
            EXCEPT !.tasks = <<>>]

\* onContainersCompleted, the body of its loop.  A container killed for its memory aborts the
\* job, and the rest of the list is not looked at.
CompleteContainer(a, c) ==
    IF a.returned \/ c \notin DOMAIN a.running THEN a
    ELSE CASE container[c].state = "success" ->
                  [a EXCEPT !.finished[a.running[c]] = @ + 1, !.running = Without(@, c)]
           [] container[c].state = "memory" -> [AbortJob(a) EXCEPT !.returned = TRUE]
           [] OTHER -> [a EXCEPT !.failed = Append(@, c)]

\* onContainersAllocated, the body of its loop: launchTask for the first pending task.  A
\* container without a task goes to freeUnusedContainers, which does nothing.
Allocate(a, c) ==
    IF a.pending = <<>> THEN a
    ELSE [a EXCEPT !.running = [d \in DOMAIN @ \cup {c} |-> IF d = c THEN Head(a.pending) ELSE @[d]],
                   !.pending = Tail(@)]

DoneAllJobs == am.pending = <<>> /\ DOMAIN am.running = {}
-----------------------------------------------------------------------------
(* The callbacks.                                                          *)

Idle == {c \in Container : container[c].state = "idle"}
Used == Cardinality({c \in Container : container[c].state # "none"})

OnContainersAllocated(n) ==
    LET cs == [i \in 1 .. n |-> Used + i]
        a  == IF am.abort THEN am ELSE ForEach(Allocate, am, cs)
        launched == ToSet(cs) \cap DOMAIN a.running
    IN  /\ master = "poll" /\ am.requests > 0
        /\ Used + n \in Container
        /\ Cardinality(Idle) + n - Cardinality(launched) <= MaxIdle
        /\ am' = a
        /\ container' = [c \in Container |->
              IF c \in launched THEN [state |-> "starting", task |-> a.running[c]]
              ELSE IF c \in ToSet(cs) THEN [state |-> "idle", task |-> Nobody]
              ELSE container[c]]
        /\ UNCHANGED <<master, client, reported, startError>>

Exited(c) == container[c].state \in {"success", "failure", "memory", "nostart"}

OnContainersCompleted(cs) ==
    /\ master = "poll"
    /\ \A i \in DOMAIN cs : Exited(cs[i]) /\ cs[i] \notin reported
    /\ \E b \in {ForEach(CompleteContainer, am, cs)} :
           am' = [(IF b.returned THEN b ELSE HandleFailure(b, b.failed))
                     EXCEPT !.failed = <<>>, !.returned = FALSE]
    /\ reported' = reported \cup ToSet(cs)
    /\ UNCHANGED <<master, client, container, startError>>

\* The start error of a container is reported by the node manager, its completion by the
\* resource manager: in either order, and the second one finds no task.
OnStartContainerError(c) ==
    /\ master = "poll"
    /\ container[c].state = "nostart" /\ c \notin startError
    /\ am' = HandleFailure(am, <<c>>)
    /\ startError' = startError \cup {c}
    /\ UNCHANGED <<master, client, container, reported>>

\* onError and onShutdownRequest of the resource manager's callback handler
OnShutdownRequest ==
    /\ master = "poll" /\ ~am.abort
    /\ am' = AbortJob(am)
    /\ UNCHANGED <<master, client, container, reported, startError>>
-----------------------------------------------------------------------------
(* The node manager, external.                                             *)

Become(c, state) ==
    /\ container' = [container EXCEPT ![c].state = state]
    /\ UNCHANGED <<am, master, client, reported, startError>>

StartContainer(c) ==
    /\ container[c].state = "starting"
    /\ Become(c, "up") \/ Become(c, "nostart")

\* A process ends by itself, is killed for its memory, or is stopped or lost.
Exit(c) ==
    /\ container[c].state = "up"
    /\ \E state \in {"success", "failure", "memory"} : Become(c, state)
-----------------------------------------------------------------------------
(* The two main threads.                                                   *)

\* ApplicationMaster.run up to its polling loop
StartMaster ==
    /\ master = "start" /\ client = "poll"
    /\ master' = "poll"
    /\ am' = SubmitTasks(am, SetToSeq(Task))
    /\ UNCHANGED <<client, container, reported, startError>>

\* The end of run.  The node manager client and the end of the application stop whatever is
\* still up.  The code compares the number of finished tasks with the number of all tasks, which is
\* the same, since no task is twice in a collection (TasksConserved).
EndMaster ==
    /\ master = "poll" /\ DoneAllJobs
    /\ master' = IF \A t \in Task : am.finished[t] = 1 THEN "SUCCEEDED" ELSE "FAILED"
    /\ UNCHANGED <<am, client, container, reported, startError>>

SubmitApplication ==
    /\ client = "submit" /\ client' = "poll"
    /\ UNCHANGED <<am, master, container, reported, startError>>

PollApplication ==
    /\ client = "poll" /\ master \in {"SUCCEEDED", "FAILED"}
    /\ client' = IF master = "SUCCEEDED" THEN "done" ELSE "killed"
    /\ UNCHANGED <<am, master, container, reported, startError>>
-----------------------------------------------------------------------------
LaunchInit ==
    /\ am = EmptyTables
    /\ master = "start" /\ client = "submit"
    /\ container = [c \in Container |-> [state |-> "none", task |-> Nobody]]
    /\ reported = {} /\ startError = {}

Batches == UNION {[1 .. n -> Container] : n \in 1 .. MaxBatch}

LaunchNext ==
    \/ \E n \in 1 .. MaxBatch : OnContainersAllocated(n)
    \/ \E cs \in {b \in Batches : IsInjective(b)} : OnContainersCompleted(cs)
    \/ \E c \in Container : OnStartContainerError(c) \/ StartContainer(c) \/ Exit(c)
    \/ OnShutdownRequest
    \/ StartMaster \/ EndMaster \/ SubmitApplication \/ PollApplication
-----------------------------------------------------------------------------
\* Every task is in exactly one of the collections, exactly once, whatever fails and whenever the
\* job is aborted: what run asserts of the sizes of killedTasks and finishedTasks when it ends.
TasksConserved ==
    master # "start" =>
        \A t \in Task :
            Cardinality({i \in DOMAIN am.pending : am.pending[i] = t})
              + Cardinality({c \in DOMAIN am.running : am.running[c] = t})
              + am.finished[t] + am.killed[t] = 1

\* A process that may still work for the job is either known to the master as the one for its
\* task, or was asked to stop: no container is forgotten by an abort in the middle of a list,
\* and no task runs twice at a time.
NoOrphan ==
    \A c \in Container :
        container[c].state \in {"starting", "up"} =>
            c \in am.stop \/ (c \in DOMAIN am.running /\ am.running[c] = container[c].task)

\* The application is reported as succeeded only if every task had a container that exited with
\* success, and no task was given up.
SuccessIsReal ==
    master = "SUCCEEDED" =>
        \A t \in Task : \E c \in reported : container[c] = [state |-> "success", task |-> t]

\* The tables of the master, the containers and what it reports agree.
TasksAccounted == TasksConserved /\ NoOrphan /\ SuccessIsReal
=============================================================================
