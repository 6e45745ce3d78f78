------------------------------ MODULE Threads ------------------------------
(***************************************************************************)
(* The four building blocks of threads and queues, side by side: part says *)
(* which of them a behaviour is about, the others stay in their first      *)
(* state (MCLaunch checks them next to the parts of the launch).           *)
(***************************************************************************)
EXTENDS Integers, FiniteSets, Sequences

CONSTANTS
    Thread,         \* the threads that consume, or pop
    Worker,         \* the threads that push, or run tasks
    MaxItems,       \* bound on the items pushed and the tasks added
    MaxCapacity,    \* of the iterator
    NumItems,       \* what its source has
    MaxRound,       \* bound on the calls of BeforeFirst
    MaxLimit        \* of the limited queue

ASSUME ThreadAssumption ==
    /\ IsFiniteSet(Thread) /\ IsFiniteSet(Worker)
    /\ MaxCapacity \in Nat \ {0} /\ NumItems \in Nat

Sizes == {<<2, 1, 2>>, <<1, 0, 1, 1>>, <<1, 2, 0>>, <<0>>}

VARIABLES
    part,
    sig, sigProcessed, produceEnd, queue, freeCells, producer, pos, consumer, cell, owner,
    round, out, ended, cells,
    type, items, exitNow, pusher, popper, killer, pushed, popped,
    tasks, running, started, finishing, worker, task, caller, added, finished,
    sizes, entries, curCapacity, done, prod, cons, consumed

iterVars == <<sig, sigProcessed, produceEnd, queue, freeCells, producer, pos, consumer, cell, owner,
              round, out, ended, cells>>
queueVars == <<type, items, exitNow, pusher, popper, killer, pushed, popped>>
poolVars == <<tasks, running, started, finishing, worker, task, caller, added, finished>>
limVars == <<sizes, entries, curCapacity, done, prod, cons, consumed>>
threadVars == <<iterVars, queueVars, poolVars, limVars>>

I == INSTANCE ThreadedIter WITH Consumer <- Thread
Q == INSTANCE BlockingQueue WITH Pusher <- Worker, Popper <- Thread
P == INSTANCE ThreadPool WITH MaxTasks <- MaxItems
L == INSTANCE LimitedQueue WITH MaxCapacity <- MaxLimit

ThreadsInit ==
    /\ I!Init /\ Q!Init /\ P!Init /\ L!Init
    /\ part = "queue" \/ type = "fifo"
    /\ part = "limited" \/ sizes = <<0>>

ThreadsNext ==
    \/ part = "iter" /\ I!Next /\ UNCHANGED <<queueVars, poolVars, limVars>>
    \/ part = "queue" /\ Q!Next /\ UNCHANGED <<iterVars, poolVars, limVars>>
    \/ part = "pool" /\ P!Next /\ UNCHANGED <<iterVars, queueVars, limVars>>
    \/ part = "limited" /\ L!Next /\ UNCHANGED <<iterVars, queueVars, poolVars>>

\* A thread that is inside a call, or is one of the component's own, goes on when it is not
\* asleep; nobody has to make a call.
ThreadsFairness ==
    /\ WF_iterVars(part = "iter" /\ I!ProducerThread)
    /\ \A t \in Thread : WF_iterVars(part = "iter" /\ I!ConsumerCall(t))
    /\ WF_iterVars(part = "iter" /\ I!OwnerCall)
    /\ \A w \in Worker : WF_queueVars(part = "queue" /\ Q!NotifyOne(w))
    /\ \A t \in Thread : WF_queueVars(part = "queue" /\ Q!Pop(t))
    /\ WF_queueVars(part = "queue" /\ Q!NotifyAll)
    /\ \A w \in Worker : WF_poolVars(part = "pool" /\ P!RunWorker(w))
    /\ WF_poolVars(part = "pool" /\ P!OwnerCall)
    /\ WF_limVars(part = "limited" /\ (L!Produce \/ L!PushItem))
    /\ WF_limVars(part = "limited" /\ L!PopItem)

ThreadsSpec == ThreadsInit /\ [][ThreadsNext]_threadVars /\ ThreadsFairness

\* The read-ahead iterator delivers every item once and in order, and reports the end after the
\* last one, whatever was loaded ahead when BeforeFirst was called: it is an iterator.
ImplementsDataIter == I!ImplementsDataIter

\* The counters and wakeups of the threads are in step: an iterator has no more cells than its queue
\* may hold and its consumers have; as long as somebody sleeps in a blocking queue, a wakeup is under
\* way for every item; and when ThreadPool::Wait returns, every task that was added before has run
\* to its end.
ThreadsSafe == I!CellsBounded /\ Q!WakeupsSuffice /\ P!WaitMeansFinished

\* No wakeup is lost, although several notifications are made after the lock is released and
\* only if a counter said that somebody waits: Next of the iterator and Pop of a killed blocking
\* queue return, and so do BeforeFirst and Destroy of the iterator, Wait and the destructor of a
\* started pool; and every item that has a size reaches the consumer of a limited queue, in order,
\* and then waitConsumer returns, whichever way the end is reported.
CallsReturn ==
    /\ \A t \in Thread : consumer[t] = "check" \/ (exitNow /\ popper[t] # "idle")
                           ~> consumer[t] = "idle" /\ popper[t] = "idle"
    /\ owner \in {"check", "join"} \/ (started /\ caller.at # "idle")
          ~> owner \in {"idle", "destroyed"} /\ caller.at \in {"idle", "destroyed"}
    /\ <>(part = "limited" => L!AllConsumed)
=============================================================================
