----------------------------- MODULE ThreadPool -----------------------------
(***************************************************************************)
(* The thread pool of ps-lite (base/thread_pool), which the multi-threaded *)
(* server store uses: a list of tasks, workers that sleep on worker_cond_  *)
(* while it is empty, and an owner that adds tasks, waits on fin_cond_     *)
(* until all are finished, and destroys the pool.                          *)
(***************************************************************************)
EXTENDS Integers, FiniteSets, Sequences

CONSTANTS
    Worker,     \* the num_workers_ threads
    MaxTasks    \* bound on the calls of Add

VARIABLES
    tasks,      \* tasks_
    running,    \* num_running_tasks_
    started,    \* started_
    finishing,  \* waiting_to_finish_
    worker,     \* per worker: "none", "get", "sleep", "run" or "exited"
    task,       \* per worker, the task it runs
    caller,     \* the owner thread: [at, next], next being where its Wait returns to
    added,      \* history: the number of tasks added
    finished    \* history: the tasks that have run

poolVars == <<tasks, running, started, finishing, worker, task, caller, added, finished>>

\* Done()
AllDone == tasks = <<>> /\ running = 0

At(place) == [at |-> place, next |-> place]

\* Add notifies one sleeping worker, under the lock.
Add ==
    /\ caller = At("idle")
    /\ added < MaxTasks
    /\ added' = added + 1
    /\ tasks' = Append(tasks, added')
    /\ LET asleep == {w \in Worker : worker[w] = "sleep"} IN
       IF started /\ asleep # {}
       THEN \E w \in asleep : worker' = [worker EXCEPT ![w] = "get"]
       ELSE UNCHANGED worker
    /\ UNCHANGED <<running, started, finishing, task, caller, finished>>

StartWorkers ==
    /\ caller = At("idle")
    /\ ~started
    /\ started' = TRUE
    /\ worker' = [w \in Worker |-> "get"]
    /\ UNCHANGED <<tasks, running, finishing, task, caller, added, finished>>

\* mutant of GetNextTask: the task is not counted as running
MutGetNextTask(w) ==
    /\ worker[w] = "get"
    /\ \/ /\ tasks # <<>>
          /\ tasks' = Tail(tasks)
          /\ task' = [task EXCEPT ![w] = Head(tasks)]
          /\ worker' = [worker EXCEPT ![w] = "run"]
       \/ /\ tasks = <<>>
          /\ worker' = [worker EXCEPT ![w] = IF finishing THEN "exited" ELSE "sleep"]
          /\ UNCHANGED <<tasks, task>>
    /\ UNCHANGED <<running, started, finishing, caller, added, finished>>

\* A worker takes the first task, or leaves when the pool is being destroyed, or sleeps.
GetNextTask(w) ==
    /\ worker[w] = "get"
    /\ \/ /\ tasks # <<>>
          /\ tasks' = Tail(tasks)
          /\ running' = running + 1
          /\ task' = [task EXCEPT ![w] = Head(tasks)]
          /\ worker' = [worker EXCEPT ![w] = "run"]
       \/ /\ tasks = <<>>
          /\ worker' = [worker EXCEPT ![w] = IF finishing THEN "exited" ELSE "sleep"]
          /\ UNCHANGED <<tasks, running, task>>
    /\ UNCHANGED <<started, finishing, caller, added, finished>>

\* The task runs and is finished: the last one wakes the owner.
FinishTask(w) ==
    /\ worker[w] = "run"
    /\ running' = running - 1
    /\ worker' = [worker EXCEPT ![w] = "get"]
    /\ task' = [task EXCEPT ![w] = 0]
    /\ finished' = finished \cup {task[w]}
    /\ caller' = IF tasks = <<>> /\ running' = 0 /\ caller.at = "sleep"
                 THEN [caller EXCEPT !.at = "wait"] ELSE caller
    /\ UNCHANGED <<tasks, started, finishing, added>>

StartWait ==
    /\ caller = At("idle")
    /\ caller' = [at |-> "wait", next |-> "idle"]
    /\ UNCHANGED <<tasks, running, started, finishing, worker, task, added, finished>>

Wait ==
    /\ caller.at = "wait"
    /\ caller' = IF AllDone THEN At(caller.next) ELSE [caller EXCEPT !.at = "sleep"]
    /\ UNCHANGED <<tasks, running, started, finishing, worker, task, added, finished>>

\* The destructor: a pool that was never started is left as it is.
Destroy ==
    /\ caller = At("idle")
    /\ IF started
       THEN finishing' = TRUE /\ caller' = At("notify")
       ELSE UNCHANGED finishing /\ caller' = At("destroyed")
    /\ UNCHANGED <<tasks, running, started, worker, task, added, finished>>

DestroyNotify ==
    /\ caller = At("notify")
    /\ caller' = [at |-> "wait", next |-> "join"]
    /\ worker' = [w \in Worker |-> IF worker[w] = "sleep" THEN "get" ELSE worker[w]]
    /\ UNCHANGED <<tasks, running, started, finishing, task, added, finished>>

Join ==
    /\ caller = At("join")
    /\ \A w \in Worker : worker[w] = "exited"
    /\ caller' = At("destroyed")
    /\ UNCHANGED <<tasks, running, started, finishing, worker, task, added, finished>>

Init ==
    /\ tasks = <<>> /\ running = 0
    /\ started = FALSE /\ finishing = FALSE
    /\ worker = [w \in Worker |-> "none"]
    /\ task = [w \in Worker |-> 0]
    /\ caller = At("idle")
    /\ added = 0 /\ finished = {}

RunWorker(w) == GetNextTask(w) \/ FinishTask(w)

OwnerCall == Wait \/ DestroyNotify \/ Join

Next ==
    \/ Add \/ StartWorkers \/ StartWait \/ Destroy \/ OwnerCall
    \/ \E w \in Worker : RunWorker(w)
-----------------------------------------------------------------------------
\* When Wait returns, in the pull of a server or in the destructor, every task added before has
\* run to its end, not only left the list.
WaitMeansFinished ==
    caller.at = "join" \/ (caller.at = "destroyed" /\ started) => finished = 1 .. added

\* The same for every return of Wait, also of the one a server's pull makes: the owner leaves the
\* wait only when all the tasks have run.
ReturnMeansFinished == caller.at = "wait" /\ caller'.at \notin {"wait", "sleep"} => finished' = 1 .. added'
=============================================================================
