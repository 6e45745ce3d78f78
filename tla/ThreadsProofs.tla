--------------------------- MODULE ThreadsProofs ---------------------------
(***************************************************************************)
(* The proofs about threads and queues, for any number of threads, items,  *)
(* tasks and rounds and any capacity: no wakeup is lost in the blocking    *)
(* queue, Wait of the thread pool means what it says, and the read-ahead   *)
(* iterator allocates a bounded number of cells and is an iterator.        *)
(***************************************************************************)
EXTENDS Threads, FiniteSetTheorems, SequenceTheorems, TLAPS

\* The instances count as this module does.
LEMMA SameCardinality ==
    ASSUME NEW S
    PROVE  Q!Cardinality(S) = Cardinality(S) /\ I!Cardinality(S) = Cardinality(S)
  BY DEF Q!Cardinality, I!Cardinality, Cardinality, Q!IsFiniteSet, I!IsFiniteSet, IsFiniteSet
-----------------------------------------------------------------------------
(***************************************************************************)
(* The blocking queue.  The invariant is inductive but for one thing:      *)
(* NotifyAll only comes after exit_now_ is set.                            *)
(***************************************************************************)
QueueTypeOK ==
    /\ type \in {"fifo", "priority"}
    /\ items \in Seq(Nat)
    /\ pusher \in [Worker -> {"idle", "notify"}]
    /\ popper \in [Thread -> {"idle", "call", "sleep", "woken"}]
    /\ pushed \in Nat

Wakeups == ~exitNow /\ Q!Asleep # {} => Len(items) <= Cardinality(Q!Notifying) + Cardinality(Q!Woken)

KillInv == killer # "idle" => exitNow

QueueInv == QueueTypeOK /\ KillInv /\ Wakeups

\* Q!Pop removes one element of the queue.
LEMMA WithoutLength ==
    ASSUME QueueTypeOK, items # <<>>, NEW k \in Q!Next1
    PROVE  Q!Without(k) \in Seq(Nat) /\ Len(Q!Without(k)) = Len(items) - 1
<1>1. Len(items) \in Nat /\ Len(items) > 0
  BY DEF QueueTypeOK
<1>2. k \in 1 .. Len(items)
  BY <1>1 DEF Q!Next1
<1>3. /\ SubSeq(items, 1, k - 1) \in Seq(Nat) /\ Len(SubSeq(items, 1, k - 1)) = k - 1
      /\ SubSeq(items, k + 1, Len(items)) \in Seq(Nat) /\ Len(SubSeq(items, k + 1, Len(items))) = Len(items) - k
  BY <1>1, <1>2 DEF QueueTypeOK
<1>4. \A s, t \in Seq(Nat) : s \o t \in Seq(Nat) /\ Len(s \o t) = Len(s) + Len(t)
  OBVIOUS
<1>5. Q!Without(k) \in Seq(Nat) /\ Len(Q!Without(k)) = (k - 1) + (Len(items) - k)
  BY <1>3, <1>4, Zenon DEF Q!Without
<1>. QED
  BY <1>1, <1>2, <1>5

\* Every step of the threads keeps a wakeup under way for every item.
LEMMA QueueStep ==
    ASSUME QueueInv, [Q!Next]_queueVars
    PROVE  QueueInv'
<1>. USE DEF QueueInv
<1>f. IsFiniteSet(Q!Notifying) /\ IsFiniteSet(Q!Woken)
  BY FS_Subset, ThreadAssumption DEF Q!Notifying, Q!Woken
<1>c. Cardinality(Q!Notifying) \in Nat /\ Cardinality(Q!Woken) \in Nat /\ Len(items) \in Nat
  BY <1>f, FS_CardinalityType DEF QueueTypeOK
<1>1. ASSUME NEW u \in Worker, Q!Push(u) PROVE QueueInv'
  <2>. USE <1>1 DEF Q!Push
  <2>1. QueueTypeOK' /\ KillInv'
    BY DEF QueueTypeOK, KillInv
  <2>2. Q!Asleep' = Q!Asleep /\ Q!Woken' = Q!Woken /\ Len(items') = Len(items) + 1 /\ u \notin Q!Notifying
    BY DEF Q!Asleep, Q!Woken, Q!Notifying, QueueTypeOK
  <2>3. CASE Q!Waiting # {}
    <3>1. Q!Notifying' = Q!Notifying \cup {u}
      BY <2>3 DEF Q!Notifying, QueueTypeOK
    <3>2. Cardinality(Q!Notifying') = Cardinality(Q!Notifying) + 1
      BY <3>1, <2>2, <1>f, FS_AddElement
    <3>. QED
      BY <2>1, <2>2, <3>2, <1>c DEF Wakeups
  <2>4. CASE Q!Waiting = {}
    <3>1. Q!Asleep = {}
      BY <2>4 DEF Q!Waiting, Q!Asleep
    <3>. QED
      BY <2>1, <2>2, <3>1 DEF Wakeups
  <2>. QED
    BY <2>3, <2>4
<1>2. ASSUME NEW u \in Worker, Q!NotifyOne(u) PROVE QueueInv'
  <2>. USE <1>2 DEF Q!NotifyOne
  <2>1. QueueTypeOK' /\ KillInv'
    BY DEF QueueTypeOK, KillInv
  <2>2. CASE Q!Asleep = {}
    <3>1. Q!Asleep' = {}
      BY <2>2 DEF Q!Asleep
    <3>. QED
      BY <2>1, <3>1 DEF Wakeups
  <2>3. CASE Q!Asleep # {}
    <3>1. PICK p \in Q!Asleep : popper' = [popper EXCEPT ![p] = "woken"]
      BY <2>3 DEF Q!Asleep
    <3>2. Q!Woken' = Q!Woken \cup {p} /\ p \notin Q!Woken
      BY <3>1 DEF Q!Woken, Q!Asleep, QueueTypeOK
    <3>3. Q!Notifying' = Q!Notifying \ {u} /\ u \in Q!Notifying
      BY DEF Q!Notifying, QueueTypeOK
    <3>4. Cardinality(Q!Woken') = Cardinality(Q!Woken) + 1 /\ Cardinality(Q!Notifying') = Cardinality(Q!Notifying) - 1
      BY <3>2, <3>3, <1>f, FS_AddElement, FS_RemoveElement
    <3>. QED
      BY <2>1, <2>3, <3>4, <1>c DEF Wakeups
  <2>. QED
    BY <2>2, <2>3
<1>3. ASSUME NEW p \in Thread, Q!StartPop(p) PROVE QueueInv'
  <2>. USE <1>3 DEF Q!StartPop
  <2>1. QueueTypeOK' /\ KillInv'
    BY DEF QueueTypeOK, KillInv
  <2>2. Q!Asleep' = Q!Asleep /\ Q!Woken' = Q!Woken /\ Q!Notifying' = Q!Notifying
    BY DEF Q!Asleep, Q!Woken, Q!Notifying, QueueTypeOK
  <2>. QED
    BY <2>1, <2>2 DEF Wakeups
<1>4. ASSUME NEW p \in Thread, Q!Pop(p) PROVE QueueInv'
  <2>. USE <1>4 DEF Q!Pop
  <2>0. Q!Notifying' = Q!Notifying /\ KillInv'
    BY DEF Q!Notifying, KillInv
  <2>1. CASE items # <<>> /\ ~exitNow
    <3>1. PICK k \in Q!Next1 : items' = Q!Without(k)
      BY <2>1
    <3>2. items' \in Seq(Nat) /\ Len(items') = Len(items) - 1
      BY <2>1, <3>1, WithoutLength
    <3>3. popper' = [popper EXCEPT ![p] = "idle"]
      BY <2>1
    <3>4. QueueTypeOK'
      BY <3>2, <3>3 DEF QueueTypeOK
    <3>5. Q!Asleep' = Q!Asleep /\ Q!Woken' = Q!Woken \ {p}
      BY <3>3 DEF Q!Asleep, Q!Woken, QueueTypeOK
    <3>6. Cardinality(Q!Woken') \in {Cardinality(Q!Woken), Cardinality(Q!Woken) - 1}
      BY <3>5, <1>f, FS_RemoveElement
    <3>. QED
      BY <2>0, <2>1, <3>2, <3>4, <3>5, <3>6, <1>c DEF Wakeups
  <2>2. CASE exitNow
    BY <2>0, <2>2 DEF QueueTypeOK, Wakeups
  <2>3. CASE items = <<>> /\ ~exitNow
    <3>1. QueueTypeOK' /\ Len(items') = 0
      BY <2>3 DEF QueueTypeOK
    <3>2. Q!Woken' = Q!Woken \ {p}
      BY <2>3 DEF Q!Woken, QueueTypeOK
    <3>3. Cardinality(Q!Woken') \in Nat
      BY <3>2, <1>f, FS_RemoveElement, FS_CardinalityType
    <3>. QED
      BY <2>0, <3>1, <3>3, <1>c DEF Wakeups
  <2>. QED
    BY <2>1, <2>2, <2>3
<1>5. CASE Q!SignalForKill
  BY <1>5 DEF Q!SignalForKill, QueueTypeOK, KillInv, Wakeups
<1>6. CASE Q!NotifyAll
  BY <1>6 DEF Q!NotifyAll, QueueTypeOK, KillInv, Wakeups
<1>7. CASE UNCHANGED queueVars
  BY <1>7 DEF queueVars, QueueTypeOK, KillInv, Wakeups, Q!Asleep, Q!Woken, Q!Notifying
<1>. QED
  BY <1>1, <1>2, <1>3, <1>4, <1>5, <1>6, <1>7 DEF Q!Next

LEMMA QueueInit ==
    ASSUME Q!Init
    PROVE  QueueInv
<1>1. Q!Asleep = {}
  BY DEF Q!Init, Q!Asleep
<1>. QED
  BY <1>1 DEF Q!Init, QueueInv, QueueTypeOK, KillInv, Wakeups
-----------------------------------------------------------------------------
(***************************************************************************)
(* The thread pool.  A task that was added is in the list, with a worker   *)
(* that runs it, or finished; and the counter is the number of workers     *)
(* that run a task, so that a counter of zero says that nobody runs one.   *)
(***************************************************************************)
Places == {"idle", "wait", "sleep", "notify", "join", "destroyed"}

PoolTypeOK ==
    /\ tasks \in Seq(Nat) /\ running \in Int
    /\ started \in BOOLEAN /\ finishing \in BOOLEAN
    /\ worker \in [Worker -> {"none", "get", "sleep", "run", "exited"}]
    /\ task \in [Worker -> Nat]
    /\ caller \in [at : Places, next : Places]
    /\ added \in Nat /\ finished \in SUBSET Nat

Running == {w \in Worker : worker[w] = "run"}

\* what was added is somewhere, and nothing else is
TasksConserved ==
    /\ \A i \in 1 .. added : \/ i \in finished
                             \/ \E k \in 1 .. Len(tasks) : tasks[k] = i
                             \/ \E w \in Running : task[w] = i
    /\ \A i \in finished : i \in 1 .. added
    /\ \A k \in 1 .. Len(tasks) : tasks[k] \in 1 .. added
    /\ \A w \in Running : task[w] \in 1 .. added

CountInv == running = Cardinality(Running)

NotStarted == ~started => \A w \in Worker : worker[w] = "none"

PoolInv == PoolTypeOK /\ NotStarted /\ TasksConserved /\ CountInv /\ P!WaitMeansFinished

\* When Done() holds, no task is left in the list or with a worker (P!Wait, P!FinishTask).
LEMMA DoneMeansFinished ==
    ASSUME PoolTypeOK, TasksConserved, CountInv, P!AllDone
    PROVE  finished = 1 .. added
<1>1. IsFiniteSet(Running)
  BY FS_Subset, ThreadAssumption DEF Running
<1>2. Running = {}
  BY <1>1, FS_EmptySet DEF CountInv, P!AllDone
<1>3. Len(tasks) = 0
  BY DEF P!AllDone
<1>4. \A i \in 1 .. added : i \in finished
  BY <1>2, <1>3 DEF TasksConserved
<1>5. \A i \in finished : i \in 1 .. added
  BY DEF TasksConserved
<1>. QED
  BY <1>4, <1>5

\* Every step of the owner and of the workers keeps the tasks and the counter.
LEMMA PoolStep ==
    ASSUME PoolInv, [P!Next]_poolVars
    PROVE  PoolInv'
<1>. USE DEF PoolInv
<1>f. \A S \in SUBSET Worker : IsFiniteSet(S)
  BY FS_Subset, ThreadAssumption
<1>a. IsFiniteSet(Running) /\ Running \in SUBSET Worker
  BY <1>f DEF Running
<1>1. CASE P!Add
  <2>. USE <1>1 DEF P!Add, P!At
  <2>1. PoolTypeOK' /\ NotStarted'
    BY DEF PoolTypeOK, Places, NotStarted
  <2>2. Running' = Running
    BY DEF Running, PoolTypeOK
  <2>3. /\ Len(tasks') = Len(tasks) + 1 /\ Len(tasks) \in Nat
        /\ \A k \in 1 .. Len(tasks) : tasks'[k] = tasks[k]
        /\ tasks'[Len(tasks) + 1] = added + 1
    BY DEF PoolTypeOK
  <2>4. \A i \in 1 .. added' : \/ i \in finished'
                               \/ \E k \in 1 .. Len(tasks') : tasks'[k] = i
                               \/ \E w \in Running' : task'[w] = i
    <3>. SUFFICES ASSUME NEW i \in 1 .. added', i \notin finished', ~ \E w \in Running' : task'[w] = i
                  PROVE  \E k \in 1 .. Len(tasks') : tasks'[k] = i
      OBVIOUS
    <3>1. CASE i = added + 1
      BY <3>1, <2>3
    <3>2. CASE i # added + 1
      <4>1. i \in 1 .. added
        BY <3>2 DEF PoolTypeOK
      <4>2. PICK k \in 1 .. Len(tasks) : tasks[k] = i
        BY <4>1, <2>2 DEF TasksConserved
      <4>. QED
        BY <4>2, <2>3
    <3>. QED
      BY <3>1, <3>2
  <2>5. \A k \in 1 .. Len(tasks') : tasks'[k] \in 1 .. added'
    BY <2>3 DEF TasksConserved, PoolTypeOK
  <2>6. (\A i \in finished' : i \in 1 .. added') /\ (\A w \in Running' : task'[w] \in 1 .. added')
    BY <2>2 DEF TasksConserved, PoolTypeOK
  <2>. QED
    BY <2>1, <2>2, <2>4, <2>5, <2>6 DEF CountInv, P!WaitMeansFinished, TasksConserved
<1>2. CASE P!StartWorkers
  <2>. USE <1>2 DEF P!StartWorkers, P!At
  <2>1. PoolTypeOK' /\ NotStarted'
    BY DEF PoolTypeOK, NotStarted
  <2>2. Running = {} /\ Running' = {}
    BY DEF Running, NotStarted
  <2>3. TasksConserved'
    BY <2>2 DEF TasksConserved
  <2>. QED
    BY <2>1, <2>2, <2>3 DEF CountInv, P!WaitMeansFinished
<1>3. ASSUME NEW w \in Worker, P!GetNextTask(w) PROVE PoolInv'
  <2>. USE <1>3 DEF P!GetNextTask
  <2>0. w \notin Running /\ NotStarted'
    BY DEF Running, NotStarted, PoolTypeOK
  <2>1. CASE tasks # <<>>
    <3>1. /\ Len(tasks) \in Nat /\ Len(tasks) > 0 /\ Len(tasks') = Len(tasks) - 1
          /\ \A k \in 1 .. Len(tasks') : tasks'[k] = tasks[k + 1]
          /\ Head(tasks) = tasks[1] /\ tasks[1] \in Nat /\ tasks' \in Seq(Nat)
      <4>1. tasks \in Seq(Nat) /\ tasks' = Tail(tasks)
        BY <2>1 DEF PoolTypeOK
      <4>. QED
        BY <2>1, <4>1
    <3>2. PoolTypeOK'
      <4>1. running' \in Int /\ task' \in [Worker -> Nat]
        BY <2>1, <3>1 DEF PoolTypeOK
      <4>2. worker' \in [Worker -> {"none", "get", "sleep", "run", "exited"}]
        BY <2>1 DEF PoolTypeOK
      <4>. QED
        BY <3>1, <4>1, <4>2 DEF PoolTypeOK
    <3>3. Running' = Running \cup {w}
      BY <2>1 DEF Running, PoolTypeOK
    <3>4. CountInv'
      BY <2>0, <2>1, <3>3, <1>a, FS_AddElement DEF CountInv
    <3>5. task'[w] = tasks[1] /\ \A v \in Running : task'[v] = task[v]
      BY <2>0, <2>1, <3>1 DEF PoolTypeOK, Running
    <3>6. \A i \in 1 .. added' : \/ i \in finished'
                                 \/ \E k \in 1 .. Len(tasks') : tasks'[k] = i
                                 \/ \E v \in Running' : task'[v] = i
      <4>. SUFFICES ASSUME NEW i \in 1 .. added, i \notin finished, ~ \E v \in Running' : task'[v] = i
                    PROVE  \E k \in 1 .. Len(tasks') : tasks'[k] = i
        OBVIOUS
      <4>1. PICK k \in 1 .. Len(tasks) : tasks[k] = i
        BY <3>3, <3>5 DEF TasksConserved
      <4>2. k # 1
        BY <4>1, <3>3, <3>5
      <4>3. k - 1 \in 1 .. Len(tasks') /\ tasks'[k - 1] = tasks[k]
        BY <4>2, <3>1
      <4>. QED
        BY <4>1, <4>3
    <3>7. \A k \in 1 .. Len(tasks') : tasks'[k] \in 1 .. added'
      <4>1. \A k \in 1 .. Len(tasks') : k + 1 \in 1 .. Len(tasks)
        BY <3>1
      <4>. QED
        BY <3>1, <4>1 DEF TasksConserved
    <3>8. tasks[1] \in 1 .. added
      BY <3>1 DEF TasksConserved
    <3>9. \A v \in Running' : task'[v] \in 1 .. added'
      BY <3>3, <3>5, <3>8 DEF TasksConserved
    <3>10. TasksConserved'
      BY <3>6, <3>7, <3>9 DEF TasksConserved
    <3>. QED
      BY <2>0, <3>2, <3>4, <3>10 DEF P!WaitMeansFinished
  <2>2. CASE tasks = <<>>
    <3>1. Running' = Running
      BY <2>2, <2>0 DEF Running, PoolTypeOK
    <3>2. PoolTypeOK' /\ TasksConserved' /\ CountInv'
      BY <2>2, <3>1 DEF PoolTypeOK, TasksConserved, CountInv
    <3>. QED
      BY <2>0, <3>2 DEF P!WaitMeansFinished
  <2>. QED
    BY <2>1, <2>2
<1>4. ASSUME NEW w \in Worker, P!FinishTask(w) PROVE PoolInv'
  <2>. USE <1>4 DEF P!FinishTask
  <2>0. w \in Running /\ NotStarted'
    BY DEF Running, NotStarted, PoolTypeOK
  <2>1. PoolTypeOK'
    BY DEF PoolTypeOK, Places
  <2>2. Running' = Running \ {w}
    BY DEF Running, PoolTypeOK
  <2>3. CountInv'
    BY <2>0, <2>2, <1>a, FS_RemoveElement DEF CountInv
  <2>4. task[w] \in 1 .. added /\ \A v \in Running' : v # w /\ v \in Running /\ task'[v] = task[v]
    BY <2>0, <2>2 DEF TasksConserved, PoolTypeOK, Running
  <2>5. \A i \in 1 .. added' : \/ i \in finished'
                               \/ \E k \in 1 .. Len(tasks') : tasks'[k] = i
                               \/ \E v \in Running' : task'[v] = i
    <3>. SUFFICES ASSUME NEW i \in 1 .. added, i \notin finished, i # task[w], ~ \E k \in 1 .. Len(tasks) : tasks[k] = i
                  PROVE  \E v \in Running' : task'[v] = i
      OBVIOUS
    <3>1. PICK v \in Running : task[v] = i
      BY DEF TasksConserved
    <3>2. v \in Running'
      BY <3>1, <2>2
    <3>. QED
      BY <3>1, <3>2, <2>4
  <2>6. TasksConserved'
    BY <2>4, <2>5 DEF TasksConserved
  <2>7. P!WaitMeansFinished'
    <3>. SUFFICES ASSUME caller.at = "join" \/ (caller.at = "destroyed" /\ started)
                  PROVE  finished' = 1 .. added'
      BY DEF P!WaitMeansFinished, PoolTypeOK
    <3>. QED
      BY <2>4 DEF P!WaitMeansFinished
  <2>. QED
    BY <2>0, <2>1, <2>3, <2>6, <2>7
<1>5. CASE P!Wait
  <2>. USE <1>5 DEF P!Wait, P!At
  <2>0. caller' \in [at : Places, next : Places]
    BY DEF PoolTypeOK, Places
  <2>1. PoolTypeOK' /\ NotStarted' /\ TasksConserved' /\ CountInv'
    BY <2>0 DEF PoolTypeOK, NotStarted, TasksConserved, CountInv, Running
  <2>2. CASE P!AllDone
    BY <2>1, <2>2, DoneMeansFinished DEF P!WaitMeansFinished
  <2>3. CASE ~P!AllDone
    BY <2>1, <2>3 DEF P!WaitMeansFinished, PoolTypeOK
  <2>. QED
    BY <2>2, <2>3
<1>6. CASE P!StartWait \/ P!Destroy \/ P!DestroyNotify \/ P!Join
  <2>. USE <1>6 DEF P!StartWait, P!Destroy, P!DestroyNotify, P!Join, P!At
  <2>1. Running' = Running
    BY DEF Running, PoolTypeOK
  <2>2. PoolTypeOK' /\ NotStarted'
    <3>0. finishing' \in BOOLEAN
      BY DEF PoolTypeOK
    <3>1. caller' \in [at : Places, next : Places]
      BY DEF Places
    <3>2. worker' \in [Worker -> {"none", "get", "sleep", "run", "exited"}]
      BY DEF PoolTypeOK
    <3>3. NotStarted'
      BY DEF NotStarted
    <3>. QED
      BY <3>0, <3>1, <3>2, <3>3 DEF PoolTypeOK
  <2>3. TasksConserved' /\ CountInv'
    BY <2>1 DEF TasksConserved, CountInv
  <2>. QED
    BY <2>2, <2>3 DEF P!WaitMeansFinished
<1>7. CASE UNCHANGED poolVars
  BY <1>7 DEF poolVars, PoolTypeOK, NotStarted, TasksConserved, CountInv, Running, P!WaitMeansFinished
<1>. QED
  BY <1>1, <1>2, <1>3, <1>4, <1>5, <1>6, <1>7 DEF P!Next, P!RunWorker, P!OwnerCall

LEMMA PoolInit ==
    ASSUME P!Init
    PROVE  PoolInv
<1>1. Running = {}
  BY DEF P!Init, Running
<1>2. CountInv
  BY <1>1, FS_EmptySet DEF CountInv, P!Init
<1>3. PoolTypeOK
  <2>1. caller \in [at : Places, next : Places]
    BY DEF P!Init, P!At, Places
  <2>2. started \in BOOLEAN /\ finishing \in BOOLEAN
    BY DEF P!Init
  <2>3. /\ tasks \in Seq(Nat) /\ running \in Int /\ task \in [Worker -> Nat]
        /\ worker \in [Worker -> {"none", "get", "sleep", "run", "exited"}]
        /\ added \in Nat /\ finished \in SUBSET Nat
    BY DEF P!Init
  <2>. QED
    BY <2>1, <2>2, <2>3 DEF PoolTypeOK
<1>4. TasksConserved
  BY <1>1 DEF P!Init, TasksConserved
<1>. QED
  BY <1>2, <1>3, <1>4 DEF P!Init, PoolInv, NotStarted, P!WaitMeansFinished, P!At

-----------------------------------------------------------------------------
(***************************************************************************)
(* The read-ahead iterator.  What the signals and the phases of the owner  *)
(* say of each other (SigInv) is what keeps consumers away while the queue *)
(* is reset, so that what was delivered, what is in the queue and what the *)
(* producer has in hand are one sequence (DataInv).                        *)
(***************************************************************************)
IterTypeOK ==
    /\ sig \in {"produce", "beforeFirst", "destroy"}
    /\ queue \in Seq(Nat) /\ freeCells \in Nat
    /\ producer.at \in {"check", "sleep", "next", "put", "end", "notify", "exited"}
    /\ producer.at = "put" => producer.item \in Nat
    /\ pos \in Nat \ {0}
    /\ consumer \in [Thread -> {"idle", "check", "sleep", "notify"}]
    /\ cell \in [Thread -> {0, 1}]
    /\ owner \in {"idle", "check", "sleep", "notify", "join", "destroyed"}
    /\ out \in Seq(Nat) /\ cells \in Nat

SigInv ==
    /\ owner \in {"idle", "notify"} => sig = "produce" /\ ~sigProcessed
    /\ owner \in {"check", "sleep"} =>
          (sig = "beforeFirst" /\ ~sigProcessed) \/ (sig = "produce" /\ sigProcessed)
    /\ owner \in {"join", "destroyed"} => sig = "destroy"
    /\ owner # "idle" => \A c \in Thread : consumer[c] \in {"idle", "notify"}
    /\ owner = "destroyed" => producer.at = "exited"

\* The items delivered since the source was reset.
Base == IF sigProcessed THEN 0 ELSE Len(out)

DataInv ==
    /\ Len(out) <= NumItems /\ \A i \in 1 .. Len(out) : out[i] = i
    /\ sig # "destroy" =>
          /\ \A i \in 1 .. Len(queue) : queue[i] = Base + i
          /\ pos = Base + Len(queue) + (IF producer.at = "put" THEN 2 ELSE 1)
          /\ producer.at = "put" => producer.item = Base + Len(queue) + 1
          /\ pos <= NumItems + 1
          /\ produceEnd => pos = NumItems + 1 /\ producer.at \notin {"next", "put"}

\* A cell is free, in the queue, with the producer or with a consumer; the producer allocates one
\* only when none was free and the queue was not full.
InHand == IF producer.at = "put" \/ (producer.at \in {"next", "end"} /\ producer.cell) THEN 1 ELSE 0
Held == {c \in Thread : cell[c] = 1}

CellsInv ==
    /\ \A c \in Thread : consumer[c] \in {"check", "sleep"} => cell[c] = 0
    /\ owner # "destroyed" => cells = freeCells + Len(queue) + InHand + Cardinality(Held)
    /\ cells <= MaxCapacity + Cardinality(Thread)
    /\ producer.at = "next" /\ ~producer.cell => cells < MaxCapacity + Cardinality(Thread)

IterInv == IterTypeOK /\ SigInv /\ DataInv /\ CellsInv

LEMMA IterTypeStep ==
    ASSUME IterTypeOK, [I!Next]_iterVars
    PROVE  IterTypeOK'
<1>. USE DEF IterTypeOK
<1>1. CASE I!TakeCell
  BY <1>1 DEF I!TakeCell, I!consVars, I!ownVars, I!history
<1>2. CASE I!HandleBeforeFirst
  BY <1>2 DEF I!HandleBeforeFirst, I!consVars, I!ownVars, I!history
<1>3. CASE I!HandleDestroy
  BY <1>3 DEF I!HandleDestroy, I!WakeConsumers, I!history
<1>4. CASE I!CallNext
  BY <1>4 DEF I!CallNext, I!consVars, I!ownVars
<1>5. CASE I!PutCell
  BY <1>5 DEF I!PutCell, I!consVars, I!ownVars, I!history
<1>6. CASE I!ProducerNotify
  BY <1>6 DEF I!ProducerNotify, I!WakeConsumers, I!history
<1>7. ASSUME NEW c \in Thread, I!StartNext(c) PROVE IterTypeOK'
  BY <1>7 DEF I!StartNext, I!prodVars, I!ownVars, I!history
<1>8. ASSUME NEW c \in Thread, I!CheckNext(c) PROVE IterTypeOK'
  <2>1. /\ sig' = sig /\ freeCells' = freeCells /\ producer' = producer /\ pos' = pos
        /\ owner' = owner /\ cells' = cells
    BY <1>8 DEF I!CheckNext, I!prodVars, I!ownVars
  <2>2. consumer' \in [Thread -> {"idle", "check", "sleep", "notify"}]
    BY <1>8 DEF I!CheckNext
  <2>3. cell' \in [Thread -> {0, 1}]
    BY <1>8 DEF I!CheckNext
  <2>4. queue' \in Seq(Nat) /\ out' \in Seq(Nat)
    <3>1. CASE queue # <<>> /\ out' = Append(out, Head(queue)) /\ queue' = Tail(queue)
      BY <3>1
    <3>. QED  BY <1>8, <3>1 DEF I!CheckNext
  <2>. QED  BY <2>1, <2>2, <2>3, <2>4
<1>9. ASSUME NEW c \in Thread, I!Recycle(c) PROVE IterTypeOK'
  BY <1>9 DEF I!Recycle, I!prodVars, I!ownVars, I!history
<1>10. ASSUME NEW c \in Thread, I!ConsumerNotify(c) PROVE IterTypeOK'
  BY <1>10 DEF I!ConsumerNotify, I!WakeProducer, I!ownVars, I!history
<1>11. CASE I!BeforeFirst
  BY <1>11 DEF I!BeforeFirst, I!WakeProducer, I!consVars, I!history
<1>12. CASE I!WaitProcessed
  <2>1. /\ sig' = sig /\ freeCells' = freeCells /\ producer' = producer /\ pos' = pos
        /\ queue' = queue /\ consumer' = consumer /\ cell' = cell /\ cells' = cells
    BY <1>12 DEF I!WaitProcessed, I!prodVars, I!consVars
  <2>2. owner' \in {"idle", "check", "sleep", "notify", "join", "destroyed"}
    BY <1>12 DEF I!WaitProcessed
  <2>3. out' = out \/ out' = <<>>
    BY <1>12 DEF I!WaitProcessed
  <2>4. out' \in Seq(Nat)
    <3>1. << >> \in Seq(Nat) /\ out \in Seq(Nat)
      OBVIOUS
    <3>. QED  BY <2>3, <3>1, Zenon
  <2>. QED  BY <2>1, <2>2, <2>4
<1>13. CASE I!OwnerNotify
  BY <1>13 DEF I!OwnerNotify, I!WakeProducer, I!consVars, I!history
<1>14. CASE I!Destroy
  BY <1>14 DEF I!Destroy, I!WakeProducer, I!consVars, I!history
<1>15. CASE I!Join
  BY <1>15 DEF I!Join, I!prodVars, I!consVars, I!history
<1>16. CASE UNCHANGED iterVars
  BY <1>16 DEF iterVars
<1>. QED
  BY <1>1, <1>2, <1>3, <1>4, <1>5, <1>6, <1>7, <1>8, <1>9, <1>10, <1>11, <1>12, <1>13, <1>14, <1>15, <1>16
     DEF I!Next, I!ProducerThread, I!ConsumerCall, I!OwnerCall

\* The facts about sequences that a delivery and a put need.
LEMMA DeliverFacts ==
    ASSUME NEW q \in Seq(Nat), NEW o \in Seq(Nat), q # <<>>,
           \A i \in 1 .. Len(q) : q[i] = Len(o) + i,
           \A i \in 1 .. Len(o) : o[i] = i
    PROVE  /\ Head(q) = Len(o) + 1
           /\ Len(Append(o, Head(q))) = Len(o) + 1
           /\ \A i \in 1 .. Len(Append(o, Head(q))) : Append(o, Head(q))[i] = i
           /\ Len(q) \in Nat \ {0} /\ Len(Tail(q)) = Len(q) - 1
           /\ \A i \in 1 .. Len(Tail(q)) : Tail(q)[i] = Len(Append(o, Head(q))) + i
<1>1. Head(q) = q[1] /\ Len(q) \in Nat \ {0}
  OBVIOUS
<1>2. Head(q) = Len(o) + 1
  BY <1>1
<1>3. Len(Append(o, Head(q))) = Len(o) + 1
  BY <1>1, <1>2
<1>4. \A i \in 1 .. Len(Append(o, Head(q))) : Append(o, Head(q))[i] = i
  BY <1>2, <1>3
<1>5. Len(Tail(q)) = Len(q) - 1 /\ \A i \in 1 .. Len(Tail(q)) : Tail(q)[i] = q[i + 1]
  BY <1>1
<1>6. \A i \in 1 .. Len(Tail(q)) : Tail(q)[i] = Len(Append(o, Head(q))) + i
  BY <1>1, <1>3, <1>5
<1>. QED  BY <1>1, <1>2, <1>3, <1>4, <1>5, <1>6

LEMMA PutFacts ==
    ASSUME NEW q \in Seq(Nat), NEW b \in Nat,
           \A i \in 1 .. Len(q) : q[i] = b + i
    PROVE  /\ Len(Append(q, b + Len(q) + 1)) = Len(q) + 1
           /\ \A i \in 1 .. Len(Append(q, b + Len(q) + 1)) : Append(q, b + Len(q) + 1)[i] = b + i
  OBVIOUS

LEMMA HeldFacts ==
    ASSUME NEW f \in [Thread -> {0, 1}], NEW c \in Thread
    PROVE  /\ Cardinality({t \in Thread : f[t] = 1}) \in Nat
           /\ Cardinality({t \in Thread : f[t] = 1}) <= Cardinality(Thread)
           /\ f[c] = 0 => Cardinality({t \in Thread : [f EXCEPT ![c] = 1][t] = 1})
                             = Cardinality({t \in Thread : f[t] = 1}) + 1
           /\ f[c] = 1 => Cardinality({t \in Thread : [f EXCEPT ![c] = 0][t] = 1})
                             = Cardinality({t \in Thread : f[t] = 1}) - 1
<1>. DEFINE H == {t \in Thread : f[t] = 1}
<1>1. IsFiniteSet(Thread) /\ H \subseteq Thread
  BY ThreadAssumption
<1>2. IsFiniteSet(H) /\ Cardinality(H) <= Cardinality(Thread)
  BY <1>1, FS_Subset
<1>3. Cardinality(H) \in Nat
  BY <1>2, FS_CardinalityType
<1>4. f[c] = 0 => {t \in Thread : [f EXCEPT ![c] = 1][t] = 1} = H \cup {c} /\ c \notin H
  OBVIOUS
<1>5. f[c] = 1 => {t \in Thread : [f EXCEPT ![c] = 0][t] = 1} = H \ {c} /\ c \in H
  OBVIOUS
<1>6. f[c] = 0 => Cardinality({t \in Thread : [f EXCEPT ![c] = 1][t] = 1}) = Cardinality(H) + 1
  BY <1>2, <1>4, FS_AddElement
<1>7. f[c] = 1 => Cardinality({t \in Thread : [f EXCEPT ![c] = 0][t] = 1}) = Cardinality(H) - 1
  BY <1>2, <1>5, FS_RemoveElement
<1>. QED  BY <1>2, <1>3, <1>6, <1>7

LEMMA HeldCount ==
    ASSUME cell \in [Thread -> {0, 1}]
    PROVE  /\ Cardinality(Held) \in Nat /\ Cardinality(Held) <= Cardinality(Thread)
           /\ Cardinality(Thread) \in Nat
<1>1. IsFiniteSet(Thread) /\ Held \subseteq Thread
  BY ThreadAssumption DEF Held
<1>2. IsFiniteSet(Held) /\ Cardinality(Held) <= Cardinality(Thread)
  BY <1>1, FS_Subset
<1>. QED  BY <1>1, <1>2, FS_CardinalityType

LEMMA IterSigStep ==
    ASSUME IterTypeOK, SigInv, [I!Next]_iterVars
    PROVE  SigInv'
<1>. USE DEF IterTypeOK, SigInv
<1>1. CASE I!TakeCell
  <2>1. /\ sig' = sig /\ sigProcessed' = sigProcessed /\ owner' = owner
        /\ consumer' = consumer /\ owner # "destroyed"
    BY <1>1 DEF I!TakeCell, I!consVars, I!ownVars
  <2>. QED  BY <2>1
<1>2. CASE I!HandleBeforeFirst
  BY <1>2 DEF I!HandleBeforeFirst, I!consVars, I!ownVars, I!history
<1>3. CASE I!HandleDestroy
  BY <1>3 DEF I!HandleDestroy, I!WakeConsumers, I!history
<1>4. CASE I!CallNext
  <2>1. /\ sig' = sig /\ sigProcessed' = sigProcessed /\ owner' = owner
        /\ consumer' = consumer /\ producer'.at # "exited" /\ owner # "destroyed"
    BY <1>4 DEF I!CallNext, I!consVars, I!ownVars
  <2>. QED  BY <2>1
<1>5. CASE I!PutCell
  BY <1>5 DEF I!PutCell, I!consVars, I!ownVars, I!history
<1>6. CASE I!ProducerNotify
  BY <1>6 DEF I!ProducerNotify, I!WakeConsumers, I!history
<1>7. ASSUME NEW c \in Thread, I!StartNext(c) PROVE SigInv'
  BY <1>7 DEF I!StartNext, I!prodVars, I!ownVars, I!history
<1>8. ASSUME NEW c \in Thread, I!CheckNext(c) PROVE SigInv'
  BY <1>8 DEF I!CheckNext, I!prodVars, I!ownVars
<1>9. ASSUME NEW c \in Thread, I!Recycle(c) PROVE SigInv'
  BY <1>9 DEF I!Recycle, I!prodVars, I!ownVars, I!history
<1>10. ASSUME NEW c \in Thread, I!ConsumerNotify(c) PROVE SigInv'
  BY <1>10 DEF I!ConsumerNotify, I!WakeProducer, I!ownVars, I!history
<1>11. CASE I!BeforeFirst
  BY <1>11 DEF I!BeforeFirst, I!Quiet, I!WakeProducer, I!consVars, I!history
<1>12. CASE I!WaitProcessed
  <2>1. sig' = sig /\ consumer' = consumer /\ producer' = producer
    BY <1>12 DEF I!WaitProcessed, I!prodVars, I!consVars
  <2>2. CASE sigProcessed
    BY <1>12, <2>1, <2>2 DEF I!WaitProcessed
  <2>3. CASE ~sigProcessed
    BY <1>12, <2>1, <2>3 DEF I!WaitProcessed
  <2>. QED  BY <2>2, <2>3
<1>13. CASE I!OwnerNotify
  BY <1>13 DEF I!OwnerNotify, I!WakeProducer, I!consVars, I!history
<1>14. CASE I!Destroy
  BY <1>14 DEF I!Destroy, I!Quiet, I!WakeProducer, I!consVars, I!history
<1>15. CASE I!Join
  BY <1>15 DEF I!Join, I!prodVars, I!consVars, I!history
<1>16. CASE UNCHANGED iterVars
  BY <1>16 DEF iterVars
<1>. QED
  BY <1>1, <1>2, <1>3, <1>4, <1>5, <1>6, <1>7, <1>8, <1>9, <1>10, <1>11, <1>12, <1>13, <1>14, <1>15, <1>16
     DEF I!Next, I!ProducerThread, I!ConsumerCall, I!OwnerCall

LEMMA IterDataStep ==
    ASSUME IterTypeOK, SigInv, DataInv, [I!Next]_iterVars
    PROVE  DataInv'
<1>. USE DEF IterTypeOK, SigInv, DataInv, Base
<1>1. CASE I!TakeCell
  <2>1. /\ sig' = sig /\ sigProcessed' = sigProcessed /\ produceEnd' = produceEnd
        /\ queue' = queue /\ pos' = pos /\ out' = out /\ producer.at = "check"
    BY <1>1 DEF I!TakeCell, I!history
  <2>2. producer'.at = "sleep" \/ (producer'.at = "next" /\ ~produceEnd)
    BY <1>1 DEF I!TakeCell, I!MayProduce
  <2>3. Base' = Base
    BY <2>1
  <2>. QED  BY <2>1, <2>2, <2>3
<1>2. CASE I!HandleBeforeFirst
  <2>1. /\ sigProcessed' = TRUE /\ produceEnd' = FALSE /\ queue' = << >> /\ pos' = 1
        /\ out' = out /\ producer'.at = "notify"
    BY <1>2 DEF I!HandleBeforeFirst, I!history
  <2>2. Base' = 0 /\ Len(queue') = 0
    BY <2>1
  <2>3. 1 <= NumItems + 1
    BY ThreadAssumption
  <2>4. ~produceEnd'
    BY <2>1
  <2>. QED  BY <2>1, <2>2, <2>3, <2>4
<1>3. CASE I!HandleDestroy
  BY <1>3 DEF I!HandleDestroy, I!WakeConsumers, I!history
<1>4. CASE I!CallNext
  <2>1. /\ sig' = sig /\ sigProcessed' = sigProcessed
        /\ queue' = queue /\ out' = out /\ producer.at = "next"
    BY <1>4 DEF I!CallNext
  <2>2. Base' = Base /\ Base \in Nat /\ Len(queue) \in Nat
    BY <2>1
  <2>3. CASE pos <= NumItems
    <3>1. producer'.at = "put" /\ producer'.item = pos /\ pos' = pos + 1 /\ ~produceEnd'
      BY <1>4, <2>3 DEF I!CallNext
    <3>. HIDE DEF Base
    <3>. QED  BY ThreadAssumption, <2>1, <2>2, <2>3, <3>1
  <2>4. CASE ~(pos <= NumItems)
    <3>1. producer'.at = "end" /\ pos' = pos
      BY <1>4, <2>4 DEF I!CallNext
    <3>. QED  BY ThreadAssumption, <2>1, <2>2, <2>4, <3>1
  <2>. QED  BY <2>3, <2>4
<1>5. CASE I!PutCell
  <2>1. /\ sig' = sig /\ sigProcessed' = sigProcessed /\ produceEnd' = produceEnd
        /\ pos' = pos /\ out' = out /\ producer'.at \in {"check", "notify"}
    BY <1>5 DEF I!PutCell, I!history
  <2>2. Base' = Base /\ Base \in Nat /\ Len(queue) \in Nat
    BY <2>1
  <2>3. CASE producer.at = "end"
    <3>1. queue' = queue
      BY <1>5, <2>3 DEF I!PutCell
    <3>. QED  BY <2>1, <2>2, <2>3, <3>1
  <2>4. CASE producer.at = "put" /\ sig # "destroy"
    <3>1. queue' = Append(queue, Base + Len(queue) + 1)
      BY <1>5, <2>4 DEF I!PutCell
    <3>2. /\ \A i \in 1 .. Len(queue) : queue[i] = Base + i
          /\ pos = Base + Len(queue) + 2 /\ queue \in Seq(Nat)
      BY <2>4
    <3>. HIDE DEF Base
    <3>3. Len(queue') = Len(queue) + 1 /\ \A i \in 1 .. Len(queue') : queue'[i] = Base + i
      BY <3>1, <3>2, <2>2, PutFacts
    <3>4. pos = Base + Len(queue') + 1
      BY <3>2, <3>3, <2>2
    <3>. QED  BY <2>1, <2>2, <2>4, <3>3, <3>4
  <2>5. CASE sig = "destroy"
    BY <2>1, <2>5
  <2>. QED  BY <1>5, <2>3, <2>4, <2>5 DEF I!PutCell
<1>6. CASE I!ProducerNotify
  BY <1>6 DEF I!ProducerNotify, I!WakeConsumers, I!history
<1>7. ASSUME NEW c \in Thread, I!StartNext(c) PROVE DataInv'
  BY <1>7 DEF I!StartNext, I!prodVars, I!ownVars, I!history
<1>8. ASSUME NEW c \in Thread, I!CheckNext(c) PROVE DataInv'
  <2>1. /\ sig' = sig /\ sigProcessed' = sigProcessed /\ produceEnd' = produceEnd
        /\ pos' = pos /\ producer' = producer
    BY <1>8 DEF I!CheckNext, I!prodVars
  <2>2. sig = "produce" /\ ~sigProcessed
    BY <1>8 DEF I!CheckNext
  <2>3. CASE queue # << >> /\ out' = Append(out, Head(queue)) /\ queue' = Tail(queue)
    <3>1. /\ \A i \in 1 .. Len(queue) : queue[i] = Len(out) + i
          /\ \A i \in 1 .. Len(out) : out[i] = i
          /\ queue \in Seq(Nat) /\ out \in Seq(Nat)
      BY <2>2
    <3>2. /\ Len(out') = Len(out) + 1
          /\ \A i \in 1 .. Len(out') : out'[i] = i
          /\ Len(queue) \in Nat \ {0} /\ Len(queue') = Len(queue) - 1
          /\ \A i \in 1 .. Len(queue') : queue'[i] = Len(out') + i
      BY <2>3, <3>1, DeliverFacts
    <3>3. Base = Len(out) /\ Base' = Len(out') /\ Len(out) \in Nat
      BY <2>1, <2>2
    <3>4. Base' + Len(queue') = Base + Len(queue)
      BY <3>2, <3>3
    <3>5. Len(out') <= NumItems
      <4>1. Len(out) + Len(queue) + 1 <= NumItems + 1
        BY <2>2, <3>2, <3>3, ThreadAssumption
      <4>. QED  BY <3>2, <3>3, <4>1, ThreadAssumption
    <3>. HIDE DEF Base
    <3>. QED  BY <2>1, <2>2, <3>2, <3>3, <3>4, <3>5
  <2>4. CASE out' = out /\ queue' = queue
    BY <2>1, <2>4
  <2>. QED  BY <1>8, <2>3, <2>4 DEF I!CheckNext
<1>9. ASSUME NEW c \in Thread, I!Recycle(c) PROVE DataInv'
  BY <1>9 DEF I!Recycle, I!prodVars, I!ownVars, I!history
<1>10. ASSUME NEW c \in Thread, I!ConsumerNotify(c) PROVE DataInv'
  BY <1>10 DEF I!ConsumerNotify, I!WakeProducer, I!ownVars, I!history
<1>11. CASE I!BeforeFirst
  BY <1>11 DEF I!BeforeFirst, I!WakeProducer, I!consVars, I!history
<1>12. CASE I!WaitProcessed
  <2>1. /\ sig' = sig /\ produceEnd' = produceEnd /\ queue' = queue /\ pos' = pos
        /\ producer' = producer
    BY <1>12 DEF I!WaitProcessed, I!prodVars
  <2>2. CASE sigProcessed
    <3>1. ~sigProcessed' /\ out' = << >>
      BY <1>12, <2>2 DEF I!WaitProcessed
    <3>2. Len(out') = 0
      BY <3>1
    <3>3. Base = 0 /\ Base' = 0
      BY <2>2, <3>1, <3>2
    <3>. HIDE DEF Base
    <3>. QED  BY <2>1, <3>2, <3>3, ThreadAssumption
  <2>3. CASE ~sigProcessed
    <3>1. sigProcessed' = sigProcessed /\ out' = out
      BY <1>12, <2>3 DEF I!WaitProcessed
    <3>. QED  BY <2>1, <3>1
  <2>. QED  BY <2>2, <2>3
<1>13. CASE I!OwnerNotify
  BY <1>13 DEF I!OwnerNotify, I!WakeProducer, I!consVars, I!history
<1>14. CASE I!Destroy
  BY <1>14 DEF I!Destroy, I!WakeProducer, I!consVars, I!history
<1>15. CASE I!Join
  BY <1>15 DEF I!Join, I!prodVars, I!consVars, I!history
<1>16. CASE UNCHANGED iterVars
  BY <1>16 DEF iterVars
<1>. QED
  BY <1>1, <1>2, <1>3, <1>4, <1>5, <1>6, <1>7, <1>8, <1>9, <1>10, <1>11, <1>12, <1>13, <1>14, <1>15, <1>16
     DEF I!Next, I!ProducerThread, I!ConsumerCall, I!OwnerCall

LEMMA IterCellsStep ==
    ASSUME IterTypeOK, SigInv, CellsInv, [I!Next]_iterVars
    PROVE  CellsInv'
<1>. USE ThreadAssumption DEF IterTypeOK, SigInv, CellsInv, InHand, Held
<1>1. CASE I!TakeCell
  <2>1. /\ producer.at = "check" /\ consumer' = consumer /\ cell' = cell /\ cells' = cells
        /\ owner' = owner /\ queue' = queue
    BY <1>1 DEF I!TakeCell, I!consVars, I!ownVars, I!history
  <2>2. /\ Held' = Held /\ Cardinality(Held) \in Nat /\ Cardinality(Held) <= Cardinality(Thread)
        /\ Len(queue) \in Nat /\ Cardinality(Thread) \in Nat
    BY <2>1, HeldCount
  <2>3. InHand = 0
    BY <2>1
  <2>. HIDE DEF Held
  <2>4. CASE ~I!MayProduce
    <3>1. producer'.at = "sleep" /\ freeCells' = freeCells
      BY <1>1, <2>4 DEF I!TakeCell
    <3>2. InHand' = 0
      BY <3>1
    <3>. QED  BY <2>1, <2>2, <2>3, <3>1, <3>2
  <2>5. CASE I!MayProduce /\ freeCells # 0
    <3>1. producer'.at = "next" /\ producer'.cell /\ freeCells' = freeCells - 1
      <4>1. producer' = [at |-> "next", cell |-> freeCells # 0] /\ freeCells' = freeCells - 1
        BY <1>1, <2>5 DEF I!TakeCell
      <4>2. producer'.cell = (freeCells # 0)
        BY <4>1, Zenon
      <4>. QED  BY <2>5, <4>1, <4>2
    <3>2. InHand' = 1
      BY <3>1
    <3>. QED  BY <2>1, <2>2, <2>3, <2>5, <3>1, <3>2
  <2>6. CASE I!MayProduce /\ freeCells = 0
    <3>1. producer'.at = "next" /\ ~producer'.cell /\ freeCells' = 0
      <4>1. producer' = [at |-> "next", cell |-> freeCells # 0] /\ freeCells' = 0
        BY <1>1, <2>6 DEF I!TakeCell
      <4>2. producer'.cell = (freeCells # 0)
        BY <4>1, Zenon
      <4>. QED  BY <2>6, <4>1, <4>2
    <3>2. InHand' = 0
      BY <3>1
    <3>3. owner # "destroyed" /\ Len(queue) < MaxCapacity
      BY <2>1, <2>6 DEF I!MayProduce
    <3>4. cells = Len(queue) + Cardinality(Held)
      BY <2>2, <2>3, <2>6, <3>3
    <3>5. cells < MaxCapacity + Cardinality(Thread)
      BY <2>2, <3>3, <3>4
    <3>. QED  BY <2>1, <2>2, <2>3, <2>6, <3>1, <3>2, <3>5
  <2>. QED  BY <2>4, <2>5, <2>6
<1>2. CASE I!HandleBeforeFirst
  BY <1>2 DEF I!HandleBeforeFirst, I!consVars, I!ownVars, I!history
<1>3. CASE I!HandleDestroy
  BY <1>3 DEF I!HandleDestroy, I!WakeConsumers, I!history
<1>4. CASE I!CallNext
  <2>1. /\ producer.at = "next" /\ consumer' = consumer /\ cell' = cell
        /\ owner' = owner /\ queue' = queue /\ freeCells' = freeCells
    BY <1>4 DEF I!CallNext, I!consVars, I!ownVars
  <2>2. /\ Held' = Held /\ Cardinality(Held) \in Nat
        /\ Len(queue) \in Nat /\ Cardinality(Thread) \in Nat
    BY <2>1, HeldCount
  <2>. HIDE DEF Held
  <2>3. CASE pos <= NumItems /\ producer.cell
    <3>1. producer'.at = "put" /\ cells' = cells /\ InHand = 1 /\ InHand' = 1
      BY <1>4, <2>1, <2>3 DEF I!CallNext
    <3>. QED  BY <2>1, <2>2, <3>1
  <2>4. CASE pos <= NumItems /\ ~producer.cell
    <3>1. producer'.at = "put" /\ cells' = cells + 1 /\ InHand = 0 /\ InHand' = 1
      BY <1>4, <2>1, <2>4 DEF I!CallNext
    <3>2. cells < MaxCapacity + Cardinality(Thread)
      BY <2>1, <2>4
    <3>. QED  BY <2>1, <2>2, <3>1, <3>2
  <2>5. CASE ~(pos <= NumItems)
    <3>1. producer'.at = "end" /\ producer'.cell = producer.cell /\ cells' = cells
      BY <1>4, <2>5 DEF I!CallNext
    <3>2. InHand' = InHand
      BY <2>1, <3>1
    <3>. HIDE DEF InHand
    <3>. QED  BY <2>1, <2>2, <3>1, <3>2
  <2>. QED  BY <2>3, <2>4, <2>5
<1>5. CASE I!PutCell
  <2>1. /\ consumer' = consumer /\ cell' = cell /\ cells' = cells /\ owner' = owner
        /\ producer'.at \in {"check", "notify"} /\ producer.at \in {"put", "end"}
    BY <1>5 DEF I!PutCell, I!consVars, I!ownVars, I!history
  <2>2. /\ Held' = Held /\ Cardinality(Held) \in Nat
        /\ Len(queue) \in Nat /\ Cardinality(Thread) \in Nat
    BY <2>1, HeldCount
  <2>. HIDE DEF Held
  <2>3. InHand' = 0
    BY <2>1
  <2>4. CASE producer.at = "put"
    <3>1. /\ queue \in Seq(Nat) /\ producer.item \in Nat
          /\ queue' = Append(queue, producer.item) /\ freeCells' = freeCells
      BY <1>5, <2>4 DEF I!PutCell
    <3>2. Len(queue') = Len(queue) + 1
      BY <3>1
    <3>3. InHand = 1
      BY <2>4
    <3>. QED  BY <2>1, <2>2, <2>3, <3>1, <3>2, <3>3
  <2>5. CASE producer.at = "end" /\ producer.cell
    <3>1. queue' = queue /\ freeCells' = freeCells + 1
      BY <1>5, <2>5 DEF I!PutCell
    <3>3. InHand = 1
      BY <2>5
    <3>. QED  BY <2>1, <2>2, <2>3, <3>1, <3>3
  <2>6. CASE producer.at = "end" /\ ~producer.cell
    <3>1. queue' = queue /\ freeCells' = freeCells
      BY <1>5, <2>6 DEF I!PutCell
    <3>3. InHand = 0
      BY <2>6
    <3>. QED  BY <2>1, <2>2, <2>3, <3>1, <3>3
  <2>. QED  BY <2>1, <2>4, <2>5, <2>6
<1>6. CASE I!ProducerNotify
  BY <1>6 DEF I!ProducerNotify, I!WakeConsumers, I!history
<1>7. ASSUME NEW c \in Thread, I!StartNext(c) PROVE CellsInv'
  BY <1>7 DEF I!StartNext, I!prodVars, I!ownVars, I!history
<1>8. ASSUME NEW c \in Thread, I!CheckNext(c) PROVE CellsInv'
  <2>1. /\ producer' = producer /\ freeCells' = freeCells /\ cells' = cells /\ owner' = owner
        /\ cell[c] = 0 /\ InHand' = InHand
    BY <1>8 DEF I!CheckNext, I!prodVars, I!ownVars
  <2>2. \A t \in Thread : consumer'[t] \in {"check", "sleep"} => cell'[t] = 0
    BY <1>8 DEF I!CheckNext
  <2>3. CASE queue # << >> /\ queue' = Tail(queue) /\ cell' = [cell EXCEPT ![c] = 1]
    <3>1. queue \in Seq(Nat) /\ Len(queue) \in Nat /\ Len(queue') = Len(queue) - 1
      BY <2>3
    <3>2. Cardinality(Held') = Cardinality(Held) + 1 /\ Cardinality(Held) \in Nat
      <4>1. cell \in [Thread -> {0, 1}] /\ cell[c] = 0
        BY <2>1
      <4>2. /\ Held = {t \in Thread : cell[t] = 1}
           /\ Held' = {t \in Thread : [cell EXCEPT ![c] = 1][t] = 1}
        BY <2>1, <2>3
      <4>3. /\ Cardinality({t \in Thread : [cell EXCEPT ![c] = 1][t] = 1})
                  = Cardinality({t \in Thread : cell[t] = 1}) + 1
           /\ Cardinality({t \in Thread : cell[t] = 1}) \in Nat
        BY <4>1, HeldFacts, Zenon
      <4>. QED  BY <4>2, <4>3
    <3>3. InHand \in Nat /\ Cardinality(Thread) \in Nat
      BY HeldCount
    <3>. HIDE DEF Held, InHand
    <3>4. owner # "destroyed" => cells = freeCells + (Len(queue) - 1) + InHand + (Cardinality(Held) + 1)
      BY <3>1, <3>2, <3>3
    <3>5. owner' # "destroyed" => cells' = freeCells' + Len(queue') + InHand' + Cardinality(Held')
      BY <2>1, <3>1, <3>2, <3>4
    <3>. QED  BY <2>1, <2>2, <3>5
  <2>4. CASE queue' = queue /\ cell' = cell
    <3>1. Held' = Held
      BY <2>4
    <3>. HIDE DEF Held, InHand
    <3>. QED  BY <2>1, <2>2, <2>4, <3>1
  <2>. QED  BY <1>8, <2>3, <2>4 DEF I!CheckNext
<1>9. ASSUME NEW c \in Thread, I!Recycle(c) PROVE CellsInv'
  <2>1. /\ producer' = producer /\ freeCells' = freeCells + 1 /\ cells' = cells /\ owner' = owner
        /\ queue' = queue /\ cell[c] = 1 /\ cell' = [cell EXCEPT ![c] = 0] /\ InHand' = InHand
    BY <1>9 DEF I!Recycle, I!prodVars, I!ownVars, I!history
  <2>2. \A t \in Thread : consumer'[t] \in {"check", "sleep"} => cell'[t] = 0
    BY <1>9 DEF I!Recycle
  <2>3. /\ Cardinality(Held') = Cardinality(Held) - 1 /\ Cardinality(Held) \in Nat
        /\ Len(queue) \in Nat
    <3>. Len(queue) \in Nat
      OBVIOUS
    <3>1. cell \in [Thread -> {0, 1}] /\ cell[c] = 1
      BY <2>1
    <3>2. /\ Held = {t \in Thread : cell[t] = 1}
         /\ Held' = {t \in Thread : [cell EXCEPT ![c] = 0][t] = 1}
      BY <2>1
    <3>3. /\ Cardinality({t \in Thread : [cell EXCEPT ![c] = 0][t] = 1})
                = Cardinality({t \in Thread : cell[t] = 1}) - 1
         /\ Cardinality({t \in Thread : cell[t] = 1}) \in Nat
      BY <3>1, HeldFacts, Zenon
    <3>. QED  BY <3>2, <3>3
  <2>4. InHand \in Nat
    OBVIOUS
  <2>. HIDE DEF Held, InHand
  <2>. QED  BY <2>1, <2>2, <2>3, <2>4
<1>10. ASSUME NEW c \in Thread, I!ConsumerNotify(c) PROVE CellsInv'
  BY <1>10 DEF I!ConsumerNotify, I!WakeProducer, I!ownVars, I!history
<1>11. CASE I!BeforeFirst
  BY <1>11 DEF I!BeforeFirst, I!WakeProducer, I!consVars, I!history
<1>12. CASE I!WaitProcessed
  BY <1>12 DEF I!WaitProcessed, I!prodVars, I!consVars
<1>13. CASE I!OwnerNotify
  BY <1>13 DEF I!OwnerNotify, I!WakeProducer, I!consVars, I!history
<1>14. CASE I!Destroy
  BY <1>14 DEF I!Destroy, I!WakeProducer, I!consVars, I!history
<1>15. CASE I!Join
  BY <1>15 DEF I!Join, I!prodVars, I!consVars, I!history
<1>16. CASE UNCHANGED iterVars
  BY <1>16 DEF iterVars
<1>. QED
  BY <1>1, <1>2, <1>3, <1>4, <1>5, <1>6, <1>7, <1>8, <1>9, <1>10, <1>11, <1>12, <1>13, <1>14, <1>15, <1>16
     DEF I!Next, I!ProducerThread, I!ConsumerCall, I!OwnerCall

LEMMA IterInit ==
    ASSUME I!Init
    PROVE  IterInv
<1>1. IterTypeOK
  BY DEF IterTypeOK, I!Init
<1>2. SigInv
  BY DEF SigInv, I!Init
<1>3. DataInv
  <2>1. Len(out) = 0 /\ Len(queue) = 0 /\ Base = 0 /\ producer.at = "check" /\ pos = 1
    BY DEF I!Init, Base
  <2>2. ~produceEnd
    BY DEF I!Init
  <2>. QED  BY <2>1, <2>2, ThreadAssumption DEF DataInv
<1>4. CellsInv
  <2>1. Held = {} /\ Len(queue) = 0 /\ freeCells = 0 /\ cells = 0
    BY DEF I!Init, Held
  <2>2. InHand = 0 /\ producer.at = "check"
    BY DEF I!Init, InHand
  <2>3. Cardinality(Held) = 0 /\ Cardinality(Thread) \in Nat
    BY <2>1, FS_EmptySet, FS_CardinalityType, ThreadAssumption
  <2>4. \A c \in Thread : cell[c] = 0
    BY DEF I!Init
  <2>. QED  BY <2>1, <2>2, <2>3, <2>4, ThreadAssumption DEF CellsInv
<1>. QED  BY <1>1, <1>2, <1>3, <1>4 DEF IterInv

LEMMA IterStep ==
    ASSUME IterInv, [I!Next]_iterVars
    PROVE  IterInv'
  BY IterTypeStep, IterSigStep, IterDataStep, IterCellsStep DEF IterInv

\* Every step delivers the next item, reports the end after the last one, starts a new round, or
\* is none of the iterator's caller's business.
LEMMA IterRefines ==
    ASSUME IterInv, [I!Next]_iterVars
    PROVE  [I!Abstract!Deliver \/ I!Abstract!ReportEnd \/ I!Abstract!Rewind]_<<out, ended>>
<1>1. ASSUME NEW c \in Thread, I!CheckNext(c)
      PROVE  I!Abstract!Deliver \/ I!Abstract!ReportEnd \/ UNCHANGED <<out, ended>>
  <2>1. owner = "idle" /\ sig = "produce" /\ ~sigProcessed
    BY <1>1 DEF I!CheckNext, IterInv, SigInv, IterTypeOK
  <2>2. /\ \A i \in 1 .. Len(queue) : queue[i] = Len(out) + i
        /\ pos = Len(out) + Len(queue) + (IF producer.at = "put" THEN 2 ELSE 1)
        /\ pos <= NumItems + 1
        /\ produceEnd => pos = NumItems + 1 /\ producer.at # "put"
        /\ Len(out) \in Nat /\ Len(queue) \in Nat
    BY <2>1 DEF IterInv, DataInv, Base, IterTypeOK
  <2>3. CASE queue # << >> /\ out' = Append(out, Head(queue)) /\ ended' = ended
    <3>1. queue \in Seq(Nat) /\ out \in Seq(Nat) /\ \A i \in 1 .. Len(out) : out[i] = i
      BY DEF IterInv, IterTypeOK, DataInv
    <3>2. Head(queue) = Len(out) + 1 /\ Len(queue) \in Nat \ {0}
      BY <2>2, <2>3, <3>1, DeliverFacts
    <3>3. Len(out) < NumItems
      BY <2>2, <3>2, ThreadAssumption
    <3>. QED  BY <2>3, <3>2, <3>3 DEF I!Abstract!Deliver
  <2>4. CASE queue = << >> /\ produceEnd /\ ended' = TRUE /\ out' = out
    <3>1. Len(queue) = 0
      BY <2>4
    <3>2. Len(out) = NumItems
      BY <2>2, <2>4, <3>1, ThreadAssumption
    <3>. QED  BY <2>4, <3>2 DEF I!Abstract!ReportEnd
  <2>. QED  BY <1>1, <2>3, <2>4 DEF I!CheckNext
<1>2. CASE I!WaitProcessed
  BY <1>2 DEF I!WaitProcessed, I!Abstract!Rewind
<1>3. ASSUME NEW c \in Thread, I!StartNext(c) \/ I!ConsumerNotify(c) \/ I!Recycle(c)
      PROVE  UNCHANGED <<out, ended>>
  BY <1>3 DEF I!StartNext, I!ConsumerNotify, I!Recycle, I!history
<1>4. CASE I!ProducerThread \/ I!BeforeFirst \/ I!Destroy \/ I!OwnerNotify \/ I!Join
  BY <1>4 DEF I!ProducerThread, I!TakeCell, I!HandleBeforeFirst, I!HandleDestroy, I!CallNext, I!PutCell,
              I!ProducerNotify, I!BeforeFirst, I!Destroy, I!OwnerNotify, I!Join, I!history
<1>5. CASE UNCHANGED iterVars
  BY <1>5 DEF iterVars
<1>. QED
  BY <1>1, <1>2, <1>3, <1>4, <1>5 DEF I!Next, I!ConsumerCall, I!OwnerCall
-----------------------------------------------------------------------------
(***************************************************************************)
(* The building blocks side by side.                                       *)
(***************************************************************************)
Inv == IterInv /\ QueueInv /\ PoolInv

LEMMA ThreadsStart == ThreadsInit => Inv
  BY IterInit, QueueInit, PoolInit DEF ThreadsInit, Inv

LEMMA ThreadsStep == Inv /\ [ThreadsNext]_threadVars => Inv'
<1>. SUFFICES ASSUME Inv, [ThreadsNext]_threadVars PROVE Inv'
  OBVIOUS
<1>1. [I!Next]_iterVars /\ [Q!Next]_queueVars /\ [P!Next]_poolVars
  BY DEF ThreadsNext, threadVars
<1>. QED
  BY <1>1, IterStep, QueueStep, PoolStep DEF Inv

\* For any number of threads, items, tasks and rounds and any capacity: the read-ahead iterator never
\* has more cells than its queue may hold and its consumers have in hand; while somebody sleeps in a
\* blocking queue that was not killed, a wakeup is under way for every item; and Wait of a thread
\* pool returns after every task that was added has run (ThreadedIter's Next and Recycle,
\* ConcurrentBlockingQueue's Push and Pop, ThreadPool's Wait and FinishTask).
THEOREM ThreadsAreSafe == ThreadsSpec => []ThreadsSafe
<1>1. Inv => ThreadsSafe
  <2>. SUFFICES ASSUME Inv PROVE ThreadsSafe
    OBVIOUS
  <2>1. I!CellsBounded
    BY SameCardinality DEF Inv, IterInv, CellsInv, I!CellsBounded
  <2>2. Q!WakeupsSuffice
    BY SameCardinality DEF Inv, QueueInv, Wakeups, Q!WakeupsSuffice
  <2>3. P!WaitMeansFinished
    BY DEF Inv, PoolInv
  <2>. QED  BY <2>1, <2>2, <2>3 DEF ThreadsSafe
<1>. QED  BY <1>1, ThreadsStart, ThreadsStep, PTL DEF ThreadsSpec

\* The read-ahead iterator is an iterator: every item once and in order, the end after the last one,
\* whatever the producer had loaded ahead when BeforeFirst was called, for any number of consumers,
\* items and rounds and any capacity (ThreadedIter::ThreadsNext, BeforeFirst, the producer's loop).
THEOREM IteratorImplements == ThreadsSpec => ImplementsDataIter
<1>1. ThreadsInit => I!Abstract!Start
  BY DEF ThreadsInit, I!Init, I!Abstract!Start
<1>2. Inv /\ [ThreadsNext]_threadVars =>
         [I!Abstract!Deliver \/ I!Abstract!ReportEnd \/ I!Abstract!Rewind]_<<out, ended>>
  <2>. SUFFICES ASSUME Inv, [ThreadsNext]_threadVars
                PROVE  [I!Abstract!Deliver \/ I!Abstract!ReportEnd \/ I!Abstract!Rewind]_<<out, ended>>
    OBVIOUS
  <2>1. [I!Next]_iterVars /\ IterInv
    BY DEF ThreadsNext, threadVars, Inv
  <2>. QED  BY <2>1, IterRefines
<1>. QED
  BY <1>1, <1>2, ThreadsStart, ThreadsStep, PTL
     DEF ThreadsSpec, ImplementsDataIter, I!ImplementsDataIter, I!Abstract!Iterate, I!Abstract!iterVars

\* No call of ThreadPool::Wait returns before all the tasks have run, also when the owner goes on
\* afterwards and adds others (Wait, Done, FinishTask).
THEOREM PoolReturnMeansFinished == ThreadsSpec => [][P!ReturnMeansFinished]_poolVars
<1>1. Inv /\ [ThreadsNext]_threadVars => [P!ReturnMeansFinished]_poolVars
  <2>. SUFFICES ASSUME PoolInv, P!Next, caller.at = "wait", caller'.at \notin {"wait", "sleep"}
                PROVE  finished' = 1 .. added'
    BY DEF Inv, ThreadsNext, threadVars, P!ReturnMeansFinished
  <2>1. CASE P!Wait
    <3>1. P!AllDone
      BY <2>1 DEF P!Wait, PoolInv, PoolTypeOK
    <3>. QED  BY <2>1, <3>1, DoneMeansFinished DEF P!Wait, PoolInv
  <2>2. CASE ~P!Wait
    <3>1. caller'.at = caller.at \/ caller.at # "wait"
      BY <2>2 DEF P!Next, P!OwnerCall, P!RunWorker, P!Add, P!StartWorkers, P!StartWait, P!Destroy,
                  P!DestroyNotify, P!Join, P!GetNextTask, P!FinishTask, P!At
    <3>. QED  BY <3>1
  <2>. QED  BY <2>1, <2>2
<1>. QED  BY <1>1, ThreadsStart, ThreadsStep, PTL DEF ThreadsSpec
=============================================================================
