--------------------------- MODULE BlockingQueue ---------------------------
(***************************************************************************)
(* ConcurrentBlockingQueue (dmlc/concurrency.h): a queue, first-in first-  *)
(* out or by priority, whose Pop sleeps while there is nothing.  Push      *)
(* notifies one sleeper, after it has released the lock and only when      *)
(* nwait_consumer_ said that there is one; SignalForKill notifies all.     *)
(***************************************************************************)
EXTENDS Integers, FiniteSets, Sequences

CONSTANTS
    Pusher,     \* threads that call Push
    Popper,     \* threads that call Pop
    MaxItems    \* bound on the calls of Push

VARIABLES
    type,       \* "fifo" or "priority"
    items,      \* fifo_queue_ or priority_queue_
    exitNow,    \* exit_now_
    pusher,     \* per pusher: "idle" or "notify"
    popper,     \* per popper, where it is in Pop: "idle", "call", "sleep" or "woken"
    killer,     \* the thread that calls SignalForKill
    pushed,     \* history: the number of items pushed
    popped      \* history: the items popped

queueVars == <<type, items, exitNow, pusher, popper, killer, pushed, popped>>

\* nwait_consumer_
Waiting == {p \in Popper : popper[p] \in {"sleep", "woken"}}

\* Two items pushed one after the other have different priorities, two others the same.
Priority(i) == i % 2

Push(u) ==
    /\ pusher[u] = "idle"
    /\ ~exitNow
    /\ pushed < MaxItems
    /\ pushed' = pushed + 1
    /\ items' = Append(items, pushed')
    /\ pusher' = [pusher EXCEPT ![u] = IF Waiting # {} THEN "notify" ELSE "idle"]
    /\ UNCHANGED <<type, exitNow, popper, killer, popped>>

\* notify_one wakes any one sleeper.
NotifyOne(u) ==
    /\ pusher[u] = "notify"
    /\ pusher' = [pusher EXCEPT ![u] = "idle"]
    /\ LET asleep == {p \in Popper : popper[p] = "sleep"} IN
       IF asleep = {} THEN UNCHANGED popper
       ELSE \E p \in asleep : popper' = [popper EXCEPT ![p] = "woken"]
    /\ UNCHANGED <<type, items, exitNow, killer, pushed, popped>>

\* Pop is called; it counts as waiting once it has the lock.
StartPop(p) ==
    /\ popper[p] = "idle"
    /\ popper' = [popper EXCEPT ![p] = "call"]
    /\ UNCHANGED <<type, items, exitNow, pusher, killer, pushed, popped>>

\* The items that may be taken, by their places: the front, or any of the highest priority.
Next1 ==
    IF type = "fifo" THEN {1}
    ELSE {k \in 1 .. Len(items) : \A j \in 1 .. Len(items) : Priority(items[j]) <= Priority(items[k])}

Without(k) == SubSeq(items, 1, k - 1) \o SubSeq(items, k + 1, Len(items))

\* The predicate of the wait, with the lock held: Pop returns an item, or false, or sleeps.
Pop(p) ==
    /\ popper[p] \in {"call", "woken"}
    /\ \/ /\ items # <<>> /\ ~exitNow
          /\ \E k \in Next1 : items' = Without(k) /\ popped' = Append(popped, items[k])
          /\ popper' = [popper EXCEPT ![p] = "idle"]
       \/ /\ exitNow
          /\ popper' = [popper EXCEPT ![p] = "idle"]
          /\ UNCHANGED <<items, popped>>
       \/ /\ items = <<>> /\ ~exitNow
          /\ popper' = [popper EXCEPT ![p] = "sleep"]
          /\ UNCHANGED <<items, popped>>
    /\ UNCHANGED <<type, exitNow, pusher, killer, pushed>>

SignalForKill ==
    /\ killer = "idle"
    /\ exitNow' = TRUE
    /\ killer' = "notify"
    /\ UNCHANGED <<type, items, pusher, popper, pushed, popped>>

NotifyAll ==
    /\ killer = "notify"
    /\ killer' = "done"
    /\ popper' = [p \in Popper |-> IF popper[p] = "sleep" THEN "woken" ELSE popper[p]]
    /\ UNCHANGED <<type, items, exitNow, pusher, pushed, popped>>

Init ==
    /\ type \in {"fifo", "priority"}
    /\ items = <<>> /\ exitNow = FALSE
    /\ pusher = [u \in Pusher |-> "idle"]
    /\ popper = [p \in Popper |-> "idle"]
    /\ killer = "idle"
    /\ pushed = 0 /\ popped = <<>>

Next ==
    \/ \E u \in Pusher : Push(u) \/ NotifyOne(u)
    \/ \E p \in Popper : StartPop(p) \/ Pop(p)
    \/ SignalForKill \/ NotifyAll
-----------------------------------------------------------------------------
Asleep == {p \in Popper : popper[p] = "sleep"}
Woken == {p \in Popper : popper[p] = "woken"}
Notifying == {u \in Pusher : pusher[u] = "notify"}

\* No wakeup is lost: as long as somebody sleeps, a wakeup is under way for every item there is,
\* although Push looks at nwait_consumer_ and notifies after it has released the lock, and a thread
\* that calls Pop in between may take what a woken one was woken for.
WakeupsSuffice == ~exitNow /\ Asleep # {} => Len(items) <= Cardinality(Notifying) + Cardinality(Woken)
=============================================================================
