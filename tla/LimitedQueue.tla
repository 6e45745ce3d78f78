---------------------------- MODULE LimitedQueue ----------------------------
(***************************************************************************)
(* A producer and a consumer with a queue between them whose items have    *)
(* sizes and whose total size is limited (ProducerConsumer and             *)
(* ThreadsafeLimitedQueue of ps-lite).  The producer's function reports    *)
(* the end with its last item, or with nothing: then an item of size 0 is  *)
(* queued that pop leaves where it is.                                     *)
(***************************************************************************)
EXTENDS Integers, Sequences

CONSTANTS
    MaxCapacity,   \* max_capacity_
    Sizes          \* the sequences of sizes the producer's function may yield

VARIABLES
    sizes,         \* the sizes it yields; with the last it returns false
    entries,       \* queue_: [item, size]
    curCapacity,   \* cur_capacity_
    done,          \* done_
    prod,          \* the producer thread: [at, item]
    cons,          \* the consumer thread: "pop", "sleep" or "exited"
    consumed       \* history: the items given to the consumer's function

limVars == <<sizes, entries, curCapacity, done, prod, cons, consumed>>

\* The next item; without size and without the end nothing is pushed.
Produce ==
    /\ prod.at = "produce"
    /\ LET i == prod.item + 1
           last == i = Len(sizes) IN
       prod' = [at |-> IF sizes[i] = 0 /\ ~last THEN "produce" ELSE "push", item |-> i]
    /\ UNCHANGED <<sizes, entries, curCapacity, done, cons, consumed>>

\* push: the item goes into the queue when it fits, and else the producer sleeps.
PushItem ==
    /\ prod.at = "push"
    /\ LET size == sizes[prod.item]
           last == prod.item = Len(sizes) IN
       IF size + curCapacity <= MaxCapacity
       THEN /\ entries' = Append(entries, [item |-> prod.item, size |-> size])
            /\ curCapacity' = curCapacity + size
            /\ done' = last
            /\ prod' = [prod EXCEPT !.at = IF last THEN "exited" ELSE "produce"]
            /\ cons' = IF cons = "sleep" THEN "pop" ELSE cons
       ELSE /\ prod' = [prod EXCEPT !.at = "sleep"]
            /\ UNCHANGED <<entries, curCapacity, done, cons>>
    /\ UNCHANGED <<sizes, consumed>>

\* pop, and the consumer's function on what it returns; false ends the consumer.
PopItem ==
    /\ cons = "pop"
    /\ \/ /\ entries = <<>>
          /\ cons' = IF done THEN "exited" ELSE "sleep"
          /\ UNCHANGED <<entries, curCapacity, prod, consumed>>
       \/ /\ entries # <<>> /\ Head(entries).size = 0
          /\ cons' = "exited"
          /\ UNCHANGED <<entries, curCapacity, prod, consumed>>
       \/ /\ entries # <<>> /\ Head(entries).size # 0
          /\ entries' = Tail(entries)
          /\ curCapacity' = curCapacity - Head(entries).size
          /\ consumed' = Append(consumed, Head(entries).item)
          /\ prod' = IF prod.at = "sleep" THEN [prod EXCEPT !.at = "push"] ELSE prod
          /\ UNCHANGED cons
    /\ UNCHANGED <<sizes, done>>

Init ==
    /\ sizes \in Sizes
    /\ entries = <<>> /\ curCapacity = 0 /\ done = FALSE
    /\ prod = [at |-> "produce", item |-> 0]
    /\ cons = "pop"
    /\ consumed = <<>>

Next == Produce \/ PushItem \/ PopItem
-----------------------------------------------------------------------------
\* Every item that has a size has reached the consumer, in order, and waitConsumer has returned.
AllConsumed ==
    cons = "exited" /\ consumed = SelectSeq([i \in 1 .. Len(sizes) |-> i], LAMBDA i : sizes[i] # 0)
=============================================================================
