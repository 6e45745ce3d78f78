---------------------------- MODULE ThreadedIter ----------------------------
(***************************************************************************)
(* An iterator whose items are loaded ahead by a thread of its own         *)
(* (dmlc/threadediter.h): a bounded queue of filled cells, a pool of free  *)
(* cells, and signals by which the consumer makes the producer start again *)
(* or stop.  Every section under mutex_ is one step; the producer's        *)
(* next(), the write of produce_end_ that follows it, and notifications    *)
(* made after the lock is released are steps of their own.                 *)
(*                                                                         *)
(* Next and Recycle are called by any consumer, BeforeFirst and Destroy by *)
(* the owner while no consumer is inside Next, which the CHECK of Next     *)
(* asks for.                                                               *)
(***************************************************************************)
EXTENDS Integers, FiniteSets, Sequences

CONSTANTS
    Consumer,      \* threads that call Next and Recycle
    MaxCapacity,   \* max_capacity_
    NumItems,      \* the items the producer's next() yields until it returns false
    MaxRound       \* bound on the calls of BeforeFirst

VARIABLES
    sig,           \* producer_sig_
    sigProcessed,  \* producer_sig_processed_
    produceEnd,    \* produce_end_
    queue,         \* queue_: the items in the filled cells
    freeCells,     \* size of free_cells_
    producer,      \* the producer thread
    pos,           \* the item that next() will yield
    consumer,      \* per consumer, where it is in Next
    cell,          \* per consumer, how many cells it holds
    owner,         \* the owner thread
    round,         \* number of calls of BeforeFirst
    out,           \* history: the items delivered since the last BeforeFirst
    ended,         \* history: Next returned false since then
    cells          \* history: the cells allocated

prodVars == <<producer, pos>>
consVars == <<consumer, cell>>
ownVars  == <<owner, round>>
history  == <<out, ended, cells>>
vars == <<sig, sigProcessed, produceEnd, queue, freeCells, prodVars, consVars, ownVars, history>>

\* nwait_producer_ and nwait_consumer_: the threads between their increment and decrement.  They
\* change under the lock, under which also sleeping starts: a thread that is about to look is
\* counted here a little longer than in the code, which only adds notifications nobody waits for.
ProducerWaits == producer.at \in {"check", "sleep"}
ConsumerWaits == \E c \in Consumer : consumer[c] \in {"check", "sleep"}

WakeProducer == producer' = IF producer.at = "sleep" THEN [at |-> "check"] ELSE producer

\* notify_all on consumer_cond_, on which BeforeFirst waits as well.
WakeConsumers ==
    /\ consumer' = [c \in Consumer |-> IF consumer[c] = "sleep" THEN "check" ELSE consumer[c]]
    /\ owner' = IF owner = "sleep" THEN "check" ELSE owner
-----------------------------------------------------------------------------
(* The producer thread.                                                    *)

MayProduce == ~produceEnd /\ (Len(queue) < MaxCapacity \/ freeCells # 0)

\* It takes a free cell, or none, in which case next() allocates one; or it sleeps.
TakeCell ==
    /\ producer.at = "check"
    /\ sig = "produce"
    /\ IF MayProduce
       THEN /\ producer' = [at |-> "next", cell |-> freeCells # 0]
            /\ freeCells' = IF freeCells # 0 THEN freeCells - 1 ELSE 0
       ELSE /\ producer' = [at |-> "sleep"]
            /\ UNCHANGED freeCells
    /\ UNCHANGED <<sig, sigProcessed, produceEnd, queue, pos, consVars, ownVars, history>>

\* mutant of HandleBeforeFirst: what was loaded ahead stays in the queue
MutHandleBeforeFirst ==
    /\ producer.at = "check"
    /\ sig = "beforeFirst"
    /\ pos' = 1
    /\ produceEnd' = FALSE
    /\ sigProcessed' = TRUE
    /\ sig' = "produce"
    /\ producer' = [at |-> "notify"]
    /\ UNCHANGED <<queue, freeCells, consVars, ownVars, history>>

\* The signal kBeforeFirst: the source and the queue are reset.
HandleBeforeFirst ==
    /\ producer.at = "check"
    /\ sig = "beforeFirst"
    /\ pos' = 1
    /\ freeCells' = freeCells + Len(queue)
    /\ queue' = <<>>
    /\ produceEnd' = FALSE
    /\ sigProcessed' = TRUE
    /\ sig' = "produce"
    /\ producer' = [at |-> "notify"]
    /\ UNCHANGED <<consVars, ownVars, history>>

\* The signal kDestroy ends the thread.
HandleDestroy ==
    /\ producer.at = "check"
    /\ sig = "destroy"
    /\ sigProcessed' = TRUE
    /\ produceEnd' = TRUE
    /\ producer' = [at |-> "exited"]
    /\ WakeConsumers
    /\ UNCHANGED <<sig, queue, freeCells, pos, cell, round, history>>

\* produce_end_ = !next(&cell), without the lock.
CallNext ==
    /\ producer.at = "next"
    /\ IF pos <= NumItems
       THEN /\ producer' = [at |-> "put", item |-> pos]
            /\ pos' = pos + 1
            /\ produceEnd' = FALSE
            /\ cells' = IF producer.cell THEN cells ELSE cells + 1
       ELSE /\ producer' = [at |-> "end", cell |-> producer.cell]
            /\ produceEnd' = TRUE
            /\ UNCHANGED <<pos, cells>>
    /\ UNCHANGED <<sig, sigProcessed, queue, freeCells, consVars, ownVars, out, ended>>

\* mutant of PutCell: consumers are never notified
MutPutCell ==
    /\ producer.at \in {"put", "end"}
    /\ queue' = IF producer.at = "put" THEN Append(queue, producer.item) ELSE queue
    /\ freeCells' = IF producer.at = "end" /\ producer.cell THEN freeCells + 1 ELSE freeCells
    /\ producer' = [at |-> "check"]
    /\ UNCHANGED <<sig, sigProcessed, produceEnd, pos, consVars, ownVars, history>>

\* The item goes to the queue, or the unused cell back to the free ones.
PutCell ==
    /\ producer.at \in {"put", "end"}
    /\ queue' = IF producer.at = "put" THEN Append(queue, producer.item) ELSE queue
    /\ freeCells' = IF producer.at = "end" /\ producer.cell THEN freeCells + 1 ELSE freeCells
    /\ producer' = [at |-> IF ConsumerWaits THEN "notify" ELSE "check"]
    /\ UNCHANGED <<sig, sigProcessed, produceEnd, pos, consVars, ownVars, history>>

ProducerNotify ==
    /\ producer.at = "notify"
    /\ producer' = [at |-> "check"]
    /\ WakeConsumers
    /\ UNCHANGED <<sig, sigProcessed, produceEnd, queue, freeCells, pos, cell, round, history>>
-----------------------------------------------------------------------------
(* A consumer.                                                             *)

\* Next is called; with the signal kDestroy it returns false at once.
StartNext(c) ==
    /\ consumer[c] = "idle"
    /\ owner = "idle"
    /\ cell[c] = 0
    /\ sig = "produce"
    /\ consumer' = [consumer EXCEPT ![c] = "check"]
    /\ UNCHANGED <<sig, sigProcessed, produceEnd, queue, freeCells, prodVars, cell, ownVars, history>>

\* Next under the lock: an item, the end, or sleep.
CheckNext(c) ==
    /\ consumer[c] = "check"
    /\ \/ /\ queue # <<>>
          /\ out' = Append(out, Head(queue))
          /\ queue' = Tail(queue)
          /\ cell' = [cell EXCEPT ![c] = 1]
          /\ consumer' = [consumer EXCEPT ![c] =
                              IF ProducerWaits /\ ~produceEnd THEN "notify" ELSE "idle"]
          /\ UNCHANGED ended
       \/ /\ queue = <<>> /\ produceEnd
          /\ consumer' = [consumer EXCEPT ![c] = "idle"]
          /\ ended' = TRUE
          /\ UNCHANGED <<queue, cell, out>>
       \/ /\ queue = <<>> /\ ~produceEnd
          /\ consumer' = [consumer EXCEPT ![c] = "sleep"]
          /\ UNCHANGED <<queue, cell, out, ended>>
    /\ UNCHANGED <<sig, sigProcessed, produceEnd, freeCells, prodVars, ownVars, cells>>

\* Recycle gives a cell back.
Recycle(c) ==
    /\ consumer[c] = "idle"
    /\ cell[c] = 1
    /\ freeCells' = freeCells + 1
    /\ cell' = [cell EXCEPT ![c] = 0]
    /\ consumer' = [consumer EXCEPT ![c] = IF ProducerWaits /\ ~produceEnd THEN "notify" ELSE "idle"]
    /\ UNCHANGED <<sig, sigProcessed, produceEnd, queue, prodVars, ownVars, history>>

\* The notification of the producer that Next and Recycle owe.
ConsumerNotify(c) ==
    /\ consumer[c] = "notify"
    /\ consumer' = [consumer EXCEPT ![c] = "idle"]
    /\ WakeProducer
    /\ UNCHANGED <<sig, sigProcessed, produceEnd, queue, freeCells, pos, cell, ownVars, history>>
-----------------------------------------------------------------------------
(* The owner.                                                              *)

Quiet == \A c \in Consumer : consumer[c] = "idle"

\* BeforeFirst sends its signal; the notification is made under the lock.
BeforeFirst ==
    /\ owner = "idle" /\ Quiet
    /\ sig = "produce"
    /\ round < MaxRound
    /\ round' = round + 1
    /\ sig' = "beforeFirst"
    /\ WakeProducer
    /\ owner' = "check"
    /\ UNCHANGED <<sigProcessed, produceEnd, queue, freeCells, pos, consVars, history>>

\* It waits until the signal has been processed.
WaitProcessed ==
    /\ owner = "check"
    /\ IF sigProcessed
       THEN /\ sigProcessed' = FALSE
            /\ owner' = IF ProducerWaits /\ ~produceEnd THEN "notify" ELSE "idle"
            /\ out' = <<>> /\ ended' = FALSE
       ELSE /\ owner' = "sleep"
            /\ UNCHANGED <<sigProcessed, out, ended>>
    /\ UNCHANGED <<sig, produceEnd, queue, freeCells, prodVars, consVars, round, cells>>

OwnerNotify ==
    /\ owner = "notify"
    /\ owner' = "idle"
    /\ WakeProducer
    /\ UNCHANGED <<sig, sigProcessed, produceEnd, queue, freeCells, pos, consVars, round, history>>

\* Destroy sends its signal ...
Destroy ==
    /\ owner = "idle" /\ Quiet
    /\ sig = "produce"
    /\ sig' = "destroy"
    /\ WakeProducer
    /\ owner' = "join"
    /\ UNCHANGED <<sigProcessed, produceEnd, queue, freeCells, pos, consVars, round, history>>

\* ... joins the thread, and deletes the cells.
Join ==
    /\ owner = "join"
    /\ producer.at = "exited"
    /\ owner' = "destroyed"
    /\ queue' = <<>>
    /\ freeCells' = 0
    /\ UNCHANGED <<sig, sigProcessed, produceEnd, prodVars, consVars, round, history>>
-----------------------------------------------------------------------------
Init ==
    /\ sig = "produce"
    /\ sigProcessed = FALSE
    /\ produceEnd = FALSE
    /\ queue = <<>>
    /\ freeCells = 0
    /\ producer = [at |-> "check"] /\ pos = 1
    /\ consumer = [c \in Consumer |-> "idle"]
    /\ cell = [c \in Consumer |-> 0]
    /\ owner = "idle" /\ round = 0
    /\ out = <<>> /\ ended = FALSE /\ cells = 0

ProducerThread ==
    TakeCell \/ HandleBeforeFirst \/ HandleDestroy \/ CallNext \/ PutCell \/ ProducerNotify

ConsumerCall(c) == CheckNext(c) \/ ConsumerNotify(c)

OwnerCall == WaitProcessed \/ OwnerNotify \/ Join

Next ==
    \/ ProducerThread
    \/ \E c \in Consumer : StartNext(c) \/ ConsumerCall(c) \/ Recycle(c)
    \/ BeforeFirst \/ Destroy \/ OwnerCall
-----------------------------------------------------------------------------
(* Properties.                                                             *)

\* The cells are recycled: however many items and rounds there are, no more are allocated than
\* the queue may hold and the consumers have in hand.
CellsBounded == cells <= MaxCapacity + Cardinality(Consumer)

Abstract == INSTANCE DataIter WITH delivered <- out
\* Every item is delivered once and in order, and the end is reported after the last one,
\* whatever was loaded ahead when BeforeFirst was called: the specification implements DataIter.
ImplementsDataIter == Abstract!Iterate
=============================================================================
