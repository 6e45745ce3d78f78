----------------------------- MODULE CachedIter -----------------------------
(***************************************************************************)
(* Iterators of dmlc-core over prefetched items: CachedInputSplit          *)
(* (cached_input_split.h), ThreadedInputSplit (threaded_input_split.h),    *)
(* DiskRowIter (disk_row_iter.h) and ThreadedParser (parser.h).  The       *)
(* prefetching thread itself is ThreadedIter; here it is a queue of items. *)
(*                                                                         *)
(* "cached" writes every chunk to a cache file as it is prefetched for the *)
(* first time, "rows" builds the cache when it is created; both read an    *)
(* existing cache instead.  "threaded" reads the source in every pass.     *)
(* "parser" delivers the blocks of an item one by one; the second block of *)
(* an item is empty.  A process that dies leaves what it has written.      *)
(* stale and cut are history: blocks left from before BeforeFirst, and     *)
(* whether some process ended with an incomplete cache.                    *)
(***************************************************************************)
EXTENDS Integers, FiniteSets, Sequences, SequencesExt

CONSTANTS
    Items,          \* number of items of the source
    MaxCapacity,    \* of the prefetching thread
    MaxUses         \* bound on calls of BeforeFirst, restarts and crashes

VARIABLES
    iterKind,   \* "cached", "rows", "threaded" or "parser"
    file,       \* the cache file: NoFile or the entries in it
    iter,       \* the iterator
    taken,      \* items delivered since the last BeforeFirst
    uses

cacheVars == <<iterKind, file, iter, taken, uses>>

NoFile == <<-1>>
Half == 0 \* a last entry that was not written to its end
Source == [i \in 1 .. Items |-> i]
Idle == [mode |-> "none", pos |-> 0, queue |-> <<>>, ended |-> FALSE, left |-> <<>>, stale |-> 0, cut |-> FALSE]
Caches == iterKind \in {"cached", "rows"}
Use == uses < MaxUses /\ uses' = uses + 1

\* The constructor: InitCachedIter and TryLoadCache succeed when there is a file.
Create ==
    /\ iter.mode = "none"
    /\ file' = IF Caches /\ file = NoFile THEN <<>> ELSE file
    /\ iter' = [Idle EXCEPT !.mode = IF ~Caches THEN "source"
                                     ELSE IF file # NoFile THEN "read"
                                     ELSE IF iterKind = "cached" THEN "write" ELSE "build",
                            !.cut = iter.cut]
    /\ taken' = <<>>
    /\ UNCHANGED <<iterKind, uses>>

\* BuildCache, page by page, and at last TryLoadCache
Build ==
    /\ iter.mode = "build"
    /\ IF Len(file) < Items THEN file' = Append(file, Len(file) + 1) /\ UNCHANGED iter
       ELSE iter' = [iter EXCEPT !.mode = "read"] /\ UNCHANGED file
    /\ UNCHANGED <<iterKind, taken, uses>>

HasMore == IF iter.mode = "read" THEN iter.pos < Len(file) /\ file[iter.pos + 1] # Half ELSE iter.pos < Items
MayPrefetch == iter.mode \in {"write", "read", "source"} /\ Len(iter.queue) < MaxCapacity

\* The function that Init gives to the prefetching thread: loads the next item and, in the first
\* pass, saves it
Prefetch ==
    /\ MayPrefetch /\ HasMore
    /\ iter' = [iter EXCEPT !.pos = @ + 1,
                            !.queue = Append(@, IF iter.mode = "read" THEN file[iter.pos + 1] ELSE iter.pos + 1)]
    /\ file' = IF iter.mode = "write" THEN Append(file, iter.pos + 1) ELSE file
    /\ UNCHANGED <<iterKind, taken, uses>>

\* An incomplete entry fails the check on what was read, unless it is the first field of a page
\* that is incomplete: then Load says that the file is at its end.
PrefetchHalf ==
    /\ MayPrefetch /\ iter.mode = "read" /\ iter.pos < Len(file) /\ file[iter.pos + 1] = Half
    /\ \/ iter' = [iter EXCEPT !.mode = "fatal"]
       \/ iterKind = "rows" /\ iter' = [iter EXCEPT !.pos = @ + 1]
    /\ UNCHANGED <<iterKind, file, taken, uses>>

\* NextRecord, NextChunk and Next: a call waits while the queue is empty and the source has more.
\* A parser first delivers what is left of its item.
Next ==
    /\ iter.mode \in {"write", "read", "source"}
    /\ iter.queue # <<>> \/ iter.left # <<>> \/ (~HasMore /\ (iter.mode = "read" => iter.pos >= Len(file)))
    /\ IF iter.left # <<>> THEN iter' = [iter EXCEPT !.left = Tail(@)] /\ taken' = Append(taken, Head(iter.left))
       ELSE IF iter.queue = <<>> THEN iter' = [iter EXCEPT !.ended = TRUE] /\ UNCHANGED taken
       ELSE IF iterKind = "parser" THEN
               iter' = [iter EXCEPT !.queue = Tail(@), !.left = <<Head(iter.queue)>>] /\ UNCHANGED taken
       ELSE iter' = [iter EXCEPT !.queue = Tail(@)] /\ taken' = Append(taken, Head(iter.queue))
    /\ UNCHANGED <<iterKind, file, uses>>

\* mutant of BeforeFirst: the first pass is not read to its end before the cache is used
MutBeforeFirst ==
    /\ iter.mode \in {"write", "read", "source"} /\ Use
    /\ file' = file
    /\ iter' = [iter EXCEPT !.mode = IF iter.mode = "write" THEN "read" ELSE @, !.pos = 0, !.queue = <<>>,
                            !.ended = FALSE, !.stale = Len(iter.left)]
    /\ taken' = <<>>
    /\ UNCHANGED iterKind

\* BeforeFirst.  In the first pass of a cached split the source is read to its end, so that the
\* cache is complete, and then the cache is read.  A parser keeps what is left of its item.
BeforeFirst ==
    /\ iter.mode \in {"write", "read", "source"} /\ Use
    /\ file' = IF iter.mode = "write" THEN Source ELSE file
    /\ iter' = [iter EXCEPT !.mode = IF iter.mode = "write" THEN "read" ELSE @, !.pos = 0, !.queue = <<>>,
                            !.ended = FALSE, !.stale = Len(iter.left)]
    /\ taken' = <<>>
    /\ UNCHANGED iterKind

\* The destructor leaves the file as it is; so does the end of the process, which may come in the
\* middle of an entry.
Destroy ==
    /\ iter.mode \in {"write", "read", "source", "fatal"} /\ Use
    /\ iter' = [Idle EXCEPT !.cut = iter.cut \/ (Caches /\ file # Source)]
    /\ taken' = <<>>
    /\ UNCHANGED <<iterKind, file>>

Crash ==
    /\ iter.mode # "none" /\ Use
    /\ file' \in {file} \cup IF iter.mode \in {"write", "build"} /\ Len(file) < Items
                             THEN {Append(file, Half)} ELSE {}
    /\ iter' = [Idle EXCEPT !.cut = iter.cut \/ (Caches /\ file' # Source)]
    /\ taken' = <<>>
    /\ UNCHANGED iterKind

Init ==
    /\ iterKind \in {"cached", "rows", "threaded", "parser"}
    /\ file = NoFile /\ iter = Idle /\ taken = <<>> /\ uses = 0

NextIter == Create \/ Build \/ Prefetch \/ PrefetchHalf \/ Next \/ BeforeFirst \/ Destroy \/ Crash
-----------------------------------------------------------------------------
\* What is delivered is the items of the source in their order, from its first one on, and none is
\* missing when the iterator says that it has ended, in every pass and after every restart, unless
\* an earlier process ended in the middle of its first pass over the source (then the cache it
\* left is read as if it were complete).  A parser that is rewound in the middle of an item first
\* delivers the rest of that item.
CacheFaithful ==
    LET fresh == SubSeq(taken, iter.stale + 1, Len(taken))
    IN  /\ IsPrefix(fresh, Source)
        /\ iter.ended /\ ~iter.cut => fresh = Source
        /\ iter.mode = "fatal" => iter.cut
=============================================================================
