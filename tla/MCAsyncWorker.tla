--------------------------- MODULE MCAsyncWorker ---------------------------
(***************************************************************************)
(* A worker and its servers for TLC.                                       *)
(***************************************************************************)
EXTENDS AsyncWorker, TLC

CONSTANTS s1, s2, x1, x2, x3, x4, g1, g2

MCServer == {s1, s2}
MCSlice == {x1, x2, x3, x4}
MCSmall == {x3}

\* x1 and x2 have the same signature and different lengths; x3 is too short to be cached.
MCSig == (x1 :> g1) @@ (x2 :> g1) @@ (x3 :> g2) @@ (x4 :> g2)
MCSize == (x1 :> 2) @@ (x2 :> 3) @@ (x3 :> 1) @@ (x4 :> 2)

\* One minibatch at a time, lists that collide.
SequentialJob ==
    [servers |-> {s1}, slices |-> {x1, x2, x3}, embedding |-> TRUE,
     concurrent |-> 1, val |-> 1, mb |-> 2, calls |-> 3]

\* Two of three minibatches at a time.
ConcurrentJob ==
    [servers |-> {s1}, slices |-> {x1, x4}, embedding |-> FALSE,
     concurrent |-> 2, val |-> 2, mb |-> 3, calls |-> 2]

\* Slices of a minibatch on two servers.
TwoServerJob ==
    [servers |-> {s1, s2}, slices |-> {x1}, embedding |-> TRUE,
     concurrent |-> 2, val |-> 2, mb |-> 2, calls |-> 2]

AllJobs == {SequentialJob, ConcurrentJob, TwoServerJob}
OnlyConcurrent == {[ConcurrentJob EXCEPT !.mb = 2, !.calls = 1]}
=============================================================================
