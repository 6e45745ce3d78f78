--------------------------- MODULE MCDataParallel ---------------------------
(***************************************************************************)
(* The dispatch of data for TLC: two workers and one or two small files.   *)
(***************************************************************************)
EXTENDS DataParallel, TLC

CONSTANTS f1, f2, w1, w2

MCFile == {f1, f2}
MCNode == {w1, w2}

NoLocal == [use |-> FALSE, files |-> [w \in MCNode |-> {}]]

\* f1 is on both disks, f2 only on the disk of w2.
OnDisk == [use |-> TRUE, files |-> (w1 :> {f1}) @@ (w2 :> {f1, f2})]

Job(train, val, predict, passes, local, straggler, fail) ==
    [train |-> train, val |-> val, predict |-> predict, passes |-> passes, local |-> local,
     straggler |-> straggler, fail |-> fail]

\* A training pass in which a worker may die and may be slow.
FailureJob == Job({f1}, {}, FALSE, 1, NoLocal, TRUE, 1)

\* Training and validation, one after the other.
PassesJob == Job({f1}, {f1, f2}, FALSE, 1, NoLocal, FALSE, 0)

\* Two passes over the workers' own files.
LocalJob == Job({f1, f2}, {}, FALSE, 2, OnDisk, FALSE, 0)

PredictJob == Job({}, {f1, f2}, TRUE, 1, NoLocal, FALSE, 0)

SlowJob == Job({f1}, {}, FALSE, 1, NoLocal, TRUE, 0)

AllJobs == {FailureJob, PassesJob, LocalJob, PredictJob}
OnlyPasses == {PassesJob}
OnlySlow == {SlowJob}
=============================================================================
