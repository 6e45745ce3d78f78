---------------------------- MODULE WorkloadPool ----------------------------
(***************************************************************************)
(* The pool of data parts the scheduler hands out (WorkloadPool in         *)
(* src/base/workload_pool.h).  A file is cut into NumParts virtual parts;  *)
(* a part is available, assigned to a worker, or done.  Every public       *)
(* method holds mu_ from its first to its last statement, so every method  *)
(* is one action.                                                          *)
(*                                                                         *)
(* The pool does not defend itself against its callers.  What they have to *)
(* respect is the guard of Add on the history variable mayAdd; module      *)
(* DataParallel shows that DataParScheduler does respect it.               *)
(***************************************************************************)
EXTENDS Integers, FiniteSets

CONSTANTS
    File,          \* the file names a pattern can match
    Node,          \* the ids of the workers
    NumParts,      \* npart: parts per file (num_parts_per_file_)
    StragglerMin   \* finished parts needed before stragglers are looked for
                   \* (the literal 10 of RemoveStraggler)

ASSUME NumPartsAssumption == NumParts \in Nat \ {0}
ASSUME StragglerMinAssumption == StragglerMin \in Nat

VARIABLES
    task,         \* task_: file name -> capable nodes and the state of each part
    assigned,     \* assigned_: who is processing which part
    inited,       \* inited_
    numFinished,  \* num_finished_
    timeCount,    \* time_.size(), which saturates at StragglerMin
    mayAdd,       \* history: the ids whose call of Add may still come
    added,        \* history: the files added since Clear, all wanted until ClearRemain
    finished      \* history: the parts some worker finished since Clear

poolVars == <<task, assigned, inited, numFinished, timeCount, mayAdd, added, finished>>
historyVars == <<mayAdd, added, finished>>

Part == 0 .. NumParts - 1

Available == 0
Assigned  == 1
Done      == 2

\* The id of an Add that names no worker: the files are for everyone.
AnyNode == ""
ASSUME AnyNodeAssumption == AnyNode \notin Node

Task == [node : SUBSET Node, track : [Part -> {Available, Assigned, Done}], done : 0 .. NumParts]

\* An element of assigned_.  Its start time is left out: how long a part takes is arbitrary.
Assignment == [filename : File, k : Part, node : Node]
-----------------------------------------------------------------------------
(* Helpers of the methods.                                                 *)

NewTask == [node |-> {}, track |-> [k \in Part |-> Available], done |-> 0]

\* Mark, for all the elements of a set of assignments in one go.  A file that is no longer
\* in task_ is skipped, and a file that has all its parts done leaves task_.
\* The parts of a file f in ps are the ones being marked.
NewlyDone(f, ps, mark) == IF mark = Done THEN {k \in ps : task[f].track[k] # Done} ELSE {}

MarkTask(f, ps, mark) ==
    [node  |-> task[f].node,
     track |-> [k \in Part |-> IF k \in ps THEN mark ELSE task[f].track[k]],
     done  |-> task[f].done + Cardinality(NewlyDone(f, ps, mark))]

PartsOf(entries, f) == {a.k : a \in {e \in entries : e.filename = f}}

Mark(entries, mark) ==
    LET marked == [f \in DOMAIN task |-> MarkTask(f, PartsOf(entries, f), mark)]
    IN  task' = [f \in {g \in DOMAIN task : marked[g].done # NumParts} |-> marked[f]]

\* num_finished_ counts the parts that Mark turns into done ones.
FinishedBy(entries) ==
    {e \in entries : e.filename \in DOMAIN task /\ task[e.filename].track[e.k] # Done}

\* mutant of Candidate: a part that is assigned may be handed out as well
MutCandidate(id, f, k) ==
    /\ f \in DOMAIN task
    /\ task[f].node = {} \/ id \in task[f].node
    /\ task[f].track[k] # Done

\* The parts GetOne may give to a worker.
Candidate(id, f, k) ==
    /\ f \in DOMAIN task
    /\ task[f].node = {} \/ id \in task[f].node
    /\ task[f].track[k] = Available

EntriesOf(id) == {e \in assigned : e.node = id}

Saturate(n) == IF n > StragglerMin THEN StragglerMin ELSE n

EmptyTask == [f \in {} |-> NewTask]

\* mutant of IsFinished: only looks at assigned_
MutIsFinished == inited /\ assigned = {}

IsFinished == inited /\ DOMAIN task = {} /\ assigned = {}
-----------------------------------------------------------------------------
(* The methods.                                                            *)

\* Add(files, npart, id): a file that is not in task_ gets all its parts available, and a
\* worker that names itself becomes one of the nodes that can process the file.
AddFiles(files, id) ==
    /\ inited' = TRUE
    /\ LET old(f) == IF f \in DOMAIN task THEN task[f] ELSE NewTask
       IN  task' = [f \in (DOMAIN task) \cup files |->
                       IF f \in files /\ id # AnyNode
                       THEN [old(f) EXCEPT !.node = @ \cup {id}]
                       ELSE old(f)]
    /\ mayAdd' = mayAdd \ {id}
    /\ added' = added \cup files
    /\ UNCHANGED <<assigned, numFinished, timeCount, finished>>

\* How Add must be called.  A file that is added while some of its parts are still assigned
\* from before a ClearRemain would have these parts processed twice: an id adds its files
\* at most once after a Clear, and never after a ClearRemain.
Add(files, id) == id \in mayAdd /\ AddFiles(files, id)

Clear ==
    /\ task' = EmptyTask
    /\ assigned' = {}
    /\ inited' = FALSE
    /\ timeCount' = 0
    /\ numFinished' = 0
    /\ mayAdd' = Node \cup {AnyNode}
    /\ added' = {}
    /\ finished' = {}

\* mutant of ClearRemain: what is assigned is forgotten too
MutClearRemain ==
    /\ task' = EmptyTask
    /\ assigned' = {}
    /\ mayAdd' = {}
    /\ added' = {}
    /\ UNCHANGED <<inited, numFinished, timeCount, finished>>

ClearRemain ==
    /\ task' = EmptyTask
    /\ mayAdd' = {}
    /\ added' = {}
    /\ UNCHANGED <<assigned, inited, numFinished, timeCount, finished>>

\* Get finds a part for the worker id.  Which one is arbitrary: shuffle_ is never
\* initialised, so the first candidate in the order of the hash table or a random one.
Get(id, f, k) ==
    /\ Candidate(id, f, k)
    /\ task' = [task EXCEPT ![f].track[k] = Assigned]
    /\ assigned' = assigned \cup {[filename |-> f, k |-> k, node |-> id]}
    /\ UNCHANGED <<inited, numFinished, timeCount, historyVars>>

\* Get finds nothing: the workload stays empty.
GetNothing(id) ==
    /\ \A f \in File, k \in Part : ~Candidate(id, f, k)
    /\ UNCHANGED poolVars

\* mutant of Reset: the parts are not marked as available
MutReset(id) ==
    /\ assigned' = assigned \ EntriesOf(id)
    /\ UNCHANGED <<task, inited, numFinished, timeCount, historyVars>>

\* Set(id, false): the worker died, and its parts are available again.
Reset(id) ==
    /\ Mark(EntriesOf(id), Available)
    /\ assigned' = assigned \ EntriesOf(id)
    /\ UNCHANGED <<inited, numFinished, timeCount, historyVars>>

\* mutant of Finish: the elements stay in assigned_
MutFinish(id) ==
    /\ Mark(EntriesOf(id), Done)
    /\ numFinished' = numFinished + Cardinality(FinishedBy(EntriesOf(id)))
    /\ timeCount' = Saturate(timeCount + Cardinality(EntriesOf(id)))
    /\ finished' = finished \cup {<<e.filename, e.k>> : e \in EntriesOf(id)}
    /\ UNCHANGED <<assigned, inited, mayAdd, added>>

\* Set(id, true): the worker finished everything that is assigned to it.
Finish(id) ==
    /\ Mark(EntriesOf(id), Done)
    /\ numFinished' = numFinished + Cardinality(FinishedBy(EntriesOf(id)))
    /\ timeCount' = Saturate(timeCount + Cardinality(EntriesOf(id)))
    /\ assigned' = assigned \ EntriesOf(id)
    /\ finished' = finished \cup {<<e.filename, e.k>> : e \in EntriesOf(id)}
    /\ UNCHANGED <<inited, mayAdd, added>>

\* RemoveStraggler takes back the parts that are with their worker for too long: any
\* non-empty set of them, since the times are arbitrary.  (With none it changes nothing.)
RemoveStraggler ==
    /\ timeCount >= StragglerMin
    /\ \E late \in SUBSET assigned :
        /\ late # {}
        /\ Mark(late, Available)
        /\ assigned' = assigned \ late
    /\ UNCHANGED <<inited, numFinished, timeCount, historyVars>>
-----------------------------------------------------------------------------
PoolInit ==
    /\ task = EmptyTask
    /\ assigned = {}
    /\ inited = FALSE
    /\ numFinished = 0
    /\ timeCount = 0
    /\ mayAdd = {}
    /\ added = {}
    /\ finished = {}

PoolNext ==
    \/ \E files \in SUBSET File, id \in Node \cup {AnyNode} : Add(files, id)
    \/ Clear
    \/ ClearRemain
    \/ \E id \in Node, f \in File, k \in Part : Get(id, f, k)
    \/ \E id \in Node : Reset(id)
    \/ \E id \in Node : Finish(id)
    \/ RemoveStraggler

PoolSpec == PoolInit /\ [][PoolNext]_poolVars
-----------------------------------------------------------------------------
(* Properties.                                                             *)

\* Type invariant of the pool's fields.
PoolTypeOK ==
    /\ DOMAIN task \subseteq File
    /\ task \in [DOMAIN task -> Task]
    /\ assigned \subseteq Assignment
    /\ inited \in BOOLEAN
    /\ numFinished \in Nat
    /\ timeCount \in 0 .. StragglerMin
    /\ mayAdd \subseteq Node \cup {AnyNode}
    /\ added \subseteq File
    /\ finished \subseteq File \X Part

\* task_ and assigned_ agree: a part of a file in task_ is marked as assigned exactly when
\* assigned_ holds an element for it.  Get, Finish, Reset and RemoveStraggler each update
\* both; a part marked without an element would never be handed out again, one with an
\* element but not marked would be handed out a second time.
TrackMatchesAssigned ==
    \A f \in DOMAIN task, k \in Part :
        task[f].track[k] = Assigned <=> \E e \in assigned : e.filename = f /\ e.k = k

\* No part is being processed for two workers at the same time, also after a worker died
\* or was declared a straggler and its part was handed out again.
AssignedOnce ==
    \A d, e \in assigned : d.filename = e.filename /\ d.k = e.k => d = e

\* When the pool says that everything is finished, every part of every file added since
\* Clear was finished by some worker (after a ClearRemain no file is wanted any more).
FinishedMeansAllParts ==
    IsFinished => \A f \in added, k \in Part : <<f, k>> \in finished

\* While its file is in task_, a finished part never becomes available or assigned again:
\* no late Reset or RemoveStraggler takes back work that was done (Mark would then leave
\* done too large and drop the file with parts missing).
DoneStaysDone ==
    [][\A f \in (DOMAIN task) \cap (DOMAIN task'), k \in Part :
           task[f].track[k] = Done => task'[f].track[k] = Done]_poolVars
-----------------------------------------------------------------------------
(* The inductive invariant.                                                *)

DoneParts(f) == {k \in Part : task[f].track[k] = Done}

\* done is the number of parts that are done, and a file with all parts done is gone.
DoneCounts ==
    \A f \in DOMAIN task :
        /\ task[f].done = Cardinality(DoneParts(f))
        /\ task[f].done # NumParts

\* As long as files may be added, what is assigned belongs to a file in task_: adding a
\* file never creates an available part that somebody is still working on.
AddIsSafe == mayAdd # {} => \A e \in assigned : e.filename \in DOMAIN task

\* A wanted file is in task_ or has every part finished.
WantedOrFinished ==
    \A f \in added : f \in DOMAIN task \/ \A k \in Part : <<f, k>> \in finished

\* A part that is marked as done was finished by a worker.
DoneWasFinished ==
    \A f \in DOMAIN task, k \in Part : task[f].track[k] = Done => <<f, k>> \in finished

\* The pool's bookkeeping is consistent: the invariant that every method preserves and from
\* which the properties above follow.
PoolInv ==
    /\ PoolTypeOK
    /\ IsFiniteSet(assigned)
    /\ TrackMatchesAssigned
    /\ AssignedOnce
    /\ DoneCounts
    /\ AddIsSafe
    /\ WantedOrFinished
    /\ DoneWasFinished
=============================================================================
