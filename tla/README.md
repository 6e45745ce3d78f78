# A TLA+ development for DiFacto on the DMLC parameter server

DiFacto trains factorization machines (and, in `src/linear`, linear models) with asynchronous
stochastic gradient descent. One *scheduler* process hands parts of the training data to
*workers*; a worker reads its part from a local, S3 or OBS file, cuts it into minibatches, pulls the weights
of their features from the *servers*, computes gradients and pushes them back. Messages, timestamps,
callbacks and the detection of dead nodes come from ps-lite; input, parsing, configuration and the launching of
jobs on a cluster come from dmlc-core.

This directory holds TLA+ modules for that program, TLC configurations that check them, and TLAPS
proofs. Every definition is taken from the code; `PROJECT.json` maps each one to its lines and lists the
main hazards of the code, each at its line, with the properties that cover it.

## 1. Inventory

Paths are relative to the repository. "Hard" names what tests hardly reach.

| component | state | operations | hard | what makes it correct |
|---|---|---|---|---|
| workload pool (`src/base/workload_pool.h`) | `task_`, `assigned_`, `inited_`, `num_finished_`, `time_` | Add, Clear, ClearRemain, Get, Finish, Reset, IsFinished, RemoveStraggler | two tables updated by four threads; parts taken back while their worker still works | the tables agree; no part is with two workers; "finished" means every part |
| data-parallel dispatch (`src/solver/data_parallel.h`) | `workload_`, the pool, requests under way | StartDispatch, StopDispatch, ProcessResponse, failure handler, ProcessRequest on workers | late acknowledgements, deaths between two steps, several calls on the pool per response | a finished pass was processed; no part is stuck; the run ends |
| minibatch scheduler, model load and save (`minibatch_solver.h`, `iter_solver.h`) | pass, type, `stop`, model files | Run, Iterate, LoadModel, SaveModel | a stop races with the dispatch; jobs die while saving and are started again | no pass is skipped or repeated; a loaded model is one that was saved |
| minibatch worker (`MinibatchWorker`) | `num_mb_fly_`, `mb_mu_`, `mb_cond_` | Process, WaitMinibatch, FinishMinibatch | a counter that callbacks decrement before it is incremented; notification outside the lock | bound on concurrent minibatches; Process returns after the last push |
| DiFacto worker (`src/difacto/async_sgd.h`) | per minibatch, its requests | ProcessMinibatch: count push, pull, gradient push | two minibatches under way at a time | every callback runs, in the right order |
| DiFacto and linear servers, key-value stores (`async_sgd.h`, `kv_cache.h`, `kv_store*.h`) | entries `w`, `V`, counts, buckets | push, pull, resize, merge of slices, save, load | an entry grows between the requests of a worker; slices in any order | everybody gets the numbers of his keys; a model is served as it was saved |
| key caching filter (`key_caching.h`) | `cache_` at both ends of a connection | Encode, Decode | both directions of a connection share a cache | a message without keys finds them; keys are never mixed up |
| other filters (`ps-lite/src/filter`) | none, or a sketch | delta, fixing, truncating, compressing, frequency | chains undone in reverse, widths | keys exact, values as near as promised, frequent keys kept |
| executor (`executor.cc`) | `time_`, `sent_reqs_`, trackers, `recv_msgs_`, groups, `alive` | Submit, Wait, Accept, PickActiveMsg, ProcessActiveMsg, Reply, RemoveNode | four threads, two mutexes, three condition variables; duplicates; deaths | Wait and callbacks come when, and only when, the living nodes have answered; once |
| manager, postoffice, van (`manager.cc`, `postoffice.cc`, `van.cc`) | `nodes_`, `active_nodes_`, `alive_nodes_`, counters, connections | registration, start, exit, NodeDisconnected, timeouts | nodes die while others start or stop; a replacement comes | all start together, nobody is told to exit too early, everybody ends |
| thread pool, queues, read-ahead iterator (`ps-lite/src/base`, `dmlc/threadediter.h`, `dmlc/concurrency.h`) | queues, counters of sleepers, signals | push, pop, kill, Wait, Next, BeforeFirst, Destroy | notifications outside the lock; the end of production races with consumers | nothing is lost, doubled or out of order; every call returns |
| object stores (`s3_filesys.cc`, `obs_filesys.cc`) | buffers, parts, connection | Write, Upload, Finish, Read, Seek, ListObjects, TryGetPathInfo | connections that fail half-way, retries, truncated listings | an object is whole or not there; reads are of the right position |
| input splits, RecordIO (`dmlc-core/src/io`, `recordio.cc`) | file offsets, chunk, overflow | ResetPartition, NextChunk, NextRecord, BeforeFirst | records over the borders of parts, chunks and files; magic numbers in the data | each record in exactly one part |
| caching iterators (`cached_input_split.h`, `disk_row_iter.h`, `parser.h`, `threaded_input_split.h`) | cache file, prefetched items | Next, BeforeFirst | a process that dies in the first pass | the cache has what the source had |
| data reading, numerical kernels (`libsvm_parser.h`, `criteo_parser.h`, `localizer.h`, `minibatch_iter.h`, `spmv.h`, `loss.h`, ...) | blocks | parsing, localizing, compressing, products, gradients | several threads per chunk; empty rows; offsets that do not start at 0 | rows and numbers survive each step |
| JSON, configuration, parameters, serialization | text, scopes | read, write, Init, Save, Load | nesting, quoting, ranges | what is written is read again |
| YARN launcher, tracker, local launcher (`dmlc-core/yarn`, `dmlc-core/tracker`) | tasks, containers, ranks, links | callbacks of the managers, accept_slaves, restart | aborts in the middle of a list, restarted slaves | no task is forgotten; a success is one of all tasks; links are made again |
| other file systems, submit scripts, command line tools, third-party headers | - | - | - | no state of their own |

Interaction. `MinibatchScheduler::Iterate` calls `StartDispatch`, which fills the pool and sends an
empty workload to every worker. The acknowledgement of a workload makes the scheduler's executor
thread call `ProcessResponse`: the pool is told that the worker is finished and asked for the next
part. On the worker, `ProcessRequest` runs `Process` for the part and returns, and with that
acknowledges, when all its minibatches are done. `Process` takes minibatches from `MinibatchIter`, over a parser, a
split and a stream, each with a thread of its own (`ThreadedIter`). Each minibatch's requests go through the filters of the connection
to each server and to the server's store. All requests use an `Executor`; the `Manager` decides when
an application starts and ends, and tells the executors of deaths.

## 2. Modules

    WorkloadPool <--EXTENDS-- DataParallel <-- MCDataParallel      DataParallel <-- DataParallelProofs
    AsyncWorker <-- MCAsyncWorker                                  AsyncWorker <-- AsyncWorkerProofs
    Executor                                                       Executor <-- ExecutorProofs
    DataIter <--implements-- ThreadedIter, BlockingQueue,          Threads <-- ThreadsProofs
      ThreadPool, LimitedQueue            <--INSTANCE-- Threads <--INSTANCE-- MCLaunch
    Cluster                               <--INSTANCE-- MCServers  MCServers <-- ServersProofs
    KVServer                              <--EXTENDS--- MCServers  KVServer <-- KVServerProofs
    ApplicationMaster, TrainingRun        <--EXTENDS--- MCLaunch   ApplicationMaster <-- ApplicationMasterProofs
    LaunchArgs, LinkMap <-- Tracker       <--INSTANCE-- MCLaunch   TrainingRun <-- TrainingRunProofs
    ObjectStream, ObjectListing, RecordIO <-- InputSplit, CachedIter,
      RowParsers, MinibatchIter, RowBlocks <-- FactorLoss, KeyRange, SharedArray,
      JsonText <-- Parameters, BinaryStream, ConfigText, ValueFilters
                                          <--INSTANCE-- MCData

A module of proofs extends what it is about. `executor` and `wait_dead` run `Executor` as it is.
An MC module of several components has a variable `part` that is chosen in the initial state: a behaviour
is about one of them, and the others stay where they are. The parts share nothing; one run checks them side by side.

### WorkloadPool

The state is the fields of the class plus three history variables (`mayAdd`, `added`, `finished`).
Each public method holds `mu_` for its whole body and is one action: `Add`, `Clear`, `ClearRemain`,
`Get`, `Reset`, `Finish` (the two calls of `Set`), and `RemoveStraggler`, the step of the straggler
thread. `Mark` translates the private helper for a whole set of assignments at a time; a file
all of whose parts are done leaves `task_` in the same step. Times are abstracted: once `StragglerMin`
parts were finished (the literal 10 in the code), any part may be late.

`PoolSpec` is also the abstract specification of the pool's correct use. The pool itself accepts an
`Add` of a file some parts of which are still assigned from before a `ClearRemain`, and would then hand
these parts out twice. The guard of `Add` on `mayAdd` is the rule that excludes it: an id adds at most
once after `Clear` and never after `ClearRemain`. The scheduler calls the unguarded `AddFiles`; that it keeps the
rule is the refinement `UsesPoolLegally`, so what is proved of `PoolSpec` holds inside the scheduler.

### DataParallel

`main` is the main thread in `Run`/`Iterate`/`StartDispatch`; `exec` the executor thread inside
`ProcessResponse`, with one step per call on the pool (`FinishWorkload`, `CopyWorkload`, `GetWorkload`,
`SendWorkload`), because other threads run in between; `KillStraggler` is the pool's straggler thread;
`HandleFailure` and `RemoveNode` are the two halves of `NodeDisconnected`, in the code's order. `inbox`
and `acks` are the FIFO channels to and from each worker. The stop criterion is any Boolean. Either the scheduler
matches the files (`MatchAndAdd`) or the workers do (`AskWorkers`, `AddLocalFiles`, `WaitMatched`). `job` is the
configuration (files, passes, prediction, local data) and what the environment may do: whether parts may take so long that their workers count as
stragglers (the straggler thread itself runs in every job), and how many workers die.

### AsyncWorker

Composes the loop of `Process`, the requests of `ProcessMinibatch` with their callbacks on the executor thread
of the key-value customer, and the two ends of the key cache for each server. The counter `num_mb_fly_`
is handled as in the code: waited for under the lock, incremented after `ProcessMinibatch` returned, decremented by
`FinishMinibatch`, which notifies after releasing the lock. A key list is a model value with a signature and
a length; `Small` lists are not cached. A failed `CHECK` of `Decode` sets `crashed`. Any workload, training or validation, may
follow any other, so caches left by one part meet the next one.

### Executor

A customer's requests to a group or to single nodes. Threads: the application (`Submit`, `Wait`,
`WaitSentReq`), the receiving thread (`Accept`, then `AcceptNotify` outside the lock), the executor
thread (`PickActiveMsg`, `ProcessResponse` under `node_mu_`, `RunCallback` after it, `NotifyAll` at the end)
and the monitor thread (`RemoveGroupNode`, `RemoveNode`: no lock, hence a step per write). `Submit` may also be
called by a callback. Nodes serve requests once; `Duplicate` and `Fail` are the environment. A request has at least one slice, as every list with keys gives.

### Cluster

`proc[n]` is what a process knows: the nodes, the nodes it can send to, `inited_`, `done_`; `sched` the scheduler's
`active_nodes_`, `alive_nodes_`, the rank counters and the connections its monitor sees. `up` and `down` are the control messages
between each node and the scheduler. `RegisterNode`, `ReadyToRun`, `ReadyToExit` are the scheduler's handlers;
`ProcessAdd`, `ProcessRun`, `ProcessRemove`, `ProcessExit` those of a node; `RunApp`, `TimeoutRun`, `AppEnds`, `BroadcastExit`, `EndNode`,
`EndScheduler` the main threads in `Run` and `Stop`; `NodeDisconnected` and `SchedulerLost` the monitors. `RemoveNode` of an unknown node
keeps the lock, as the code does, and the scheduler then handles nothing more. A `CHECK` that fails ends the process.

### KVServer

`data[bucket][key]` is an entry: a weight that is zero or not, its size (1, or 1 + Dim with a vector) and its count. A minibatch
pushes counts (DiFacto only), pulls, gets the slices of the answer in any order, and
pushes gradients with the sizes it has seen. A key list is in ascending order, as the localizer makes it; `Slice` cuts it for a server by two lower bounds, as `SliceMessage` does.
`ProcessResponse` matches the sizes and keeps the values of a response under its first key; when the last one has come they are put together in the order of the keys. What an update formula computes is a choice between zero and not zero.
Sums over servers and keys are recursive functions. `SliceKey` and `GetValue` are the two formulas by which the multi-threaded store finds a bucket. The threads of a store count
nonzero weights up and down in `new_w`, a plain integer: `Counts` lets changes of different threads overwrite each other, and the history variable `raced` remembers that two threads have counted for one request.
`Save` writes the entries that are not empty, in one step (the scheduler saves between passes, when no worker has a part left but perhaps a straggler), and `Restart` is a new job that loads them.

### TrainingRun

The scheduler's `Run` around the passes, with the commands to servers as the integers the code sends (`LoadCmd`, `SaveCmd`: bits and an
iteration above 16 bits), a file per iteration and server, jobs that may die at any step (also while files are written: `ServeSave` opens and
`CloseFile` completes a file) and are followed by others with any of the configurations `Confs`.

### Threads: ThreadedIter, DataIter, BlockingQueue, ThreadPool, LimitedQueue

One step per section under a lock, and one for every notification made after it. Sleepers wake only when they are notified. A thread that has called `Pop` of the blocking
queue counts in `nwait_consumer_` only from the moment it has the lock and sleeps. `DataIter` is the abstract iterator: every round delivers
the items in order, once, and then reports the end. `ImplementsDataIter` is the refinement of `ThreadedIter` to it.

### ApplicationMaster, LaunchArgs, LinkMap, Tracker

`ApplicationMaster` has one action per synchronized callback, on the whole list it is called with: `ForEach` does the body of the loop (`CompleteContainer`, `FailTask`, `Allocate`) for one element after the other, so aborts happen in the middle of a list. Resource and node managers are
external. `LaunchArgs` is the way of files, environment and command through client and master to a task. `LinkMap` computes the tracker's tree and ring;
`Tracker` is its `accept_slaves` loop with the rounds of `assign_rank`, repeated while a slave reports connections that failed, against slaves that crash at any time once they have a rank, are restarted and recover.
`MasterEnv` is the user's own variables; what `launchTask` then sets itself (class and library paths, the `DMLC_` variables) is left out.

### ObjectStream, ObjectListing, RecordIO, InputSplit, CachedIter

State machines of the streams (a byte is its position, so that a wrong byte is seen), of a part read in chunks, and of the caching iterators over restarts of the process; listings
are operators over all sets of keys, and so is `MatchFile`, for names without special characters, on a store and on a local disk.

### RowParsers, RowBlocks, MinibatchIter, FactorLoss, JsonText, ConfigText, Parameters, BinaryStream, ValueFilters, KeyRange, SharedArray

The algorithms as operators, each with a property that compares it with a reference definition: printed rows with parsed rows, a product with its
definition, a prediction with the double sum that defines a factorization machine. `FactorLoss` also has the losses of the linear application with one weight per feature
(`ScalarLoss`, `LogitLoss`, `SquareHingeLoss`), and `BinaryStream` the buffers of `dmlc::ostream` and `dmlc::istream`. `KeyRange` cuts a request for the servers and puts their answers together
(`SliceMessage`, `ParallelOrderedMatch`); `SharedArray` is `SArray` over explicit memory, so that an operation that writes into what another array shares is seen. `MinibatchIter` is a state machine; the reader of the shuffle buffer is a `MinibatchIter` of its own, which drops values that are all 1 and checks its block before the minibatch does (`Fetch`, `Block`). `JsonText` and `ConfigText` work on characters
because that is what their code is about: quoting, escaping, blanks and scopes. Some of these modules use `RECURSIVE`
operators; no theorem reaches them.

## 3. Runs

| run | instance | checks | shows |
|---|---|---|---|
| `dispatch` | 2 workers, 2 files of 2 parts; four jobs: a training pass with a death and stragglers; training, then validation; two passes over local files; prediction | PoolInv, TrackMatchesAssigned, AssignedOnce, FinishedMeansAllParts, DoneStaysDone, ProcessedUnlessLateAck, AssignedIsInFlight, QuietWhenFinished, UsesPoolLegally, Termination | no interleaving of the scheduler's four threads breaks the pool or leaves a part stuck; what counts as finished was processed, but for finding 1 |
| `worker` | one minibatch at a time with lists of the same signature; two of three at a time; two servers | Readable, CachesAgree, ConcurrencyBound, ReturnedMeansAllDone, ProcessReturns | messages are decoded to their own keys, but for finding 3; the counter bounds concurrency although it lags; Process returns, after the last push |
| `executor` | 2 nodes, 2 requests, 1 death or 1 duplicate | FinishedMeansExecuted, DoneOnce, WaitReturnsIfAllLive, CallbackRuns | Wait and callbacks are right about the living nodes; no request, answer or callback is done twice; no wakeup is lost while all live |
| `servers` | a scheduler, 2 workers, 1 server, 1 spare worker, 1 death; 2 workers, 2 servers, 3 keys, 1 or 2 store threads, a minibatch each and one after a restart | StartTogether, ExitTogether, EveryoneStops, PullsRight, CountsRight, ModelServed | a cluster starts and ends together whoever dies; workers get their own numbers while entries grow; nothing but the race on `new_w` makes the reported counts wrong; a saved model is served |
| `launch` | 2 tasks, 2 attempts; all lists of 3 arguments; link maps for up to 9 slaves; 4 slaves with 2 crashes and 1 failed connection; 3 jobs of 3 passes on 1 or 2 servers; 2 consumers, 3 items, 2 rounds; 2 pushers, 2 poppers, 4 items; 2 pool workers, 4 tasks; a capacity of 2 and items of size 0 to 2 | TasksAccounted, ArgsArrive, LinksComplete, ResumesExactly, LaunchEnds, ThreadsSafe, ImplementsDataIter, CallsReturn | no task is forgotten or counted twice; slaves keep their ranks and get their links again, but for the crashes listed below; a job resumes where it was saved; no wakeup is lost although notifications come after the lock; nothing is delivered twice or out of order |
| `data` | objects of 4 bytes with 3 failures; 3 splits of two short files; 3 items, 3 uses of a cache; all texts of up to 5 characters, all small rows, blocks, values, messages | StoresRight, SplitsExact, CacheFaithful, RowsParsed, BlocksRight, EncodingsSurvive, LossesRight | data arrives as it was written through stores, splits, caches, parsers, blocks, encodings and filters; predictions and gradients are those of the definition |
| `stale_ack` | the validation job with 1 part per file | FinishedMeansProcessed, violated | finding 1 |
| `reassign` | 1 file of 2 parts, one worker slow | AvailableIsReassigned, violated | finding 2 |
| `key_cache_race` | 1 server, 2 minibatches at a time | WorkerCacheValid, violated | finding 3 |
| `wait_dead` | 1 request, 1 fault | WaitReturns, violated | finding 4 |
| `reconnect` | an object of 4 bytes, 1 failure | ReconnectWorks, violated | finding 5 |
| `escape` | strings of up to 3 characters | EscapesSurvive, violated | finding 6 |

Why the bounds are enough. The cases of the pool need two workers (a part that changes hands), two parts
(a file partly done) and two files (one leaves `task_` while the other stays); `StragglerMin` is lowered so that stragglers
appear within them. A late acknowledgement needs two passes and a worker that got nothing in the first. Three minibatches make the
bound of two a real one. Two requests are needed for an answer of one to meet the other's callback or Wait. A lost wakeup needs two
sleepers and two notifiers; an iterator of capacity 1 has a full queue, an empty queue and the state in between.
In `servers` the three keys give one server two buckets with a border between keys, the batches overlap in a key that both workers change, and a
vector of one number suffices to make the sizes of entries differ. The spare is a worker: a job cannot go on without a server's keys. In `launch` two attempts per task give a task that fails for good and
one that is tried again, and a batch of two lets an abort happen in the middle of a list; four slaves give the tracker a tree with an inner
node besides the root, and the link map itself is checked up to nine. In `data` buffers of two or three units make chunk borders fall into every place of a
record, and three failures exceed what a stream survives.

No run uses symmetry. Each module has a type
invariant where types are not obvious; all of these are proved as parts of the inductive invariants of section 4.
`CHECK_DEADLOCK FALSE` stands where the program really stops: after the last pass, part or request, or after a failed `CHECK`.

### Fairness

`FairSpec` of `DataParallel` assumes that the main thread and the executor thread keep running and that a worker that is up
finishes each request; nothing is assumed of stragglers or deaths. Threads block only where an action is disabled,
on a mutex held for a bounded time, so weak fairness is what the operating system's scheduler gives. `SlowWorkerSpec` leaves
one worker without fairness: the situation the straggler thread exists for. In `AsyncWorker` the two threads and each server are
weakly fair. In `Executor` the threads, each living node, and the removal of a dead node are weakly fair; nobody is made to call `Submit` or `Wait`.
In `Threads` a thread that is inside a call, or is the component's own, goes on unless it sleeps; nobody has to make a call. `MCServers` only assumes that *some* thread goes on as long as one can, which is less than
fairness of each thread: every behaviour of the cluster is finite. `MCLaunch` assumes that the resource manager allocates what is pending, that processes end and are reported,
and that every slave comes back to the tracker, which is what the keepalive loop and `handleFailure` do.

### Refinements

`UsesPoolLegally`: `DataParallel` implements `PoolSpec` on the pool's variables; it is checked by the run and proved for all jobs but those of section 4's `LocalWorkersLive`. `ImplementsDataIter`: `ThreadedIter`, with its queue, cells and signals
hidden, implements `DataIter`; it is checked by the run and proved (`IteratorImplements`). Items loaded ahead before a `BeforeFirst` are not delivered after it.

### Findings

1. *A late acknowledgement finishes a part that was not processed* (`data_parallel.h:155`). An acknowledgement names
   neither pass nor part. The acknowledgement of the empty workload of the training pass may be handled after validation has
   started; the worker gets a part, and its next acknowledgement, of an earlier message, finishes that part.
   `ProcessedUnlessLateAck` says where it cannot happen: in the first workload of a job, and, if no stragglers are looked for, with local data, where waiting for the match
   answers flushes the late acknowledgements. (With stragglers a worker may have two requests under way, and the executor may still be about to send a part of the old pass after the match request.)
2. *A part taken from a straggler may never be handed out again* (`workload_pool.h:191`): parts are handed out only in answer to
   acknowledgements, and an idle worker has nothing to acknowledge.
3. *The worker's key cache is cleared while an answer relies on it* (`key_caching.h:54`): with two concurrent minibatches
   with the same key list for a server, the gradient push of one erases the list that the server left out
   of its answer to the other's pull. `max_concurrency` is 2 by default
   (`src/difacto/config.proto:154`); with 1 it cannot happen.
4. *Wait sleeps on when the node it waits for dies* (`executor.cc:341`): `RemoveNode` notifies nobody.
5. *A read stream that lost its connection never goes on* (`s3_filesys.cc:312`): `Init` of the new connection has already filled the buffer (line 356), so the `FillBuffer(1)` that follows returns 0 and is taken for
   a failure; after four such tries the read is fatal, although every new connection worked. `ReadsRight` says what does hold: the break is never taken for the end of the object.
6. *JSON strings with escaped characters are not read as they were written* (`json.h:457`): the character after the backslash is put into the string as the number of its code. `StringRight` says what holds of the others, and that
   such a string is still read to its own end.

### What the models contain and no property demands

* `executor.cc:305`: the last answer is recorded under the lock and the callback runs after it, so Wait may return before the callback has run.
* `manager.cc:133`: a READY_TO_RUN read after its sender was removed stays in `active_nodes_` (`StaleReady`); `StartTogether` and `EveryoneStops` exclude these behaviours.
* `manager.cc:218`: `RemoveNode` of an unknown node keeps `nodes_mu_`. With one death all processes still end; a scheduler that waits in Stop for a second node that died would
  not. The instance has one death.
* `data_parallel.h:101`: when workers match the files themselves and one dies, the executor may still be handling its answer: the files of the removed worker are added after the main thread has gone on, and
  with a later `StopDispatch` even after `ClearRemain`. Parts that only the dead worker had matched can be given to nobody. The instances have no such job, and the theorems
  about the pool inside the scheduler exclude it (`LocalWorkersLive`).
* A part of a pass may still be in the executor's hands, to be sent to a worker that has died, when the main thread sees the dispatch finished (`QuietWhenFinished` says of a living worker that it has nothing more).
* A part taken back from a straggler and then dropped by `StopDispatch` is in neither table while its worker still processes it; and `stop` is overwritten in each
  round of the polling loop, so a stop criterion that was met once may be forgotten.
* A job that dies while saving, or a process that dies in the first pass over a cached input, leaves files that are later taken for complete. `ResumesExactly` and `CacheFaithful` say what holds otherwise. A `load_iter` of 0 loads the last model.
* `linear/async_sgd.h:35`: `new_w` is not atomic. With several threads in a server's store the reported number of weights may be wrong for the rest of the job; `CountsRight` demands it only until two threads have counted for one
  request (`raced`). The applications use the default of one thread.
* `manager.cc`: a spare process that registers after the start is not known to those that run, and may know nodes that have gone. `StartTogether` speaks of the processes the job asked for, not of spares.
* `tracker.py:112`: a slave that dies while `wait_conn` holds it, or while the tracker talks to it, makes `assign_rank` repeat its round, or wait, for ever. `tracker.py:117`: a peer that was connected in a round in which another connection failed is never
  counted down. Both are in `Tracker` and set `lost`; `WaitersGetConnections` and `LaunchEnds` leave these behaviours out, `RanksStable` does not.
* `minibatch_iter.h:85`: with shuffling, reading may fail although every feature has a value: a buffer that has only values of 1 drops them and the next one does not. `BatchesExact` says when reading fails.
* `cached_input_split.h:159`: a cache that a dead process left half-written is taken for complete.
* `manager.cc:272`: a part may be handed to a worker that has just died and stay with it until the straggler thread takes it away.
* A single-file split that is rewound delivers the rest of its chunk first.
  A truncated OBS listing is taken for complete. Parameters saved with a default out of its range cannot be loaded.
* Hazards that lie outside every instance: a signature of a long key list looks at its first and last 2 KB only (`key_caching.h:76`); with an empty key list the loop of `IsKeysOrderd`
  wraps around (`kv_cache.h:190`); a restarted server gets a rank without a key range (`range.h:107`); values of dynamic size are loaded into other buckets than they are looked up in when a store has several
  threads, which DiFacto's has not (`kv_store_sparse.h:46`); more than nine decimals overflow (`strtonum.h:63`); a block without features makes the localizer read an empty array (`localizer.h:144`); a part that is predicted twice is
  written twice (`iter_solver.h:159`); the key 2^64 - 1 is in no server's range (`range.h:93`; `SlicedRight` says what happens to all others).
* `SquareHingeLoss::CalcGrad` (`src/linear/loss.h:148`) takes the rows beyond the margin too, although the loss, by its comment and by `Evaluate` (lines 119 and 135), is zero there; the model computes what the code does, and
  `LinearRight` says of this gradient only that it does not depend on the number of threads.
  `ScalarLoss::Init` reads the number of threads before it is set.

## 4. Proofs

All theorems hold for every value of the constants: any sets of files, workers, nodes, servers, tasks, threads and key lists, any number of parts, passes, jobs, requests, attempts, deaths
and duplicates. The assumptions on constants say that numbers are numbers (`NumPartsAssumption`: a file has at least one part; `StragglerMinAssumption`, `DataAssumption`,
`ExecutorAssumption`, `AsyncAssumption`, `ClusterAssumption`, `ThreadAssumption`), that sets of nodes and servers are finite, and that names used for "nobody" are not names of somebody (`AnyNodeAssumption`, `NoneAssumption`). TLC evaluates them
in every run. Each group of theorems rests on one inductive invariant, which was first checked by TLC on the instances of the runs.

| module | theorems | property of the runs |
|---|---|---|
| `DataParallelProofs` | `PoolInvariant`, `PoolTypeCorrect`, `PoolAssignedOnce`, `PoolTrackMatchesAssigned`, `PoolFinishedMeansAllParts`, `PoolDoneStaysDone` | the first five of `dispatch` |
| | `DispatchInvariant`, `DispatchTypes`, `DispatchInFlight`, `DispatchUsesPool`\*, `DispatchPool`\* | `AssignedIsInFlight`, `UsesPoolLegally` |
| | `RunInvariant`\*, `RunProcessed`\*, `RunQuiet`\* | `ProcessedUnlessLateAck`, `QuietWhenFinished` |
| `ExecutorProofs` | `ExecutorInvariant`, `ExecutorTypes`, `ExecutorFinished`, `ExecutorOnce` | `FinishedMeansExecuted`, `DoneOnce` |
| `AsyncWorkerProofs` | `WorkerInvariant`, `WorkerTypes`, `WorkerConcurrency`, `WorkerReturns` | `ConcurrencyBound`, `ReturnedMeansAllDone` |
| | `CacheInvariant`\*, `WorkerReadable`\*, `WorkerCachesAgree`\* | `Readable`, `CachesAgree` |
| `ThreadsProofs` | `ThreadsAreSafe`, `IteratorImplements`, `PoolReturnMeansFinished` | `ThreadsSafe`, `ImplementsDataIter` |
| `ServersProofs` | `WorkersMayDie`, `RanksStayDistinct`, `ExitsTogether`\*, `StartsTogether`\* | `ExitTogether`, `StartTogether` |
| `KVServerProofs` | `WorkersPull`\*, `ServersCount`\*, `ServersServeModel`\* | `PullsRight`, `CountsRight`, `ModelServed` |
| `TrainingRunProofs` | `Resumes`\* | `ResumesExactly` |
| `ApplicationMasterProofs` | `LaunchAccounts`\* | `TasksAccounted` |

A star marks theorems with a hypothesis besides the specification:

* `LocalWorkersLive`: no worker dies in a job whose workers match the files themselves. Without it the scheduler does misuse the pool (section 3, `data_parallel.h:101`); for jobs whose scheduler matches the
  files, which is the default, the hypothesis says nothing.
* `HashAssumption`: two long key lists with the same signature and the same length are the same list, which `Encode` takes for granted; and a job runs one minibatch at a time, or none of its lists have
  the same signature. Lists of concurrent minibatches that collide replace each other in the cache while answers rely on them.
* `NoSpare`: there are as many worker and server processes as the job asks for, and none is started for a dead one. A late process makes the scheduler's count complete
  again at moments the invariant below does not know; the run has a spare. `WorkersMayDie` and `RanksStayDistinct` hold with spares too.
* `KVOK`: the key ranges follow one another, minibatch key lists are ascending, and values of dynamic size (DiFacto) are on a store of one thread. With more threads they would be loaded into other
  buckets than they are looked up in (section 3, `kv_store_sparse.h:46`).
* `ConfsOK`: a job has a server, and its iterations fit the upper 16 bits of the `int` that carries a command: at most 32767 data passes.
* `LaunchOK`: finitely many tasks; the bounds are numbers.

TLC evaluates `KVOK`, `ConfsOK` and `LaunchOK` on the instances of the runs (`KVAssumption`, `ConfsAssumption`, `MasterAssumption`).

The arguments.

*Pool.* `TrackMatchesAssigned` and `AssignedOnce` are not inductive alone: `Add` of a file that has left `task_` would create
available parts, so `AddIsSafe` says that while adding is legal everything assigned belongs to a file in `task_`. For that a file must
not leave `task_` with parts still out: `DoneCounts` ties `done` to the number of parts done, so a file leaves exactly when
no part is assigned or available. `WantedOrFinished` and `DoneWasFinished` carry what workers have finished from `track` to
the history, from which `FinishedMeansAllParts` follows. Since `Finish`, `Reset` and `RemoveStraggler` all mark a set of assignments
and erase it, the lemmas `MarkTaskDone`, `MarkEffect` and `MarkAndErase` do that work once.

*Dispatch.* `DispatchInv` says how the calls on the pool are spread over threads. `MatchInv`: a worker is asked for its files once per dispatch, and its request, answer or handler exists only while the main thread waits for it;
hence it has not added before. `LocalInv`: nothing a worker matched is handed out to one that has not. `AssignedIsInFlight` itself
is inductive with these: each of the executor's steps passes the part on from the pool to `exec`, to the channel, to the worker and back. `DispatchUsesPool` then maps each action to the pool's action
or to a stutter, and `DispatchPool` carries the pool's invariant over.

*Run.* Finding 1 comes from a worker with two acknowledgements under way. `TokenInv` says that in the passes of `ProcessedUnlessLateAck` this cannot be: every worker has exactly
one token, which is a request, an acknowledgement or the executor's attention. In the first pass nothing was sent before; with local files the match request is
the last message of a FIFO connection, so when its answer is handled the connection is empty. (The executor must not be in the middle of a send at that moment: this is where stragglers have to be excluded.) `EntryInv` ties
the token of a worker to its element of `assigned_`; `FinishedInv` says that what the pool counts as finished was processed, and `PartInv` that, without stragglers, every part on its way is
assigned, so none is left when the pool is empty.

*Executor.* `ExecutorInv` follows an answer backwards: a tracker is marked only by a response (`TrackerInv`), a response is on a channel, in `recv_msgs_` or with the
executor only if its sender processed the request (`TrafficInv`), and nodes forget nothing (`Monotone`). Deaths only shrink the set of nodes the claim is about, but a node must not be dropped from the
group or from `alive` while it lives (`NodesInv`). A callback runs once because a request whose callback ran has an empty one (`RequestInv`), also when a group becomes complete a second time; a request and an answer are processed once because the tracker
is marked in the step that processes them, and `Ignored` looks at it.

*Worker.* `FlyInv`: `num_mb_fly_` is the number of minibatches counted so far less the finished ones. It is incremented after the requests went out, so it may be negative, and it bounds only
because between `WaitMinibatch` and the increment nobody else increments. `AwaitInv`: a message about a minibatch exists only while the minibatch awaits it from that server, so no callback runs for a finished one.

*Key cache.* The worker's cache is ahead of the server's by the requests under way. `WireInv` says it by replaying them: decoding the requests of the channel one by one, each is read right, and the cache ends as
the worker's is now (`Replay`). A step appends a request and extends the replay, or takes the first and drops its first element. `PullingInv` and `ClearedInv` say when the list of a pull is still in the worker's cache as its
answer comes.

*Threads.* Between a Push that sees a sleeper and its notification anything may happen; `Wakeups` counts the notifications and woken threads against the items, so that a third thread that takes an item
takes none of the wakeups. In the thread pool `CountInv` makes `num_running_tasks_` the number of workers that run a task, and `TasksConserved` says where the tasks are. The read-ahead iterator has
`SigInv` (which signals are possible while the producer is where, and which of them BeforeFirst has left behind), `DataInv` (what is queued follows what was delivered, or, with a rewind that the producer has
processed, starts from the front again) and `CellsInv` (cells in the queue, the free list, the producer's and the consumers' hands). With `DataInv` each step of `ThreadedIter` is `Deliver`, `ReportEnd`, `Rewind` or a stutter of `DataIter`.

*Cluster.* What a process does follows from messages that may be old, so the invariant says that what a message says is true, and stays true (`MsgInv`): an EXIT is on its way only after the scheduler
began to exit, a READY_TO_RUN only after it started, a REMOVE_NODE only of a process that ended. `PhaseInv` orders the processes' states by the scheduler's, `ViewInv` says what they know. `RegisterInv` and `RankInv`
tie a rank to one registration. A READY_TO_EXIT comes from a process whose application has ended (`MsgInv`). `ReadyInv` needs `NoSpare`: a READY_TO_RUN,
or its record in `active_nodes_`, comes from a process that knows all that are left, and the scheduler begins to exit only when all applications have ended.

*Servers.* `StoreInv` says that an entry is only in its own bucket and that reported and unreported counters together are the sum over all entries (for the weights as long as nothing raced: then `Counts` leaves nothing out); one entry that changes changes one term (`SumAdds`, `SumChange`). `SliceKey` divides by the
bucket size and `GetValue` looks for the bucket, and `Division` and `BucketsAgree` show them equal. `PullInv` follows a pull: a server's request, response and recorded part exclude one another, so that each server is counted once, a worker's sizes
are at most those of the entries (entries only grow), and a response has as many numbers as its sizes say. `Assemble` shows that the parts, ordered by their first keys, concatenate to the values in key order, `Merge` that a response keeps this.

*Jobs.* `PassInv`: a file saved for an iteration ends with the data pass of that iteration. `LoadInv`: servers that have answered a load have what was saved. `FilesInv`: but for the files the present save has touched,
all files are whole and those of one iteration and one number of servers are of one model; `Settled` carries this over the end of a save. `CmdInv` gives back the iteration from the bits of the command.

*Application master.* `MasterInv` says where each task and each container is. A callback works on a list of any length: the body of each loop keeps what `Good` says of the tables and of the rest of the list, and induction
over the list gives it for `ForEach`.

Induction. The library's induction theorems have an operator as a parameter, which the installed provers cannot instantiate. `KVServerProofs` and `ApplicationMasterProofs` take the least element of a set of
numbers instead (the set of lengths for which a claim fails), which is first-order; so sums, concatenations and loops, written as recursive functions, are reasoned about for all inputs.

Only model-checked: liveness (`Termination`, `ProcessReturns`, `WaitReturnsIfAllLive`, `CallbackRuns`, `CallsReturn`, `EveryoneStops`, `LaunchEnds`), which is out of the prover's reach; what the `RECURSIVE` operators of the data
algorithms and of the link map compute, also out of its reach, and with them `StoresRight`, `SplitsExact`, `CacheFaithful`, `RowsParsed`, `BlocksRight`, `EncodingsSurvive`, `LossesRight`, `ArgsArrive` and `LinksComplete`; `StartTogether` and `ExitTogether` of a cluster with
spare processes.

## 5. Abstractions, and what is not modelled

* Weights, gradients and losses are small integers in the algorithms (`FactorLoss`, `RowBlocks`), zero or not zero in `KVServer`, and absent from the protocols. Rounding, `exp`,
  `log`, dropout, gradient normalization, the square loss and the penalties are left out.
* Lists with the same signature have different lengths in the instances. With the same length `Encode` confuses them
  without any interleaving; that is a property of the hash, not of the protocol.
* The channels are FIFO per connection and direction, which is what the van gets from its sockets.
* `DataParallel` lets Wait return when the group has answered, whatever wakes it; the missing wakeup is the subject of `Executor`.
* In `Executor` all nodes are known before the first request, which `StartTogether` shows of a cluster nobody joins late. `wait_time` dependencies are left out:
  the only requests that have one follow, on a FIFO connection, the request they depend on, with the same keys.
* A torn read of the group vector during the unlocked `RemoveNode` is not modelled.
* Hashes are injective on the instances; the compressor, the object stores, the cluster managers and the rabit clients are external and modelled by how the code uses them.
* Left out: prediction output files, printed progress, heartbeats, special characters in patterns of file names, the noise and sparse filters, the registry, URLs, signatures and XML of the object
  stores.
* Not modelled, with reasons, in `PROJECT.json`: file systems that hand every call to the operating system or a client library, scripts that put a command line together, command line tools, headers of third parties.

## 6. Plan

The components of section 1 are modelled, and their safety invariants proved where the prover can follow. What is left:

1. `Cluster` with spare processes: `ReadyInv` has to say which processes a late registration may complete the count with.
2. `ObjectStream` and `CachedIter`, which are state machines without recursion: `StoresRight` and `CacheFaithful` for any sizes and numbers of failures, in runs of their own.
3. `Tracker`: `WaitersGetConnections` and `RanksStable` for any link map that is symmetric. `LinkMap` would have to be a parameter, since it is recursive.
4. `InputSplit`: the recursive definition of its records as a recursive function, then `SplitsExact`.
