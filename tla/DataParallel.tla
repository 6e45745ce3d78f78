---------------------------- MODULE DataParallel ----------------------------
(***************************************************************************)
(* How the scheduler spreads the parts of the training data over the       *)
(* workers: DataParScheduler and DataParWorker (src/solver/                *)
(* data_parallel.h), driven by the loop of MinibatchScheduler              *)
(* (src/solver/minibatch_solver.h), on top of the workload pool.           *)
(*                                                                         *)
(* Four threads of the scheduler use the pool: the main thread (Run,       *)
(* Iterate, StartDispatch), the executor thread that handles one response  *)
(* at a time (ProcessResponse), the straggler thread of the pool, and the  *)
(* monitor thread that learns of a worker's death (NodeDisconnected).      *)
(* Each call of a method of the pool is a step of its own.  A worker       *)
(* handles its requests one by one in the order they were sent and         *)
(* acknowledges each of them; responses of one worker stay in order, those *)
(* of different workers arrive in any order.                               *)
(***************************************************************************)
EXTENDS WorkloadPool, Sequences

CONSTANTS
    Jobs    \* the jobs that may be run: [train, val, predict, passes, local, straggler, fail]

(***************************************************************************)
(* A job: the files train_data_ and val_data_ match (none if val_data_ is  *)
(* the empty string), whether predict_out_ is set, max_data_pass_, the     *)
(* files every worker can match on its own disk if use_worker_local_data_  *)
(* is set, whether some part may take so long that its worker counts as a  *)
(* straggler, and a bound on the number of workers that die.               *)
(***************************************************************************)
ASSUME DataAssumption ==
    \A j \in Jobs :
        /\ j.train \subseteq File /\ j.val \subseteq File
        /\ j.predict \in BOOLEAN /\ j.straggler \in BOOLEAN
        /\ j.passes \in Nat \ {0}
        /\ j.local.use \in BOOLEAN /\ j.local.files \in [Node -> SUBSET File]
        /\ j.fail \in Nat
ASSUME NodeAssumption == IsFiniteSet(Node)

VARIABLES
    job,        \* the job
    main,       \* where the main thread is
    workload,   \* workload_: the data pass and its type, copied into every message
    stop,       \* the local variable stop of Iterate
    exec,       \* the executor thread: the response it handles and how far it is
    inbox,      \* per worker, the requests on their way to it or being processed
    acks,       \* per worker, its responses on their way to the scheduler
    matched,    \* the workers whose answer to the match request was handled
    status,     \* per worker, how far its death has got
    processed   \* history: what the workers have really processed

schedVars == <<job, main, workload, stop>>
netVars   == <<inbox, acks, matched, status, processed>>
vars      == <<poolVars, schedVars, exec, netVars>>

Workload == [pass : -1 .. job.passes - 1, type : {"TRAIN", "VAL", "PRED"}]

\* Run starts with the first training pass, or, on a loaded model, with the prediction.
FirstWorkload ==
    IF job.predict THEN [pass |-> -1, type |-> "PRED"] ELSE [pass |-> 0, type |-> "TRAIN"]

Idle == [at |-> "idle"]

\* The files the pattern of a pass matches (data_filename_).
DataFiles(type) == IF type = "TRAIN" THEN job.train ELSE job.val

\* A request to a worker: an empty workload, a match request, or one part to process.
EmptyMsg == [kind |-> "empty"]
MatchMsg(type) == [kind |-> "match", type |-> type]
PartMsg(wl, f, k) == [kind |-> "part", wl |-> wl, filename |-> f, k |-> k]

\* The response: the files the worker matched, or an acknowledgement with no content.
Response(w, msg) ==
    IF msg.kind = "match"
    THEN [kind |-> "files", files |-> job.local.files[w] \cap DataFiles(msg.type)]
    ELSE [kind |-> "ack"]

\* The worker group as the executor of the scheduler knows it (RemoteNode::group).
Group == {w \in Node : status[w] # "removed"}

Up(w) == status[w] = "up"

\* Queue a message for the workers in ws.  What is sent to a dead worker is lost.
SendTo(ws, msg) ==
    inbox' = [w \in Node |-> IF w \in ws /\ Up(w) THEN Append(inbox[w], msg) ELSE inbox[w]]
-----------------------------------------------------------------------------
(* The main thread.                                                        *)

\* StartDispatch begins: the pool is emptied.
StartDispatch ==
    /\ main = "iterate"
    /\ Clear
    /\ main' = IF job.local.use THEN "ask" ELSE "match"
    /\ UNCHANGED <<job, workload, stop, exec, netVars>>

\* The scheduler matches the files itself and adds them for everyone.
MatchAndAdd ==
    /\ main = "match"
    /\ AddFiles(DataFiles(workload.type), AnyNode)
    /\ main' = "send"
    /\ UNCHANGED <<job, workload, stop, exec, netVars>>

\* The workers are asked to match the files on their own disks ...
AskWorkers ==
    /\ main = "ask"
    /\ SendTo(Group, MatchMsg(workload.type))
    /\ matched' = {}
    /\ main' = "wait"
    /\ UNCHANGED <<poolVars, job, workload, stop, exec, acks, status, processed>>

\* mutant of WaitMatched: nobody waits for the answers
MutWaitMatched ==
    /\ main = "wait"
    /\ main' = "send"
    /\ UNCHANGED <<poolVars, job, workload, stop, exec, netVars>>

\* ... and Wait returns when all of them answered.
WaitMatched ==
    /\ main = "wait"
    /\ Group \subseteq matched
    /\ main' = "send"
    /\ UNCHANGED <<poolVars, job, workload, stop, exec, netVars>>

\* Everyone gets an empty workload; the acknowledgement asks for the first part.
SendEmpty ==
    /\ main = "send"
    /\ SendTo(Group, EmptyMsg)
    /\ main' = "poll"
    /\ UNCHANGED <<poolVars, job, workload, stop, exec, acks, matched, status, processed>>

\* A training pass that is not finished: sleep, and then look at the progress.
Poll ==
    /\ main = "poll"
    /\ ~IsFinished
    /\ workload.type = "TRAIN"
    /\ main' = "sleep"
    /\ UNCHANGED <<poolVars, job, workload, stop, exec, netVars>>

\* ShowProgress asks the user's stop criterion; if it says so nothing more is handed out.
ShowProgress ==
    /\ main = "sleep"
    /\ \E s \in BOOLEAN :
        /\ stop' = s
        /\ IF s THEN ClearRemain ELSE UNCHANGED poolVars
    /\ main' = "poll"
    /\ UNCHANGED <<job, workload, exec, netVars>>

LastPass == workload.pass = job.passes - 1

\* The loop of Run: what follows an Iterate that returned s.
AfterIterate(s) ==
    LET val == workload.type = "TRAIN" /\ job.val # {}
    IN  \/ /\ s \/ (~val /\ LastPass) \/ job.predict
           /\ main' = "done"
           /\ stop' = s
           /\ UNCHANGED workload
        \/ /\ ~s /\ (val \/ ~LastPass) /\ ~job.predict
           /\ main' = "iterate"
           /\ stop' = FALSE
           /\ workload' = IF val THEN [workload EXCEPT !.type = "VAL"]
                          ELSE [pass |-> workload.pass + 1, type |-> "TRAIN"]

\* The dispatch is finished and Iterate returns.  After validation Stop is asked again.
EndIterate ==
    /\ main = "poll"
    /\ IsFinished
    /\ \E s \in (IF workload.type = "TRAIN" THEN {stop} ELSE BOOLEAN) : AfterIterate(s)
    /\ UNCHANGED <<poolVars, job, exec, netVars>>
-----------------------------------------------------------------------------
(* The executor thread of the scheduler.                                   *)

\* It drops a response of a worker that was removed (PickActiveMsg).
DropResponse(w) ==
    /\ exec = Idle
    /\ acks[w] # <<>>
    /\ status[w] = "removed"
    /\ acks' = [acks EXCEPT ![w] = Tail(@)]
    /\ UNCHANGED <<poolVars, schedVars, exec, inbox, matched, status, processed>>

\* It takes the next response of some worker.
PickResponse(w) ==
    /\ exec = Idle
    /\ acks[w] # <<>>
    /\ status[w] # "removed"
    /\ exec' = [at |-> Head(acks[w]).kind, node |-> w, msg |-> Head(acks[w])]
    /\ acks' = [acks EXCEPT ![w] = Tail(@)]
    /\ UNCHANGED <<poolVars, schedVars, inbox, matched, status, processed>>

\* ProcessResponse with the files of a worker; afterwards the request counts as answered.
AddLocalFiles ==
    /\ exec.at = "files"
    /\ AddFiles(exec.msg.files, exec.node)
    /\ matched' = matched \cup {exec.node}
    /\ exec' = Idle
    /\ UNCHANGED <<schedVars, inbox, acks, status, processed>>

\* ProcessResponse with an acknowledgement: the worker finished what it had,
FinishWorkload ==
    /\ exec.at = "ack"
    /\ Finish(exec.node)
    /\ exec' = [exec EXCEPT !.at = "copy"]
    /\ UNCHANGED <<schedVars, netVars>>

\* workload_ is copied, with no lock,
CopyWorkload ==
    /\ exec.at = "copy"
    /\ exec' = [at |-> "get", node |-> exec.node, wl |-> workload]
    /\ UNCHANGED <<poolVars, schedVars, netVars>>

\* the pool is asked for a part,
GetWorkload ==
    /\ exec.at = "get"
    /\ \/ \E f \in File, k \in Part :
            /\ Get(exec.node, f, k)
            /\ exec' = [at |-> "send", node |-> exec.node, msg |-> PartMsg(exec.wl, f, k)]
       \/ /\ GetNothing(exec.node)
          /\ exec' = Idle
    /\ UNCHANGED <<schedVars, netVars>>

\* mutant of SendWorkload: the part is not sent
MutSendWorkload ==
    /\ exec.at = "send"
    /\ exec' = Idle
    /\ UNCHANGED <<poolVars, schedVars, netVars>>

\* and the part is sent to the worker.
SendWorkload ==
    /\ exec.at = "send"
    /\ SendTo({exec.node}, exec.msg)
    /\ exec' = Idle
    /\ UNCHANGED <<poolVars, schedVars, acks, matched, status, processed>>
-----------------------------------------------------------------------------
(* The workers.                                                            *)

\* mutant of ProcessRequest: an empty workload is not acknowledged
MutProcessRequest(w) ==
    /\ Up(w)
    /\ inbox[w] # <<>>
    /\ LET msg == Head(inbox[w])
       IN  /\ acks' = IF msg.kind = "empty" THEN acks
                      ELSE [acks EXCEPT ![w] = Append(@, Response(w, msg))]
           /\ processed' = IF msg.kind = "part"
                           THEN processed \cup {[wl |-> msg.wl, filename |-> msg.filename, k |-> msg.k]}
                           ELSE processed
    /\ inbox' = [inbox EXCEPT ![w] = Tail(@)]
    /\ UNCHANGED <<poolVars, schedVars, exec, matched, status>>

\* ProcessRequest, and the acknowledgement the executor sends when it returns.
ProcessRequest(w) ==
    /\ Up(w)
    /\ inbox[w] # <<>>
    /\ LET msg == Head(inbox[w])
       IN  /\ acks' = [acks EXCEPT ![w] = Append(@, Response(w, msg))]
           /\ processed' = IF msg.kind = "part"
                           THEN processed \cup {[wl |-> msg.wl, filename |-> msg.filename, k |-> msg.k]}
                           ELSE processed
    /\ inbox' = [inbox EXCEPT ![w] = Tail(@)]
    /\ UNCHANGED <<poolVars, schedVars, exec, matched, status>>

\* A worker dies.  A last part of what it sent may be lost.
Fail(w) ==
    /\ Up(w)
    /\ Cardinality({v \in Node : ~Up(v)}) < job.fail
    /\ status' = [status EXCEPT ![w] = "dead"]
    /\ inbox' = [inbox EXCEPT ![w] = <<>>]
    /\ \E n \in 0 .. Len(acks[w]) : acks' = [acks EXCEPT ![w] = SubSeq(@, 1, n)]
    /\ UNCHANGED <<poolVars, schedVars, exec, matched, processed>>
-----------------------------------------------------------------------------
(* The other threads of the scheduler.                                     *)

\* mutant of HandleFailure: the parts of the dead worker count as finished
MutHandleFailure(w) ==
    /\ status[w] = "dead"
    /\ \A v \in Node : status[v] # "reset"
    /\ Finish(w)
    /\ status' = [status EXCEPT ![w] = "reset"]
    /\ UNCHANGED <<schedVars, exec, inbox, acks, matched, processed>>

\* NodeDisconnected first runs the failure handlers, here Reset of the pool,
HandleFailure(w) ==
    /\ status[w] = "dead"
    /\ \A v \in Node : status[v] # "reset"
    /\ Reset(w)
    /\ status' = [status EXCEPT ![w] = "reset"]
    /\ UNCHANGED <<schedVars, exec, inbox, acks, matched, processed>>

\* and only then removes the node from the executor.
RemoveNode(w) ==
    /\ status[w] = "reset"
    /\ status' = [status EXCEPT ![w] = "removed"]
    /\ UNCHANGED <<poolVars, schedVars, exec, inbox, acks, matched, processed>>

\* The straggler thread runs in every job and looks at the pool every two seconds.  A job with
\* straggler = FALSE is one in which no part takes longer than the threshold: an assumption on the
\* environment, not a condition of the code.
KillStraggler ==
    /\ job.straggler
    /\ RemoveStraggler
    /\ UNCHANGED <<schedVars, exec, netVars>>
-----------------------------------------------------------------------------
Init ==
    /\ PoolInit
    /\ job \in Jobs
    /\ main = "iterate"
    /\ workload = FirstWorkload
    /\ stop = FALSE
    /\ exec = Idle
    /\ inbox = [w \in Node |-> <<>>]
    /\ acks = [w \in Node |-> <<>>]
    /\ matched = {}
    /\ status = [w \in Node |-> "up"]
    /\ processed = {}

MainThread ==
    \/ StartDispatch \/ MatchAndAdd \/ AskWorkers \/ WaitMatched \/ SendEmpty
    \/ Poll \/ ShowProgress \/ EndIterate

ExecThread ==
    \/ \E w \in Node : DropResponse(w) \/ PickResponse(w)
    \/ AddLocalFiles \/ FinishWorkload \/ CopyWorkload \/ GetWorkload \/ SendWorkload

Next ==
    \/ MainThread
    \/ ExecThread
    \/ KillStraggler
    \/ \E w \in Node : ProcessRequest(w) \/ Fail(w) \/ HandleFailure(w) \/ RemoveNode(w)

Spec == Init /\ [][Next]_vars

\* Every thread of the scheduler keeps running, and a worker that is up gets every request
\* processed.  Nothing is assumed of the straggler thread's clock and of failures.
Fairness ==
    /\ WF_vars(MainThread)
    /\ WF_vars(ExecThread)
    /\ \A w \in Node : WF_vars(ProcessRequest(w))

FairSpec == Spec /\ Fairness

\* One worker may be arbitrarily slow: it is not fair, all the others are.
SlowWorkerSpec ==
    /\ Spec
    /\ WF_vars(MainThread)
    /\ WF_vars(ExecThread)
    /\ \E slow \in Node : \A w \in Node \ {slow} : WF_vars(ProcessRequest(w))
-----------------------------------------------------------------------------
(* Properties.                                                             *)

PartMessage == {PartMsg(wl, f, k) : wl \in Workload, f \in File, k \in Part}
Message == {EmptyMsg} \cup {MatchMsg(t) : t \in {"TRAIN", "VAL", "PRED"}} \cup PartMessage

Reply == {[kind |-> "ack"]} \cup [kind : {"files"}, files : SUBSET File]

\* Type invariant of the scheduler and the network.
TypeOK ==
    /\ job \in Jobs
    /\ main \in {"iterate", "match", "ask", "wait", "send", "poll", "sleep", "done"}
    /\ workload \in Workload
    /\ stop \in BOOLEAN
    /\ exec \in {Idle} \cup [at : {"files", "ack", "copy"}, node : Node, msg : Reply]
                       \cup [at : {"get"}, node : Node, wl : Workload]
                       \cup [at : {"send"}, node : Node, msg : PartMessage]
    /\ exec.at = "files" => exec.msg.kind = "files"
    /\ inbox \in [Node -> Seq(Message)]
    /\ acks \in [Node -> Seq(Reply)]
    /\ matched \subseteq Node
    /\ status \in [Node -> {"up", "dead", "reset", "removed"}]
    /\ processed \subseteq [wl : Workload, filename : File, k : Part]

\* DataParScheduler uses the pool the way the pool needs it, whatever the four threads and
\* the network do: each of its steps is a legal call on the pool or leaves it alone.
UsesPoolLegally == PoolSpec

\* What the comment of DataParScheduler::IsFinished promises: when the main thread sees the
\* dispatch finished, the workers have processed every part of every file of this pass
\* (unless StopDispatch dropped the rest).
FinishedMeansProcessed ==
    main = "poll" /\ IsFinished =>
        \A f \in added, k \in Part : [wl |-> workload, filename |-> f, k |-> k] \in processed

\* It holds in the first pass, with deaths, stragglers and a stop at any moment, and in every
\* pass over files that the workers match themselves, if nothing was taken from a straggler.
ProcessedUnlessLateAck ==
    workload = FirstWorkload \/ (job.local.use /\ ~job.straggler) => FinishedMeansProcessed

InFlight(e) ==
    LET isIt(msg) == msg.kind = "part" /\ msg.filename = e.filename /\ msg.k = e.k
    IN  \/ \E i \in DOMAIN inbox[e.node] : isIt(inbox[e.node][i])
        \/ acks[e.node] # <<>>
        \/ exec.at = "ack" /\ exec.node = e.node
        \/ exec.at = "send" /\ exec.node = e.node /\ isIt(exec.msg)

\* A part that is assigned to a living worker is on its way to it, being processed, or about
\* to be reported: no interleaving of Clear, Get, Finish and the straggler thread leaves an
\* element of assigned_ behind that no acknowledgement will ever take out.
AssignedIsInFlight == \A e \in assigned : Up(e.node) => InFlight(e)

\* The comment "wait all assigned workload finished" of Iterate: when the main thread sees the
\* dispatch finished, no worker has, or gets, a part to process any more (in the passes of
\* ProcessedUnlessLateAck, and if nothing was taken from a straggler).
QuietWhenFinished ==
    /\ main = "poll" /\ IsFinished
    /\ job.local.use \/ workload = FirstWorkload
    /\ ~job.straggler
    => /\ exec.at = "send" => ~Up(exec.node)
       /\ \A w \in Node : \A i \in DOMAIN inbox[w] : inbox[w][i].kind # "part"

\* Every run over the data comes to its end: no dispatch waits forever for a part.
\* (If nobody dies and the straggler thread takes nothing away.)
Termination == job.fail = 0 /\ ~job.straggler => <>(main = "done")

\* The comment on straggler_ ("the scheduler will reassign that workerload to another worker"): a
\* part that is available, because it was just added or taken back, is handed out or dropped sooner
\* or later.
AvailableIsReassigned ==
    \A f \in File, k \in Part :
        (f \in DOMAIN task /\ task[f].track[k] = Available) ~> (f \notin DOMAIN task \/ task[f].track[k] # Available)
=============================================================================
