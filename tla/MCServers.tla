----------------------------- MODULE MCServers -----------------------------
(***************************************************************************)
(* The parameter server, as two independent parts of one model.            *)
(*                                                                         *)
(* "cluster": a scheduler, two workers and one server, with a spare worker *)
(* that a tracker starts for a dead one; one process may die.              *)
(*                                                                         *)
(* "kv": two workers and two servers, the first of two keys and the second *)
(* of one, with difacto on the store of one thread and linear on both      *)
(* stores.  Each worker has a minibatch, and one more after a restart.     *)
(***************************************************************************)
EXTENDS KVServer

CONSTANTS H, WorkerIds, ServerIds, Spare, NumWorkers, NumServers, MaxDeaths

ASSUME ClusterAssumption ==
    /\ IsFiniteSet(WorkerIds) /\ IsFiniteSet(ServerIds) /\ WorkerIds \cap ServerIds = {}
    /\ H \notin WorkerIds \cup ServerIds /\ NumWorkers \in Nat /\ NumServers \in Nat

VARIABLES part, proc, sched, up, down, unseen, deaths

clusterVars == <<proc, sched, up, down, unseen, deaths>>

MCStores == {<<"difacto", 1>>, <<"linear", 1>>, <<"linear", 2>>}
IdOrder == <<H>> \o SetToSeq(ServerIds) \o SetToSeq(WorkerIds)
MCKeyRanges == <<<<0, 2>>, <<2, 3>>>>
MCBatches == {<<0, 1>>, <<0, 1, 2>>}

C == INSTANCE Cluster

ASSUME KVAssumption == KVOK

Init ==
    /\ part \in {"cluster", "kv"}
    /\ C!Init /\ KVInit
    /\ part = "kv" \/ (<<app, nt>> = <<"linear", 1>> /\ ~shrink)

Next ==
    /\ UNCHANGED part
    /\ \/ part = "cluster" /\ C!Next /\ UNCHANGED kvVars
       \/ part = "kv" /\ KVNext /\ UNCHANGED clusterVars

\* Some thread of some process goes on as long as one can; a spare need not start, nothing makes a
\* process die, and the end of the scheduler is noticed for sure only over a connection it has read.
GoesOn ==
    /\ part = "cluster"
    /\ \/ \E n \in C!Nodes : C!Receive(n) \/ C!Process(n) \/ C!NodeDisconnected(n)
       \/ \E n \in sched.fds : C!SchedulerLost(n)
       \/ \E n \in C!Nodes \ Spare : C!Start(n)
       \/ \E n \in C!Procs : C!Main(n)

Spec == Init /\ [][Next]_<<part, clusterVars, kvVars>> /\ WF_clusterVars(GoesOn)
-----------------------------------------------------------------------------
\* When a process has started its application, all processes that are left, but for spare ones, know
\* each other, are connected, and have their own ranks and key ranges (Manager, Van, Postoffice).
StartTogether == part = "cluster" => C!StartTogether

\* Nobody is told to exit while another one still runs its application, nor made to leave because a
\* worker died (Manager::Stop, NodeDisconnected).
ExitTogether == part = "cluster" => C!ExitTogether

\* Whoever dies, and whenever, all processes end in the end, unless the scheduler reads that a node
\* is ready after it has removed it (Manager::Run, Stop).
EveryoneStops == part = "cluster" => C!EveryoneStops
=============================================================================
