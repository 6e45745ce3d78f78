------------------------------- MODULE Cluster -------------------------------
(***************************************************************************)
(* The life of a cluster: Manager (ps-lite/src/system/manager.cc), the     *)
(* monitor of Van (van.cc), Postoffice (postoffice.cc) and NodeAssigner    *)
(* (node_assigner.h).  Nodes register with the scheduler, which tells all  *)
(* of them about each other, starts them when all are ready, and ends them *)
(* when all have said so.  Processes may die at any time.                  *)
(*                                                                         *)
(* A process has a main thread, a receiving thread and a monitor of its    *)
(* connection to the scheduler, or of all connections in the scheduler.    *)
(* Control messages between a node and the scheduler arrive in order;      *)
(* replies to them have no effect and are left out.  Messages arrive       *)
(* within sync_timeout: the timeout ends a process only when nothing for   *)
(* it is under way.                                                        *)
(***************************************************************************)
EXTENDS Integers, FiniteSets, Sequences, SequencesExt

CONSTANTS
    H,          \* the scheduler
    WorkerIds,  \* worker processes, those that a tracker starts for dead ones included
    ServerIds,
    IdOrder,    \* the ids in the order of the map nodes_: H, servers, workers
    Spare,      \* the processes that are started for dead ones
    NumWorkers, NumServers, \* FLAGS_num_workers, FLAGS_num_servers
    MaxDeaths   \* bound on the processes that die

VARIABLES
    proc,       \* proc[n]: main thread, nodes_, senders_, inited_, done_, nodes_mu_ held for ever
    sched,      \* what only the scheduler has: active_nodes_, alive_nodes_, unknown_dead_nodes_, ranks
    up, down,   \* control messages of a node to the scheduler, and from it
    unseen,     \* processes that ended, not yet noticed by the monitor of the scheduler
    deaths

clusterVars == <<proc, sched, up, down, unseen, deaths>>

Nodes == WorkerIds \cup ServerIds
Procs == Nodes \cup {H}
Ended(n) == proc[n].pc \in {"end", "dead", "forced"}
Running(n) == proc[n].pc \notin {"off", "end", "dead", "forced"}
SameRole(m, n) == {m, n} \subseteq WorkerIds \/ {m, n} \subseteq ServerIds

\* the ids up to m in the order of nodes_
UpTo(m) == ToSet(SubSeq(IdOrder, 1, CHOOSE i \in DOMAIN IdOrder : IdOrder[i] = m))

NewProc == [pc |-> "off", nodes |-> {}, senders |-> {H}, inited |-> FALSE, done |-> FALSE, held |-> FALSE]
Complete(ns) == Cardinality(ns \cap WorkerIds) >= NumWorkers /\ Cardinality(ns \cap ServerIds) >= NumServers

\* SendTask(kCompGroup): to every node in nodes_
Broadcast(ns, msg) == [n \in Nodes |-> IF n \in ns /\ ~Ended(n) THEN Append(down[n], msg) ELSE down[n]]
Leaves(n, how) ==
    /\ proc' = [proc EXCEPT ![n].pc = how]
    /\ unseen' = unseen \cup ({n} \ {H})
    /\ down' = [m \in Nodes |-> IF m = n THEN <<>> ELSE down[m]]
-----------------------------------------------------------------------------
(* Startup                                                                 *)

\* Init of another process: asks the scheduler to be registered.  A spare process is started when
\* one of its role has died; the scheduler sees the connection close long before it is up.
Start(n) ==
    /\ proc[n].pc = "off"
    /\ n \in Spare => \E m \in Nodes \ unseen : SameRole(m, n) /\ proc[m].pc = "dead"
    /\ proc' = [proc EXCEPT ![n].pc = "wait"]
    /\ up' = [up EXCEPT ![n] = <<[cmd |-> "REGISTER_NODE"]>>]
    /\ UNCHANGED <<sched, down, unseen, deaths>>

\* Van::Connect: no socket to a node of the same role
ConnectTo(n, m, senders) == IF SameRole(m, n) THEN senders ELSE senders \cup {m}

\* AddNode of the scheduler: when there are enough nodes all of them are told.
AddNode(n) ==
    LET ns == proc[H].nodes \cup {n}
    IN  /\ proc' = [proc EXCEPT ![H].nodes = ns, ![H].senders = ConnectTo(H, n, @)]
        /\ down' = IF Complete(ns) THEN Broadcast(ns, [cmd |-> "ADD_NODE", nodes |-> ns]) ELSE down

Receives(n, cmd) == Running(H) /\ up[n] # <<>> /\ Head(up[n]).cmd = cmd /\ up' = [up EXCEPT ![n] = Tail(@)]

\* Van::Recv remembers the connection of the sender, which fails when it is gone; Assign gives a
\* server the next key range, which fails when there is none left.
RegisterFails(n) ==
    \/ n \in sched.gone
    \/ n \in ServerIds /\ sched.serverRank >= NumServers
    \/ Complete(proc[H].nodes \cup {n}) /\ proc[H].inited

RegisterNode(n) ==
    /\ Receives(n, "REGISTER_NODE") /\ ~proc[H].held
    /\ IF RegisterFails(n) THEN Leaves(H, "dead") /\ UNCHANGED sched
       ELSE /\ AddNode(n)
            /\ sched' = [sched EXCEPT !.fds = @ \cup {n}, !.alive = @ \cup {n},
                            !.rank[n] = IF n \in ServerIds THEN sched.serverRank ELSE sched.workerRank,
                            !.serverRank = IF n \in ServerIds THEN @ + 1 ELSE @,
                            !.workerRank = IF n \in WorkerIds THEN @ + 1 ELSE @]
            /\ UNCHANGED unseen
    /\ UNCHANGED deaths

Delivers(n, cmd) ==
    /\ Running(n) /\ ~proc[n].done
    /\ down[n] # <<>> /\ Head(down[n]).cmd = cmd

\* ADD_NODE: AddNode for one after the other; each one that finds enough nodes there says that
\* this process is ready, and fails when the process was started already.
ProcessAdd(n) ==
    /\ Delivers(n, "ADD_NODE") /\ ~proc[n].held
    /\ LET ns == Head(down[n]).nodes
           ready == {m \in ns : Complete(proc[n].nodes \cup (ns \cap UpTo(m)))}
       IN  IF ready # {} /\ proc[n].inited THEN Leaves(n, "dead") /\ UNCHANGED up
           ELSE /\ proc' = [proc EXCEPT ![n].nodes = @ \cup ns,
                                        ![n].senders = @ \cup {m \in ns : ~SameRole(m, n)}]
                /\ up' = [up EXCEPT ![n] = @ \o [i \in 1 .. Cardinality(ready) |-> [cmd |-> "READY_TO_RUN"]]]
                /\ down' = [down EXCEPT ![n] = Tail(@)]
                /\ UNCHANGED unseen
    /\ UNCHANGED <<sched, deaths>>

\* mutant of ReadyToRun: one node too few
MutReadyToRun(n) ==
    /\ Receives(n, "READY_TO_RUN") /\ ~proc[H].held
    /\ LET active == sched.active \cup {n}
           all == Cardinality(active) >= NumWorkers + NumServers - 1
       IN  /\ sched' = [sched EXCEPT !.active = active]
           /\ down' = IF all THEN Broadcast(proc[H].nodes, [cmd |-> "READY_TO_RUN"]) ELSE down
           /\ proc' = [proc EXCEPT ![H].inited = @ \/ all]
    /\ UNCHANGED <<unseen, deaths>>

\* READY_TO_RUN at the scheduler
ReadyToRun(n) ==
    /\ Receives(n, "READY_TO_RUN") /\ ~proc[H].held
    /\ LET active == sched.active \cup {n}
           all == Cardinality(active) >= NumWorkers + NumServers
       IN  /\ sched' = [sched EXCEPT !.active = active]
           /\ down' = IF all THEN Broadcast(proc[H].nodes, [cmd |-> "READY_TO_RUN"]) ELSE down
           /\ proc' = [proc EXCEPT ![H].inited = @ \/ all]
    /\ UNCHANGED <<unseen, deaths>>

\* READY_TO_RUN at another node
ProcessRun(n) ==
    /\ Delivers(n, "READY_TO_RUN")
    /\ proc' = [proc EXCEPT ![n].inited = TRUE]
    /\ down' = [down EXCEPT ![n] = Tail(@)]
    /\ UNCHANGED <<sched, up, unseen, deaths>>
-----------------------------------------------------------------------------
(* The main threads                                                        *)

\* Manager::Run
RunApp(n) ==
    /\ proc[n].pc = "wait" /\ proc[n].inited
    /\ proc' = [proc EXCEPT ![n].pc = "app"]
    /\ UNCHANGED <<sched, up, down, unseen, deaths>>

\* Nothing is under way that its receiver could take: the receiver is gone, or its thread is stuck.
Stalled ==
    /\ unseen = {} \/ ~Running(H) \/ proc[H].held
    /\ \A n \in Nodes : proc[n].pc # "off" \/ n \in Spare
    /\ \A n \in Nodes : (up[n] = <<>> \/ ~Running(H) \/ proc[H].held) /\ (down[n] = <<>> \/ proc[n].held)

TimeoutRun(n) ==
    /\ proc[n].pc = "wait" /\ ~proc[n].inited /\ Stalled
    /\ Leaves(n, "dead")
    /\ UNCHANGED <<sched, up, deaths>>

\* the end of App::Run, and the start of Manager::Stop
AppEnds(n) ==
    /\ proc[n].pc = "app"
    /\ proc' = [proc EXCEPT ![n].pc = "stop"]
    /\ up' = IF n = H THEN up ELSE [up EXCEPT ![n] = Append(@, [cmd |-> "READY_TO_EXIT"])]
    /\ UNCHANGED <<sched, down, unseen, deaths>>

\* mutant of ReadyToExit: the first one is taken for all
MutReadyToExit(n) ==
    /\ Receives(n, "READY_TO_EXIT") /\ ~proc[H].held
    /\ sched' = [sched EXCEPT !.active = {}]
    /\ UNCHANGED <<proc, down, unseen, deaths>>

ReadyToExit(n) ==
    /\ Receives(n, "READY_TO_EXIT") /\ ~proc[H].held
    /\ sched' = [sched EXCEPT !.active = @ \ {n}]
    /\ UNCHANGED <<proc, down, unseen, deaths>>

\* Stop of the scheduler up to the broadcast
BroadcastExit ==
    /\ proc[H].pc = "stop" /\ ~proc[H].held /\ sched.active = {}
    /\ sched' = [sched EXCEPT !.inExit = TRUE]
    /\ down' = Broadcast(proc[H].nodes, [cmd |-> "EXIT"])
    /\ proc' = [proc EXCEPT ![H].pc = "bye"]
    /\ UNCHANGED <<up, unseen, deaths>>

\* and to its end, when all are gone or at the timeout
EndScheduler ==
    /\ proc[H].pc = "bye"
    /\ \/ ~proc[H].held /\ Cardinality(sched.alive) = sched.unknown + 1
       \/ Stalled /\ \A n \in Nodes : ~proc[n].done
    /\ proc' = [proc EXCEPT ![H].pc = "end"]
    /\ UNCHANGED <<sched, up, down, unseen, deaths>>

ProcessExit(n) ==
    /\ Delivers(n, "EXIT")
    /\ proc' = [proc EXCEPT ![n].done = TRUE]
    /\ down' = [down EXCEPT ![n] = <<>>]
    /\ UNCHANGED <<sched, up, unseen, deaths>>

EndNode(n) ==
    /\ n # H /\ proc[n].pc = "stop" /\ proc[n].done
    /\ proc' = [proc EXCEPT ![n].pc = "end"]
    /\ unseen' = unseen \cup {n}
    /\ UNCHANGED <<sched, up, down, deaths>>
-----------------------------------------------------------------------------
(* Failures                                                                *)

\* A process dies.
Die(n) ==
    /\ Running(n) /\ deaths < MaxDeaths /\ deaths' = deaths + 1
    /\ Leaves(n, "dead")
    /\ UNCHANGED <<sched, up>>

\* RemoveNode of the scheduler.  Of a node that is not known it returns with nodes_mu_ locked.
RemoveNode(n, s) ==
    IF n \notin proc[H].nodes
    THEN proc' = [proc EXCEPT ![H].held = TRUE] /\ sched' = s /\ UNCHANGED down
    ELSE /\ proc' = [proc EXCEPT ![H].nodes = @ \ {n}]
         /\ sched' = [s EXCEPT !.active = @ \ {n}]
         /\ down' = Broadcast(proc[H].nodes \ {n, H}, [cmd |-> "REMOVE_NODE", node |-> n])

\* mutant of NodeDisconnected: the node is not removed
MutNodeDisconnected(n) ==
    /\ n \in unseen /\ Running(H) /\ ~proc[H].held
    /\ unseen' = unseen \ {n}
    /\ sched' = [sched EXCEPT !.gone = @ \cup {n}, !.alive = @ \ {n},
                              !.unknown = IF n \in sched.fds THEN @ ELSE @ + 1]
    /\ UNCHANGED <<proc, down, up, deaths>>

\* NodeDisconnected of the scheduler: a node whose connection was not remembered is not known.
NodeDisconnected(n) ==
    /\ n \in unseen /\ Running(H) /\ ~proc[H].held
    /\ unseen' = unseen \ {n}
    /\ LET known == n \in sched.fds /\ n \in sched.alive
           s == [sched EXCEPT !.gone = @ \cup {n}, !.alive = @ \ {n},
                              !.unknown = IF known THEN @ ELSE @ + 1]
       IN  IF sched.inExit THEN sched' = s /\ UNCHANGED <<proc, down>> ELSE RemoveNode(n, s)
    /\ UNCHANGED <<up, deaths>>

\* REMOVE_NODE at another node: nobody goes on without a server.
ProcessRemove(n) ==
    /\ Delivers(n, "REMOVE_NODE") /\ ~proc[n].held
    /\ LET m == Head(down[n]).node
       IN  IF m \in proc[n].nodes /\ m \in ServerIds THEN Leaves(n, "forced")
           ELSE /\ proc' = IF m \in proc[n].nodes THEN [proc EXCEPT ![n].nodes = @ \ {m}]
                           ELSE [proc EXCEPT ![n].held = TRUE]
                /\ down' = [down EXCEPT ![n] = Tail(@)]
                /\ UNCHANGED unseen
    /\ UNCHANGED <<sched, up, deaths>>

\* NodeDisconnected of another node: the scheduler has ended, ForceExit.  The connection exists as
\* soon as both are up, even if the scheduler has not read from it; a process that is too late for
\* one need not notice.
SchedulerLost(n) ==
    /\ n # H /\ Running(n) /\ Ended(H)
    /\ Leaves(n, "forced")
    /\ UNCHANGED <<sched, up, deaths>>
-----------------------------------------------------------------------------
Init ==
    /\ proc = [n \in Procs |-> IF n = H THEN [NewProc EXCEPT !.pc = "wait", !.nodes = {H}] ELSE NewProc]
    /\ sched = [active |-> {}, alive |-> {H}, unknown |-> 0, inExit |-> FALSE, serverRank |-> 0, workerRank |-> 0,
                fds |-> {}, gone |-> {}, rank |-> [n \in Nodes |-> -1]]
    /\ up = [n \in Nodes |-> <<>>] /\ down = [n \in Nodes |-> <<>>]
    /\ unseen = {} /\ deaths = 0

Receive(n) == RegisterNode(n) \/ ReadyToRun(n) \/ ReadyToExit(n)
Process(n) == ProcessAdd(n) \/ ProcessRun(n) \/ ProcessRemove(n) \/ ProcessExit(n)
Main(n) == RunApp(n) \/ TimeoutRun(n) \/ AppEnds(n) \/ (n # H /\ EndNode(n)) \/ (n = H /\ (BroadcastExit \/ EndScheduler))
Monitor(n) == NodeDisconnected(n) \/ SchedulerLost(n)

Next ==
    \/ \E n \in Nodes : Start(n) \/ Receive(n) \/ Process(n) \/ Monitor(n)
    \/ \E n \in Procs : Main(n) \/ Die(n)
-----------------------------------------------------------------------------
\* The scheduler has read of a node it had removed already that it is ready.
StaleReady == sched.active \ proc[H].nodes # {}

\* When some process has started its application, every process that is left and is not a spare one,
\* started or not, knows all the others of them and has a connection to each of another role; those
\* of the same role have different ranks, and all key ranges have a server unless one died.  Nothing
\* is said of spare processes, which may register when the others run already.  A stale READY_TO_RUN
\* counts for a node that is not there and starts the others too early.
StartTogether ==
    (\E n \in Procs : proc[n].inited) /\ ~StaleReady =>
        LET left == {m \in proc[H].nodes : Running(m) /\ m \notin Spare}
        IN  /\ \A m \in left : left \subseteq proc[m].nodes /\ {k \in left : ~SameRole(k, m)} \subseteq proc[m].senders
            /\ {sched.rank[m] : m \in left \cap ServerIds} \subseteq 0 .. NumServers - 1
            /\ \A k, m \in left \cap Nodes : SameRole(k, m) /\ k # m => sched.rank[k] # sched.rank[m]
            /\ (\A m \in ServerIds : proc[m].pc # "dead") =>
                  {sched.rank[m] : m \in ServerIds \ Spare} = 0 .. NumServers - 1

\* No process is told to exit while another one still runs its application; and none is made to
\* leave (ForceExit) because of a worker that died: the scheduler or a server has failed, or the
\* scheduler gave up waiting for those that exit.
ExitTogether ==
    /\ \A n \in Nodes : proc[n].done => \A m \in Procs : proc[m].pc # "app"
    /\ \A n \in Nodes : proc[n].pc = "forced" =>
          proc[H].pc \in {"dead", "end"} \/ \E m \in ServerIds : proc[m].pc = "dead"

\* Whoever dies, and whenever, all processes end in the end, those that wait for a dead one in Run
\* or in Stop too: unless the scheduler reads that a node is ready after it has removed it, since
\* nothing takes it out of active_nodes_ again.
EveryoneStops ==
    \/ <>[](\A n \in Procs : ~Running(n))
    \/ <>StaleReady
=============================================================================
