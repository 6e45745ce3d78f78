------------------------------ MODULE MCLaunch ------------------------------
(***************************************************************************)
(* The launch of a job, model-checked: the YARN application master and its *)
(* client, the arguments of every job with up to three of them, the link   *)
(* map of the tracker for every number of slaves up to MaxSlaves, the      *)
(* tracker with four slaves that crash, and the jobs that are launched one *)
(* after the other on the same model; and, of every process, the threads   *)
(* and queues of module Threads.  The parts share no state; part selects   *)
(* the one that runs.                                                      *)
(***************************************************************************)
EXTENDS ApplicationMaster, TrainingRun, Threads, TLC

CONSTANTS s1, s2, s3, s4, MaxCrash, MaxRefused, NoSlave, MaxSlaves

VARIABLES args, n, flip,
          slave, job_map, todo_nodes, pending, batch, serving, wait_conn, shutdown, links, accept,
          crashes, refused, given, lost

trackerVars == <<slave, job_map, todo_nodes, pending, batch, serving, wait_conn, shutdown, links, accept,
                 crashes, refused, given, lost>>

Slave == {s1, s2, s3, s4}
Host == s1 :> 2 @@ s2 :> 1 @@ s3 :> 3 @@ s4 :> 1

M == INSTANCE LinkMap
G == INSTANCE LaunchArgs
Map == 0 :> [tree |-> {1, 3}, parent |-> -1, prev |-> 3, next |-> 1]
    @@ 1 :> [tree |-> {0, 2}, parent |-> 0, prev |-> 0, next |-> 2]
    @@ 2 :> [tree |-> {1}, parent |-> 1, prev |-> 1, next |-> 3]
    @@ 3 :> [tree |-> {0}, parent |-> 0, prev |-> 2, next |-> 0]
ASSUME MapAssumption == Map = M!GetLinkMap(Cardinality(Slave), {})
T == INSTANCE Tracker

\* jobs that start from nothing, that go on from an iteration or from the last model, and that predict
Conf(num, in, load, dest, save, predict) ==
    [servers |-> num, max_data_pass |-> 3, save_iter |-> save, load_iter |-> load, in |-> in, out |-> dest, predict |-> predict]
MCConfs == UNION {{Conf(k, FALSE, 0, TRUE, 1, FALSE), Conf(k, TRUE, 0, TRUE, -1, FALSE), Conf(k, TRUE, 1, TRUE, 1, FALSE),
                   Conf(k, TRUE, 1, FALSE, 1, FALSE), Conf(k, TRUE, 0, FALSE, -1, TRUE)} : k \in {1, 2}}
             \cup {Conf(1, FALSE, 0, FALSE, -1, TRUE)}
ASSUME ConfsAssumption == ConfsOK
ASSUME MasterAssumption == LaunchOK

Path == {[scheme |-> "file", dir |-> "a", base |-> "x"], [scheme |-> "file", dir |-> "b", base |-> "x"],
         [scheme |-> "hdfs", dir |-> "a", base |-> "x"], [scheme |-> "hdfs", dir |-> "a", base |-> "y"]}
Arg == [opt : {"file"}, path : Path, name : {"", "x", "z"}]
         \cup [opt : {"env"}, key : {"k"}, value : {"", "v"}]
         \cup [opt : {"word"}, word : {"difacto"}] \cup [opt : {"client"}]

Init ==
    /\ part \in {"iter", "queue", "pool", "limited", "master", "tracker", "links", "args", "jobs"}
    /\ IF part = "args" THEN args \in [1 .. 3 -> Arg] ELSE args = <<>>
    /\ IF part = "links" THEN n \in 1 .. MaxSlaves /\ flip \in SUBSET (0 .. (n - 3) \div 2)
                         ELSE n = 1 /\ flip = {}
    /\ LaunchInit /\ T!Init /\ JobsInit /\ ThreadsInit

Next ==
    /\ UNCHANGED <<part, args, n, flip>>
    /\ \/ part = "master" /\ LaunchNext /\ UNCHANGED <<trackerVars, runVars, threadVars>>
       \/ part = "tracker" /\ T!Next /\ UNCHANGED <<amVars, runVars, threadVars>>
       \/ part = "jobs" /\ JobsNext /\ UNCHANGED <<amVars, trackerVars, threadVars>>
       \/ ThreadsNext /\ UNCHANGED <<amVars, trackerVars, runVars>>

\* The resource manager allocates what is pending, and processes end and are reported; every
\* slave comes back to the tracker; the main threads go on.
Spec ==
    /\ Init /\ [][Next]_<<part, args, n, flip, amVars, trackerVars, runVars, threadVars>>
    /\ ThreadsFairness
    /\ WF_amVars(part = "master" /\ OnContainersAllocated(1) /\ am' # am)
    /\ WF_amVars(part = "master" /\ \E c \in Container : StartContainer(c) \/ Exit(c))
    /\ WF_amVars(part = "master" /\ \E c \in Container : OnContainersCompleted(<<c>>))
    /\ WF_amVars(part = "master" /\ (StartMaster \/ EndMaster))
    /\ WF_amVars(part = "master" /\ (SubmitApplication \/ PollApplication))
    /\ WF_trackerVars(part = "tracker" /\ T!Accept)
-----------------------------------------------------------------------------
\* Client and ApplicationMaster: the tasks get the files, environment and command of the user.
ArgsArrive == G!ArgsArrive(args)

\* Tracker: the connections a slave waits for can still be made, unless a slave crashed that the
\* tracker held or talked to, or a connection went uncounted; a slave is sent the same rank after
\* every restart, whatever crashes; and the link map is a ring and a tree over the same ranks.
LinksComplete ==
    /\ T!WaitersGetConnections /\ T!RanksStable
    /\ M!LinkMapRight(n, flip)

\* Whatever fails, the client learns of the end of the application; and every slave gets its rank
\* and its links again and shuts down, so that the tracker ends, unless a slave crashed that the
\* tracker held in wait_conn or talked to, or a connection went uncounted.
LaunchEnds ==
    <>(/\ part = "master" => client \in {"done", "killed"}
       /\ part = "tracker" => lost \/ shutdown = T!Ranks(Cardinality(Slave)))
=============================================================================
