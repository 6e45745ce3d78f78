------------------------------ MODULE Tracker ------------------------------
(***************************************************************************)
(* The rabit tracker (dmlc-core/tracker/tracker.py): it gives the slaves   *)
(* their ranks and makes every slave connect to its neighbours in the link *)
(* map, again after a slave was restarted by the launcher (the keepalive   *)
(* loop of dmlc_local.py, handleFailure of the YARN application master).   *)
(*                                                                         *)
(* accept_slaves serves one connection at a time: assign_rank gives the    *)
(* slave its rank and repeats its round of connections until one has no    *)
(* error, and nobody else is accepted meanwhile.  The slaves are external: *)
(* a restarted one starts without links; one that lost a link comes back   *)
(* with "recover"; all shut down once the job is done.  A slave may crash  *)
(* at any time once it has a rank, also while it waits for connections and *)
(* while the tracker talks to it; a connection to a live slave may fail.   *)
(***************************************************************************)
EXTENDS LinkMap

CONSTANTS
    Map,        \* the link map of get_link_map for the number of slaves
    Slave,      \* the slaves, each with its own job id
    Host,       \* per slave, its host: pending slaves are sorted by it
    MaxCrash,   \* bound on the crashes
    MaxRefused, \* bound on the failed connections to live slaves
    NoSlave     \* nobody: not in Slave

VARIABLES
    slave,      \* per slave: "init", "pending", "assigned", "down" or "done"
    job_map,    \* slave -> rank, for the ranks given out
    todo_nodes, \* ranks not given out
    pending,    \* slaves waiting for a rank
    batch,      \* slaves of the batch that is being assigned
    serving,    \* the slave that assign_rank is busy with, or NoSlave
    wait_conn,  \* rank -> wait_accept, of the slaves that wait for connections
    shutdown,   \* ranks that have shut down
    links,      \* established connections, as pairs of ranks
    accept,     \* per rank: the connections its slave still waits for
    crashes, refused,
    given,      \* history: the ranks that slaves were sent
    lost        \* history: a slave crashed that the tracker held or talked to, or a peer's connection went uncounted

tableVars == <<job_map, todo_nodes, pending, batch>>
connVars == <<wait_conn, links, accept>>
historyVars == <<crashes, refused, given, lost>>
trackerVars == <<slave, tableVars, serving, connVars, shutdown, historyVars>>

NSlave == Cardinality(Slave)
Good(r) == {q \in Ranks(NSlave) : {q, r} \in links /\ q # r}

\* mutant of DecideRank: the rank is looked up by host
MutDecideRank(s) ==
    LET same == {x \in DOMAIN job_map : Host[x] = Host[s]}
    IN  IF same = {} \/ s \notin DOMAIN job_map THEN -1 ELSE job_map[CHOOSE x \in same : TRUE]

\* decide_rank, of a slave that has no rank itself
DecideRank(s) == IF s \in DOMAIN job_map THEN job_map[s] ELSE -1
-----------------------------------------------------------------------------
(* assign_rank: the rank is sent, then come the rounds.                    *)

SendRank(s, r) ==
    /\ serving' = s /\ given' = given \cup {<<s, r>>}
    /\ slave' = [slave EXCEPT ![s] = "assigned"]

\* The slave connects to the neighbours in wait_conn; those that are dead, or accept no more, fail.
Bad(r) == Neighbors(Map, r) \ Good(r)
ConSet(r) == Bad(r) \cap DOMAIN wait_conn
Unreachable(r) == {q \in ConSet(r) : accept[q] = 0}

\* A round with an error: what was connected is good in the next round, and nobody counts it down.
FailRound(s, failed) ==
    LET r == job_map[s]
        made == ConSet(r) \ failed
        odd == failed \ Unreachable(r)
    IN  /\ failed # {} /\ Unreachable(r) \subseteq failed
        /\ refused + Cardinality(odd) <= MaxRefused
        /\ refused' = refused + Cardinality(odd)
        /\ links' = links \cup {{r, q} : q \in made}
        /\ accept' = [q \in DOMAIN accept |-> IF q \in made THEN accept[q] - 1 ELSE accept[q]]
        /\ lost' = (lost \/ made # {})
        /\ UNCHANGED <<slave, tableVars, serving, wait_conn, shutdown, crashes, given>>

\* The entries after the last round: those connected to are counted down and removed at zero.
CountDown(r) ==
    [q \in {x \in DOMAIN wait_conn : x \notin ConSet(r) \/ wait_conn[x] > 1} |->
        IF q \in ConSet(r) THEN wait_conn[q] - 1 ELSE wait_conn[q]]

\* wait_accept: the slave waits for a connection from each of the neighbours that are not there.
LastRound(s) ==
    LET r == job_map[s]
        left == Cardinality(Bad(r) \ ConSet(r))
        after == CountDown(r)
    IN  /\ Unreachable(r) = {}
        /\ links' = links \cup {{r, q} : q \in ConSet(r)}
        /\ accept' = [q \in DOMAIN accept |-> IF q \in ConSet(r) THEN accept[q] - 1
                                              ELSE IF q = r THEN left ELSE accept[q]]
        /\ wait_conn' = [q \in DOMAIN after \cup (IF left > 0 THEN {r} ELSE {}) |->
                            IF q = r /\ left > 0 THEN left ELSE after[q]]
        /\ serving' = NoSlave
        /\ UNCHANGED <<slave, tableVars, shutdown, historyVars>>

\* Without the slave the tracker waits for its numbers for ever (recvall).
Round ==
    /\ serving # NoSlave /\ slave[serving] = "assigned"
    /\ \/ LastRound(serving)
       \/ \E failed \in SUBSET ConSet(job_map[serving]) : FailRound(serving, failed)
-----------------------------------------------------------------------------
(* accept_slaves, for one connection.                                      *)

Free == serving = NoSlave /\ batch = <<>>

\* The first slaves are kept until there are as many as ranks; then they are assigned in turn.
Start(s) ==
    /\ slave[s] = "init" /\ DecideRank(s) = -1 /\ Free
    /\ slave' = [slave EXCEPT ![s] = "pending"]
    /\ IF Len(pending) + 1 = Len(todo_nodes)
       THEN /\ batch' = SortSeq(Append(pending, s), LAMBDA x, y : Host[x] < Host[y])
            /\ pending' = <<>>
       ELSE /\ pending' = Append(pending, s)
            /\ UNCHANGED batch
    /\ UNCHANGED <<job_map, todo_nodes, serving, connVars, shutdown, historyVars>>

\* The loop over the batch; no other connection is accepted meanwhile.
AssignBatch ==
    /\ batch # <<>> /\ serving = NoSlave
    /\ job_map' = [x \in DOMAIN job_map \cup {Head(batch)} |->
                      IF x = Head(batch) THEN Head(todo_nodes) ELSE job_map[x]]
    /\ SendRank(Head(batch), Head(todo_nodes))
    /\ batch' = Tail(batch) /\ todo_nodes' = Tail(todo_nodes)
    /\ UNCHANGED <<pending, connVars, shutdown, crashes, refused, lost>>

\* A restarted slave has no rank, but its job id is known.
Restart(s) ==
    /\ slave[s] = "down" /\ Free
    /\ DecideRank(s) # -1
    /\ SendRank(s, DecideRank(s))
    /\ UNCHANGED <<tableVars, connVars, shutdown, crashes, refused, lost>>

\* The slaves that run: the tracker is done with them, and they have accepted what they were to.
Running(s) == slave[s] = "assigned" /\ s # serving /\ accept[job_map[s]] = 0
Linked(s)  == Neighbors(Map, job_map[s]) \subseteq Good(job_map[s])

\* mutant of Recover: a slave that reconnected by itself waits for no connection
MutRecover(s) ==
    /\ Running(s) /\ ~Linked(s) /\ Free
    /\ \E q \in DOMAIN wait_conn : q \in Neighbors(Map, job_map[s]) \ Good(job_map[s])
    /\ SendRank(s, job_map[s])
    /\ UNCHANGED <<tableVars, connVars, shutdown, crashes, refused, lost>>

\* A slave that lost a link comes back with its rank.
Recover(s) ==
    /\ Running(s) /\ ~Linked(s) /\ Free
    /\ SendRank(s, job_map[s])
    /\ UNCHANGED <<tableVars, connVars, shutdown, crashes, refused, lost>>

\* The job is done: no slave runs on that lacks a link.  A slave the tracker has an entry for
\* fails the assertion on wait_conn.
Shutdown(s) ==
    /\ Running(s) /\ Free
    /\ \A x \in Slave : slave[x] = "done" \/ (Running(x) /\ Linked(x))
    /\ job_map[s] \notin DOMAIN wait_conn
    /\ shutdown' = shutdown \cup {job_map[s]}
    /\ slave' = [slave EXCEPT ![s] = "done"]
    /\ UNCHANGED <<tableVars, serving, connVars, historyVars>>

\* A slave dies, and its connections with it.  The tracker keeps the entry it has of a slave that
\* waits, and gives its address to the neighbours.
Crash(s) ==
    /\ slave[s] = "assigned" /\ shutdown = {} /\ crashes < MaxCrash
    /\ crashes' = crashes + 1
    /\ slave' = [slave EXCEPT ![s] = "down"]
    /\ links' = {l \in links : job_map[s] \notin l}
    /\ accept' = [accept EXCEPT ![job_map[s]] = 0]
    /\ lost' = (lost \/ s = serving \/ job_map[s] \in DOMAIN wait_conn)
    /\ UNCHANGED <<tableVars, serving, wait_conn, shutdown, refused, given>>
-----------------------------------------------------------------------------
Init ==
    /\ slave = [s \in Slave |-> "init"]
    /\ job_map = <<>>
    /\ todo_nodes = [i \in 1 .. NSlave |-> i - 1]
    /\ pending = <<>> /\ batch = <<>> /\ serving = NoSlave
    /\ wait_conn = <<>> /\ accept = [r \in Ranks(NSlave) |-> 0]
    /\ shutdown = {} /\ links = {} /\ crashes = 0 /\ refused = 0 /\ given = {} /\ lost = FALSE

Accept ==
    \/ \E s \in Slave : Start(s) \/ Restart(s) \/ Recover(s) \/ Shutdown(s)
    \/ AssignBatch \/ Round

Next == Accept \/ \E s \in Slave : Crash(s)
-----------------------------------------------------------------------------
\* Nobody waits for a connection nobody will make, as long as no slave crashed that the tracker
\* held and no connection went uncounted: the tracker's count is the slave's own, and is no more
\* than its neighbours that are still to come back to the tracker.
WaitersGetConnections ==
    ~lost => \A r \in Ranks(NSlave) :
        LET missing == Neighbors(Map, r) \ Good(r)
        IN  IF r \in DOMAIN wait_conn
            THEN wait_conn[r] = accept[r] /\ accept[r] \in 1 .. Cardinality(missing \ DOMAIN wait_conn)
            ELSE accept[r] = 0

\* A slave is sent the same rank whenever it comes, after a restart too, and no two slaves are
\* sent the same one, whatever crashes.
RanksStable == \A p, q \in given : (p[1] = q[1]) <=> (p[2] = q[2])
=============================================================================
