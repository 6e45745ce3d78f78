------------------------------ MODULE Executor ------------------------------
(***************************************************************************)
(* Requests and responses between a customer and the remote nodes it talks *)
(* to (src/system/executor.cc of ps-lite): timestamps, the trackers of     *)
(* finished requests, callbacks, Wait, and the removal of a dead node.     *)
(*                                                                         *)
(* Threads of the customer's process: the application (Submit, Wait), the  *)
(* receiving thread of the postoffice (Accept), the executor thread        *)
(* (PickActiveMsg, ProcessActiveMsg), and the monitor thread (RemoveNode). *)
(* A section under node_mu_ or msg_mu_ is one step; what happens between   *)
(* two sections, and every write of RemoveNode, which takes no lock, is a  *)
(* step of its own.  The remote nodes run the same code as receivers of    *)
(* requests.  Both directions of a connection are FIFO; a message may      *)
(* arrive twice, which the executor handles.                               *)
(***************************************************************************)
EXTENDS Integers, FiniteSets, Sequences

CONSTANTS
    Node,      \* the remote nodes, which form one group
    MaxTime,   \* bound on the number of requests
    MaxFault   \* bound on the number of deaths and of messages that arrive twice, together

\* The id of the group, a receiver like a single node (kServerGroup, kWorkerGroup).
Group == "group"

ASSUME ExecutorAssumption ==
    /\ IsFiniteSet(Node)
    /\ Group \notin Node
    /\ MaxTime \in Nat
    /\ MaxFault \in Nat

Time == 0 .. MaxTime - 1

VARIABLES
    time,      \* time_: the timestamp of the next request
    sent,      \* sent_reqs_: receiver and callback of each request, and who got a slice
    group,     \* the nodes in the group (RemoteNode::group)
    alive,     \* RemoteNode::alive
    sentDone,  \* per node and for the group, the finished timestamps (sent_req_tracker)
    app,       \* the application thread
    recv,      \* the receiving thread: has it still to notify dag_cond_?
    recvMsgs,  \* recv_msgs_
    exec,      \* the executor thread
    up,        \* the nodes that really live
    recvDone,  \* per node, its recv_req_tracker: the requests it has processed
    toNode,    \* per node, the requests on their way and in its recv_msgs_
    toMe,      \* per node, its responses on their way
    dups,      \* number of messages that arrived twice so far
    called,    \* history: how often the callback of a request ran
    waited,    \* history: the timestamps some Wait returned for
    served,    \* history: how often a node processed a request
    answered   \* history: how often the answer of a node was processed

reqVars  == <<time, sent>>
nodeVars == <<group, alive>>
netVars  == <<up, recvDone, toNode, toMe, dups>>
onceVars == <<served, answered>>
history  == <<called, waited, onceVars>>
vars == <<reqVars, nodeVars, sentDone, app, recv, recvMsgs, exec, netVars, history>>

Submitted == 0 .. time - 1
-----------------------------------------------------------------------------
(* The application thread.                                                 *)

Running == [at |-> "run"]

\* CheckFinished, for a request this customer sent.  What it marks as finished on its way are
\* the timestamps it has just found finished.
CheckFinished(ts) ==
    LET recver == sent[ts].recver
    IN  IF recver = Group
        THEN ts \in sentDone[Group] \/ \A n \in group : alive[n] => ts \in sentDone[n]
        ELSE ~alive[recver] \/ ts \in sentDone[recver]

\* The nodes with an empty slice count as if they had answered.
MarkUnsent(nodes) ==
    [n \in Node \cup {Group} |-> IF n \in nodes THEN sentDone[n] \cup {time} ELSE sentDone[n]]

\* Submit is called by the application thread, or by the callback that the executor thread runs.
\* It slices the request; a node whose slice is empty gets nothing.  Some slice is not empty: a key
\* is in the range of some node, and a request without keys goes to all (SliceMessage).  A request
\* without callback is one whose callback does nothing.  A message to a dead node is lost.
Submit(recver, slices) ==
    LET members == IF recver = Group THEN group ELSE {recver}
    IN  /\ app = Running \/ exec.at = "callback"
        /\ time < MaxTime
        /\ slices # {} /\ slices \subseteq members
        /\ sent' = [sent EXCEPT ![time] =
                       [recver |-> recver, callback |-> TRUE, slices |-> slices]]
        /\ sentDone' = MarkUnsent(members \ slices)
        /\ toNode' = [n \in Node |-> IF n \in slices \cap up
                                     THEN Append(toNode[n], time) ELSE toNode[n]]
        /\ time' = time + 1
        /\ UNCHANGED <<nodeVars, app, recv, recvMsgs, exec, up, recvDone, toMe, dups, history>>

\* Wait(ts) is called ...
Wait(ts) ==
    /\ app = Running
    /\ ts \in Submitted \ waited
    /\ app' = [at |-> "check", time |-> ts]
    /\ UNCHANGED <<reqVars, nodeVars, sentDone, recv, recvMsgs, exec, netVars, history>>

\* ... checks under node_mu_, and returns or sleeps on sent_req_cond_.
WaitSentReq ==
    /\ app.at = "check"
    /\ IF CheckFinished(app.time)
       THEN /\ app' = Running
            /\ waited' = waited \cup {app.time}
       ELSE /\ app' = [app EXCEPT !.at = "sleep"]
            /\ UNCHANGED waited
    /\ UNCHANGED <<reqVars, nodeVars, sentDone, recv, recvMsgs, exec, netVars, called, onceVars>>
-----------------------------------------------------------------------------
(* The receiving thread.                                                   *)

\* Accept puts a response into recv_msgs_,
Accept(n) ==
    /\ recv = "idle"
    /\ toMe[n] # <<>>
    /\ recvMsgs' = Append(recvMsgs, [sender |-> n, time |-> Head(toMe[n])])
    /\ toMe' = [toMe EXCEPT ![n] = Tail(@)]
    /\ recv' = "notify"
    /\ UNCHANGED <<reqVars, nodeVars, sentDone, app, exec, up, recvDone, toNode, dups, history>>

\* mutant of AcceptNotify: the executor thread is not woken
MutAcceptNotify ==
    /\ recv = "notify"
    /\ recv' = "idle"
    /\ UNCHANGED <<reqVars, nodeVars, sentDone, app, recvMsgs, exec, netVars, history>>

\* and then notifies dag_cond_.
AcceptNotify ==
    /\ recv = "notify"
    /\ recv' = "idle"
    /\ exec' = IF exec.at = "sleep" THEN [at |-> "idle"] ELSE exec
    /\ UNCHANGED <<reqVars, nodeVars, sentDone, app, recvMsgs, netVars, history>>
-----------------------------------------------------------------------------
(* The executor thread.                                                    *)

Idle == [at |-> "idle"]

\* mutant of Ignored: an answer that came twice is processed again
MutIgnored(m) == ~alive[m.sender]

\* The responses it throws away: those of a dead node, and those that came twice.
Ignored(m) == ~alive[m.sender] \/ m.time \in sentDone[m.sender]

\* PickActiveMsg goes through the messages until there is one to process, and sleeps on
\* dag_cond_ if there is none.  It holds msg_mu_ all the time; Accept only appends, so a step
\* per message is the same.
PickActiveMsg ==
    /\ exec = Idle
    /\ IF recvMsgs = <<>>
       THEN exec' = [at |-> "sleep"] /\ UNCHANGED recvMsgs
       ELSE /\ recvMsgs' = Tail(recvMsgs)
            /\ exec' = IF Ignored(Head(recvMsgs)) THEN exec
                       ELSE [at |-> "response", msg |-> Head(recvMsgs)]
    /\ UNCHANGED <<reqVars, nodeVars, sentDone, app, recv, netVars, history>>

\* mutant of AllAnswered: one answer is enough
MutAllAnswered(ts, done) == TRUE

\* done are the trackers with the response that is being processed.
AllAnswered(ts, done) ==
    sent[ts].recver = Group => \A r \in group : alive[r] => ts \in done[r]

\* ProcessActiveMsg marks the request as answered by this node, under node_mu_; with the last
\* answer the group is finished as well and the callback is due.
ProcessResponse ==
    /\ exec.at = "response"
    /\ LET m    == exec.msg
           done == [sentDone EXCEPT ![m.sender] = @ \cup {m.time}]
       IN  IF AllAnswered(m.time, done)
           THEN /\ sentDone' = IF sent[m.time].recver = Group
                               THEN [done EXCEPT ![Group] = @ \cup {m.time}] ELSE done
                /\ exec' = [at |-> "callback", time |-> m.time]
           ELSE /\ sentDone' = done
                /\ exec' = Idle
    /\ answered' = [answered EXCEPT ![exec.msg.sender][exec.msg.time] = @ + 1]
    /\ UNCHANGED <<reqVars, nodeVars, app, recv, recvMsgs, netVars, called, waited, served>>

\* With the lock released the callback runs, and is emptied,
RunCallback ==
    /\ exec.at = "callback"
    /\ called' = IF sent[exec.time].callback
                 THEN [called EXCEPT ![exec.time] = @ + 1] ELSE called
    /\ sent' = [sent EXCEPT ![exec.time].callback = FALSE]
    /\ exec' = [at |-> "notify"]
    /\ UNCHANGED <<time, nodeVars, sentDone, app, recv, recvMsgs, netVars, waited, onceVars>>

\* mutant of NotifyAll: a thread that waits is not woken
MutNotifyAll ==
    /\ exec.at = "notify"
    /\ exec' = Idle
    /\ UNCHANGED <<reqVars, nodeVars, sentDone, app, recv, recvMsgs, netVars, history>>

\* and only then the waiting thread is notified.
NotifyAll ==
    /\ exec.at = "notify"
    /\ app' = IF app.at = "sleep" THEN [app EXCEPT !.at = "check"] ELSE app
    /\ exec' = Idle
    /\ UNCHANGED <<reqVars, nodeVars, sentDone, recv, recvMsgs, netVars, history>>
-----------------------------------------------------------------------------
(* The remote nodes and the network.                                       *)

\* A node picks a request; it processes it and acknowledges it, or ignores it if it came twice.
ServeRequest(n) ==
    /\ n \in up
    /\ toNode[n] # <<>>
    /\ LET ts == Head(toNode[n])
       IN  /\ recvDone' = [recvDone EXCEPT ![n] = @ \cup {ts}]
           /\ toMe' = IF ts \in recvDone[n] THEN toMe ELSE [toMe EXCEPT ![n] = Append(@, ts)]
           /\ served' = IF ts \in recvDone[n] THEN served ELSE [served EXCEPT ![n][ts] = @ + 1]
    /\ toNode' = [toNode EXCEPT ![n] = Tail(@)]
    /\ UNCHANGED <<reqVars, nodeVars, sentDone, app, recv, recvMsgs, exec, up, dups, called, waited, answered>>

Faults == dups + Cardinality(Node \ up)

\* A message of this connection arrives once more, later.
Duplicate(n) ==
    /\ Faults < MaxFault
    /\ dups' = dups + 1
    /\ \/ \E i \in DOMAIN toNode[n] :
            /\ toNode' = [toNode EXCEPT ![n] = Append(@, @[i])]
            /\ UNCHANGED toMe
       \/ \E i \in DOMAIN toMe[n] :
            /\ toMe' = [toMe EXCEPT ![n] = Append(@, @[i])]
            /\ UNCHANGED toNode
    /\ UNCHANGED <<reqVars, nodeVars, sentDone, app, recv, recvMsgs, exec, up, recvDone, history>>

\* A node dies.  A last part of what it sent may be lost.
Fail(n) ==
    /\ n \in up
    /\ Faults < MaxFault
    /\ up' = up \ {n}
    /\ toNode' = [toNode EXCEPT ![n] = <<>>]
    /\ \E i \in 0 .. Len(toMe[n]) : toMe' = [toMe EXCEPT ![n] = SubSeq(@, 1, i)]
    /\ UNCHANGED <<reqVars, nodeVars, sentDone, app, recv, recvMsgs, exec, recvDone, dups, history>>

\* The monitor thread removes it from the executor, without a lock: from the group first,
RemoveGroupNode(n) ==
    /\ n \notin up
    /\ n \in group
    /\ group' = group \ {n}
    /\ UNCHANGED <<reqVars, alive, sentDone, app, recv, recvMsgs, exec, netVars, history>>

\* and then it is no longer alive.  Nobody is notified.
RemoveNode(n) ==
    /\ n \notin group
    /\ alive[n]
    /\ alive' = [alive EXCEPT ![n] = FALSE]
    /\ UNCHANGED <<reqVars, group, sentDone, app, recv, recvMsgs, exec, netVars, history>>
-----------------------------------------------------------------------------
NoRequest == [recver |-> Group, callback |-> FALSE, slices |-> {}]

Init ==
    /\ time = 0
    /\ sent = [ts \in Time |-> NoRequest]
    /\ group = Node
    /\ alive = [n \in Node |-> TRUE]
    /\ sentDone = [n \in Node \cup {Group} |-> {}]
    /\ app = Running
    /\ recv = "idle"
    /\ recvMsgs = <<>>
    /\ exec = Idle
    /\ up = Node
    /\ recvDone = [n \in Node |-> {}]
    /\ toNode = [n \in Node |-> <<>>]
    /\ toMe = [n \in Node |-> <<>>]
    /\ dups = 0
    /\ called = [ts \in Time |-> 0]
    /\ waited = {}
    /\ served = [n \in Node |-> [ts \in Time |-> 0]]
    /\ answered = [n \in Node |-> [ts \in Time |-> 0]]

ExecThread == PickActiveMsg \/ ProcessResponse \/ RunCallback \/ NotifyAll
RecvThread == (\E n \in Node : Accept(n)) \/ AcceptNotify

Next ==
    \/ \E recver \in Node \cup {Group}, slices \in SUBSET Node : Submit(recver, slices)
    \/ \E ts \in Time : Wait(ts)
    \/ WaitSentReq
    \/ RecvThread
    \/ ExecThread
    \/ \E n \in Node :
            \/ ServeRequest(n) \/ Duplicate(n) \/ Fail(n)
            \/ RemoveGroupNode(n) \/ RemoveNode(n)

Spec == Init /\ [][Next]_vars

\* The threads keep running, a living node processes its requests, and the death of a node is
\* noticed.  Nothing makes the application submit or wait.
FairSpec ==
    /\ Spec
    /\ WF_vars(WaitSentReq)
    /\ WF_vars(RecvThread)
    /\ WF_vars(ExecThread)
    /\ \A n \in Node : WF_vars(ServeRequest(n)) /\ WF_vars(RemoveGroupNode(n) \/ RemoveNode(n))
-----------------------------------------------------------------------------
(* Properties.                                                             *)

Message == [sender : Node, time : Submitted]

\* Type invariant of the executor and its threads (without the counts of DoneOnce).
TypeOK ==
    /\ time \in 0 .. MaxTime
    /\ sent \in [Time -> [recver : Node \cup {Group}, callback : BOOLEAN, slices : SUBSET Node]]
    /\ group \subseteq Node
    /\ alive \in [Node -> BOOLEAN]
    /\ sentDone \in [Node \cup {Group} -> SUBSET Submitted]
    /\ app \in {Running} \cup [at : {"check", "sleep"}, time : Submitted]
    /\ recv \in {"idle", "notify"}
    /\ recvMsgs \in Seq(Message)
    /\ exec \in {Idle, [at |-> "sleep"], [at |-> "notify"]}
                  \cup [at : {"response"}, msg : Message] \cup [at : {"callback"}, time : Submitted]
    /\ up \subseteq Node
    /\ recvDone \in [Node -> SUBSET Submitted]
    /\ toNode \in [Node -> Seq(Submitted)]
    /\ toMe \in [Node -> Seq(Submitted)]
    /\ dups \in 0 .. MaxFault
    /\ called \in [Time -> Nat]
    /\ waited \subseteq Submitted

\* The comments of Wait and of SyncOpts::callback: when Wait returns, or the callback runs,
\* every node that got a slice of the request and still lives has processed it.
FinishedMeansExecuted ==
    \A ts \in Submitted :
        ts \in waited \/ called[ts] > 0 =>
            \A n \in sent[ts].slices \cap up : ts \in recvDone[n]

\* What arrives twice is done once: however often requests and answers are repeated, nodes die,
\* and groups become complete, a callback runs at most once, a node processes a request at most
\* once, and the answer of a node is processed at most once.
DoneOnce ==
    /\ \A ts \in Time : called[ts] <= 1
    /\ \A n \in Node, ts \in Time : served[n][ts] <= 1 /\ answered[n][ts] <= 1

\* While all nodes live, Wait returns: neither dag_cond_ nor sent_req_cond_ loses a wakeup.
WaitReturnsIfAllLive == app.at = "check" ~> (app.at = "run" \/ up # Node)

\* While all nodes live, the callback of every request runs in the end.
CallbackRuns ==
    \A ts \in Time : sent[ts].callback ~> (called[ts] > 0 \/ up # Node)

\* The comment of Wait ("or it is considered as deed ... will wait for the response from each alive
\* node"): Wait returns also if a node dies.
WaitReturns == app.at = "check" ~> app.at = "run"
=============================================================================
