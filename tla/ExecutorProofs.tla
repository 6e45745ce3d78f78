--------------------------- MODULE ExecutorProofs ---------------------------
(***************************************************************************)
(* A request that is finished was processed by every node that got a part  *)
(* of it and lives, and nothing is done twice: for every set of nodes and  *)
(* every number of requests, deaths and repeated messages.                 *)
(***************************************************************************)
EXTENDS Executor, FiniteSetTheorems, SequenceTheorems, TLAPS

(* The requests a node was asked to process, and those it has processed of *)
(* them; the responses that say so.                                        *)
Asked(n) == {ts \in Submitted : n \in sent[ts].slices}
Answered(n) == {ts \in Asked(n) : ts \in recvDone[n]}
Answers == {m \in Message : m.time \in Answered(m.sender)}

(* Every living node that got a part of the request has processed it.      *)
Executed(ts) == \A n \in sent[ts].slices \cap up : ts \in recvDone[n]

(* A node that lives is in the group and is taken for alive.               *)
NodesInv == up \subseteq group /\ \A n \in up : alive[n]

(* A request to a node has no other receiver; a callback that is not empty *)
(* has not run, and no request runs one before it is submitted.            *)
RequestInv ==
    /\ \A ts \in Submitted : sent[ts].recver # Group => sent[ts].slices \subseteq {sent[ts].recver}
    /\ \A ts \in Time : sent[ts].callback \/ ts \notin Submitted => called[ts] = 0
    /\ \A ts \in Time : called[ts] <= 1

(* What is under way: requests to nodes they were sliced for, and answers  *)
(* of nodes that have processed the request.                               *)
TrafficInv ==
    /\ \A n \in Node : toNode[n] \in Seq(Asked(n)) /\ toMe[n] \in Seq(Answered(n))
    /\ recvMsgs \in Seq(Answers)
    /\ exec.at = "response" => exec.msg \in Answers

(* A tracker is only marked for a node that has processed the request or   *)
(* got nothing of it, and for the group when the request was executed.     *)
TrackerInv ==
    /\ \A n \in Node : \A ts \in sentDone[n] : n \in sent[ts].slices => ts \in recvDone[n]
    /\ \A ts \in sentDone[Group] : Executed(ts)

(* A callback that is due or has run, and a Wait that returned, are for an *)
(* executed request.                                                       *)
FinishedInv ==
    \A ts \in Submitted :
        \/ exec.at = "callback" /\ exec.time = ts
        \/ ts \in waited
        \/ called[ts] > 0
        => Executed(ts)

ExecutorInv == TypeOK /\ NodesInv /\ RequestInv /\ TrafficInv /\ TrackerInv /\ FinishedInv
-----------------------------------------------------------------------------
(* What was asked, answered and executed stays so: requests keep their     *)
(* receivers, nodes forget nothing, and the dead do not come back.         *)
Monotone ==
    /\ time <= time'
    /\ \A ts \in Submitted : sent'[ts].slices = sent[ts].slices /\ sent'[ts].recver = sent[ts].recver
    /\ up' \subseteq up
    /\ \A n \in Node : recvDone[n] \subseteq recvDone'[n]

LEMMA IntervalGrows ==
    ASSUME NEW a \in Nat, NEW b \in Nat, a <= b
    PROVE  0 .. a - 1 \subseteq 0 .. b - 1
  OBVIOUS

LEMMA MonotoneKeeps ==
    ASSUME TypeOK, TypeOK', Monotone
    PROVE  /\ Submitted \subseteq Submitted'
           /\ \A n \in Node : Asked(n) \subseteq Asked(n)' /\ Answered(n) \subseteq Answered(n)'
           /\ Answers \subseteq Answers'
           /\ \A ts \in Submitted : Executed(ts) => Executed(ts)'
  <1>1. Submitted \subseteq Submitted' /\ Submitted \subseteq Time
    <2>1. time \in 0 .. MaxTime /\ time' \in 0 .. MaxTime
      BY DEF TypeOK
    <2>2. time <= time' /\ MaxTime \in Nat
      BY ExecutorAssumption DEF Monotone
    <2>3. time \in Nat /\ time' \in Nat /\ time <= MaxTime
      BY <2>1, <2>2
    <2>4. 0 .. time - 1 \subseteq 0 .. time' - 1 /\ 0 .. time - 1 \subseteq 0 .. MaxTime - 1
      BY <2>2, <2>3, IntervalGrows, Zenon
    <2> QED
      BY <2>4 DEF Submitted, Time
  <1>2. \A n \in Node : Asked(n) \subseteq Asked(n)' /\ Answered(n) \subseteq Answered(n)'
    BY <1>1 DEF Asked, Answered, Monotone
  <1>3. Answers \subseteq Answers'
    BY <1>1, <1>2 DEF Answers, Message
  <1>4. \A ts \in Submitted : Executed(ts) => Executed(ts)'
    BY <1>1 DEF Executed, Monotone, TypeOK
  <1> QED
    BY <1>1, <1>2, <1>3, <1>4

(* Sequences of messages keep their type when more is answered.            *)
LEMMA TrafficKept ==
    ASSUME TypeOK, TypeOK', Monotone, TrafficInv
    PROVE  /\ \A n \in Node : toNode[n] \in Seq(Asked(n)') /\ toMe[n] \in Seq(Answered(n)')
           /\ recvMsgs \in Seq(Answers')
  <1> USE MonotoneKeeps
  <1>1. ASSUME NEW n \in Node
        PROVE  toNode[n] \in Seq(Asked(n)') /\ toMe[n] \in Seq(Answered(n)')
    BY SeqMonotonic DEF TrafficInv
  <1>2. recvMsgs \in Seq(Answers')
    BY SeqMonotonic DEF TrafficInv
  <1> QED
    BY <1>1, <1>2
-----------------------------------------------------------------------------
LEMMA ExecutorInitInv == Init => ExecutorInv
  <1> SUFFICES ASSUME Init PROVE ExecutorInv
    OBVIOUS
  <1> USE ExecutorAssumption DEF Init
  <1>1. Submitted = {}
    BY DEF Submitted
  <1>2. TypeOK
    BY <1>1 DEF TypeOK, NoRequest, Running, Idle, Time
  <1>3. NodesInv /\ RequestInv
    BY <1>1 DEF NodesInv, RequestInv, NoRequest
  <1>4. TrafficInv
    BY DEF TrafficInv, Idle
  <1>5. TrackerInv /\ FinishedInv
    BY <1>1 DEF TrackerInv, FinishedInv, Idle
  <1> QED
    BY <1>2, <1>3, <1>4, <1>5 DEF ExecutorInv
-----------------------------------------------------------------------------
(* The application thread                                                  *)

LEMMA SubmitInv ==
    ASSUME ExecutorInv, NEW recver \in Node \cup {Group}, NEW slices \in SUBSET Node,
           Submit(recver, slices)
    PROVE  ExecutorInv'
  <1> USE ExecutorAssumption
  <1> DEFINE members == IF recver = Group THEN group ELSE {recver}
             request == [recver |-> recver, callback |-> TRUE, slices |-> slices]
  <1>1. /\ TypeOK /\ NodesInv /\ RequestInv /\ TrafficInv /\ TrackerInv /\ FinishedInv
        /\ time \in 0 .. MaxTime /\ time < MaxTime /\ time' = time + 1
        /\ MaxTime \in Nat
    BY DEF ExecutorInv, TypeOK, Submit
  <1>2. /\ Submitted' = Submitted \cup {time} /\ time \notin Submitted
        /\ Submitted' \subseteq Time /\ Submitted \subseteq Time
    BY <1>1 DEF Submitted, Time
  <1>3. /\ sent' = [sent EXCEPT ![time] = request]
        /\ sentDone' = [n \in Node \cup {Group} |->
                           IF n \in members \ slices THEN sentDone[n] \cup {time} ELSE sentDone[n]]
        /\ toNode' = [n \in Node |-> IF n \in slices \cap up THEN Append(toNode[n], time) ELSE toNode[n]]
        /\ slices \subseteq members
        /\ members \subseteq Node
        /\ UNCHANGED <<nodeVars, app, recv, recvMsgs, exec, up, recvDone, toMe, dups, history>>
    BY <1>1 DEF Submit, MarkUnsent, TypeOK
  <1>4. /\ sent'[time] = request
        /\ \A ts \in Submitted : sent'[ts] = sent[ts]
        /\ sent' \in [Time -> [recver : Node \cup {Group}, callback : BOOLEAN, slices : SUBSET Node]]
    BY <1>1, <1>2, <1>3 DEF TypeOK
  <1>5. TypeOK'
    <2>1. sentDone' \in [Node \cup {Group} -> SUBSET Submitted']
      BY <1>1, <1>2, <1>3 DEF TypeOK
    <2>2. toNode' \in [Node -> Seq(Submitted')]
      <3> SUFFICES ASSUME NEW n \in Node
                   PROVE  toNode[n] \in Seq(Submitted') /\ Append(toNode[n], time) \in Seq(Submitted')
        BY <1>3
      <3>1. toNode[n] \in Seq(Submitted')
        BY <1>1, <1>2, SeqMonotonic DEF TypeOK
      <3> QED
        BY <3>1, <1>2, AppendProperties
    <2>3. toMe' \in [Node -> Seq(Submitted')]
      <3> SUFFICES ASSUME NEW n \in Node PROVE toMe[n] \in Seq(Submitted')
        BY <1>1, <1>3 DEF TypeOK
      <3> QED
        BY <1>1, <1>2, SeqMonotonic DEF TypeOK
    <2>4. Message \subseteq Message'
      BY <1>2 DEF Message
    <2>5. recvMsgs' \in Seq(Message')
      BY <1>1, <1>3, <2>4, SeqMonotonic DEF TypeOK
    <2>6. /\ app' \in {Running} \cup [at : {"check", "sleep"}, time : Submitted']
          /\ exec' \in {Idle, [at |-> "sleep"], [at |-> "notify"]}
                  \cup [at : {"response"}, msg : Message'] \cup [at : {"callback"}, time : Submitted']
      BY <1>1, <1>2, <1>3, <2>4 DEF TypeOK
    <2>7. recvDone' \in [Node -> SUBSET Submitted'] /\ waited' \subseteq Submitted'
      BY <1>1, <1>2, <1>3 DEF TypeOK, history
    <2>8. time' \in 0 .. MaxTime
      BY <1>1
    <2> QED
      BY <1>1, <1>3, <1>4, <2>1, <2>2, <2>3, <2>5, <2>6, <2>7, <2>8 DEF TypeOK, nodeVars, history
  <1>6. Monotone
    BY <1>1, <1>3, <1>4 DEF Monotone, TypeOK
  <1>7. NodesInv'
    BY <1>1, <1>3 DEF NodesInv, nodeVars
  <1>8. RequestInv'
    <2>1. \A ts \in Submitted' : sent'[ts].recver # Group => sent'[ts].slices \subseteq {sent'[ts].recver}
      BY <1>1, <1>2, <1>3, <1>4 DEF RequestInv
    <2>2. \A ts \in Time : sent'[ts].callback \/ ts \notin Submitted' => called'[ts] = 0
      <3> SUFFICES ASSUME NEW ts \in Time, sent'[ts].callback \/ ts \notin Submitted' PROVE called[ts] = 0
        BY <1>3 DEF history
      <3>1. CASE ts = time
        BY <3>1, <1>1, <1>2 DEF RequestInv
      <3>2. CASE ts # time
        <4>1. sent'[ts] = sent[ts]
          BY <3>2, <1>3, <1>1 DEF TypeOK
        <4> QED
          BY <4>1, <3>2, <1>1, <1>2 DEF RequestInv
      <3> QED
        BY <3>1, <3>2
    <2>3. \A ts \in Time : called'[ts] <= 1
      BY <1>1, <1>3 DEF RequestInv, history
    <2> QED
      BY <2>1, <2>2, <2>3 DEF RequestInv
  <1>9. TrafficInv'
    <2>1. \A n \in Node : toNode'[n] \in Seq(Asked(n)')
      <3> SUFFICES ASSUME NEW n \in Node PROVE toNode'[n] \in Seq(Asked(n)')
        OBVIOUS
      <3>1. toNode[n] \in Seq(Asked(n)')
        BY <1>1, <1>5, <1>6, TrafficKept
      <3>2. n \in slices => time \in Asked(n)'
        BY <1>2, <1>4 DEF Asked
      <3>3. n \in slices => Append(toNode[n], time) \in Seq(Asked(n)')
        BY <3>1, <3>2, AppendProperties
      <3> QED
        BY <1>3, <3>1, <3>3
    <2>2. exec'.at = "response" => exec'.msg \in Answers'
      BY <1>1, <1>3, <1>5, <1>6, MonotoneKeeps DEF TrafficInv
    <2>3. /\ \A n \in Node : toMe'[n] \in Seq(Answered(n)')
          /\ recvMsgs' \in Seq(Answers')
      BY <1>1, <1>3, <1>5, <1>6, TrafficKept
    <2> QED
      BY <2>1, <2>2, <2>3 DEF TrafficInv
  <1>10. TrackerInv'
    <2>1. ASSUME NEW n \in Node, NEW ts \in sentDone'[n], n \in sent'[ts].slices PROVE ts \in recvDone'[n]
      <3>1. ts # time
        BY <1>1, <1>2, <1>3, <1>4, <2>1 DEF TypeOK
      <3>2. ts \in sentDone[n]
        BY <3>1, <1>3
      <3>3. ts \in Submitted
        BY <3>2, <1>1 DEF TypeOK
      <3> QED
        BY <3>2, <3>3, <1>1, <1>3, <1>4, <2>1 DEF TrackerInv
    <2>2. ASSUME NEW ts \in sentDone'[Group] PROVE Executed(ts)'
      <3>1. ts \in sentDone[Group]
        BY <1>3
      <3>2. ts \in Submitted /\ Executed(ts)
        BY <3>1, <1>1 DEF TypeOK, TrackerInv
      <3> QED
        BY <3>2, <1>1, <1>5, <1>6, MonotoneKeeps
    <2> QED
      BY <2>1, <2>2 DEF TrackerInv
  <1>11. FinishedInv'
    <2> SUFFICES ASSUME NEW ts \in Submitted',
                        (exec.at = "callback" /\ exec.time = ts) \/ ts \in waited \/ called[ts] > 0
                 PROVE  Executed(ts)'
      BY <1>3 DEF FinishedInv, history
    <2>1. ts \in Submitted
      BY <1>1, <1>2 DEF TypeOK, RequestInv, Idle
    <2> QED
      BY <2>1, <1>1, <1>5, <1>6, MonotoneKeeps DEF FinishedInv
  <1> QED
    BY <1>5, <1>7, <1>8, <1>9, <1>10, <1>11 DEF ExecutorInv

(* Steps that submit nothing and in which no node processes or dies.       *)
LEMMA Unmoved ==
    ASSUME UNCHANGED <<time, sent, up, recvDone>>
    PROVE  /\ Submitted' = Submitted /\ Message' = Message /\ Answers' = Answers
           /\ \A n : Asked(n)' = Asked(n) /\ Answered(n)' = Answered(n)
           /\ \A ts : Executed(ts)' <=> Executed(ts)
  <1>1. Submitted' = Submitted
    BY DEF Submitted
  <1>2. Message' = Message
    BY <1>1 DEF Message
  <1>3. \A n : Asked(n)' = Asked(n) /\ Answered(n)' = Answered(n)
    BY <1>1 DEF Asked, Answered
  <1>4. Answers' = Answers
    BY <1>2, <1>3 DEF Answers
  <1>5. \A ts : Executed(ts)' <=> Executed(ts)
    BY DEF Executed
  <1> QED
    BY <1>1, <1>2, <1>3, <1>4, <1>5

LEMMA WaitInv ==
    ASSUME ExecutorInv, NEW ts \in Time, Wait(ts)
    PROVE  ExecutorInv'
  <1>1. UNCHANGED <<time, sent, group, alive, sentDone, recv, recvMsgs, exec, up, recvDone, toNode, toMe, dups, called, waited>>
    BY DEF Wait, reqVars, nodeVars, netVars, history
  <1>2. /\ Submitted' = Submitted /\ Message' = Message /\ Answers' = Answers
        /\ \A n : Asked(n)' = Asked(n) /\ Answered(n)' = Answered(n)
        /\ \A t : Executed(t)' <=> Executed(t)
    BY <1>1, Unmoved
  <1>3. app' \in {Running} \cup [at : {"check", "sleep"}, time : Submitted]
    BY DEF Wait
  <1>4. TypeOK'
    BY <1>1, <1>2, <1>3 DEF ExecutorInv, TypeOK
  <1>5. NodesInv' /\ RequestInv' /\ TrafficInv' /\ TrackerInv' /\ FinishedInv'
    BY <1>1, <1>2 DEF ExecutorInv, NodesInv, RequestInv, TrafficInv, TrackerInv, FinishedInv
  <1> QED
    BY <1>4, <1>5 DEF ExecutorInv

(* A request that CheckFinished finds finished was executed: a node that   *)
(* lives is in the group and alive.                                        *)
LEMMA CheckedMeansExecuted ==
    ASSUME ExecutorInv, NEW ts \in Submitted, CheckFinished(ts)
    PROVE  Executed(ts)
  <1> USE ExecutorAssumption DEF ExecutorInv
  <1>1. Submitted \subseteq Time
    BY DEF TypeOK, Submitted, Time
  <1>2. sent[ts] \in [recver : Node \cup {Group}, callback : BOOLEAN, slices : SUBSET Node]
    BY <1>1 DEF TypeOK
  <1>3. CASE sent[ts].recver = Group
    <2>1. CASE ts \in sentDone[Group]
      BY <2>1 DEF TrackerInv
    <2>2. CASE \A n \in group : alive[n] => ts \in sentDone[n]
      BY <1>2, <2>2 DEF TypeOK, NodesInv, TrackerInv, Executed
    <2> QED
      BY <1>3, <2>1, <2>2 DEF CheckFinished
  <1>4. CASE sent[ts].recver # Group
    <2>1. sent[ts].recver \in Node /\ sent[ts].slices \subseteq {sent[ts].recver}
      BY <1>2, <1>4 DEF RequestInv
    <2>2. ~alive[sent[ts].recver] \/ ts \in sentDone[sent[ts].recver]
      BY <1>4 DEF CheckFinished
    <2> QED
      BY <2>1, <2>2 DEF NodesInv, TrackerInv, Executed
  <1> QED
    BY <1>3, <1>4

LEMMA WaitSentReqInv ==
    ASSUME ExecutorInv, WaitSentReq
    PROVE  ExecutorInv'
  <1>1. UNCHANGED <<time, sent, group, alive, sentDone, recv, recvMsgs, exec, up, recvDone, toNode, toMe, dups, called>>
    BY DEF WaitSentReq, reqVars, nodeVars, netVars
  <1>2. /\ Submitted' = Submitted /\ Message' = Message /\ Answers' = Answers
        /\ \A n : Asked(n)' = Asked(n) /\ Answered(n)' = Answered(n)
        /\ \A t : Executed(t)' <=> Executed(t)
    BY <1>1, Unmoved
  <1>3. app \in [at : {"check", "sleep"}, time : Submitted]
    BY DEF WaitSentReq, ExecutorInv, TypeOK, Running
  <1>4. /\ app' \in {Running} \cup [at : {"check", "sleep"}, time : Submitted]
        /\ waited' = waited \/ (CheckFinished(app.time) /\ waited' = waited \cup {app.time})
    BY <1>3 DEF WaitSentReq
  <1>5. \A ts \in waited' : ts \in Submitted /\ (ts \in waited \/ Executed(ts))
    <2>1. CheckFinished(app.time) => Executed(app.time)
      BY <1>3, CheckedMeansExecuted
    <2> QED
      BY <1>3, <1>4, <2>1 DEF ExecutorInv, TypeOK
  <1>6. TypeOK'
    BY <1>1, <1>2, <1>4, <1>5 DEF ExecutorInv, TypeOK
  <1>7. NodesInv' /\ RequestInv' /\ TrafficInv' /\ TrackerInv'
    BY <1>1, <1>2 DEF ExecutorInv, NodesInv, RequestInv, TrafficInv, TrackerInv
  <1>8. FinishedInv'
    BY <1>1, <1>2, <1>5 DEF ExecutorInv, FinishedInv
  <1> QED
    BY <1>6, <1>7, <1>8 DEF ExecutorInv
-----------------------------------------------------------------------------
(* The receiving thread                                                    *)

LEMMA AcceptInv ==
    ASSUME ExecutorInv, NEW n \in Node, Accept(n)
    PROVE  ExecutorInv'
  <1>1. UNCHANGED <<time, sent, group, alive, sentDone, app, exec, up, recvDone, toNode, dups, called, waited>>
    BY DEF Accept, reqVars, nodeVars, history
  <1>2. /\ Submitted' = Submitted /\ Message' = Message /\ Answers' = Answers
        /\ \A k : Asked(k)' = Asked(k) /\ Answered(k)' = Answered(k)
        /\ \A t : Executed(t)' <=> Executed(t)
    BY <1>1, Unmoved
  <1> DEFINE m == [sender |-> n, time |-> Head(toMe[n])]
  <1>3. /\ toMe[n] \in Seq(Submitted) /\ toMe[n] \in Seq(Answered(n)) /\ toMe[n] # <<>>
        /\ recvMsgs \in Seq(Message) /\ recvMsgs \in Seq(Answers)
    BY DEF ExecutorInv, TypeOK, TrafficInv, Accept
  <1>4. /\ Head(toMe[n]) \in Answered(n)
        /\ Tail(toMe[n]) \in Seq(Answered(n)) /\ Tail(toMe[n]) \in Seq(Submitted)
    BY <1>3, HeadTailProperties
  <1>5. m \in Message /\ m \in Answers
    BY <1>4 DEF Message, Answers, Answered, Asked
  <1>6. recvMsgs' \in Seq(Message) /\ recvMsgs' \in Seq(Answers)
    BY <1>3, <1>5, AppendProperties DEF Accept
  <1>7. /\ toMe' = [toMe EXCEPT ![n] = Tail(toMe[n])]
        /\ recv' = "notify"
    BY DEF Accept
  <1>8. toMe' \in [Node -> Seq(Submitted)] /\ \A k \in Node : toMe'[k] \in Seq(Answered(k))
    BY <1>4, <1>7 DEF ExecutorInv, TypeOK, TrafficInv
  <1>9. TypeOK'
    BY <1>1, <1>2, <1>6, <1>7, <1>8 DEF ExecutorInv, TypeOK
  <1>10. TrafficInv'
    BY <1>1, <1>2, <1>6, <1>8 DEF ExecutorInv, TrafficInv
  <1>11. NodesInv' /\ RequestInv' /\ TrackerInv' /\ FinishedInv'
    BY <1>1, <1>2 DEF ExecutorInv, NodesInv, RequestInv, TrackerInv, FinishedInv
  <1> QED
    BY <1>9, <1>10, <1>11 DEF ExecutorInv

LEMMA AcceptNotifyInv ==
    ASSUME ExecutorInv, AcceptNotify
    PROVE  ExecutorInv'
  <1>1. UNCHANGED <<time, sent, group, alive, sentDone, app, recvMsgs, up, recvDone, toNode, toMe, dups, called, waited>>
    BY DEF AcceptNotify, reqVars, nodeVars, netVars, history
  <1>2. /\ Submitted' = Submitted /\ Message' = Message /\ Answers' = Answers
        /\ \A n : Asked(n)' = Asked(n) /\ Answered(n)' = Answered(n)
        /\ \A t : Executed(t)' <=> Executed(t)
    BY <1>1, Unmoved
  <1>3. recv' = "idle" /\ (exec' = exec \/ exec' = Idle)
    BY DEF AcceptNotify, Idle
  <1>4. TypeOK'
    BY <1>1, <1>2, <1>3 DEF ExecutorInv, TypeOK
  <1>5. NodesInv' /\ RequestInv' /\ TrackerInv'
    BY <1>1, <1>2 DEF ExecutorInv, NodesInv, RequestInv, TrackerInv
  <1>6. TrafficInv' /\ FinishedInv'
    BY <1>1, <1>2, <1>3 DEF ExecutorInv, TrafficInv, FinishedInv, Idle
  <1> QED
    BY <1>4, <1>5, <1>6 DEF ExecutorInv
-----------------------------------------------------------------------------
(* The executor thread                                                     *)

LEMMA PickActiveMsgInv ==
    ASSUME ExecutorInv, PickActiveMsg
    PROVE  ExecutorInv'
  <1>1. UNCHANGED <<time, sent, group, alive, sentDone, app, recv, up, recvDone, toNode, toMe, dups, called, waited>>
    BY DEF PickActiveMsg, reqVars, nodeVars, netVars, history
  <1>2. /\ Submitted' = Submitted /\ Message' = Message /\ Answers' = Answers
        /\ \A n : Asked(n)' = Asked(n) /\ Answered(n)' = Answered(n)
        /\ \A t : Executed(t)' <=> Executed(t)
    BY <1>1, Unmoved
  <1>3. recvMsgs \in Seq(Message) /\ recvMsgs \in Seq(Answers)
    BY DEF ExecutorInv, TypeOK, TrafficInv
  <1>4. recvMsgs # <<>> => /\ Head(recvMsgs) \in Message /\ Head(recvMsgs) \in Answers
                           /\ Tail(recvMsgs) \in Seq(Message) /\ Tail(recvMsgs) \in Seq(Answers)
    BY <1>3, HeadTailProperties
  <1>5. recvMsgs' \in Seq(Message) /\ recvMsgs' \in Seq(Answers)
    BY <1>3, <1>4 DEF PickActiveMsg
  <1>6. \/ exec' = Idle \/ exec' = [at |-> "sleep"]
        \/ \E m \in Message \cap Answers : exec' = [at |-> "response", msg |-> m]
    BY <1>4 DEF PickActiveMsg
  <1>7. TypeOK'
    BY <1>1, <1>2, <1>5, <1>6 DEF ExecutorInv, TypeOK
  <1>8. TrafficInv' /\ FinishedInv'
    BY <1>1, <1>2, <1>5, <1>6 DEF ExecutorInv, TrafficInv, FinishedInv, Idle
  <1>9. NodesInv' /\ RequestInv' /\ TrackerInv'
    BY <1>1, <1>2 DEF ExecutorInv, NodesInv, RequestInv, TrackerInv
  <1> QED
    BY <1>7, <1>8, <1>9 DEF ExecutorInv

(* The answer that completes a request says that it was executed.          *)
LEMMA AnsweredMeansExecuted ==
    ASSUME ExecutorInv, NEW m \in Answers, NEW done,
           done = [sentDone EXCEPT ![m.sender] = @ \cup {m.time}],
           AllAnswered(m.time, done)
    PROVE  Executed(m.time)
  <1> USE ExecutorAssumption DEF ExecutorInv
  <1>1. /\ m.sender \in Node /\ m.time \in Submitted
        /\ m.sender \in sent[m.time].slices /\ m.time \in recvDone[m.sender]
    BY DEF Answers, Message, Answered, Asked
  <1>2. Submitted \subseteq Time
    BY DEF TypeOK, Submitted, Time
  <1>3. sent[m.time] \in [recver : Node \cup {Group}, callback : BOOLEAN, slices : SUBSET Node]
    BY <1>1, <1>2 DEF TypeOK
  <1>4. CASE sent[m.time].recver = Group
    <2>1. ASSUME NEW n \in sent[m.time].slices \cap up PROVE m.time \in recvDone[n]
      <3>1. n \in Node /\ n \in group /\ alive[n]
        BY <1>3 DEF NodesInv
      <3>2. m.time \in done[n]
        BY <1>4, <3>1 DEF AllAnswered
      <3>3. n = m.sender \/ m.time \in sentDone[n]
        BY <3>1, <3>2 DEF TypeOK
      <3> QED
        BY <1>1, <3>1, <3>3 DEF TrackerInv
    <2> QED
      BY <2>1 DEF Executed
  <1>5. CASE sent[m.time].recver # Group
    BY <1>1, <1>5 DEF RequestInv, Executed
  <1> QED
    BY <1>4, <1>5

LEMMA ProcessResponseInv ==
    ASSUME ExecutorInv, ProcessResponse
    PROVE  ExecutorInv'
  <1> USE ExecutorAssumption
  <1>1. UNCHANGED <<time, sent, group, alive, app, recv, recvMsgs, up, recvDone, toNode, toMe, dups, called, waited>>
    BY DEF ProcessResponse, reqVars, nodeVars, netVars, history
  <1>2. /\ Submitted' = Submitted /\ Message' = Message /\ Answers' = Answers
        /\ \A n : Asked(n)' = Asked(n) /\ Answered(n)' = Answered(n)
        /\ \A t : Executed(t)' <=> Executed(t)
    BY <1>1, Unmoved
  <1> DEFINE m == exec.msg
             done == [sentDone EXCEPT ![m.sender] = @ \cup {m.time}]
  <1>3. m \in Answers
    BY DEF ExecutorInv, TrafficInv, ProcessResponse
  <1>4. /\ m.sender \in Node /\ m.time \in Submitted
        /\ m.time \in recvDone[m.sender]
    BY <1>3 DEF Answers, Message, Answered, Asked
  <1>5. sentDone \in [Node \cup {Group} -> SUBSET Submitted]
    BY DEF ExecutorInv, TypeOK
  <1>6. /\ done \in [Node \cup {Group} -> SUBSET Submitted]
        /\ done[Group] = sentDone[Group]
        /\ \A n \in Node : done[n] = IF n = m.sender THEN sentDone[n] \cup {m.time} ELSE sentDone[n]
    BY <1>4, <1>5
  <1>7. AllAnswered(m.time, done) => Executed(m.time)
    BY <1>3, AnsweredMeansExecuted
  <1>8. \/ /\ sentDone' = done
           /\ exec' = Idle \/ (Executed(m.time) /\ exec' = [at |-> "callback", time |-> m.time])
        \/ /\ sentDone' = [done EXCEPT ![Group] = @ \cup {m.time}]
           /\ Executed(m.time)
           /\ exec' = [at |-> "callback", time |-> m.time]
    BY <1>7 DEF ProcessResponse
  <1>9. /\ sentDone' \in [Node \cup {Group} -> SUBSET Submitted]
        /\ \A n \in Node : sentDone'[n] = done[n]
        /\ sentDone'[Group] = sentDone[Group] \/ (Executed(m.time) /\ sentDone'[Group] = sentDone[Group] \cup {m.time})
    <2> HIDE DEF done, m
    <2> QED
      BY <1>4, <1>6, <1>8
  <1>10. exec' = Idle \/ (Executed(m.time) /\ exec' = [at |-> "callback", time |-> m.time])
    BY <1>8
  <1> HIDE DEF m
  <1>11. TypeOK'
    BY <1>1, <1>2, <1>4, <1>9, <1>10 DEF ExecutorInv, TypeOK
  <1>12. TrafficInv'
    BY <1>1, <1>2, <1>10 DEF ExecutorInv, TrafficInv, Idle
  <1>13. TrackerInv'
    <2>1. \A n \in Node : \A ts \in sentDone'[n] : n \in sent'[ts].slices => ts \in recvDone'[n]
      BY <1>1, <1>4, <1>6, <1>9 DEF ExecutorInv, TrackerInv
    <2>2. \A ts \in sentDone'[Group] : Executed(ts)'
      BY <1>2, <1>9 DEF ExecutorInv, TrackerInv
    <2> QED
      BY <2>1, <2>2 DEF TrackerInv
  <1>14. FinishedInv'
    BY <1>1, <1>2, <1>10 DEF ExecutorInv, FinishedInv, Idle
  <1>15. NodesInv' /\ RequestInv'
    BY <1>1, <1>2 DEF ExecutorInv, NodesInv, RequestInv
  <1> QED
    BY <1>11, <1>12, <1>13, <1>14, <1>15 DEF ExecutorInv

LEMMA RunCallbackInv ==
    ASSUME ExecutorInv, RunCallback
    PROVE  ExecutorInv'
  <1> DEFINE ts == exec.time
  <1>1. /\ UNCHANGED <<time, group, alive, sentDone, app, recv, recvMsgs, up, recvDone, toNode, toMe, dups, waited>>
        /\ called' = IF sent[ts].callback THEN [called EXCEPT ![ts] = @ + 1] ELSE called
        /\ sent' = [sent EXCEPT ![ts].callback = FALSE]
        /\ exec' = [at |-> "notify"]
    BY DEF RunCallback, nodeVars, netVars
  <1>2. /\ TypeOK /\ RequestInv /\ TrafficInv /\ TrackerInv /\ FinishedInv
        /\ ts \in Submitted /\ exec.at = "callback"
    BY DEF ExecutorInv, TypeOK, RunCallback, Idle
  <1>3. Submitted \subseteq Time /\ Submitted' = Submitted /\ Message' = Message
    BY <1>1, <1>2, ExecutorAssumption DEF TypeOK, Submitted, Time, Message
  <1> HIDE DEF ts
  <1>4. /\ sent' \in [Time -> [recver : Node \cup {Group}, callback : BOOLEAN, slices : SUBSET Node]]
        /\ \A t \in Time : sent'[t].slices = sent[t].slices /\ sent'[t].recver = sent[t].recver
        /\ \A t \in Time : sent'[t].callback => t # ts /\ sent[t].callback
    <2> DEFINE Request == [recver : Node \cup {Group}, callback : BOOLEAN, slices : SUBSET Node]
               emptied == [sent[ts] EXCEPT !.callback = FALSE]
    <2>1. sent \in [Time -> Request] /\ ts \in Time
      BY <1>2, <1>3 DEF TypeOK
    <2>2. sent[ts] \in Request
      BY <2>1
    <2>3. /\ emptied \in Request /\ ~emptied.callback
          /\ emptied.slices = sent[ts].slices /\ emptied.recver = sent[ts].recver
      BY <2>2
    <2>4. sent' = [sent EXCEPT ![ts] = emptied]
      BY <1>1
    <2> HIDE DEF Request, emptied
    <2>5. sent' \in [Time -> Request] /\ sent'[ts] = emptied /\ \A t \in Time \ {ts} : sent'[t] = sent[t]
      BY <2>1, <2>3, <2>4
    <2>6. \A t \in Time : sent'[t].slices = sent[t].slices /\ sent'[t].recver = sent[t].recver
      BY <2>3, <2>5
    <2>7. \A t \in Time : sent'[t].callback => t # ts /\ sent[t].callback
      BY <2>3, <2>5, Zenon
    <2> QED
      BY <2>5, <2>6, <2>7 DEF Request
  <1>5. /\ called' \in [Time -> Nat]
        /\ \A t \in Time : called'[t] = called[t] \/ (t = ts /\ called[t] = 0 /\ called'[t] = 1)
    BY <1>1, <1>2, <1>3 DEF TypeOK, RequestInv
  <1>6. TypeOK'
    BY <1>1, <1>2, <1>3, <1>4, <1>5 DEF TypeOK
  <1>7. Monotone
    BY <1>1, <1>2, <1>3, <1>4 DEF Monotone, TypeOK
  <1>8. RequestInv'
    BY <1>2, <1>3, <1>4, <1>5 DEF RequestInv
  <1>9. TrafficInv'
    BY <1>1, <1>2, <1>6, <1>7, TrafficKept DEF TrafficInv
  <1>10. TrackerInv'
    <2>1. \A n \in Node : \A t \in sentDone'[n] : n \in sent'[t].slices => t \in recvDone'[n]
      BY <1>1, <1>2, <1>3, <1>4 DEF TypeOK, TrackerInv
    <2>2. ASSUME NEW t \in sentDone'[Group] PROVE Executed(t)'
      <3>1. t \in Submitted /\ Executed(t)
        BY <1>1, <1>2 DEF TypeOK, TrackerInv
      <3> QED
        BY <3>1, <1>2, <1>6, <1>7, MonotoneKeeps
    <2> QED
      BY <2>1, <2>2 DEF TrackerInv
  <1>11. FinishedInv'
    <2> SUFFICES ASSUME NEW t \in Submitted, t \in waited \/ called'[t] > 0
                 PROVE  Executed(t)'
      BY <1>1, <1>3 DEF FinishedInv
    <2>1. Executed(t)
      BY <1>2, <1>3, <1>5 DEF FinishedInv, ts
    <2> QED
      BY <2>1, <1>2, <1>6, <1>7, MonotoneKeeps
  <1>12. NodesInv'
    BY <1>1 DEF ExecutorInv, NodesInv
  <1> QED
    BY <1>6, <1>8, <1>9, <1>10, <1>11, <1>12 DEF ExecutorInv

LEMMA NotifyAllInv ==
    ASSUME ExecutorInv, NotifyAll
    PROVE  ExecutorInv'
  <1>1. UNCHANGED <<time, sent, group, alive, sentDone, recv, recvMsgs, up, recvDone, toNode, toMe, dups, called, waited>>
    BY DEF NotifyAll, reqVars, nodeVars, netVars, history
  <1>2. /\ Submitted' = Submitted /\ Message' = Message /\ Answers' = Answers
        /\ \A n : Asked(n)' = Asked(n) /\ Answered(n)' = Answered(n)
        /\ \A t : Executed(t)' <=> Executed(t)
    BY <1>1, Unmoved
  <1>3. exec' = Idle /\ app' \in {Running} \cup [at : {"check", "sleep"}, time : Submitted]
    <2>1. app \in {Running} \cup [at : {"check", "sleep"}, time : Submitted]
      BY DEF ExecutorInv, TypeOK
    <2>2. CASE app.at = "sleep"
      <3>1. app \in [at : {"check", "sleep"}, time : Submitted]
        BY <2>1, <2>2 DEF Running
      <3>2. app' = [app EXCEPT !.at = "check"]
        BY <2>2 DEF NotifyAll
      <3> QED
        BY <3>1, <3>2 DEF NotifyAll
    <2>3. CASE app.at # "sleep"
      BY <2>1, <2>3 DEF NotifyAll
    <2> QED
      BY <2>2, <2>3
  <1>4. TypeOK'
    BY <1>1, <1>2, <1>3 DEF ExecutorInv, TypeOK
  <1>5. NodesInv' /\ RequestInv' /\ TrackerInv'
    BY <1>1, <1>2 DEF ExecutorInv, NodesInv, RequestInv, TrackerInv
  <1>6. TrafficInv' /\ FinishedInv'
    BY <1>1, <1>2, <1>3 DEF ExecutorInv, TrafficInv, FinishedInv, Idle
  <1> QED
    BY <1>4, <1>5, <1>6 DEF ExecutorInv
-----------------------------------------------------------------------------
(* The remote nodes and the network                                        *)

LEMMA ServeRequestInv ==
    ASSUME ExecutorInv, NEW n \in Node, ServeRequest(n)
    PROVE  ExecutorInv'
  <1> DEFINE ts == Head(toNode[n])
  <1>1. /\ UNCHANGED <<time, sent, group, alive, sentDone, app, recv, recvMsgs, exec, up, dups, called, waited>>
        /\ recvDone' = [recvDone EXCEPT ![n] = @ \cup {ts}]
        /\ toMe' = IF ts \in recvDone[n] THEN toMe ELSE [toMe EXCEPT ![n] = Append(@, ts)]
        /\ toNode' = [toNode EXCEPT ![n] = Tail(@)]
        /\ toNode[n] # <<>>
    BY DEF ServeRequest, reqVars, nodeVars, history
  <1>2. /\ TypeOK /\ NodesInv /\ RequestInv /\ TrafficInv /\ TrackerInv /\ FinishedInv
        /\ toNode[n] \in Seq(Submitted) /\ toNode[n] \in Seq(Asked(n))
        /\ toMe[n] \in Seq(Submitted)
    BY DEF ExecutorInv, TypeOK, TrafficInv
  <1>3. /\ ts \in Submitted /\ ts \in Asked(n)
        /\ Tail(toNode[n]) \in Seq(Submitted) /\ Tail(toNode[n]) \in Seq(Asked(n))
    BY <1>1, <1>2, HeadTailProperties
  <1> HIDE DEF ts
  <1>4. /\ Submitted' = Submitted /\ Message' = Message
        /\ \A k : Asked(k)' = Asked(k)
    BY <1>1 DEF Submitted, Message, Asked
  <1>5. /\ recvDone' \in [Node -> SUBSET Submitted]
        /\ ts \in recvDone'[n]
        /\ \A k \in Node : recvDone[k] \subseteq recvDone'[k]
    BY <1>1, <1>2, <1>3 DEF TypeOK
  <1>6. toNode' \in [Node -> Seq(Submitted)] /\ \A k \in Node : toNode'[k] \in Seq(Asked(k))
    BY <1>1, <1>2, <1>3 DEF TypeOK, TrafficInv
  <1>7. Append(toMe[n], ts) \in Seq(Submitted)
    BY <1>2, <1>3, AppendProperties
  <1>8. toMe' \in [Node -> Seq(Submitted)]
    BY <1>1, <1>2, <1>7 DEF TypeOK
  <1>9. TypeOK'
    BY <1>1, <1>2, <1>4, <1>5, <1>6, <1>8 DEF TypeOK
  <1>10. Monotone
    BY <1>1, <1>2, <1>5 DEF Monotone, TypeOK
  <1>11. TrafficInv'
    <2>1. ASSUME NEW k \in Node PROVE toMe'[k] \in Seq(Answered(k)')
      <3>1. toMe[k] \in Seq(Answered(k)')
        BY <1>2, <1>9, <1>10, TrafficKept
      <3>2. ts \in Answered(n)'
        BY <1>3, <1>4, <1>5 DEF Answered
      <3>3. k = n => Append(toMe[k], ts) \in Seq(Answered(k)')
        BY <3>1, <3>2, AppendProperties
      <3> QED
        BY <1>1, <1>2, <3>1, <3>3 DEF TypeOK
    <2>2. recvMsgs' \in Seq(Answers')
      BY <1>1, <1>2, <1>9, <1>10, TrafficKept
    <2>3. exec'.at = "response" => exec'.msg \in Answers'
      BY <1>1, <1>2, <1>9, <1>10, MonotoneKeeps DEF TrafficInv
    <2> QED
      BY <1>4, <1>6, <2>1, <2>2, <2>3 DEF TrafficInv
  <1>12. TrackerInv'
    <2>1. \A k \in Node : \A t \in sentDone'[k] : k \in sent'[t].slices => t \in recvDone'[k]
      BY <1>1, <1>2, <1>5 DEF TypeOK, TrackerInv
    <2>2. ASSUME NEW t \in sentDone'[Group] PROVE Executed(t)'
      <3>1. t \in Submitted /\ Executed(t)
        BY <1>1, <1>2 DEF TypeOK, TrackerInv
      <3> QED
        BY <3>1, <1>2, <1>9, <1>10, MonotoneKeeps
    <2> QED
      BY <2>1, <2>2 DEF TrackerInv
  <1>13. FinishedInv'
    BY <1>1, <1>2, <1>4, <1>9, <1>10, MonotoneKeeps DEF FinishedInv
  <1>14. NodesInv' /\ RequestInv'
    BY <1>1, <1>2, <1>4 DEF NodesInv, RequestInv
  <1> QED
    BY <1>9, <1>11, <1>12, <1>13, <1>14 DEF ExecutorInv

LEMMA FaultsNat ==
    ASSUME up \subseteq Node, dups \in Nat
    PROVE  Faults \in Nat /\ dups <= Faults
  <1>1. IsFiniteSet(Node \ up)
    BY ExecutorAssumption, FS_Subset
  <1>2. Cardinality(Node \ up) \in Nat
    BY <1>1, FS_CardinalityType
  <1> QED
    BY <1>2 DEF Faults

LEMMA DuplicateInv ==
    ASSUME ExecutorInv, NEW n \in Node, Duplicate(n)
    PROVE  ExecutorInv'
  <1>1. UNCHANGED <<time, sent, group, alive, sentDone, app, recv, recvMsgs, exec, up, recvDone, called, waited>>
    BY DEF Duplicate, reqVars, nodeVars, history
  <1>2. /\ Submitted' = Submitted /\ Message' = Message /\ Answers' = Answers
        /\ \A k : Asked(k)' = Asked(k) /\ Answered(k)' = Answered(k)
        /\ \A t : Executed(t)' <=> Executed(t)
    BY <1>1, Unmoved
  <1>3. /\ TypeOK /\ TrafficInv
        /\ toNode[n] \in Seq(Submitted) /\ toNode[n] \in Seq(Asked(n))
        /\ toMe[n] \in Seq(Submitted) /\ toMe[n] \in Seq(Answered(n))
    BY DEF ExecutorInv, TypeOK, TrafficInv
  <1>4. dups' \in 0 .. MaxFault
    <2>1. dups \in Nat /\ up \subseteq Node
      BY <1>3 DEF TypeOK
    <2>2. Faults \in Nat /\ dups <= Faults
      BY <2>1, FaultsNat
    <2> QED
      BY <2>1, <2>2, ExecutorAssumption DEF Duplicate
  <1>5. /\ toNode' \in [Node -> Seq(Submitted)] /\ \A k \in Node : toNode'[k] \in Seq(Asked(k))
        /\ toMe' \in [Node -> Seq(Submitted)] /\ \A k \in Node : toMe'[k] \in Seq(Answered(k))
    <2>1. CASE \E i \in DOMAIN toNode[n] : toNode' = [toNode EXCEPT ![n] = Append(@, @[i])] /\ UNCHANGED toMe
      <3>1. PICK i \in DOMAIN toNode[n] : toNode' = [toNode EXCEPT ![n] = Append(@, @[i])] /\ UNCHANGED toMe
        BY <2>1
      <3>2. toNode[n][i] \in Submitted /\ toNode[n][i] \in Asked(n)
        BY <1>3, ElementOfSeq
      <3>3. Append(toNode[n], toNode[n][i]) \in Seq(Submitted) /\ Append(toNode[n], toNode[n][i]) \in Seq(Asked(n))
        BY <1>3, <3>2, AppendProperties
      <3> QED
        BY <1>3, <3>1, <3>3 DEF TypeOK, TrafficInv
    <2>2. CASE \E i \in DOMAIN toMe[n] : toMe' = [toMe EXCEPT ![n] = Append(@, @[i])] /\ UNCHANGED toNode
      <3>1. PICK i \in DOMAIN toMe[n] : toMe' = [toMe EXCEPT ![n] = Append(@, @[i])] /\ UNCHANGED toNode
        BY <2>2
      <3>2. toMe[n][i] \in Submitted /\ toMe[n][i] \in Answered(n)
        BY <1>3, ElementOfSeq
      <3>3. Append(toMe[n], toMe[n][i]) \in Seq(Submitted) /\ Append(toMe[n], toMe[n][i]) \in Seq(Answered(n))
        BY <1>3, <3>2, AppendProperties
      <3> QED
        BY <1>3, <3>1, <3>3 DEF TypeOK, TrafficInv
    <2> QED
      BY <2>1, <2>2 DEF Duplicate
  <1>6. TypeOK'
    BY <1>1, <1>2, <1>3, <1>4, <1>5 DEF TypeOK
  <1>7. TrafficInv'
    BY <1>1, <1>2, <1>3, <1>5 DEF TrafficInv
  <1>8. NodesInv' /\ RequestInv' /\ TrackerInv' /\ FinishedInv'
    BY <1>1, <1>2 DEF ExecutorInv, NodesInv, RequestInv, TrackerInv, FinishedInv
  <1> QED
    BY <1>6, <1>7, <1>8 DEF ExecutorInv

LEMMA FailInv ==
    ASSUME ExecutorInv, NEW n \in Node, Fail(n)
    PROVE  ExecutorInv'
  <1>1. /\ UNCHANGED <<time, sent, group, alive, sentDone, app, recv, recvMsgs, exec, recvDone, dups, called, waited>>
        /\ up' = up \ {n}
        /\ toNode' = [toNode EXCEPT ![n] = <<>>]
    BY DEF Fail, reqVars, nodeVars, history
  <1>2. /\ TypeOK /\ NodesInv /\ RequestInv /\ TrafficInv /\ TrackerInv /\ FinishedInv
        /\ toMe[n] \in Seq(Submitted) /\ toMe[n] \in Seq(Answered(n))
    BY DEF ExecutorInv, TypeOK, TrafficInv
  <1>3. /\ Submitted' = Submitted /\ Message' = Message
        /\ \A k : Asked(k)' = Asked(k) /\ Answered(k)' = Answered(k)
    BY <1>1 DEF Submitted, Message, Asked, Answered
  <1>4. Answers' = Answers
    BY <1>3 DEF Answers
  <1>5. PICK i \in 0 .. Len(toMe[n]) : toMe' = [toMe EXCEPT ![n] = SubSeq(@, 1, i)]
    BY DEF Fail
  <1>6. SubSeq(toMe[n], 1, i) \in Seq(Submitted) /\ SubSeq(toMe[n], 1, i) \in Seq(Answered(n))
    <2>1. /\ Len(toMe[n]) \in Nat /\ i \in Nat /\ i <= Len(toMe[n])
      BY <1>2, LenProperties
    <2>2. \A j \in 1 .. i : j \in 1 .. Len(toMe[n])
      BY <2>1
    <2> QED
      BY <1>2, <2>1, <2>2, SubSeqProperties
  <1>7. /\ toMe' \in [Node -> Seq(Submitted)] /\ \A k \in Node : toMe'[k] \in Seq(Answered(k))
        /\ toNode' \in [Node -> Seq(Submitted)] /\ \A k \in Node : toNode'[k] \in Seq(Asked(k))
    BY <1>1, <1>2, <1>5, <1>6 DEF TypeOK, TrafficInv
  <1>8. TypeOK'
    BY <1>1, <1>2, <1>3, <1>7 DEF TypeOK
  <1>9. Monotone
    BY <1>1, <1>2 DEF Monotone, TypeOK
  <1>10. TrafficInv'
    BY <1>1, <1>2, <1>3, <1>4, <1>7 DEF TrafficInv
  <1>11. TrackerInv' /\ FinishedInv'
    <2>1. \A t \in Submitted : Executed(t) => Executed(t)'
      BY <1>2, <1>8, <1>9, MonotoneKeeps
    <2> QED
      BY <1>1, <1>2, <1>3, <2>1 DEF TypeOK, TrackerInv, FinishedInv
  <1>12. NodesInv' /\ RequestInv'
    BY <1>1, <1>2, <1>3 DEF NodesInv, RequestInv
  <1> QED
    BY <1>8, <1>10, <1>11, <1>12 DEF ExecutorInv

LEMMA RemoveNodeInv ==
    ASSUME ExecutorInv, NEW n \in Node, RemoveGroupNode(n) \/ RemoveNode(n)
    PROVE  ExecutorInv'
  <1>1. UNCHANGED <<time, sent, sentDone, app, recv, recvMsgs, exec, up, recvDone, toNode, toMe, dups, called, waited>>
    BY DEF RemoveGroupNode, RemoveNode, reqVars, netVars, history
  <1>2. /\ Submitted' = Submitted /\ Message' = Message /\ Answers' = Answers
        /\ \A k : Asked(k)' = Asked(k) /\ Answered(k)' = Answered(k)
        /\ \A t : Executed(t)' <=> Executed(t)
    BY <1>1, Unmoved
  <1>3. group' \subseteq Node /\ alive' \in [Node -> BOOLEAN] /\ NodesInv'
    BY <1>1 DEF RemoveGroupNode, RemoveNode, ExecutorInv, TypeOK, NodesInv
  <1>4. TypeOK'
    BY <1>1, <1>2, <1>3 DEF ExecutorInv, TypeOK
  <1>5. RequestInv' /\ TrafficInv' /\ TrackerInv' /\ FinishedInv'
    BY <1>1, <1>2 DEF ExecutorInv, RequestInv, TrafficInv, TrackerInv, FinishedInv
  <1> QED
    BY <1>3, <1>4, <1>5 DEF ExecutorInv

LEMMA ExecutorStepInv == ExecutorInv /\ [Next]_vars => ExecutorInv'
  <1> SUFFICES ASSUME ExecutorInv, [Next]_vars PROVE ExecutorInv'
    OBVIOUS
  <1>1. CASE UNCHANGED vars
    <2>1. UNCHANGED <<time, sent, group, alive, sentDone, app, recv, recvMsgs, exec, up, recvDone, toNode, toMe, dups, called, waited>>
      BY <1>1 DEF vars, reqVars, nodeVars, netVars, history
    <2>2. /\ Submitted' = Submitted /\ Message' = Message /\ Answers' = Answers
          /\ \A k : Asked(k)' = Asked(k) /\ Answered(k)' = Answered(k)
          /\ \A t : Executed(t)' <=> Executed(t)
      BY <2>1, Unmoved
    <2> QED
      BY <2>1, <2>2 DEF ExecutorInv, TypeOK, NodesInv, RequestInv, TrafficInv, TrackerInv, FinishedInv
  <1>2. CASE Next
    BY <1>2, SubmitInv, WaitInv, WaitSentReqInv, AcceptInv, AcceptNotifyInv, PickActiveMsgInv,
       ProcessResponseInv, RunCallbackInv, NotifyAllInv, ServeRequestInv, DuplicateInv, FailInv,
       RemoveNodeInv DEF Next, ExecThread, RecvThread
  <1> QED
    BY <1>1, <1>2
-----------------------------------------------------------------------------
(* The inductive invariant holds: the threads, the trackers and what is    *)
(* under way between the nodes stay in step.                               *)
THEOREM ExecutorInvariant == Spec => []ExecutorInv
  BY ExecutorInitInv, ExecutorStepInv, PTL DEF Spec

(* The state of the executor has its type: every timestamp it keeps is one *)
(* of a request that was submitted.                                        *)
THEOREM ExecutorTypes == Spec => []TypeOK
  <1>1. ExecutorInv => TypeOK
    BY DEF ExecutorInv
  <1> QED
    BY ExecutorInvariant, <1>1, PTL

(* When Wait returns or a callback runs, every node that got a part of the *)
(* request and lives has processed it: however messages are repeated,      *)
(* nodes die, and Wait, RemoveNode and the executor thread interleave.     *)
THEOREM ExecutorFinished == Spec => []FinishedMeansExecuted
  <1>1. ExecutorInv => FinishedMeansExecuted
    BY DEF ExecutorInv, FinishedInv, FinishedMeansExecuted, Executed
  <1> QED
    BY ExecutorInvariant, <1>1, PTL

(* What was done once is in the trackers, and the answer that the executor *)
(* thread is about to process is not.                                      *)
OnceInv ==
    /\ served \in [Node -> [Time -> Nat]] /\ answered \in [Node -> [Time -> Nat]]
    /\ \A n \in Node, ts \in Time :
          /\ served[n][ts] \in {0, 1} /\ (served[n][ts] = 1 => ts \in recvDone[n])
          /\ answered[n][ts] \in {0, 1} /\ (answered[n][ts] = 1 => ts \in sentDone[n])
    /\ exec.at = "response" => exec.msg.time \notin sentDone[exec.msg.sender]

LEMMA OnceInitInv == Init => OnceInv
  BY DEF Init, OnceInv, Idle

(* Steps that process nothing, and after which the trackers have no less.  *)
LEMMA OnceKept ==
    ASSUME TypeOK, OnceInv, UNCHANGED onceVars,
           \A n \in Node : recvDone[n] \subseteq recvDone'[n] /\ sentDone[n] \subseteq sentDone'[n],
           exec'.at = "response" => exec'.msg.time \notin sentDone'[exec'.msg.sender]
    PROVE  OnceInv'
  BY DEF OnceInv, onceVars

LEMMA OnceStepInv == ExecutorInv /\ OnceInv /\ [Next]_vars => OnceInv'
  <1> SUFFICES ASSUME ExecutorInv, OnceInv, [Next]_vars PROVE OnceInv'
    OBVIOUS
  <1>t. TypeOK /\ (exec.at = "response" => exec.msg \in Message)
    BY DEF ExecutorInv, TypeOK, Idle
  <1>1. ASSUME NEW recver \in Node \cup {Group}, NEW slices \in SUBSET Node, Submit(recver, slices)
        PROVE  OnceInv'
    <2>1. UNCHANGED <<onceVars, recvDone, exec>>
      BY <1>1 DEF Submit, history
    <2>2. \A n \in Node : sentDone'[n] = sentDone[n] \/ sentDone'[n] = sentDone[n] \cup {time}
      BY <1>1, <1>t DEF Submit, MarkUnsent, TypeOK
    <2>3. time \notin Submitted
      BY <1>t, ExecutorAssumption DEF TypeOK, Submitted
    <2>4. exec.at = "response" => exec.msg.time \notin sentDone'[exec.msg.sender]
      BY <1>t, <2>2, <2>3 DEF OnceInv, Message
    <2> QED
      BY <1>t, <2>1, <2>2, <2>4, OnceKept
  <1>2. CASE ProcessResponse
    <2> DEFINE m == exec.msg
    <2>1. m \in Message /\ m.time \notin sentDone[m.sender] /\ m.sender \in Node /\ m.time \in Time
      <3>1. m \in Message /\ m.time \notin sentDone[m.sender]
        BY <1>2, <1>t DEF ProcessResponse, OnceInv
      <3>2. Submitted \subseteq Time
        BY <1>t, ExecutorAssumption DEF TypeOK, Submitted, Time
      <3> QED
        BY <3>1, <3>2 DEF Message
    <2>2. /\ answered' = [answered EXCEPT ![m.sender][m.time] = @ + 1]
          /\ UNCHANGED <<served, recvDone>> /\ exec'.at # "response"
      BY <1>2 DEF ProcessResponse, Idle, netVars
    <2>3. m.time \in sentDone'[m.sender] /\ \A n \in Node : sentDone[n] \subseteq sentDone'[n]
      <3>1. sentDone \in [Node \cup {Group} -> SUBSET Submitted]
        BY <1>t DEF TypeOK
      <3>2. \/ sentDone' = [sentDone EXCEPT ![m.sender] = @ \cup {m.time}]
            \/ sentDone' = [[sentDone EXCEPT ![m.sender] = @ \cup {m.time}] EXCEPT ![Group] = @ \cup {m.time}]
        BY <1>2 DEF ProcessResponse
      <3> HIDE DEF m
      <3> QED
        BY <2>1, <3>1, <3>2, ExecutorAssumption
    <2>4. answered[m.sender][m.time] = 0
      BY <2>1 DEF OnceInv
    <2>5. \A n \in Node, ts \in Time : answered'[n][ts] = IF n = m.sender /\ ts = m.time THEN 1 ELSE answered[n][ts]
      BY <2>1, <2>2, <2>4 DEF OnceInv
    <2>6. answered' \in [Node -> [Time -> Nat]]
      BY <2>1, <2>2, <2>4 DEF OnceInv
    <2> HIDE DEF m
    <2> QED
      BY <2>2, <2>3, <2>5, <2>6 DEF OnceInv
  <1>3. ASSUME NEW n \in Node, ServeRequest(n) PROVE OnceInv'
    <2> DEFINE ts == Head(toNode[n])
    <2>1. ts \in Time
      <3>1. toNode[n] \in Seq(Submitted) /\ toNode[n] # <<>>
        BY <1>3, <1>t DEF ServeRequest, TypeOK
      <3>2. ts \in Submitted
        BY <3>1, HeadTailProperties
      <3>3. Submitted \subseteq Time
        BY <1>t, ExecutorAssumption DEF TypeOK, Submitted, Time
      <3> QED
        BY <3>2, <3>3
    <2>2. /\ UNCHANGED <<answered, sentDone, exec>>
          /\ served' = IF ts \in recvDone[n] THEN served ELSE [served EXCEPT ![n][ts] = @ + 1]
          /\ recvDone' = [recvDone EXCEPT ![n] = @ \cup {ts}]
      BY <1>3 DEF ServeRequest
    <2> HIDE DEF ts
    <2>3. ts \in recvDone'[n] /\ \A k \in Node : recvDone[k] \subseteq recvDone'[k]
      BY <1>t, <2>2 DEF TypeOK
    <2>4. CASE ts \in recvDone[n]
      BY <1>t, <2>2, <2>3, <2>4 DEF OnceInv
    <2>5. CASE ts \notin recvDone[n]
      <3>1. served[n][ts] = 0
        BY <2>1, <2>5 DEF OnceInv
      <3>2. \A k \in Node, t \in Time : served'[k][t] = IF k = n /\ t = ts THEN 1 ELSE served[k][t]
        BY <2>1, <2>2, <2>5, <3>1 DEF OnceInv
      <3>3. served' \in [Node -> [Time -> Nat]]
        BY <2>1, <2>2, <2>5, <3>1 DEF OnceInv
      <3> QED
        BY <2>2, <2>3, <3>2, <3>3 DEF OnceInv
    <2> QED
      BY <2>4, <2>5
  <1>4. CASE PickActiveMsg
    <2>1. UNCHANGED <<onceVars, recvDone, sentDone>>
      BY <1>4 DEF PickActiveMsg, history, netVars
    <2>2. exec'.at = "response" => exec'.msg.time \notin sentDone[exec'.msg.sender]
      BY <1>4 DEF PickActiveMsg, Ignored, Idle
    <2> QED
      BY <1>t, <2>1, <2>2, OnceKept
  <1>5. CASE UNCHANGED vars \/ WaitSentReq \/ RecvThread \/ RunCallback \/ NotifyAll
             \/ (\E ts \in Time : Wait(ts))
             \/ (\E n \in Node : Duplicate(n) \/ Fail(n) \/ RemoveGroupNode(n) \/ RemoveNode(n))
    <2> SUFFICES UNCHANGED <<onceVars, recvDone, sentDone>> /\ (exec' = exec \/ exec'.at # "response")
      BY <1>t, OnceKept DEF OnceInv
    <2>a. CASE UNCHANGED vars \/ WaitSentReq \/ (\E ts \in Time : Wait(ts))
      BY <2>a DEF vars, history, netVars, WaitSentReq, Wait
    <2>b1. CASE \E n \in Node : Accept(n)
      BY <2>b1 DEF history, netVars, Accept
    <2>b2. CASE AcceptNotify
      BY <2>b2 DEF history, netVars, AcceptNotify
    <2>b. CASE RecvThread
      BY <2>b, <2>b1, <2>b2 DEF RecvThread
    <2>c. CASE RunCallback \/ NotifyAll
      BY <2>c DEF netVars, history, RunCallback, NotifyAll, Idle
    <2>d. CASE \E n \in Node : Duplicate(n) \/ Fail(n)
      BY <2>d DEF history, Duplicate, Fail
    <2>e. CASE \E n \in Node : RemoveGroupNode(n) \/ RemoveNode(n)
      BY <2>e DEF history, netVars, RemoveGroupNode, RemoveNode
    <2> QED
      BY <1>5, <2>a, <2>b, <2>c, <2>d, <2>e
  <1> QED
    BY <1>1, <1>2, <1>3, <1>4, <1>5 DEF Next, ExecThread

(* A callback runs at most once, a node processes a request at most once,  *)
(* and its answer is processed at most once, however messages are          *)
(* repeated, nodes die and groups become complete.                         *)
THEOREM ExecutorOnce == Spec => []DoneOnce
  <1>1. ExecutorInv /\ OnceInv => DoneOnce
    BY DEF ExecutorInv, RequestInv, OnceInv, DoneOnce
  <1>2. Spec => []OnceInv
    BY ExecutorInvariant, OnceInitInv, OnceStepInv, PTL DEF Spec
  <1> QED
    BY ExecutorInvariant, <1>1, <1>2, PTL
=============================================================================
