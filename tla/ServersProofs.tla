--------------------------- MODULE ServersProofs ---------------------------
(***************************************************************************)
(* The cluster starts and ends together: for any number of workers and     *)
(* servers, and whichever processes die when.  That nobody is made to      *)
(* leave because a worker died holds with processes that a tracker starts  *)
(* for dead ones, too; the rest is about clusters without them.            *)
(***************************************************************************)
EXTENDS MCServers, FiniteSetTheorems, SequenceTheorems, TLAPS

Nodes == C!Nodes
Procs == C!Procs

\* The instance counts as this module does.
LEMMA SameCardinality == \A S : C!Cardinality(S) = Cardinality(S)
  BY DEF C!Cardinality, Cardinality, C!IsFiniteSet, IsFiniteSet
-----------------------------------------------------------------------------
(***************************************************************************)
(* The messages of a channel, and those behind the first one.              *)
(***************************************************************************)
Msgs(q) == {q[i] : i \in 1 .. Len(q)}
Behind(q) == {q[i] : i \in 2 .. Len(q)}

LEMMA NoMsgs == Msgs(<< >>) = {} /\ Behind(<< >>) = {}
  BY DEF Msgs, Behind

LEMMA OneMsg == \A m : Msgs(<<m>>) = {m} /\ Behind(<<m>>) = {}
  BY DEF Msgs, Behind

LEMMA TakeMsg ==
    ASSUME NEW S, NEW q \in Seq(S), q # << >>
    PROVE  /\ Tail(q) \in Seq(S) /\ Head(q) \in Msgs(q) /\ Head(q) \in S
           /\ Msgs(Tail(q)) = Behind(q) /\ Behind(Tail(q)) \subseteq Behind(q)
           /\ Msgs(q) = {Head(q)} \cup Behind(q)
<1>1. Len(q) \in Nat \ {0} /\ Tail(q) \in Seq(S) /\ Head(q) = q[1] /\ Head(q) \in S
  OBVIOUS
<1>2. Len(Tail(q)) = Len(q) - 1 /\ \A i \in 1 .. Len(q) - 1 : Tail(q)[i] = q[i + 1]
  OBVIOUS
<1>3. Msgs(Tail(q)) = {q[i + 1] : i \in 1 .. Len(q) - 1}
  BY <1>2 DEF Msgs
<1>4. {q[i + 1] : i \in 1 .. Len(q) - 1} = Behind(q)
  <2>1. \A i \in 1 .. Len(q) - 1 : i + 1 \in 2 .. Len(q)
    BY <1>1
  <2>2. \A i \in 2 .. Len(q) : i - 1 \in 1 .. Len(q) - 1 /\ (i - 1) + 1 = i
    BY <1>1
  <2>. QED  BY <2>1, <2>2 DEF Behind
<1>5. Behind(Tail(q)) \subseteq Msgs(Tail(q))
  BY <1>1 DEF Behind, Msgs
<1>6. Msgs(q) = {Head(q)} \cup Behind(q)
  <2>1. 1 .. Len(q) = {1} \cup (2 .. Len(q))
    BY <1>1
  <2>. QED  BY <1>1, <2>1 DEF Behind, Msgs
<1>. QED  BY <1>1, <1>3, <1>4, <1>5, <1>6

LEMMA AppendMsg ==
    ASSUME NEW S, NEW q \in Seq(S), NEW m \in S
    PROVE  /\ Append(q, m) \in Seq(S) /\ Append(q, m) # << >>
           /\ Msgs(Append(q, m)) = Msgs(q) \cup {m}
           /\ Behind(Append(q, m)) \subseteq Behind(q) \cup {m}
<1>1. /\ Len(q) \in Nat /\ Append(q, m) \in Seq(S) /\ Append(q, m) # << >>
      /\ Len(Append(q, m)) = Len(q) + 1
  OBVIOUS
<1>2. (\A i \in 1 .. Len(q) : Append(q, m)[i] = q[i]) /\ Append(q, m)[Len(q) + 1] = m
  OBVIOUS
<1>3. 1 .. Len(q) + 1 = (1 .. Len(q)) \cup {Len(q) + 1}
  BY <1>1
<1>4. Msgs(Append(q, m)) = Msgs(q) \cup {m}
  BY <1>1, <1>2, <1>3 DEF Msgs
<1>5. 2 .. Len(q) + 1 \subseteq (2 .. Len(q)) \cup {Len(q) + 1} /\ 2 .. Len(q) \subseteq 1 .. Len(q)
  BY <1>1
<1>6. Behind(Append(q, m)) \subseteq Behind(q) \cup {m}
  BY <1>1, <1>2, <1>5 DEF Behind
<1>. QED  BY <1>1, <1>4, <1>6

LEMMA ConcatMsgs ==
    ASSUME NEW S, NEW q \in Seq(S), NEW m \in S, NEW k \in Nat
    PROVE  /\ q \o [i \in 1 .. k |-> m] \in Seq(S)
           /\ Msgs(q \o [i \in 1 .. k |-> m]) \subseteq Msgs(q) \cup (IF k = 0 THEN {} ELSE {m})
           /\ Behind(q \o [i \in 1 .. k |-> m]) \subseteq Behind(q) \cup (IF k = 0 THEN {} ELSE {m})
<1>. DEFINE t == [i \in 1 .. k |-> m]
            s == q \o t
<1>1. t \in Seq(S) /\ Len(t) = k /\ \A i \in 1 .. k : t[i] = m
  OBVIOUS
<1>. HIDE DEF t
<1>2. s \in Seq(S) /\ Len(s) = Len(q) + k /\ Len(q) \in Nat
  BY <1>1
<1>3. \A i \in 1 .. Len(s) : s[i] = IF i <= Len(q) THEN q[i] ELSE t[i - Len(q)]
  BY <1>1, <1>2
<1>. HIDE DEF s
<1>4. \A i \in 1 .. Len(s) : (i \in 1 .. Len(q) /\ s[i] = q[i]) \/ (k # 0 /\ s[i] = m)
  BY <1>1, <1>2, <1>3
<1>5. Msgs(s) \subseteq Msgs(q) \cup (IF k = 0 THEN {} ELSE {m})
  BY <1>4 DEF Msgs
<1>6. \A i \in 2 .. Len(s) : i \in 1 .. Len(s) /\ (i \in 1 .. Len(q) => i \in 2 .. Len(q))
  BY <1>2
<1>7. Behind(s) \subseteq Behind(q) \cup (IF k = 0 THEN {} ELSE {m})
  BY <1>4, <1>6 DEF Behind
<1>. QED  BY <1>2, <1>5, <1>7 DEF s, t
-----------------------------------------------------------------------------
(***************************************************************************)
(* Types.  Flags are left out: the provers take them as they come.         *)
(***************************************************************************)
ProcFields == {"pc", "nodes", "senders", "inited", "done", "held"}
SchedFields == {"active", "alive", "unknown", "inExit", "serverRank", "workerRank", "fds", "gone", "rank"}
UpMsg == [cmd : {"REGISTER_NODE", "READY_TO_RUN", "READY_TO_EXIT"}]
DownMsg == [cmd : {"READY_TO_RUN", "EXIT"}] \cup [cmd : {"ADD_NODE"}, nodes : SUBSET Procs]
              \cup [cmd : {"REMOVE_NODE"}, node : Nodes]
Pcs == {"off", "wait", "app", "stop", "bye", "end", "dead", "forced"}

IsFcn(f, S) == f = [x \in S |-> f[x]]

ProcOK ==
    /\ IsFcn(proc, Procs)
    /\ \A n \in Procs : IsFcn(proc[n], ProcFields)
    /\ \A n \in Procs : proc[n].pc \in Pcs /\ proc[n].nodes \subseteq Procs

SchedOK ==
    /\ IsFcn(sched, SchedFields)
    /\ sched.active \subseteq Nodes
    /\ sched.rank \in [Nodes -> Int] /\ sched.serverRank \in Nat /\ sched.workerRank \in Nat

ChanOK == up \in [Nodes -> Seq(UpMsg)] /\ down \in [Nodes -> Seq(DownMsg)] /\ unseen \subseteq Nodes

ClusterTypeOK == ProcOK /\ SchedOK /\ ChanOK

\* What a step may leave as it is.
PcSame == \A m \in Procs : proc'[m].pc = proc[m].pc
PcSet(n, pc) == \A m \in Procs : proc'[m].pc = IF m = n THEN pc ELSE proc[m].pc
NodesSame == \A m \in Procs : proc'[m].nodes = proc[m].nodes /\ proc'[m].senders = proc[m].senders
InitedSame == \A m \in Procs : proc'[m].inited = proc[m].inited
DoneSame == \A m \in Procs : proc'[m].done = proc[m].done
DownLess == \A m \in Nodes : Msgs(down'[m]) \subseteq Msgs(down[m])
Told(ns, msg) ==
    \A m \in Nodes : /\ Msgs(down'[m]) \subseteq Msgs(down[m]) \cup {msg}
                     /\ m \notin ns => Msgs(down'[m]) \subseteq Msgs(down[m])
UpSame == up' = up
Taken(n) ==
    /\ \A m \in Nodes : m # n => up'[m] = up[m]
    /\ Msgs(up'[n]) = Behind(up[n]) /\ Behind(up'[n]) \subseteq Behind(up[n])
    /\ Msgs(up[n]) = {Head(up[n])} \cup Behind(up[n])

LEMMA NodesProcs == Nodes \subseteq Procs /\ H \in Procs /\ H \notin Nodes /\ Procs = Nodes \cup {H}
                    /\ WorkerIds \subseteq Nodes /\ ServerIds \subseteq Nodes
                    /\ Nodes = WorkerIds \cup ServerIds
  BY ClusterAssumption DEF Nodes, Procs, C!Nodes, C!Procs

LEMMA NoSameRoleH == \A n : ~C!SameRole(n, H) /\ ~C!SameRole(H, n)
  BY ClusterAssumption DEF C!SameRole

LEMMA MessageTypes ==
    /\ \A c \in {"REGISTER_NODE", "READY_TO_RUN", "READY_TO_EXIT"} : [cmd |-> c] \in UpMsg
    /\ \A c \in {"READY_TO_RUN", "EXIT"} : [cmd |-> c] \in DownMsg
    /\ \A ns \in SUBSET Procs : [cmd |-> "ADD_NODE", nodes |-> ns] \in DownMsg
    /\ \A n \in Nodes : [cmd |-> "REMOVE_NODE", node |-> n] \in DownMsg
  BY DEF UpMsg, DownMsg

LEMMA BroadcastEffect ==
    ASSUME ChanOK, NEW ns, NEW msg \in DownMsg, down' = C!Broadcast(ns, msg)
    PROVE  down' \in [Nodes -> Seq(DownMsg)] /\ Told(ns, msg)
<1>1. \A m \in Nodes : down[m] \in Seq(DownMsg)
  BY DEF ChanOK
<1>2. down' = [m \in Nodes |-> IF m \in ns /\ ~C!Ended(m) THEN Append(down[m], msg) ELSE down[m]]
  BY DEF C!Broadcast, Nodes
<1>3. ASSUME NEW m \in Nodes
      PROVE  /\ down'[m] \in Seq(DownMsg)
             /\ Msgs(down'[m]) \subseteq Msgs(down[m]) \cup {msg}
             /\ m \notin ns => Msgs(down'[m]) \subseteq Msgs(down[m])
  <2>1. Append(down[m], msg) \in Seq(DownMsg) /\ Msgs(Append(down[m], msg)) = Msgs(down[m]) \cup {msg}
    BY <1>1, AppendMsg
  <2>2. \/ down'[m] = Append(down[m], msg) /\ m \in ns
        \/ down'[m] = down[m]
    BY <1>2
  <2>. QED  BY <1>1, <2>1, <2>2
<1>. QED  BY <1>2, <1>3 DEF Told

LEMMA LeavesEffect ==
    ASSUME ProcOK, ChanOK, NEW n \in Procs, NEW how \in Pcs, C!Leaves(n, how)
    PROVE  /\ ProcOK' /\ PcSet(n, how) /\ NodesSame /\ InitedSame /\ DoneSame
           /\ down' \in [Nodes -> Seq(DownMsg)] /\ DownLess
           /\ unseen' \subseteq Nodes /\ unseen' \subseteq unseen \cup {n}
<1>1. /\ IsFcn(proc', Procs)
      /\ \A m \in Procs : IsFcn(proc'[m], ProcFields)
      /\ \A m \in Procs : proc'[m].pc = IF m = n THEN how ELSE proc[m].pc
      /\ \A m \in Procs : proc'[m].nodes = proc[m].nodes /\ proc'[m].senders = proc[m].senders
      /\ \A m \in Procs : proc'[m].inited = proc[m].inited /\ proc'[m].done = proc[m].done
  BY DEF ProcOK, C!Leaves, ProcFields, IsFcn
<1>2. ProcOK'
  BY <1>1 DEF ProcOK
<1>3. down' = [m \in Nodes |-> IF m = n THEN << >> ELSE down[m]]
  BY DEF C!Leaves, Nodes
<1>4. << >> \in Seq(DownMsg)
  OBVIOUS
<1>5. \A m \in Nodes : down'[m] \in Seq(DownMsg) /\ Msgs(down'[m]) \subseteq Msgs(down[m])
  BY <1>3, <1>4, NoMsgs DEF ChanOK
<1>6. unseen' \subseteq Nodes /\ unseen' \subseteq unseen \cup {n}
  BY NodesProcs DEF C!Leaves, ChanOK
<1>. QED
  BY <1>1, <1>2, <1>3, <1>5, <1>6 DEF PcSet, NodesSame, InitedSame, DoneSame, DownLess

LEMMA ReceivesEffect ==
    ASSUME ChanOK, NEW n \in Nodes, NEW cmd \in {"REGISTER_NODE", "READY_TO_RUN", "READY_TO_EXIT"},
           C!Receives(n, cmd)
    PROVE  /\ up' \in [Nodes -> Seq(UpMsg)] /\ Taken(n)
           /\ Head(up[n]).cmd = cmd /\ Head(up[n]) \in Msgs(up[n]) /\ C!Running(H)
<1>1. up[n] \in Seq(UpMsg) /\ up[n] # << >> /\ up' = [up EXCEPT ![n] = Tail(@)]
  BY DEF C!Receives, ChanOK
<1>2. /\ Tail(up[n]) \in Seq(UpMsg) /\ Head(up[n]) \in Msgs(up[n])
      /\ Msgs(Tail(up[n])) = Behind(up[n]) /\ Behind(Tail(up[n])) \subseteq Behind(up[n])
      /\ Msgs(up[n]) = {Head(up[n])} \cup Behind(up[n])
  BY <1>1, TakeMsg
<1>3. up' \in [Nodes -> Seq(UpMsg)] /\ up'[n] = Tail(up[n]) /\ \A m \in Nodes : m # n => up'[m] = up[m]
  BY <1>1, <1>2 DEF ChanOK
<1>. QED  BY <1>2, <1>3 DEF Taken, C!Receives

LEMMA DeliversEffect ==
    ASSUME ChanOK, NEW n \in Nodes, NEW cmd, C!Delivers(n, cmd), down' = [down EXCEPT ![n] = Tail(@)]
    PROVE  down' \in [Nodes -> Seq(DownMsg)] /\ DownLess
<1>1. down[n] \in Seq(DownMsg) /\ down[n] # << >>
  BY DEF C!Delivers, ChanOK
<1>2. Tail(down[n]) \in Seq(DownMsg) /\ Msgs(Tail(down[n])) \subseteq Msgs(down[n])
  BY <1>1, TakeMsg
<1>3. down' \in [Nodes -> Seq(DownMsg)] /\ down'[n] = Tail(down[n]) /\ \A m \in Nodes : m # n => down'[m] = down[m]
  BY <1>1, <1>2 DEF ChanOK
<1>. QED  BY <1>2, <1>3 DEF DownLess

LEMMA DeliveredMsg ==
    ASSUME ChanOK, NEW n \in Nodes, NEW cmd, C!Delivers(n, cmd)
    PROVE  Head(down[n]) \in Msgs(down[n]) /\ Head(down[n]) \in DownMsg /\ Head(down[n]).cmd = cmd
<1>1. down[n] \in Seq(DownMsg) /\ down[n] # << >>
  BY DEF C!Delivers, ChanOK
<1>. QED  BY <1>1, TakeMsg DEF C!Delivers
-----------------------------------------------------------------------------
(***************************************************************************)
(* What each action does to the fields.                                    *)
(***************************************************************************)
LEMMA PcEffect ==
    ASSUME ProcOK, NEW n \in Procs, NEW how \in Pcs, proc' = [proc EXCEPT ![n].pc = how]
    PROVE  ProcOK' /\ PcSet(n, how) /\ NodesSame /\ InitedSame /\ DoneSame
<1>1. /\ IsFcn(proc', Procs)
      /\ \A m \in Procs : IsFcn(proc'[m], ProcFields)
      /\ \A m \in Procs : proc'[m].pc = IF m = n THEN how ELSE proc[m].pc
      /\ \A m \in Procs : proc'[m].nodes = proc[m].nodes /\ proc'[m].senders = proc[m].senders
      /\ \A m \in Procs : proc'[m].inited = proc[m].inited /\ proc'[m].done = proc[m].done
  BY DEF ProcOK, ProcFields, IsFcn
<1>2. ProcOK'
  BY <1>1 DEF ProcOK
<1>. QED  BY <1>1, <1>2 DEF PcSet, NodesSame, InitedSame, DoneSame

LEMMA InitedEffect ==
    ASSUME ProcOK, NEW n \in Procs, NEW v, proc' = [proc EXCEPT ![n].inited = v]
    PROVE  /\ ProcOK' /\ PcSame /\ NodesSame /\ DoneSame
           /\ proc'[n].inited = v /\ \A m \in Procs : m # n => proc'[m].inited = proc[m].inited
<1>1. /\ IsFcn(proc', Procs)
      /\ \A m \in Procs : IsFcn(proc'[m], ProcFields)
      /\ \A m \in Procs : proc'[m].pc = proc[m].pc
      /\ \A m \in Procs : proc'[m].nodes = proc[m].nodes /\ proc'[m].senders = proc[m].senders
      /\ \A m \in Procs : proc'[m].done = proc[m].done
      /\ proc'[n].inited = v /\ \A m \in Procs : m # n => proc'[m].inited = proc[m].inited
  BY DEF ProcOK, ProcFields, IsFcn
<1>2. ProcOK'
  BY <1>1 DEF ProcOK
<1>. QED  BY <1>1, <1>2 DEF PcSame, NodesSame, DoneSame

LEMMA DoneEffect ==
    ASSUME ProcOK, NEW n \in Procs, proc' = [proc EXCEPT ![n].done = TRUE]
    PROVE  /\ ProcOK' /\ PcSame /\ NodesSame /\ InitedSame
           /\ proc'[n].done /\ \A m \in Procs : m # n => proc'[m].done = proc[m].done
<1>1. /\ IsFcn(proc', Procs)
      /\ \A m \in Procs : IsFcn(proc'[m], ProcFields)
      /\ \A m \in Procs : proc'[m].pc = proc[m].pc
      /\ \A m \in Procs : proc'[m].nodes = proc[m].nodes /\ proc'[m].senders = proc[m].senders
      /\ \A m \in Procs : proc'[m].inited = proc[m].inited
      /\ proc'[n].done /\ \A m \in Procs : m # n => proc'[m].done = proc[m].done
  BY DEF ProcOK, ProcFields, IsFcn
<1>2. ProcOK'
  BY <1>1 DEF ProcOK
<1>. QED  BY <1>1, <1>2 DEF PcSame, NodesSame, InitedSame

LEMMA HeldEffect ==
    ASSUME ProcOK, NEW n \in Procs, proc' = [proc EXCEPT ![n].held = TRUE]
    PROVE  ProcOK' /\ PcSame /\ NodesSame /\ InitedSame /\ DoneSame
<1>1. /\ IsFcn(proc', Procs)
      /\ \A m \in Procs : IsFcn(proc'[m], ProcFields)
      /\ \A m \in Procs : proc'[m].pc = proc[m].pc
      /\ \A m \in Procs : proc'[m].nodes = proc[m].nodes /\ proc'[m].senders = proc[m].senders
      /\ \A m \in Procs : proc'[m].inited = proc[m].inited /\ proc'[m].done = proc[m].done
  BY DEF ProcOK, ProcFields, IsFcn
<1>2. ProcOK'
  BY <1>1 DEF ProcOK
<1>. QED  BY <1>1, <1>2 DEF PcSame, NodesSame, InitedSame, DoneSame

LEMMA NodesEffect ==
    ASSUME ProcOK, NEW n \in Procs, NEW ns \in SUBSET Procs, NEW ss,
           proc' = [proc EXCEPT ![n].nodes = ns, ![n].senders = ss]
    PROVE  /\ ProcOK' /\ PcSame /\ InitedSame /\ DoneSame
           /\ proc'[n].nodes = ns /\ proc'[n].senders = ss
           /\ \A m \in Procs : m # n => proc'[m].nodes = proc[m].nodes /\ proc'[m].senders = proc[m].senders
<1>. DEFINE p == [proc EXCEPT ![n].nodes = ns]
<1>1. IsFcn(p, Procs) /\ \A m \in Procs : IsFcn(p[m], ProcFields)
  BY DEF ProcOK, ProcFields, IsFcn
<1>2. /\ \A m \in Procs : p[m].pc = proc[m].pc /\ p[m].senders = proc[m].senders
      /\ \A m \in Procs : p[m].inited = proc[m].inited /\ p[m].done = proc[m].done
      /\ p[n].nodes = ns /\ \A m \in Procs : m # n => p[m].nodes = proc[m].nodes
  BY DEF ProcOK, ProcFields, IsFcn
<1>3. proc' = [p EXCEPT ![n].senders = ss]
  OBVIOUS
<1>. HIDE DEF p
<1>4. /\ IsFcn(proc', Procs)
      /\ \A m \in Procs : IsFcn(proc'[m], ProcFields)
  BY <1>1, <1>3 DEF ProcFields, IsFcn
<1>5. /\ \A m \in Procs : proc'[m].pc = p[m].pc /\ proc'[m].nodes = p[m].nodes
      /\ \A m \in Procs : proc'[m].inited = p[m].inited /\ proc'[m].done = p[m].done
      /\ proc'[n].senders = ss /\ \A m \in Procs : m # n => proc'[m].senders = p[m].senders
  BY <1>1, <1>3 DEF ProcFields, IsFcn
<1>6. /\ \A m \in Procs : proc'[m].pc = proc[m].pc
      /\ \A m \in Procs : proc'[m].inited = proc[m].inited /\ proc'[m].done = proc[m].done
      /\ proc'[n].nodes = ns /\ proc'[n].senders = ss
      /\ \A m \in Procs : m # n => proc'[m].nodes = proc[m].nodes /\ proc'[m].senders = proc[m].senders
  BY <1>2, <1>5
<1>7. \A m \in Procs : proc'[m].pc \in Pcs /\ proc'[m].nodes \subseteq Procs
  BY <1>6 DEF ProcOK
<1>8. ProcOK'
  BY <1>4, <1>7 DEF ProcOK
<1>. QED  BY <1>6, <1>8 DEF PcSame, InitedSame, DoneSame

LEMMA FewerNodesEffect ==
    ASSUME ProcOK, NEW n \in Procs, NEW k, proc' = [proc EXCEPT ![n].nodes = @ \ {k}]
    PROVE  /\ ProcOK' /\ PcSame /\ InitedSame /\ DoneSame
           /\ proc'[n].nodes = proc[n].nodes \ {k} /\ proc'[n].senders = proc[n].senders
           /\ \A m \in Procs : m # n => proc'[m].nodes = proc[m].nodes /\ proc'[m].senders = proc[m].senders
<1>1. /\ IsFcn(proc', Procs)
      /\ \A m \in Procs : IsFcn(proc'[m], ProcFields)
      /\ \A m \in Procs : proc'[m].pc = proc[m].pc
      /\ \A m \in Procs : proc'[m].inited = proc[m].inited /\ proc'[m].done = proc[m].done
      /\ proc'[n].nodes = proc[n].nodes \ {k} /\ proc'[n].senders = proc[n].senders
      /\ \A m \in Procs : m # n => proc'[m].nodes = proc[m].nodes /\ proc'[m].senders = proc[m].senders
  BY DEF ProcOK, ProcFields, IsFcn
<1>2. ProcOK'
  BY <1>1 DEF ProcOK
<1>. QED  BY <1>1, <1>2 DEF PcSame, InitedSame, DoneSame

LEMMA StartEffect ==
    ASSUME ClusterTypeOK, NEW n \in Nodes, C!Start(n)
    PROVE  /\ ClusterTypeOK' /\ proc[n].pc = "off" /\ PcSet(n, "wait") /\ NodesSame /\ InitedSame /\ DoneSame
           /\ Msgs(up'[n]) = {[cmd |-> "REGISTER_NODE"]} /\ Behind(up'[n]) = {}
           /\ \A m \in Nodes : m # n => up'[m] = up[m]
           /\ sched' = sched /\ down' = down /\ unseen' = unseen
<1>. USE DEF ClusterTypeOK
<1>1. /\ proc[n].pc = "off" /\ proc' = [proc EXCEPT ![n].pc = "wait"]
      /\ sched' = sched /\ down' = down /\ unseen' = unseen
      /\ up' = [up EXCEPT ![n] = <<[cmd |-> "REGISTER_NODE"]>>]
  BY DEF C!Start
<1>2. n \in Procs /\ "wait" \in Pcs
  BY NodesProcs DEF Pcs
<1>3. ProcOK' /\ PcSet(n, "wait") /\ NodesSame /\ InitedSame /\ DoneSame
  BY <1>1, <1>2, PcEffect
<1>4. <<[cmd |-> "REGISTER_NODE"]>> \in Seq(UpMsg)
  BY MessageTypes
<1>5. /\ up' \in [Nodes -> Seq(UpMsg)] /\ up'[n] = <<[cmd |-> "REGISTER_NODE"]>>
      /\ \A m \in Nodes : m # n => up'[m] = up[m]
  BY <1>1, <1>4 DEF ChanOK
<1>6. Msgs(up'[n]) = {[cmd |-> "REGISTER_NODE"]} /\ Behind(up'[n]) = {}
  BY <1>5, OneMsg
<1>7. SchedOK' /\ ChanOK'
  BY <1>1, <1>5 DEF SchedOK, ChanOK
<1>. QED  BY <1>1, <1>3, <1>5, <1>6, <1>7

LEMMA RegisterEffect ==
    ASSUME ClusterTypeOK, NEW n \in Nodes, C!RegisterNode(n), ~C!RegisterFails(n)
    PROVE  /\ ClusterTypeOK' /\ PcSame /\ InitedSame /\ DoneSame /\ Taken(n)
           /\ Head(up[n]).cmd = "REGISTER_NODE" /\ Head(up[n]) \in Msgs(up[n])
           /\ proc'[H].nodes = proc[H].nodes \cup {n} /\ proc'[H].senders = proc[H].senders \cup {n}
           /\ \A m \in Nodes : proc'[m].nodes = proc[m].nodes /\ proc'[m].senders = proc[m].senders
           /\ sched'.active = sched.active /\ sched'.inExit = sched.inExit
           /\ sched'.rank = [sched.rank EXCEPT ![n] = IF n \in ServerIds THEN sched.serverRank ELSE sched.workerRank]
           /\ sched'.serverRank = (IF n \in ServerIds THEN sched.serverRank + 1 ELSE sched.serverRank)
           /\ sched'.workerRank = (IF n \in WorkerIds THEN sched.workerRank + 1 ELSE sched.workerRank)
           /\ n \in ServerIds => sched.serverRank < NumServers
           /\ unseen' = unseen
           /\ Told(proc[H].nodes \cup {n}, [cmd |-> "ADD_NODE", nodes |-> proc[H].nodes \cup {n}])
<1>. DEFINE ns == proc[H].nodes \cup {n}
<1>. USE DEF ClusterTypeOK
<1>1. C!Receives(n, "REGISTER_NODE") /\ C!AddNode(n) /\ unseen' = unseen
  BY DEF C!RegisterNode
<1>2. /\ up' \in [Nodes -> Seq(UpMsg)] /\ Taken(n)
      /\ Head(up[n]).cmd = "REGISTER_NODE" /\ Head(up[n]) \in Msgs(up[n])
  BY <1>1, ReceivesEffect
<1>3. ns \in SUBSET Procs /\ H \in Procs
  BY NodesProcs DEF ProcOK
<1>4. proc' = [proc EXCEPT ![H].nodes = ns, ![H].senders = @ \cup {n}]
  BY <1>1, NoSameRoleH DEF C!AddNode, C!ConnectTo
<1>5. proc' = [proc EXCEPT ![H].nodes = ns, ![H].senders = proc[H].senders \cup {n}]
  BY <1>3, <1>4 DEF ProcOK, ProcFields, IsFcn
<1>6. /\ ProcOK' /\ PcSame /\ InitedSame /\ DoneSame
      /\ proc'[H].nodes = ns /\ proc'[H].senders = proc[H].senders \cup {n}
      /\ \A m \in Procs : m # H => proc'[m].nodes = proc[m].nodes /\ proc'[m].senders = proc[m].senders
  BY <1>3, <1>5, NodesEffect
<1>7. [cmd |-> "ADD_NODE", nodes |-> ns] \in DownMsg
  BY <1>3, MessageTypes
<1>8. down' \in [Nodes -> Seq(DownMsg)] /\ Told(ns, [cmd |-> "ADD_NODE", nodes |-> ns])
  <2>1. CASE down' = C!Broadcast(ns, [cmd |-> "ADD_NODE", nodes |-> ns])
    BY <1>7, <2>1, BroadcastEffect
  <2>2. CASE down' = down
    BY <2>2 DEF ChanOK, Told
  <2>. QED  BY <1>1, <2>1, <2>2 DEF C!AddNode
<1>9. /\ IsFcn(sched', SchedFields)
      /\ sched'.active = sched.active /\ sched'.inExit = sched.inExit
      /\ sched'.rank = [sched.rank EXCEPT ![n] = IF n \in ServerIds THEN sched.serverRank ELSE sched.workerRank]
      /\ sched'.serverRank = (IF n \in ServerIds THEN sched.serverRank + 1 ELSE sched.serverRank)
      /\ sched'.workerRank = (IF n \in WorkerIds THEN sched.workerRank + 1 ELSE sched.workerRank)
  BY DEF C!RegisterNode, SchedOK, SchedFields, IsFcn
<1>10. SchedOK'
  BY <1>9 DEF SchedOK
<1>11. n \in ServerIds => sched.serverRank < NumServers
  BY ClusterAssumption DEF C!RegisterFails, SchedOK
<1>12. ChanOK'
  BY <1>1, <1>2, <1>8 DEF ChanOK
<1>. QED  BY <1>1, <1>2, <1>6, <1>8, <1>9, <1>10, <1>11, <1>12, NodesProcs

LEMMA ReadyToRunEffect ==
    ASSUME ClusterTypeOK, NEW n \in Nodes, C!ReadyToRun(n)
    PROVE  /\ ClusterTypeOK' /\ PcSame /\ NodesSame /\ DoneSame /\ Taken(n)
           /\ Head(up[n]).cmd = "READY_TO_RUN" /\ Head(up[n]) \in Msgs(up[n])
           /\ \A m \in Nodes : proc'[m].inited = proc[m].inited
           /\ proc'[H].inited = (proc[H].inited \/ Cardinality(sched'.active) >= NumWorkers + NumServers)
           /\ sched'.active = sched.active \cup {n} /\ sched'.inExit = sched.inExit
           /\ sched'.rank = sched.rank /\ sched'.serverRank = sched.serverRank
           /\ sched'.workerRank = sched.workerRank
           /\ unseen' = unseen
           /\ DownLess \/ (proc'[H].inited /\ Told(proc[H].nodes, [cmd |-> "READY_TO_RUN"]))
<1>. DEFINE active == sched.active \cup {n}
            all == Cardinality(active) >= NumWorkers + NumServers
<1>. USE DEF ClusterTypeOK
<1>1. /\ C!Receives(n, "READY_TO_RUN") /\ unseen' = unseen
      /\ sched' = [sched EXCEPT !.active = active]
      /\ down' = IF all THEN C!Broadcast(proc[H].nodes, [cmd |-> "READY_TO_RUN"]) ELSE down
      /\ proc' = [proc EXCEPT ![H].inited = @ \/ all]
  BY SameCardinality DEF C!ReadyToRun
<1>2. /\ up' \in [Nodes -> Seq(UpMsg)] /\ Taken(n)
      /\ Head(up[n]).cmd = "READY_TO_RUN" /\ Head(up[n]) \in Msgs(up[n])
  BY <1>1, ReceivesEffect
<1>3. proc' = [proc EXCEPT ![H].inited = (proc[H].inited \/ all)]
  BY <1>1, NodesProcs DEF ProcOK, ProcFields, IsFcn
<1>4. /\ ProcOK' /\ PcSame /\ NodesSame /\ DoneSame
      /\ proc'[H].inited = (proc[H].inited \/ all) /\ \A m \in Procs : m # H => proc'[m].inited = proc[m].inited
  <2>. DEFINE v == proc[H].inited \/ all
  <2>1. proc' = [proc EXCEPT ![H].inited = v] /\ ProcOK /\ H \in Procs
    BY <1>3, NodesProcs
  <2>. HIDE DEF v
  <2>2. /\ ProcOK' /\ PcSame /\ NodesSame /\ DoneSame
        /\ proc'[H].inited = v /\ \A m \in Procs : m # H => proc'[m].inited = proc[m].inited
    BY <2>1, InitedEffect
  <2>. QED  BY <2>2, Zenon DEF v
<1>5. /\ IsFcn(sched', SchedFields)
      /\ sched'.active = active /\ sched'.inExit = sched.inExit /\ sched'.rank = sched.rank
      /\ sched'.serverRank = sched.serverRank /\ sched'.workerRank = sched.workerRank
  BY <1>1 DEF SchedOK, SchedFields, IsFcn
<1>6. SchedOK'
  BY <1>5 DEF SchedOK
<1>7. CASE all
  <2>1. down' \in [Nodes -> Seq(DownMsg)] /\ Told(proc[H].nodes, [cmd |-> "READY_TO_RUN"])
    BY <1>1, <1>7, MessageTypes, BroadcastEffect
  <2>2. ChanOK'
    BY <1>1, <1>2, <2>1 DEF ChanOK
  <2>3. proc'[H].inited
    BY <1>4, <1>7
  <2>. QED  BY <1>1, <1>2, <1>4, <1>5, <1>6, <2>1, <2>2, <2>3, NodesProcs
<1>8. CASE ~all
  <2>1. down' = down
    BY <1>1, <1>8
  <2>2. ChanOK' /\ DownLess
    BY <1>1, <1>2, <2>1 DEF ChanOK, DownLess
  <2>. QED  BY <1>1, <1>2, <1>4, <1>5, <1>6, <2>2, NodesProcs
<1>. QED  BY <1>7, <1>8

LEMMA ReadyToExitEffect ==
    ASSUME ClusterTypeOK, NEW n \in Nodes, C!ReadyToExit(n)
    PROVE  /\ ClusterTypeOK' /\ proc' = proc /\ Taken(n)
           /\ Head(up[n]).cmd = "READY_TO_EXIT" /\ Head(up[n]) \in Msgs(up[n])
           /\ sched'.active = sched.active \ {n} /\ sched'.inExit = sched.inExit
           /\ sched'.rank = sched.rank /\ sched'.serverRank = sched.serverRank
           /\ sched'.workerRank = sched.workerRank
           /\ down' = down /\ unseen' = unseen
<1>. USE DEF ClusterTypeOK
<1>1. /\ C!Receives(n, "READY_TO_EXIT") /\ proc' = proc /\ down' = down /\ unseen' = unseen
      /\ sched' = [sched EXCEPT !.active = @ \ {n}]
  BY DEF C!ReadyToExit
<1>2. /\ up' \in [Nodes -> Seq(UpMsg)] /\ Taken(n)
      /\ Head(up[n]).cmd = "READY_TO_EXIT" /\ Head(up[n]) \in Msgs(up[n])
  BY <1>1, ReceivesEffect
<1>3. /\ IsFcn(sched', SchedFields)
      /\ sched'.active = sched.active \ {n} /\ sched'.inExit = sched.inExit /\ sched'.rank = sched.rank
      /\ sched'.serverRank = sched.serverRank /\ sched'.workerRank = sched.workerRank
  BY <1>1 DEF SchedOK, SchedFields, IsFcn
<1>4. SchedOK' /\ ProcOK' /\ ChanOK'
  BY <1>1, <1>2, <1>3 DEF SchedOK, ProcOK, ChanOK
<1>. QED  BY <1>1, <1>2, <1>3, <1>4

\* Either the process is ended by a failed check, or it knows the nodes of the message and says
\* that it is ready if they are complete.
LEMMA ProcessAddEffect ==
    ASSUME ClusterTypeOK, NEW n \in Nodes, C!ProcessAdd(n)
    PROVE  /\ sched' = sched
           /\ \/ C!Leaves(n, "dead") /\ up' = up
              \/ /\ ClusterTypeOK' /\ PcSame /\ InitedSame /\ DoneSame /\ DownLess /\ unseen' = unseen
                 /\ Head(down[n]) \in Msgs(down[n]) /\ Head(down[n]).cmd = "ADD_NODE"
                 /\ Head(down[n]).nodes \subseteq Procs
                 /\ proc'[n].nodes = proc[n].nodes \cup Head(down[n]).nodes
                 /\ proc'[n].senders = proc[n].senders \cup {m \in Head(down[n]).nodes : ~C!SameRole(m, n)}
                 /\ \A m \in Procs : m # n => proc'[m].nodes = proc[m].nodes /\ proc'[m].senders = proc[m].senders
                 /\ \A m \in Nodes : m # n => up'[m] = up[m]
                 /\ \/ /\ Msgs(up'[n]) \subseteq Msgs(up[n]) \cup {[cmd |-> "READY_TO_RUN"]}
                       /\ Behind(up'[n]) \subseteq Behind(up[n]) \cup {[cmd |-> "READY_TO_RUN"]}
                       /\ C!Complete(proc'[n].nodes)
                    \/ Msgs(up'[n]) \subseteq Msgs(up[n]) /\ Behind(up'[n]) \subseteq Behind(up[n])
<1>. DEFINE ns == Head(down[n]).nodes
            ready == {m \in ns : C!Complete(proc[n].nodes \cup (ns \cap C!UpTo(m)))}
            msg == [cmd |-> "READY_TO_RUN"]
            k == Cardinality(ready)
<1>. USE DEF ClusterTypeOK
<1>1. sched' = sched /\ C!Delivers(n, "ADD_NODE")
  BY DEF C!ProcessAdd
<1>2. Head(down[n]) \in Msgs(down[n]) /\ Head(down[n]) \in DownMsg /\ Head(down[n]).cmd = "ADD_NODE"
  BY <1>1, DeliveredMsg
<1>3. ns \subseteq Procs
  BY <1>2 DEF DownMsg
<1>4. CASE C!Leaves(n, "dead") /\ up' = up
  BY <1>1, <1>4
<1>5. CASE ~(C!Leaves(n, "dead") /\ up' = up)
  <2>1. /\ proc' = [proc EXCEPT ![n].nodes = @ \cup ns, ![n].senders = @ \cup {m \in ns : ~C!SameRole(m, n)}]
        /\ up' = [up EXCEPT ![n] = @ \o [i \in 1 .. k |-> msg]]
        /\ down' = [down EXCEPT ![n] = Tail(@)]
        /\ unseen' = unseen
    BY <1>5, SameCardinality DEF C!ProcessAdd
  <2>2. n \in Procs /\ proc[n].nodes \cup ns \in SUBSET Procs
    BY <1>3, NodesProcs DEF ProcOK
  <2>3. proc' = [proc EXCEPT ![n].nodes = proc[n].nodes \cup ns,
                             ![n].senders = proc[n].senders \cup {m \in ns : ~C!SameRole(m, n)}]
    BY <2>1, <2>2 DEF ProcOK, ProcFields, IsFcn
  <2>4. /\ ProcOK' /\ PcSame /\ InitedSame /\ DoneSame
        /\ proc'[n].nodes = proc[n].nodes \cup ns
        /\ proc'[n].senders = proc[n].senders \cup {m \in ns : ~C!SameRole(m, n)}
        /\ \A m \in Procs : m # n => proc'[m].nodes = proc[m].nodes /\ proc'[m].senders = proc[m].senders
    <3>. DEFINE ms == proc[n].nodes \cup ns
                ss == proc[n].senders \cup {m \in ns : ~C!SameRole(m, n)}
    <3>1. proc' = [proc EXCEPT ![n].nodes = ms, ![n].senders = ss] /\ ms \in SUBSET Procs /\ n \in Procs
      BY <2>2, <2>3
    <3>. HIDE DEF ms, ss
    <3>2. /\ ProcOK' /\ PcSame /\ InitedSame /\ DoneSame
          /\ proc'[n].nodes = ms /\ proc'[n].senders = ss
          /\ \A m \in Procs : m # n => proc'[m].nodes = proc[m].nodes /\ proc'[m].senders = proc[m].senders
      BY <3>1, NodesEffect
    <3>. QED  BY <3>2 DEF ms, ss
  <2>5. down' \in [Nodes -> Seq(DownMsg)] /\ DownLess
    BY <1>1, <2>1, DeliversEffect
  <2>6. IsFiniteSet(ready) /\ k \in Nat /\ (k = 0 <=> ready = {})
    <3>1. IsFiniteSet(Procs)
      BY ClusterAssumption, FS_Union, FS_Singleton DEF Procs, C!Procs, C!Nodes
    <3>2. IsFiniteSet(ready)
      BY <1>3, <3>1, FS_Subset
    <3>. QED  BY <3>2, FS_CardinalityType, FS_EmptySet
  <2>7. ready # {} => C!Complete(proc'[n].nodes)
    <3>1. ASSUME NEW m \in ready PROVE C!Complete(proc'[n].nodes)
      <4>. DEFINE X == proc[n].nodes \cup (ns \cap C!UpTo(m))
      <4>1. C!Complete(X) /\ X \subseteq proc'[n].nodes /\ proc'[n].nodes \subseteq Procs
        BY <2>2, <2>4
      <4>. HIDE DEF X
      <4>2. IsFiniteSet(proc'[n].nodes \cap WorkerIds) /\ IsFiniteSet(proc'[n].nodes \cap ServerIds)
        BY ClusterAssumption, FS_Intersection
      <4>3. /\ Cardinality(X \cap WorkerIds) \in Nat /\ Cardinality(proc'[n].nodes \cap WorkerIds) \in Nat
            /\ Cardinality(X \cap WorkerIds) <= Cardinality(proc'[n].nodes \cap WorkerIds)
        <5>1. X \cap WorkerIds \subseteq proc'[n].nodes \cap WorkerIds
          BY <4>1
        <5>. QED  BY <4>2, <5>1, FS_Subset, FS_CardinalityType
      <4>4. /\ Cardinality(X \cap ServerIds) \in Nat /\ Cardinality(proc'[n].nodes \cap ServerIds) \in Nat
            /\ Cardinality(X \cap ServerIds) <= Cardinality(proc'[n].nodes \cap ServerIds)
        <5>1. X \cap ServerIds \subseteq proc'[n].nodes \cap ServerIds
          BY <4>1
        <5>. QED  BY <4>2, <5>1, FS_Subset, FS_CardinalityType
      <4>5. Cardinality(X \cap WorkerIds) >= NumWorkers /\ Cardinality(X \cap ServerIds) >= NumServers
        BY <4>1, SameCardinality DEF C!Complete
      <4>6. /\ Cardinality(proc'[n].nodes \cap WorkerIds) >= NumWorkers
            /\ Cardinality(proc'[n].nodes \cap ServerIds) >= NumServers
        BY <4>3, <4>4, <4>5, ClusterAssumption
      <4>. QED  BY <4>6, SameCardinality DEF C!Complete
    <3>. QED  BY <3>1
  <2>. HIDE DEF ready
  <2>8. /\ up' \in [Nodes -> Seq(UpMsg)]
        /\ \A m \in Nodes : m # n => up'[m] = up[m]
        /\ Msgs(up'[n]) \subseteq Msgs(up[n]) \cup (IF k = 0 THEN {} ELSE {msg})
        /\ Behind(up'[n]) \subseteq Behind(up[n]) \cup (IF k = 0 THEN {} ELSE {msg})
    <3>1. up[n] \in Seq(UpMsg) /\ msg \in UpMsg
      BY MessageTypes DEF ChanOK
    <3>. HIDE DEF k, msg
    <3>2. /\ up[n] \o [i \in 1 .. k |-> msg] \in Seq(UpMsg)
          /\ Msgs(up[n] \o [i \in 1 .. k |-> msg]) \subseteq Msgs(up[n]) \cup (IF k = 0 THEN {} ELSE {msg})
          /\ Behind(up[n] \o [i \in 1 .. k |-> msg]) \subseteq Behind(up[n]) \cup (IF k = 0 THEN {} ELSE {msg})
      BY <2>6, <3>1, ConcatMsgs
    <3>. DEFINE t == up[n] \o [i \in 1 .. k |-> msg]
    <3>3. up' = [up EXCEPT ![n] = t]
      BY <2>1
    <3>4. t \in Seq(UpMsg)
      BY <3>2
    <3>. HIDE DEF t
    <3>5. up' \in [Nodes -> Seq(UpMsg)] /\ up'[n] = t /\ \A m \in Nodes : m # n => up'[m] = up[m]
      BY <3>3, <3>4 DEF ChanOK
    <3>. QED  BY <3>2, <3>5 DEF t
  <2>9. ChanOK' /\ SchedOK'
    BY <1>1, <2>1, <2>5, <2>8 DEF ChanOK, SchedOK
  <2>10. CASE ready = {}
    <3>1. Msgs(up'[n]) \subseteq Msgs(up[n]) /\ Behind(up'[n]) \subseteq Behind(up[n])
      BY <2>6, <2>8, <2>10
    <3>. QED  BY <1>1, <1>2, <1>3, <2>1, <2>4, <2>5, <2>8, <2>9, <3>1
  <2>11. CASE ready # {}
    <3>1. /\ Msgs(up'[n]) \subseteq Msgs(up[n]) \cup {msg} /\ Behind(up'[n]) \subseteq Behind(up[n]) \cup {msg}
          /\ C!Complete(proc'[n].nodes)
      BY <2>6, <2>7, <2>8, <2>11
    <3>. QED  BY <1>1, <1>2, <1>3, <2>1, <2>4, <2>5, <2>8, <2>9, <3>1
  <2>. QED  BY <2>10, <2>11
<1>. QED  BY <1>4, <1>5

LEMMA ProcessRunEffect ==
    ASSUME ClusterTypeOK, NEW n \in Nodes, C!ProcessRun(n)
    PROVE  /\ ClusterTypeOK' /\ PcSame /\ NodesSame /\ DoneSame /\ DownLess
           /\ Head(down[n]) \in Msgs(down[n]) /\ Head(down[n]).cmd = "READY_TO_RUN"
           /\ \A m \in Procs : m # n => proc'[m].inited = proc[m].inited
           /\ sched' = sched /\ up' = up /\ unseen' = unseen
<1>. USE DEF ClusterTypeOK
<1>1. /\ C!Delivers(n, "READY_TO_RUN") /\ proc' = [proc EXCEPT ![n].inited = TRUE]
      /\ down' = [down EXCEPT ![n] = Tail(@)] /\ sched' = sched /\ up' = up /\ unseen' = unseen
  BY DEF C!ProcessRun
<1>2. Head(down[n]) \in Msgs(down[n]) /\ Head(down[n]).cmd = "READY_TO_RUN"
  BY <1>1, DeliveredMsg
<1>3. /\ ProcOK' /\ PcSame /\ NodesSame /\ DoneSame
      /\ \A m \in Procs : m # n => proc'[m].inited = proc[m].inited
  BY <1>1, NodesProcs, InitedEffect
<1>4. down' \in [Nodes -> Seq(DownMsg)] /\ DownLess
  BY <1>1, DeliversEffect
<1>5. SchedOK' /\ ChanOK'
  BY <1>1, <1>4 DEF SchedOK, ChanOK
<1>. QED  BY <1>1, <1>2, <1>3, <1>4, <1>5

LEMMA ProcessExitEffect ==
    ASSUME ClusterTypeOK, NEW n \in Nodes, C!ProcessExit(n)
    PROVE  /\ ClusterTypeOK' /\ PcSame /\ NodesSame /\ InitedSame /\ DownLess
           /\ Head(down[n]) \in Msgs(down[n]) /\ Head(down[n]).cmd = "EXIT"
           /\ \A m \in Procs : m # n => proc'[m].done = proc[m].done
           /\ sched' = sched /\ up' = up /\ unseen' = unseen
<1>. USE DEF ClusterTypeOK
<1>1. /\ C!Delivers(n, "EXIT") /\ proc' = [proc EXCEPT ![n].done = TRUE]
      /\ down' = [down EXCEPT ![n] = << >>] /\ sched' = sched /\ up' = up /\ unseen' = unseen
  BY DEF C!ProcessExit
<1>2. Head(down[n]) \in Msgs(down[n]) /\ Head(down[n]).cmd = "EXIT"
  BY <1>1, DeliveredMsg
<1>3. /\ ProcOK' /\ PcSame /\ NodesSame /\ InitedSame
      /\ \A m \in Procs : m # n => proc'[m].done = proc[m].done
  BY <1>1, NodesProcs, DoneEffect
<1>4. << >> \in Seq(DownMsg)
  OBVIOUS
<1>5. down' \in [Nodes -> Seq(DownMsg)] /\ down'[n] = << >> /\ \A m \in Nodes : m # n => down'[m] = down[m]
  BY <1>1, <1>4 DEF ChanOK
<1>6. DownLess
  BY <1>5, NoMsgs DEF DownLess
<1>7. SchedOK' /\ ChanOK'
  BY <1>1, <1>5 DEF SchedOK, ChanOK
<1>. QED  BY <1>1, <1>2, <1>3, <1>6, <1>7

\* A server that was removed ends the process; another node is forgotten.
LEMMA ProcessRemoveEffect ==
    ASSUME ClusterTypeOK, NEW n \in Nodes, C!ProcessRemove(n)
    PROVE  /\ sched' = sched /\ up' = up
           /\ Head(down[n]) \in Msgs(down[n]) /\ Head(down[n]).cmd = "REMOVE_NODE"
           /\ Head(down[n]).node \in Nodes
           /\ \/ C!Leaves(n, "forced") /\ Head(down[n]).node \in ServerIds
              \/ /\ ClusterTypeOK' /\ PcSame /\ InitedSame /\ DoneSame /\ DownLess /\ unseen' = unseen
                 /\ proc'[n].nodes \subseteq proc[n].nodes
                 /\ proc[n].nodes \ {Head(down[n]).node} \subseteq proc'[n].nodes
                 /\ proc'[n].senders = proc[n].senders
                 /\ \A m \in Procs : m # n => proc'[m].nodes = proc[m].nodes /\ proc'[m].senders = proc[m].senders
<1>. DEFINE k == Head(down[n]).node
<1>. USE DEF ClusterTypeOK
<1>1. C!Delivers(n, "REMOVE_NODE") /\ sched' = sched /\ up' = up
  BY DEF C!ProcessRemove
<1>2. Head(down[n]) \in Msgs(down[n]) /\ Head(down[n]) \in DownMsg /\ Head(down[n]).cmd = "REMOVE_NODE"
  BY <1>1, DeliveredMsg
<1>3. k \in Nodes
  BY <1>2 DEF DownMsg
<1>4. CASE k \in proc[n].nodes /\ k \in ServerIds
  <2>1. C!Leaves(n, "forced")
    BY <1>4 DEF C!ProcessRemove
  <2>. QED  BY <1>1, <1>2, <1>3, <1>4, <2>1
<1>5. CASE ~(k \in proc[n].nodes /\ k \in ServerIds)
  <2>1. /\ proc' = IF k \in proc[n].nodes THEN [proc EXCEPT ![n].nodes = @ \ {k}] ELSE [proc EXCEPT ![n].held = TRUE]
        /\ down' = [down EXCEPT ![n] = Tail(@)] /\ unseen' = unseen
    BY <1>5 DEF C!ProcessRemove
  <2>2. down' \in [Nodes -> Seq(DownMsg)] /\ DownLess
    BY <1>1, <2>1, DeliversEffect
  <2>3. SchedOK' /\ ChanOK'
    BY <1>1, <2>1, <2>2 DEF SchedOK, ChanOK
  <2>4. CASE k \in proc[n].nodes
    <3>1. proc' = [proc EXCEPT ![n].nodes = @ \ {k}] /\ n \in Procs
      BY <2>1, <2>4, NodesProcs
    <3>. HIDE DEF k
    <3>2. /\ ProcOK' /\ PcSame /\ InitedSame /\ DoneSame
          /\ proc'[n].nodes = proc[n].nodes \ {k} /\ proc'[n].senders = proc[n].senders
          /\ \A m \in Procs : m # n => proc'[m].nodes = proc[m].nodes /\ proc'[m].senders = proc[m].senders
      BY <3>1, FewerNodesEffect
    <3>. QED  BY <1>1, <1>2, <1>3, <2>1, <2>2, <2>3, <3>2 DEF k
  <2>5. CASE k \notin proc[n].nodes
    <3>1. proc' = [proc EXCEPT ![n].held = TRUE] /\ n \in Procs
      BY <2>1, <2>5, NodesProcs
    <3>2. ProcOK' /\ PcSame /\ NodesSame /\ InitedSame /\ DoneSame
      BY <3>1, HeldEffect
    <3>. QED  BY <1>1, <1>2, <1>3, <2>1, <2>2, <2>3, <3>1, <3>2 DEF NodesSame
  <2>. QED  BY <2>4, <2>5
<1>. QED  BY <1>4, <1>5

LEMMA DisconnectedEffect ==
    ASSUME ClusterTypeOK, NEW n \in Nodes, C!NodeDisconnected(n)
    PROVE  /\ ClusterTypeOK' /\ PcSame /\ InitedSame /\ DoneSame /\ up' = up
           /\ n \in unseen /\ unseen' = unseen \ {n} /\ C!Running(H)
           /\ proc'[H].nodes \subseteq proc[H].nodes /\ proc[H].nodes \ {n} \subseteq proc'[H].nodes
           /\ proc'[H].senders = proc[H].senders
           /\ \A m \in Nodes : proc'[m].nodes = proc[m].nodes /\ proc'[m].senders = proc[m].senders
           /\ sched'.active \subseteq sched.active /\ sched.active \ {n} \subseteq sched'.active
           /\ sched'.inExit = sched.inExit /\ sched'.rank = sched.rank
           /\ sched'.serverRank = sched.serverRank /\ sched'.workerRank = sched.workerRank
           /\ DownLess \/ (~sched.inExit /\ Told(proc[H].nodes, [cmd |-> "REMOVE_NODE", node |-> n]))
<1>. DEFINE known == n \in sched.fds /\ n \in sched.alive
            s == [sched EXCEPT !.gone = @ \cup {n}, !.alive = @ \ {n}, !.unknown = IF known THEN @ ELSE @ + 1]
<1>. USE DEF ClusterTypeOK
<1>1. /\ n \in unseen /\ unseen' = unseen \ {n} /\ C!Running(H) /\ up' = up
      /\ IF sched.inExit THEN sched' = s /\ proc' = proc /\ down' = down ELSE C!RemoveNode(n, s)
  BY DEF C!NodeDisconnected
<1>2. /\ IsFcn(s, SchedFields) /\ s.active = sched.active /\ s.inExit = sched.inExit /\ s.rank = sched.rank
      /\ s.serverRank = sched.serverRank /\ s.workerRank = sched.workerRank
  <2>. HIDE DEF known
  <2>. QED  BY DEF SchedOK, SchedFields, IsFcn
<1>. HIDE DEF s
<1>3. H \in Procs /\ n \in Procs /\ n # H
  BY NodesProcs
<1>4. CASE sched' = s /\ proc' = proc /\ down' = down
  <2>1. /\ sched'.active = sched.active /\ sched'.inExit = sched.inExit /\ sched'.rank = sched.rank
        /\ sched'.serverRank = sched.serverRank /\ sched'.workerRank = sched.workerRank
        /\ IsFcn(sched', SchedFields)
    BY <1>2, <1>4
  <2>2. SchedOK' /\ ProcOK' /\ ChanOK' /\ DownLess
    BY <1>1, <1>4, <2>1 DEF SchedOK, ProcOK, ChanOK, DownLess
  <2>. QED  BY <1>1, <1>4, <2>1, <2>2 DEF PcSame, InitedSame, DoneSame
<1>5. CASE ~sched.inExit /\ C!RemoveNode(n, s) /\ n \notin proc[H].nodes
  <2>1. proc' = [proc EXCEPT ![H].held = TRUE] /\ sched' = s /\ down' = down
    BY <1>5 DEF C!RemoveNode
  <2>2. ProcOK' /\ PcSame /\ NodesSame /\ InitedSame /\ DoneSame
    BY <1>3, <2>1, HeldEffect
  <2>3. /\ sched'.active = sched.active /\ sched'.inExit = sched.inExit /\ sched'.rank = sched.rank
        /\ sched'.serverRank = sched.serverRank /\ sched'.workerRank = sched.workerRank
        /\ IsFcn(sched', SchedFields)
    BY <1>2, <2>1
  <2>4. SchedOK' /\ ChanOK' /\ DownLess
    BY <1>1, <2>1, <2>3 DEF SchedOK, ChanOK, DownLess
  <2>. QED  BY <1>1, <1>3, <2>2, <2>3, <2>4, NodesProcs DEF NodesSame
<1>6. CASE ~sched.inExit /\ C!RemoveNode(n, s) /\ n \in proc[H].nodes
  <2>. DEFINE msg == [cmd |-> "REMOVE_NODE", node |-> n]
              ns == proc[H].nodes \ {n, H}
  <2>1. proc' = [proc EXCEPT ![H].nodes = @ \ {n}] /\ sched' = [s EXCEPT !.active = @ \ {n}]
        /\ down' = C!Broadcast(ns, msg)
    BY <1>6 DEF C!RemoveNode
  <2>2. /\ ProcOK' /\ PcSame /\ InitedSame /\ DoneSame
        /\ proc'[H].nodes = proc[H].nodes \ {n} /\ proc'[H].senders = proc[H].senders
        /\ \A m \in Procs : m # H => proc'[m].nodes = proc[m].nodes /\ proc'[m].senders = proc[m].senders
    BY <1>3, <2>1, FewerNodesEffect
  <2>3. /\ sched'.active = sched.active \ {n} /\ sched'.inExit = sched.inExit /\ sched'.rank = sched.rank
        /\ sched'.serverRank = sched.serverRank /\ sched'.workerRank = sched.workerRank
        /\ IsFcn(sched', SchedFields)
    BY <1>2, <2>1 DEF IsFcn, SchedFields
  <2>4. down' \in [Nodes -> Seq(DownMsg)] /\ Told(ns, msg)
    BY <2>1, MessageTypes, BroadcastEffect
  <2>5. Told(proc[H].nodes, msg)
    BY <2>4 DEF Told
  <2>6. SchedOK' /\ ChanOK'
    BY <1>1, <2>3, <2>4 DEF SchedOK, ChanOK
  <2>. QED  BY <1>1, <1>3, <1>6, <2>2, <2>3, <2>5, <2>6, NodesProcs
<1>. QED  BY <1>1, <1>4, <1>5, <1>6

\* Steps of the main threads.
LEMMA MainEffect ==
    ASSUME ClusterTypeOK, NEW n \in Procs,
           \/ C!RunApp(n) \/ C!AppEnds(n) \/ (n # H /\ C!EndNode(n)) \/ (n = H /\ C!EndScheduler)
    PROVE  /\ ClusterTypeOK' /\ NodesSame /\ InitedSame /\ DoneSame /\ sched' = sched /\ down' = down
           /\ \/ proc[n].pc = "wait" /\ proc[n].inited /\ PcSet(n, "app") /\ up' = up /\ unseen' = unseen
              \/ /\ proc[n].pc = "app" /\ PcSet(n, "stop") /\ unseen' = unseen
                 /\ \A m \in Nodes : m # n => up'[m] = up[m]
                 /\ n # H => /\ Msgs(up'[n]) = Msgs(up[n]) \cup {[cmd |-> "READY_TO_EXIT"]}
                             /\ Behind(up'[n]) \subseteq Behind(up[n]) \cup {[cmd |-> "READY_TO_EXIT"]}
              \/ n # H /\ proc[n].pc = "stop" /\ proc[n].done /\ PcSet(n, "end") /\ up' = up /\ unseen' = unseen \cup {n}
              \/ n = H /\ proc[H].pc = "bye" /\ PcSet(H, "end") /\ up' = up /\ unseen' = unseen
<1>. USE DEF ClusterTypeOK
<1>0. {"app", "stop", "end"} \subseteq Pcs
  BY DEF Pcs
<1>1. CASE C!RunApp(n)
  <2>1. /\ proc[n].pc = "wait" /\ proc[n].inited /\ proc' = [proc EXCEPT ![n].pc = "app"]
        /\ sched' = sched /\ up' = up /\ down' = down /\ unseen' = unseen
    BY <1>1 DEF C!RunApp
  <2>2. ProcOK' /\ PcSet(n, "app") /\ NodesSame /\ InitedSame /\ DoneSame
    BY <1>0, <2>1, PcEffect
  <2>3. SchedOK' /\ ChanOK'
    BY <2>1 DEF SchedOK, ChanOK
  <2>. QED  BY <2>1, <2>2, <2>3
<1>2. CASE C!AppEnds(n)
  <2>1. /\ proc[n].pc = "app" /\ proc' = [proc EXCEPT ![n].pc = "stop"]
        /\ sched' = sched /\ down' = down /\ unseen' = unseen
        /\ up' = IF n = H THEN up ELSE [up EXCEPT ![n] = Append(@, [cmd |-> "READY_TO_EXIT"])]
    BY <1>2 DEF C!AppEnds
  <2>2. ProcOK' /\ PcSet(n, "stop") /\ NodesSame /\ InitedSame /\ DoneSame
    BY <1>0, <2>1, PcEffect
  <2>3. CASE n = H
    <3>1. SchedOK' /\ ChanOK'
      BY <2>1, <2>3 DEF SchedOK, ChanOK
    <3>. QED  BY <2>1, <2>2, <2>3, <3>1
  <2>4. CASE n # H
    <3>. DEFINE msg == [cmd |-> "READY_TO_EXIT"]
    <3>1. n \in Nodes /\ up[n] \in Seq(UpMsg) /\ msg \in UpMsg
      BY <2>4, NodesProcs, MessageTypes DEF ChanOK
    <3>2. /\ Append(up[n], msg) \in Seq(UpMsg) /\ Msgs(Append(up[n], msg)) = Msgs(up[n]) \cup {msg}
          /\ Behind(Append(up[n], msg)) \subseteq Behind(up[n]) \cup {msg}
      BY <3>1, AppendMsg
    <3>3. up' \in [Nodes -> Seq(UpMsg)] /\ up'[n] = Append(up[n], msg) /\ \A m \in Nodes : m # n => up'[m] = up[m]
      BY <2>1, <2>4, <3>1, <3>2 DEF ChanOK
    <3>4. SchedOK' /\ ChanOK'
      BY <2>1, <3>3 DEF SchedOK, ChanOK
    <3>. QED  BY <2>1, <2>2, <2>4, <3>2, <3>3, <3>4
  <2>. QED  BY <2>3, <2>4
<1>3. CASE n # H /\ C!EndNode(n)
  <2>1. /\ proc[n].pc = "stop" /\ proc[n].done /\ proc' = [proc EXCEPT ![n].pc = "end"]
        /\ sched' = sched /\ up' = up /\ down' = down /\ unseen' = unseen \cup {n}
    BY <1>3 DEF C!EndNode
  <2>2. ProcOK' /\ PcSet(n, "end") /\ NodesSame /\ InitedSame /\ DoneSame
    BY <1>0, <2>1, PcEffect
  <2>3. SchedOK' /\ ChanOK'
    BY <1>3, <2>1, NodesProcs DEF SchedOK, ChanOK
  <2>. QED  BY <1>3, <2>1, <2>2, <2>3
<1>4. CASE n = H /\ C!EndScheduler
  <2>1. /\ proc[H].pc = "bye" /\ proc' = [proc EXCEPT ![H].pc = "end"]
        /\ sched' = sched /\ up' = up /\ down' = down /\ unseen' = unseen
    BY <1>4 DEF C!EndScheduler
  <2>2. ProcOK' /\ PcSet(H, "end") /\ NodesSame /\ InitedSame /\ DoneSame
    BY <1>0, <1>4, <2>1, PcEffect
  <2>3. SchedOK' /\ ChanOK'
    BY <2>1 DEF SchedOK, ChanOK
  <2>. QED  BY <1>4, <2>1, <2>2, <2>3
<1>. QED  BY <1>1, <1>2, <1>3, <1>4

LEMMA BroadcastExitEffect ==
    ASSUME ClusterTypeOK, C!BroadcastExit
    PROVE  /\ ClusterTypeOK' /\ proc[H].pc = "stop" /\ PcSet(H, "bye") /\ NodesSame /\ InitedSame /\ DoneSame
           /\ sched.active = {} /\ sched'.active = {} /\ sched'.inExit
           /\ sched'.rank = sched.rank /\ sched'.serverRank = sched.serverRank
           /\ sched'.workerRank = sched.workerRank
           /\ Told(proc[H].nodes, [cmd |-> "EXIT"]) /\ up' = up /\ unseen' = unseen
<1>. USE DEF ClusterTypeOK
<1>1. /\ proc[H].pc = "stop" /\ sched.active = {} /\ sched' = [sched EXCEPT !.inExit = TRUE]
      /\ down' = C!Broadcast(proc[H].nodes, [cmd |-> "EXIT"]) /\ proc' = [proc EXCEPT ![H].pc = "bye"]
      /\ up' = up /\ unseen' = unseen
  BY DEF C!BroadcastExit
<1>2. H \in Procs /\ "bye" \in Pcs
  BY NodesProcs DEF Pcs
<1>3. ProcOK' /\ PcSet(H, "bye") /\ NodesSame /\ InitedSame /\ DoneSame
  BY <1>1, <1>2, PcEffect
<1>4. /\ IsFcn(sched', SchedFields) /\ sched'.active = sched.active /\ sched'.inExit
      /\ sched'.rank = sched.rank /\ sched'.serverRank = sched.serverRank
      /\ sched'.workerRank = sched.workerRank
  BY <1>1 DEF SchedOK, SchedFields, IsFcn
<1>5. SchedOK'
  BY <1>4 DEF SchedOK
<1>6. down' \in [Nodes -> Seq(DownMsg)] /\ Told(proc[H].nodes, [cmd |-> "EXIT"])
  BY <1>1, MessageTypes, BroadcastEffect
<1>7. ChanOK'
  BY <1>1, <1>6 DEF ChanOK
<1>. QED  BY <1>1, <1>3, <1>4, <1>5, <1>6, <1>7

\* A process ends before its time: it dies, a check fails, its timeout passes, or it is made to.
LEMMA LeavingEffect ==
    ASSUME ClusterTypeOK, NEW n \in Procs, NEW how \in {"dead", "forced"}, C!Leaves(n, how),
           sched' = sched, up' \in [Nodes -> Seq(UpMsg)]
    PROVE  /\ ClusterTypeOK' /\ PcSet(n, how) /\ NodesSame /\ InitedSame /\ DoneSame
           /\ DownLess /\ unseen' \subseteq unseen \cup {n}
<1>1. /\ ProcOK' /\ PcSet(n, how) /\ NodesSame /\ InitedSame /\ DoneSame
      /\ down' \in [Nodes -> Seq(DownMsg)] /\ DownLess
      /\ unseen' \subseteq Nodes /\ unseen' \subseteq unseen \cup {n}
  <2>1. how \in Pcs
    BY DEF Pcs
  <2>. QED  BY <2>1, LeavesEffect DEF ClusterTypeOK
<1>2. SchedOK' /\ ChanOK'
  BY <1>1 DEF ClusterTypeOK, SchedOK, ChanOK
<1>. QED  BY <1>1, <1>2 DEF ClusterTypeOK
-----------------------------------------------------------------------------
(***************************************************************************)
(* The order in which a cluster starts and ends.  It holds with spare      *)
(* processes as well.                                                      *)
(***************************************************************************)
ServerDead == \E m \in ServerIds : proc[m].pc = "dead"
Past(n) == proc[n].pc \notin {"off", "wait", "app"}
Excused(n) == proc[n].pc = "forced" => proc[H].pc \in {"dead", "end"} \/ ServerDead

PhaseInv ==
    /\ proc[H].pc \notin {"off", "forced"}
    /\ proc[H].pc \in {"app", "stop", "bye"} => proc[H].inited
    /\ sched.inExit => proc[H].inited /\ proc[H].pc \notin {"wait", "app", "stop"}
    /\ \A n \in Nodes : proc[n].inited => proc[H].inited
    /\ \A n \in Nodes : proc[n].done => sched.inExit
    /\ \A n \in Nodes : proc[n].pc = "end" => sched.inExit
    /\ \A n \in Nodes : Excused(n)
    /\ \A n \in unseen : C!Ended(n)

ViewInv ==
    /\ H \in proc[H].nodes
    /\ \A n \in Procs : \A k \in proc[n].nodes : C!SameRole(k, n) \/ k \in proc[n].senders

\* What a message says is true.
TrueMsg(msg) ==
    /\ msg.cmd = "EXIT" => sched.inExit
    /\ msg.cmd = "READY_TO_RUN" => proc[H].inited
    /\ msg.cmd = "ADD_NODE" => H \in msg.nodes
    /\ msg.cmd = "REMOVE_NODE" => C!Ended(msg.node) /\ (msg.node \in ServerIds => ServerDead)

MsgInv ==
    /\ \A n \in Nodes : \A msg \in Msgs(down[n]) : TrueMsg(msg)
    /\ \A n \in Nodes : \A msg \in Msgs(up[n]) : msg.cmd = "READY_TO_EXIT" => Past(n)

OrderInv == ClusterTypeOK /\ PhaseInv /\ ViewInv /\ MsgInv

(***************************************************************************)
(* Ranks.  A node has one as soon as the scheduler has registered it, and  *)
(* it is registered once.                                                  *)
(***************************************************************************)
Ranked(n) == sched.rank[n] # -1
RankedServers == {m \in ServerIds : Ranked(m)}

RegisterInv ==
    /\ \A n \in Nodes : proc[n].pc = "off" => Msgs(up[n]) = {} /\ ~Ranked(n)
    /\ \A n \in Nodes : \A msg \in Behind(up[n]) : msg.cmd # "REGISTER_NODE"
    /\ \A n \in Nodes : \A msg \in Msgs(up[n]) : msg.cmd = "REGISTER_NODE" => ~Ranked(n)
    /\ \A n \in Nodes : \A msg \in Msgs(up[n]) : msg.cmd = "READY_TO_RUN" => Ranked(n)
    /\ \A n \in proc[H].nodes : n # H => Ranked(n)
    /\ \A n \in Nodes : Msgs(down[n]) # {} => Ranked(n)
    /\ \A n \in sched.active : Ranked(n)

RankInv ==
    /\ sched.serverRank <= NumServers /\ Cardinality(RankedServers) = sched.serverRank
    /\ {sched.rank[m] : m \in RankedServers} = 0 .. sched.serverRank - 1
    /\ \A m \in WorkerIds : Ranked(m) => sched.rank[m] \in 0 .. sched.workerRank - 1
    /\ \A k, m \in Nodes : C!SameRole(k, m) /\ k # m /\ Ranked(k) /\ Ranked(m) => sched.rank[k] # sched.rank[m]

(***************************************************************************)
(* A cluster in which no process is started for a dead one.                *)
(***************************************************************************)
NoSpare == Spare = {} /\ Cardinality(WorkerIds) = NumWorkers /\ Cardinality(ServerIds) = NumServers

\* The process knows all that are left.
Knows(n) == \A k \in Procs : ~C!Ended(k) => k \in proc[n].nodes

ReadyInv ==
    /\ \A n \in Nodes : proc[H].inited => Knows(n) /\ Ranked(n)
    /\ \A n \in sched.active : Knows(n)
    /\ \A n \in Nodes : \A msg \in Msgs(up[n]) : msg.cmd = "READY_TO_RUN" => Knows(n)
    /\ \A n \in Nodes : proc[H].inited /\ ~sched.inExit /\ proc[n].pc \in {"wait", "app"} => n \in sched.active
    /\ \A n \in Nodes : sched.inExit => Past(n)
-----------------------------------------------------------------------------
(***************************************************************************)
(* No step goes back, so that what was true of it stays true.              *)
(***************************************************************************)
Forward ==
    /\ \A m \in Procs : C!Ended(m) => proc'[m].pc = proc[m].pc
    /\ \A m \in Procs : Past(m) => proc'[m].pc \notin {"off", "wait", "app"}
    /\ proc[H].inited => proc'[H].inited
    /\ sched.inExit => sched'.inExit

LEMMA TruthLasts ==
    ASSUME Forward
    PROVE  /\ ServerDead => ServerDead'
           /\ \A m \in Procs : C!Ended(m) => C!Ended(m)'
           /\ \A msg \in DownMsg : TrueMsg(msg) => TrueMsg(msg)'
<1>1. ServerDead => ServerDead'
  BY NodesProcs DEF Forward, ServerDead, C!Ended
<1>2. \A m \in Procs : C!Ended(m) => C!Ended(m)'
  BY DEF Forward, C!Ended
<1>3. ASSUME NEW msg \in DownMsg, TrueMsg(msg) PROVE TrueMsg(msg)'
  <2>1. msg.cmd = "REMOVE_NODE" => msg.node \in Procs
    BY NodesProcs DEF DownMsg
  <2>. QED  BY <1>1, <1>2, <1>3, <2>1 DEF TrueMsg, Forward
<1>. QED  BY <1>1, <1>2, <1>3

\* The messages after a step are true: those that were there, and the new ones.
LEMMA MsgsLast ==
    ASSUME ClusterTypeOK, MsgInv, Forward, NEW msg,
           \/ DownLess
           \/ TrueMsg(msg)' /\ \A n \in Nodes : Msgs(down'[n]) \subseteq Msgs(down[n]) \cup {msg},
           \A n \in Nodes : \A u \in Msgs(up'[n]) :
               u \in Msgs(up[n]) \/ (u.cmd = "READY_TO_EXIT" => Past(n)')
    PROVE  MsgInv'
<1>1. \A n \in Nodes : \A d \in Msgs(down[n]) : d \in DownMsg /\ TrueMsg(d)
  <2>1. \A n \in Nodes : down[n] \in Seq(DownMsg)
    BY DEF ClusterTypeOK, ChanOK
  <2>. QED  BY <2>1 DEF MsgInv, Msgs
<1>2. \A n \in Nodes : \A d \in Msgs(down[n]) : TrueMsg(d)'
  BY <1>1, TruthLasts
<1>3. \A n \in Nodes : \A d \in Msgs(down'[n]) : TrueMsg(d)'
  BY <1>2 DEF DownLess
<1>4. \A n \in Nodes : \A u \in Msgs(up'[n]) : u.cmd = "READY_TO_EXIT" => Past(n)'
  BY NodesProcs DEF MsgInv, Forward, Past
<1>. QED  BY <1>3, <1>4 DEF MsgInv

\* Messages to the scheduler that were taken or are as they were.
LEMMA UpTaken ==
    ASSUME NEW n \in Nodes, Taken(n)
    PROVE  \A m \in Nodes : Msgs(up'[m]) \subseteq Msgs(up[m]) /\ Behind(up'[m]) \subseteq Behind(up[m])
  BY DEF Taken

LEMMA StartOrder ==
    ASSUME OrderInv, NEW n \in Nodes, C!Start(n)
    PROVE  OrderInv' /\ Forward
<1>. USE DEF OrderInv
<1>1. /\ ClusterTypeOK' /\ proc[n].pc = "off" /\ PcSet(n, "wait") /\ NodesSame /\ InitedSame /\ DoneSame
      /\ Msgs(up'[n]) = {[cmd |-> "REGISTER_NODE"]} /\ \A m \in Nodes : m # n => up'[m] = up[m]
      /\ sched' = sched /\ down' = down /\ unseen' = unseen
  BY StartEffect
<1>2. Forward
  BY <1>1, NodesProcs DEF PcSet, InitedSame, Forward, C!Ended, Past
<1>3. PhaseInv'
  <2>1. ServerDead => ServerDead'
    BY <1>2, TruthLasts
  <2>2. \A m \in Nodes : Excused(m)'
    BY <1>1, <2>1, NodesProcs DEF PhaseInv, PcSet, Excused
  <2>3. \A m \in unseen' : C!Ended(m)'
    BY <1>1, <1>2, NodesProcs, TruthLasts DEF PhaseInv, ClusterTypeOK, ChanOK
  <2>4. /\ \A m \in Nodes : proc'[m].inited => proc'[H].inited
        /\ \A m \in Nodes : proc'[m].done => sched'.inExit
        /\ \A m \in Nodes : proc'[m].pc = "end" => sched'.inExit
    BY <1>1, NodesProcs DEF PhaseInv, PcSet, InitedSame, DoneSame
  <2>5. /\ proc'[H].pc \notin {"off", "forced"}
        /\ proc'[H].pc \in {"app", "stop", "bye"} => proc'[H].inited
        /\ sched'.inExit => proc'[H].inited /\ proc'[H].pc \notin {"wait", "app", "stop"}
    BY <1>1, NodesProcs DEF PhaseInv, PcSet, InitedSame
  <2>. QED  BY <2>2, <2>3, <2>4, <2>5 DEF PhaseInv
<1>4. ViewInv'
  BY <1>1, NodesProcs DEF ViewInv, NodesSame
<1>5. MsgInv'
  <2>1. DownLess
    BY <1>1 DEF DownLess
  <2>2. \A m \in Nodes : \A u \in Msgs(up'[m]) : u \in Msgs(up[m]) \/ (u.cmd = "READY_TO_EXIT" => Past(m)')
    BY <1>1
  <2>. QED  BY <1>2, <2>1, <2>2, MsgsLast
<1>. QED  BY <1>1, <1>2, <1>3, <1>4, <1>5

\* A process that runs ends before its time.
LEMMA LeavingOrder ==
    ASSUME OrderInv, NEW n \in Procs, NEW how \in {"dead", "forced"}, C!Leaves(n, how), C!Running(n),
           how = "forced" => n # H /\ (proc[H].pc \in {"dead", "end"} \/ ServerDead),
           sched' = sched, up' \in [Nodes -> Seq(UpMsg)], \A m \in Nodes : Msgs(up'[m]) \subseteq Msgs(up[m])
    PROVE  OrderInv' /\ Forward
<1>. USE DEF OrderInv
<1>1. /\ ClusterTypeOK' /\ PcSet(n, how) /\ NodesSame /\ InitedSame /\ DoneSame
      /\ DownLess /\ unseen' \subseteq unseen \cup {n}
  BY LeavingEffect
<1>2. Forward
  BY <1>1, NodesProcs DEF PcSet, InitedSame, Forward, C!Ended, C!Running, Past
<1>3. PhaseInv'
  <2>1. ServerDead => ServerDead'
    BY <1>2, TruthLasts
  <2>2. \A m \in Nodes : Excused(m)'
    BY <1>1, <2>1, NodesProcs DEF PhaseInv, PcSet, Excused, C!Running
  <2>3. \A m \in unseen' : C!Ended(m)'
    BY <1>1, NodesProcs DEF PhaseInv, PcSet, C!Ended, ClusterTypeOK, ChanOK
  <2>4. /\ \A m \in Nodes : proc'[m].inited => proc'[H].inited
        /\ \A m \in Nodes : proc'[m].done => sched'.inExit
        /\ \A m \in Nodes : proc'[m].pc = "end" => sched'.inExit
    BY <1>1, NodesProcs DEF PhaseInv, PcSet, InitedSame, DoneSame
  <2>5. /\ proc'[H].pc \notin {"off", "forced"}
        /\ proc'[H].pc \in {"app", "stop", "bye"} => proc'[H].inited
        /\ sched'.inExit => proc'[H].inited /\ proc'[H].pc \notin {"wait", "app", "stop"}
    BY <1>1, NodesProcs DEF PhaseInv, PcSet, InitedSame
  <2>. QED  BY <2>2, <2>3, <2>4, <2>5 DEF PhaseInv
<1>4. ViewInv'
  BY <1>1, NodesProcs DEF ViewInv, NodesSame
<1>5. MsgInv'
  <2>1. \A m \in Nodes : \A u \in Msgs(up'[m]) : u \in Msgs(up[m]) \/ (u.cmd = "READY_TO_EXIT" => Past(m)')
    OBVIOUS
  <2>. QED  BY <1>1, <1>2, <2>1, MsgsLast
<1>. QED  BY <1>1, <1>2, <1>3, <1>4, <1>5

\* A step of a receiving thread or of the monitor, which moves no main thread.
LEMMA SamePcOrder ==
    ASSUME OrderInv, ClusterTypeOK', PcSame, proc[H].inited => proc'[H].inited, sched'.inExit = sched.inExit,
           \A n \in Nodes : proc'[n].inited => proc[n].inited \/ proc'[H].inited,
           \A n \in Nodes : proc'[n].done => proc[n].done \/ sched.inExit,
           unseen' \subseteq unseen
    PROVE  Forward /\ PhaseInv'
<1>. USE DEF OrderInv
<1>1. Forward
  BY NodesProcs DEF PcSame, Forward, C!Ended, Past
<1>2. ServerDead => ServerDead'
  BY <1>1, TruthLasts
<1>3. \A m \in Nodes : Excused(m)'
  BY <1>2, NodesProcs DEF PhaseInv, PcSame, Excused
<1>4. \A m \in unseen' : C!Ended(m)'
  BY <1>1, NodesProcs, TruthLasts DEF PhaseInv, ClusterTypeOK, ChanOK
<1>5. /\ \A m \in Nodes : proc'[m].inited => proc'[H].inited
      /\ \A m \in Nodes : proc'[m].done => sched'.inExit
      /\ \A m \in Nodes : proc'[m].pc = "end" => sched'.inExit
  BY NodesProcs DEF PhaseInv, PcSame
<1>6. /\ proc'[H].pc \notin {"off", "forced"}
      /\ proc'[H].pc \in {"app", "stop", "bye"} => proc'[H].inited
      /\ sched'.inExit => proc'[H].inited /\ proc'[H].pc \notin {"wait", "app", "stop"}
  BY NodesProcs DEF PhaseInv, PcSame
<1>. QED  BY <1>1, <1>3, <1>4, <1>5, <1>6 DEF PhaseInv

LEMMA RegisterOrder ==
    ASSUME OrderInv, NEW n \in Nodes, C!RegisterNode(n)
    PROVE  OrderInv' /\ Forward
<1>. USE DEF OrderInv
<1>1. CASE C!RegisterFails(n)
  <2>1. C!Receives(n, "REGISTER_NODE") /\ C!Leaves(H, "dead") /\ sched' = sched
    BY <1>1 DEF C!RegisterNode
  <2>2. up' \in [Nodes -> Seq(UpMsg)] /\ Taken(n) /\ C!Running(H)
    BY <2>1, ReceivesEffect DEF ClusterTypeOK
  <2>3. \A m \in Nodes : Msgs(up'[m]) \subseteq Msgs(up[m])
    BY <2>2, UpTaken
  <2>. QED  BY <2>1, <2>2, <2>3, NodesProcs, LeavingOrder
<1>2. CASE ~C!RegisterFails(n)
  <2>0. PICK msg : msg = [cmd |-> "ADD_NODE", nodes |-> proc[H].nodes \cup {n}]
    OBVIOUS
  <2>1. /\ ClusterTypeOK' /\ PcSame /\ InitedSame /\ DoneSame /\ Taken(n)
        /\ proc'[H].nodes = proc[H].nodes \cup {n} /\ proc'[H].senders = proc[H].senders \cup {n}
        /\ \A m \in Nodes : proc'[m].nodes = proc[m].nodes /\ proc'[m].senders = proc[m].senders
        /\ sched'.inExit = sched.inExit /\ unseen' = unseen
        /\ Told(proc[H].nodes \cup {n}, msg)
    BY <1>2, <2>0, RegisterEffect
  <2>2. Forward /\ PhaseInv'
    <3>1. /\ proc[H].inited => proc'[H].inited
          /\ \A m \in Nodes : proc'[m].inited => proc[m].inited
          /\ \A m \in Nodes : proc'[m].done => proc[m].done
      BY <2>1, NodesProcs DEF InitedSame, DoneSame
    <3>. QED  BY <2>1, <3>1, SamePcOrder
  <2>3. ViewInv'
    BY <2>1, NodesProcs DEF ViewInv
  <2>4. MsgInv'
    <3>1. TrueMsg(msg)' /\ \A m \in Nodes : Msgs(down'[m]) \subseteq Msgs(down[m]) \cup {msg}
      BY <2>0, <2>1 DEF Told, TrueMsg, ViewInv
    <3>2. \A m \in Nodes : \A u \in Msgs(up'[m]) : u \in Msgs(up[m]) \/ (u.cmd = "READY_TO_EXIT" => Past(m)')
      BY <2>1, UpTaken
    <3>. QED  BY <2>2, <3>1, <3>2, MsgsLast
  <2>. QED  BY <2>1, <2>2, <2>3, <2>4
<1>. QED  BY <1>1, <1>2

LEMMA ReadyToRunOrder ==
    ASSUME OrderInv, NEW n \in Nodes, C!ReadyToRun(n)
    PROVE  OrderInv' /\ Forward
<1>. DEFINE msg == [cmd |-> "READY_TO_RUN"]
<1>. USE DEF OrderInv
<1>1. /\ ClusterTypeOK' /\ PcSame /\ NodesSame /\ DoneSame /\ Taken(n)
      /\ \A m \in Nodes : proc'[m].inited = proc[m].inited
      /\ proc[H].inited => proc'[H].inited
      /\ sched'.inExit = sched.inExit /\ unseen' = unseen
      /\ DownLess \/ (proc'[H].inited /\ Told(proc[H].nodes, msg))
  BY ReadyToRunEffect
<1>2. Forward /\ PhaseInv'
  <2>1. \A m \in Nodes : proc'[m].done => proc[m].done
    BY <1>1, NodesProcs DEF DoneSame
  <2>. QED  BY <1>1, <2>1, SamePcOrder
<1>3. ViewInv'
  BY <1>1, NodesProcs DEF ViewInv, NodesSame
<1>4. MsgInv'
  <2>1. DownLess \/ (TrueMsg(msg)' /\ \A m \in Nodes : Msgs(down'[m]) \subseteq Msgs(down[m]) \cup {msg})
    BY <1>1 DEF Told, TrueMsg
  <2>2. \A m \in Nodes : \A u \in Msgs(up'[m]) : u \in Msgs(up[m]) \/ (u.cmd = "READY_TO_EXIT" => Past(m)')
    BY <1>1, UpTaken
  <2>. HIDE DEF msg
  <2>. QED  BY <1>2, <2>1, <2>2, MsgsLast
<1>. QED  BY <1>1, <1>2, <1>3, <1>4

LEMMA ReadyToExitOrder ==
    ASSUME OrderInv, NEW n \in Nodes, C!ReadyToExit(n)
    PROVE  OrderInv' /\ Forward
<1>. USE DEF OrderInv
<1>1. /\ ClusterTypeOK' /\ proc' = proc /\ Taken(n) /\ sched'.inExit = sched.inExit
      /\ down' = down /\ unseen' = unseen
  BY ReadyToExitEffect
<1>2. Forward /\ PhaseInv'
  BY <1>1, SamePcOrder DEF PcSame
<1>3. ViewInv'
  BY <1>1 DEF ViewInv
<1>4. MsgInv'
  <2>1. DownLess
    BY <1>1 DEF DownLess
  <2>2. \A m \in Nodes : \A u \in Msgs(up'[m]) : u \in Msgs(up[m]) \/ (u.cmd = "READY_TO_EXIT" => Past(m)')
    BY <1>1, UpTaken
  <2>. QED  BY <1>2, <2>1, <2>2, MsgsLast
<1>. QED  BY <1>1, <1>2, <1>3, <1>4

LEMMA ProcessAddOrder ==
    ASSUME OrderInv, NEW n \in Nodes, C!ProcessAdd(n)
    PROVE  OrderInv' /\ Forward
<1>. USE DEF OrderInv
<1>1. CASE C!Leaves(n, "dead") /\ up' = up
  <2>1. sched' = sched /\ C!Running(n) /\ up' \in [Nodes -> Seq(UpMsg)]
    BY <1>1, ProcessAddEffect DEF C!ProcessAdd, C!Delivers, ClusterTypeOK, ChanOK
  <2>. QED  BY <1>1, <2>1, NodesProcs, LeavingOrder
<1>2. CASE ~(C!Leaves(n, "dead") /\ up' = up)
  <2>. DEFINE ns == Head(down[n]).nodes
  <2>1. /\ sched' = sched /\ ClusterTypeOK' /\ PcSame /\ InitedSame /\ DoneSame /\ DownLess /\ unseen' = unseen
        /\ proc'[n].nodes = proc[n].nodes \cup ns
        /\ proc'[n].senders = proc[n].senders \cup {m \in ns : ~C!SameRole(m, n)}
        /\ \A m \in Procs : m # n => proc'[m].nodes = proc[m].nodes /\ proc'[m].senders = proc[m].senders
        /\ \A m \in Nodes : m # n => up'[m] = up[m]
        /\ Msgs(up'[n]) \subseteq Msgs(up[n]) \cup {[cmd |-> "READY_TO_RUN"]}
    BY <1>2, ProcessAddEffect
  <2>. HIDE DEF ns
  <2>2. Forward /\ PhaseInv'
    <3>1. /\ proc[H].inited => proc'[H].inited
          /\ \A m \in Nodes : proc'[m].inited => proc[m].inited
          /\ \A m \in Nodes : proc'[m].done => proc[m].done
      BY <2>1, NodesProcs DEF InitedSame, DoneSame
    <3>. QED  BY <2>1, <3>1, SamePcOrder
  <2>3. ViewInv'
    BY <2>1, NodesProcs DEF ViewInv
  <2>4. MsgInv'
    <3>1. \A m \in Nodes : \A u \in Msgs(up'[m]) : u \in Msgs(up[m]) \/ (u.cmd = "READY_TO_EXIT" => Past(m)')
      BY <2>1
    <3>. QED  BY <2>1, <2>2, <3>1, MsgsLast
  <2>. QED  BY <2>1, <2>2, <2>3, <2>4
<1>. QED  BY <1>1, <1>2

LEMMA ProcessRunOrder ==
    ASSUME OrderInv, NEW n \in Nodes, C!ProcessRun(n)
    PROVE  OrderInv' /\ Forward
<1>. USE DEF OrderInv
<1>1. /\ ClusterTypeOK' /\ PcSame /\ NodesSame /\ DoneSame /\ DownLess
      /\ Head(down[n]) \in Msgs(down[n]) /\ Head(down[n]).cmd = "READY_TO_RUN"
      /\ \A m \in Procs : m # n => proc'[m].inited = proc[m].inited
      /\ sched' = sched /\ up' = up /\ unseen' = unseen
  BY ProcessRunEffect
<1>2. Forward /\ PhaseInv'
  <2>1. proc[H].inited
    BY <1>1 DEF MsgInv, TrueMsg
  <2>2. /\ proc'[H].inited
        /\ \A m \in Nodes : proc'[m].done => proc[m].done
    BY <1>1, <2>1, NodesProcs DEF DoneSame
  <2>. QED  BY <1>1, <2>2, SamePcOrder
<1>3. ViewInv'
  BY <1>1, NodesProcs DEF ViewInv, NodesSame
<1>4. MsgInv'
  <2>1. \A m \in Nodes : \A u \in Msgs(up'[m]) : u \in Msgs(up[m]) \/ (u.cmd = "READY_TO_EXIT" => Past(m)')
    BY <1>1
  <2>. QED  BY <1>1, <1>2, <2>1, MsgsLast
<1>. QED  BY <1>1, <1>2, <1>3, <1>4

LEMMA ProcessExitOrder ==
    ASSUME OrderInv, NEW n \in Nodes, C!ProcessExit(n)
    PROVE  OrderInv' /\ Forward
<1>. USE DEF OrderInv
<1>1. /\ ClusterTypeOK' /\ PcSame /\ NodesSame /\ InitedSame /\ DownLess
      /\ Head(down[n]) \in Msgs(down[n]) /\ Head(down[n]).cmd = "EXIT"
      /\ \A m \in Procs : m # n => proc'[m].done = proc[m].done
      /\ sched' = sched /\ up' = up /\ unseen' = unseen
  BY ProcessExitEffect
<1>2. Forward /\ PhaseInv'
  <2>1. sched.inExit
    BY <1>1 DEF MsgInv, TrueMsg
  <2>2. /\ proc[H].inited => proc'[H].inited
        /\ \A m \in Nodes : proc'[m].inited => proc[m].inited
    BY <1>1, NodesProcs DEF InitedSame
  <2>. QED  BY <1>1, <2>1, <2>2, SamePcOrder
<1>3. ViewInv'
  BY <1>1, NodesProcs DEF ViewInv, NodesSame
<1>4. MsgInv'
  <2>1. \A m \in Nodes : \A u \in Msgs(up'[m]) : u \in Msgs(up[m]) \/ (u.cmd = "READY_TO_EXIT" => Past(m)')
    BY <1>1
  <2>. QED  BY <1>1, <1>2, <2>1, MsgsLast
<1>. QED  BY <1>1, <1>2, <1>3, <1>4

\* The process leaves only if the node that was removed is a server, which has failed.
LEMMA ProcessRemoveOrder ==
    ASSUME OrderInv, NEW n \in Nodes, C!ProcessRemove(n)
    PROVE  OrderInv' /\ Forward
<1>. USE DEF OrderInv
<1>. DEFINE k == Head(down[n]).node
<1>1. /\ sched' = sched /\ up' = up
      /\ Head(down[n]) \in Msgs(down[n]) /\ Head(down[n]).cmd = "REMOVE_NODE" /\ k \in Nodes
      /\ \/ C!Leaves(n, "forced") /\ k \in ServerIds
         \/ /\ ClusterTypeOK' /\ PcSame /\ InitedSame /\ DoneSame /\ DownLess /\ unseen' = unseen
            /\ proc'[n].nodes \subseteq proc[n].nodes /\ proc'[n].senders = proc[n].senders
            /\ \A m \in Procs : m # n => proc'[m].nodes = proc[m].nodes /\ proc'[m].senders = proc[m].senders
  BY ProcessRemoveEffect
<1>2. k \in ServerIds => ServerDead
  BY <1>1 DEF MsgInv, TrueMsg
<1>. HIDE DEF k
<1>3. CASE C!Leaves(n, "forced") /\ k \in ServerIds
  <2>1. C!Running(n) /\ up' \in [Nodes -> Seq(UpMsg)] /\ n \in Procs /\ n # H
    BY <1>1, NodesProcs DEF C!ProcessRemove, C!Delivers, ClusterTypeOK, ChanOK
  <2>. QED  BY <1>1, <1>2, <1>3, <2>1, LeavingOrder
<1>4. CASE ~(C!Leaves(n, "forced") /\ k \in ServerIds)
  <2>1. /\ ClusterTypeOK' /\ PcSame /\ InitedSame /\ DoneSame /\ DownLess /\ unseen' = unseen
        /\ proc'[n].nodes \subseteq proc[n].nodes /\ proc'[n].senders = proc[n].senders
        /\ \A m \in Procs : m # n => proc'[m].nodes = proc[m].nodes /\ proc'[m].senders = proc[m].senders
    BY <1>1, <1>4
  <2>2. Forward /\ PhaseInv'
    <3>1. /\ proc[H].inited => proc'[H].inited
          /\ \A m \in Nodes : proc'[m].inited => proc[m].inited
          /\ \A m \in Nodes : proc'[m].done => proc[m].done
      BY <2>1, NodesProcs DEF InitedSame, DoneSame
    <3>. QED  BY <1>1, <2>1, <3>1, SamePcOrder
  <2>3. ViewInv'
    BY <2>1, NodesProcs DEF ViewInv
  <2>4. MsgInv'
    <3>1. \A m \in Nodes : \A u \in Msgs(up'[m]) : u \in Msgs(up[m]) \/ (u.cmd = "READY_TO_EXIT" => Past(m)')
      BY <1>1
    <3>. QED  BY <2>1, <2>2, <3>1, MsgsLast
  <2>. QED  BY <2>1, <2>2, <2>3, <2>4
<1>. QED  BY <1>3, <1>4

\* A node that is reported removed has ended; a server was not made to leave for another reason
\* than a dead server, since the scheduler runs and has not told anyone to exit.
LEMMA DisconnectedOrder ==
    ASSUME OrderInv, NEW n \in Nodes, C!NodeDisconnected(n)
    PROVE  OrderInv' /\ Forward
<1>. USE DEF OrderInv
<1>. DEFINE msg == [cmd |-> "REMOVE_NODE", node |-> n]
<1>1. /\ ClusterTypeOK' /\ PcSame /\ InitedSame /\ DoneSame /\ up' = up
      /\ n \in unseen /\ unseen' = unseen \ {n} /\ C!Running(H)
      /\ proc'[H].nodes \subseteq proc[H].nodes /\ proc[H].nodes \ {n} \subseteq proc'[H].nodes
      /\ proc'[H].senders = proc[H].senders
      /\ \A m \in Nodes : proc'[m].nodes = proc[m].nodes /\ proc'[m].senders = proc[m].senders
      /\ sched'.inExit = sched.inExit
      /\ DownLess \/ (~sched.inExit /\ Told(proc[H].nodes, msg))
  BY DisconnectedEffect
<1>2. Forward /\ PhaseInv'
  <2>1. /\ proc[H].inited => proc'[H].inited
        /\ \A m \in Nodes : proc'[m].inited => proc[m].inited
        /\ \A m \in Nodes : proc'[m].done => proc[m].done
    BY <1>1, NodesProcs DEF InitedSame, DoneSame
  <2>. QED  BY <1>1, <2>1, SamePcOrder
<1>3. ViewInv'
  BY <1>1, NodesProcs DEF ViewInv
<1>4. MsgInv'
  <2>1. C!Ended(n)' /\ (~sched.inExit /\ n \in ServerIds => ServerDead')
    <3>1. C!Ended(n) /\ (~sched.inExit /\ n \in ServerIds => ServerDead)
      BY <1>1 DEF PhaseInv, Excused, ServerDead, C!Ended, C!Running
    <3>. QED  BY <1>2, <3>1, NodesProcs, TruthLasts
  <2>2. DownLess \/ (TrueMsg(msg)' /\ \A m \in Nodes : Msgs(down'[m]) \subseteq Msgs(down[m]) \cup {msg})
    BY <1>1, <2>1 DEF Told, TrueMsg
  <2>3. \A m \in Nodes : \A u \in Msgs(up'[m]) : u \in Msgs(up[m]) \/ (u.cmd = "READY_TO_EXIT" => Past(m)')
    BY <1>1
  <2>. HIDE DEF msg
  <2>. QED  BY <1>2, <2>2, <2>3, MsgsLast
<1>. QED  BY <1>1, <1>2, <1>3, <1>4

LEMMA MainOrder ==
    ASSUME OrderInv, NEW n \in Procs,
           \/ C!RunApp(n) \/ C!AppEnds(n) \/ (n # H /\ C!EndNode(n)) \/ (n = H /\ C!EndScheduler)
    PROVE  OrderInv' /\ Forward
<1>. USE DEF OrderInv
<1>1. ClusterTypeOK' /\ NodesSame /\ InitedSame /\ DoneSame /\ sched' = sched /\ down' = down
  BY MainEffect
<1>2. \/ proc[n].pc = "wait" /\ proc[n].inited /\ PcSet(n, "app") /\ up' = up /\ unseen' = unseen
      \/ /\ proc[n].pc = "app" /\ PcSet(n, "stop") /\ unseen' = unseen
         /\ \A m \in Nodes : m # n => up'[m] = up[m]
         /\ n # H => /\ Msgs(up'[n]) = Msgs(up[n]) \cup {[cmd |-> "READY_TO_EXIT"]}
                     /\ Behind(up'[n]) \subseteq Behind(up[n]) \cup {[cmd |-> "READY_TO_EXIT"]}
      \/ n # H /\ proc[n].pc = "stop" /\ proc[n].done /\ PcSet(n, "end") /\ up' = up /\ unseen' = unseen \cup {n}
      \/ n = H /\ proc[H].pc = "bye" /\ PcSet(H, "end") /\ up' = up /\ unseen' = unseen
  BY MainEffect
<1>3. PICK how \in {"app", "stop", "end"} :
        /\ PcSet(n, how) /\ proc[n].pc \in {"wait", "app", "stop", "bye"}
        /\ how = "app" => proc[n].pc = "wait" /\ proc[n].inited
        /\ how = "stop" => proc[n].pc = "app"
        /\ how = "end" => (n # H /\ proc[n].pc = "stop" /\ proc[n].done) \/ (n = H /\ proc[n].pc = "bye")
        /\ unseen' \subseteq unseen \cup (IF how = "end" THEN {n} ELSE {})
  BY <1>2
<1>4. Forward
  BY <1>1, <1>3, NodesProcs DEF PcSet, InitedSame, Forward, C!Ended, Past
<1>5. PhaseInv'
  <2>1. ServerDead => ServerDead'
    BY <1>4, TruthLasts
  <2>2. \A m \in Nodes : Excused(m)'
    BY <1>1, <1>3, <2>1, NodesProcs DEF PhaseInv, PcSet, Excused
  <2>3. \A m \in unseen' : C!Ended(m)'
    <3>1. \A m \in unseen : C!Ended(m)'
      BY <1>4, NodesProcs, TruthLasts DEF PhaseInv, ClusterTypeOK, ChanOK
    <3>. QED  BY <1>3, <3>1, NodesProcs DEF PcSet, C!Ended
  <2>4. /\ \A m \in Nodes : proc'[m].inited => proc'[H].inited
        /\ \A m \in Nodes : proc'[m].done => sched'.inExit
        /\ \A m \in Nodes : proc'[m].pc = "end" => sched'.inExit
    BY <1>1, <1>3, NodesProcs DEF PhaseInv, PcSet, InitedSame, DoneSame
  <2>5. /\ proc'[H].pc \notin {"off", "forced"}
        /\ proc'[H].pc \in {"app", "stop", "bye"} => proc'[H].inited
        /\ sched'.inExit => proc'[H].inited /\ proc'[H].pc \notin {"wait", "app", "stop"}
    BY <1>1, <1>3, NodesProcs DEF PhaseInv, PcSet, InitedSame
  <2>. QED  BY <2>2, <2>3, <2>4, <2>5 DEF PhaseInv
<1>6. ViewInv'
  BY <1>1, NodesProcs DEF ViewInv, NodesSame
<1>7. MsgInv'
  <2>1. DownLess
    BY <1>1 DEF DownLess
  <2>2. \A m \in Nodes : \A u \in Msgs(up'[m]) : u \in Msgs(up[m]) \/ (u.cmd = "READY_TO_EXIT" => Past(m)')
    BY <1>2, NodesProcs DEF Past, PcSet
  <2>. QED  BY <1>4, <2>1, <2>2, MsgsLast
<1>. QED  BY <1>1, <1>4, <1>5, <1>6, <1>7

LEMMA BroadcastExitOrder ==
    ASSUME OrderInv, C!BroadcastExit
    PROVE  OrderInv' /\ Forward
<1>. USE DEF OrderInv
<1>. DEFINE msg == [cmd |-> "EXIT"]
<1>1. /\ ClusterTypeOK' /\ proc[H].pc = "stop" /\ PcSet(H, "bye") /\ NodesSame /\ InitedSame /\ DoneSame
      /\ sched'.inExit /\ Told(proc[H].nodes, msg) /\ up' = up /\ unseen' = unseen
  BY BroadcastExitEffect
<1>2. Forward
  BY <1>1, NodesProcs DEF PcSet, InitedSame, Forward, C!Ended, Past
<1>3. PhaseInv'
  <2>1. ServerDead => ServerDead'
    BY <1>2, TruthLasts
  <2>2. \A m \in Nodes : Excused(m)'
    BY <1>1, <2>1, NodesProcs DEF PhaseInv, PcSet, Excused
  <2>3. \A m \in unseen' : C!Ended(m)'
    BY <1>1, <1>2, NodesProcs, TruthLasts DEF PhaseInv, ClusterTypeOK, ChanOK
  <2>4. \A m \in Nodes : proc'[m].inited => proc'[H].inited
    BY <1>1, NodesProcs DEF PhaseInv, InitedSame
  <2>5. proc'[H].pc = "bye" /\ proc'[H].inited
    BY <1>1, NodesProcs DEF PhaseInv, PcSet, InitedSame
  <2>. QED  BY <1>1, <2>2, <2>3, <2>4, <2>5 DEF PhaseInv
<1>4. ViewInv'
  BY <1>1, NodesProcs DEF ViewInv, NodesSame
<1>5. MsgInv'
  <2>1. TrueMsg(msg)' /\ \A m \in Nodes : Msgs(down'[m]) \subseteq Msgs(down[m]) \cup {msg}
    BY <1>1 DEF Told, TrueMsg
  <2>2. \A m \in Nodes : \A u \in Msgs(up'[m]) : u \in Msgs(up[m]) \/ (u.cmd = "READY_TO_EXIT" => Past(m)')
    BY <1>1
  <2>. HIDE DEF msg
  <2>. QED  BY <1>2, <2>1, <2>2, MsgsLast
<1>. QED  BY <1>1, <1>2, <1>3, <1>4, <1>5

LEMMA OrderInit == ASSUME C!Init PROVE OrderInv
<1>1. /\ proc = [n \in Procs |-> IF n = H THEN [C!NewProc EXCEPT !.pc = "wait", !.nodes = {H}] ELSE C!NewProc]
      /\ up = [n \in Nodes |-> << >>] /\ down = [n \in Nodes |-> << >>] /\ unseen = {}
      /\ sched = [active |-> {}, alive |-> {H}, unknown |-> 0, inExit |-> FALSE, serverRank |-> 0,
                  workerRank |-> 0, fds |-> {}, gone |-> {}, rank |-> [n \in Nodes |-> -1]]
  BY DEF C!Init, Nodes, Procs
<1>2. /\ IsFcn(proc, Procs) /\ \A n \in Procs : IsFcn(proc[n], ProcFields)
      /\ \A n \in Procs : proc[n].senders = {H} /\ ~proc[n].inited /\ ~proc[n].done
      /\ proc[H].pc = "wait" /\ proc[H].nodes = {H}
      /\ \A n \in Nodes : proc[n].pc = "off" /\ proc[n].nodes = {}
  BY <1>1, NodesProcs DEF C!NewProc, IsFcn, ProcFields
<1>3. ProcOK
  BY <1>2, NodesProcs DEF ProcOK, Pcs
<1>4. IsFcn(sched, SchedFields) /\ sched.active = {} /\ ~sched.inExit
  BY <1>1 DEF IsFcn, SchedFields
<1>5. sched.rank \in [Nodes -> Int] /\ sched.serverRank \in Nat /\ sched.workerRank \in Nat
  BY <1>1
<1>6. << >> \in Seq(UpMsg) /\ << >> \in Seq(DownMsg)
  OBVIOUS
<1>7. ClusterTypeOK
  BY <1>1, <1>3, <1>4, <1>5, <1>6 DEF ClusterTypeOK, SchedOK, ChanOK
<1>8. PhaseInv
  BY <1>1, <1>2, <1>4, NodesProcs DEF PhaseInv, Excused
<1>9. ViewInv
  BY <1>2, NodesProcs DEF ViewInv
<1>10. MsgInv
  BY <1>1, NoMsgs DEF MsgInv
<1>. QED  BY <1>7, <1>8, <1>9, <1>10 DEF OrderInv
-----------------------------------------------------------------------------
(***************************************************************************)
(* Ranks                                                                   *)
(***************************************************************************)
RankSame == /\ sched'.rank = sched.rank /\ sched'.serverRank = sched.serverRank
            /\ sched'.workerRank = sched.workerRank

\* A step that registers nobody.
LEMMA RanksLast ==
    ASSUME ClusterTypeOK, RegisterInv, RankInv, RankSame, ClusterTypeOK',
           \A m \in Nodes : proc'[m].pc = "off" => proc[m].pc = "off" /\ Msgs(up'[m]) \subseteq Msgs(up[m]),
           \A m \in Nodes : \A u \in Behind(up'[m]) : u \in Behind(up[m]) \/ u.cmd # "REGISTER_NODE",
           \A m \in Nodes : \A u \in Msgs(up'[m]) :
               \/ u \in Msgs(up[m])
               \/ (u.cmd = "REGISTER_NODE" => ~Ranked(m)) /\ (u.cmd = "READY_TO_RUN" => Ranked(m)),
           proc'[H].nodes \subseteq proc[H].nodes,
           \A m \in Nodes : Msgs(down'[m]) # {} => Msgs(down[m]) # {} \/ m \in proc[H].nodes,
           \A m \in sched'.active : m \in sched.active \/ Ranked(m)
    PROVE  RegisterInv' /\ RankInv'
<1>1. \A m : Ranked(m)' <=> Ranked(m)
  BY DEF Ranked, RankSame
<1>2. RegisterInv'
  <2>1. \A n \in Nodes : proc'[n].pc = "off" => Msgs(up'[n]) = {} /\ ~Ranked(n)'
    BY <1>1 DEF RegisterInv
  <2>2. \A n \in Nodes : \A msg \in Behind(up'[n]) : msg.cmd # "REGISTER_NODE"
    BY DEF RegisterInv
  <2>3. \A n \in Nodes : \A msg \in Msgs(up'[n]) : (msg.cmd = "REGISTER_NODE" => ~Ranked(n)') /\ (msg.cmd = "READY_TO_RUN" => Ranked(n)')
    BY <1>1 DEF RegisterInv
  <2>4. \A n \in proc'[H].nodes : n # H => Ranked(n)'
    BY <1>1 DEF RegisterInv
  <2>5. \A n \in Nodes : Msgs(down'[n]) # {} => Ranked(n)'
    BY <1>1, NodesProcs DEF RegisterInv
  <2>6. \A n \in sched'.active : Ranked(n)'
    BY <1>1 DEF RegisterInv
  <2>. QED  BY <2>1, <2>2, <2>3, <2>4, <2>5, <2>6 DEF RegisterInv
<1>3. RankedServers' = RankedServers
  BY <1>1 DEF RankedServers
<1>4. RankInv'
  BY <1>1, <1>3 DEF RankInv, RankSame
<1>. QED  BY <1>2, <1>4

\* The scheduler registers a node, which gets the next rank of its role.
LEMMA RegisterRanks ==
    ASSUME ClusterTypeOK, RegisterInv, RankInv, NEW n \in Nodes, C!RegisterNode(n), ~C!RegisterFails(n)
    PROVE  RegisterInv' /\ RankInv'
<1>1. /\ ClusterTypeOK' /\ PcSame /\ Taken(n)
      /\ Head(up[n]).cmd = "REGISTER_NODE" /\ Head(up[n]) \in Msgs(up[n])
      /\ proc'[H].nodes = proc[H].nodes \cup {n}
      /\ sched'.active = sched.active
      /\ sched'.rank = [sched.rank EXCEPT ![n] = IF n \in ServerIds THEN sched.serverRank ELSE sched.workerRank]
      /\ sched'.serverRank = (IF n \in ServerIds THEN sched.serverRank + 1 ELSE sched.serverRank)
      /\ sched'.workerRank = (IF n \in WorkerIds THEN sched.workerRank + 1 ELSE sched.workerRank)
      /\ n \in ServerIds => sched.serverRank < NumServers
      /\ Told(proc[H].nodes \cup {n}, [cmd |-> "ADD_NODE", nodes |-> proc[H].nodes \cup {n}])
  BY RegisterEffect
<1>2. ~Ranked(n)
  BY <1>1 DEF RegisterInv
<1>3. sched.rank \in [Nodes -> Int] /\ sched.serverRank \in Nat /\ sched.workerRank \in Nat
  BY DEF ClusterTypeOK, SchedOK
<1>4. Ranked(n)' /\ \A m \in Nodes : m # n => (sched'.rank[m] = sched.rank[m] /\ (Ranked(m)' <=> Ranked(m)))
  BY <1>1, <1>3 DEF Ranked
<1>5. RegisterInv'
  <2>1. \A m \in Nodes : proc'[m].pc = "off" => Msgs(up'[m]) = {} /\ ~Ranked(m)'
    <3>1. proc'[n].pc # "off"
      BY <1>1, NodesProcs DEF RegisterInv, PcSame
    <3>. QED  BY <1>1, <1>4, <3>1, NodesProcs DEF RegisterInv, PcSame, Taken
  <2>2. \A m \in Nodes : \A msg \in Behind(up'[m]) : msg.cmd # "REGISTER_NODE"
    BY <1>1, UpTaken DEF RegisterInv
  <2>3. \A m \in Nodes : \A msg \in Msgs(up'[m]) : (msg.cmd = "REGISTER_NODE" => ~Ranked(m)') /\ (msg.cmd = "READY_TO_RUN" => Ranked(m)')
    <3>1. \A msg \in Msgs(up'[n]) : msg.cmd # "REGISTER_NODE"
      BY <1>1 DEF RegisterInv, Taken
    <3>. QED  BY <1>1, <1>4, <3>1 DEF RegisterInv, Taken
  <2>4. \A m \in proc'[H].nodes : m # H => Ranked(m)'
    <3>1. proc[H].nodes \subseteq Procs
      BY NodesProcs DEF ClusterTypeOK, ProcOK
    <3>. QED  BY <1>1, <1>4, <3>1, NodesProcs DEF RegisterInv
  <2>5. \A m \in Nodes : Msgs(down'[m]) # {} => Ranked(m)'
    BY <1>1, <1>4, NodesProcs DEF RegisterInv, Told
  <2>6. \A m \in sched'.active : Ranked(m)'
    BY <1>1, <1>4 DEF RegisterInv, ClusterTypeOK, SchedOK
  <2>. QED  BY <2>1, <2>2, <2>3, <2>4, <2>5, <2>6 DEF RegisterInv
<1>6. CASE n \in ServerIds
  <2>1. RankedServers' = RankedServers \cup {n} /\ n \notin RankedServers
    BY <1>2, <1>4, <1>6, NodesProcs DEF RankedServers
  <2>2. n \notin WorkerIds /\ RankedServers \subseteq ServerIds
    BY <1>6, ClusterAssumption DEF RankedServers
  <2>3. Cardinality(RankedServers') = sched'.serverRank
    <3>1. IsFiniteSet(RankedServers)
      BY <2>2, ClusterAssumption, FS_Subset
    <3>2. Cardinality(RankedServers \cup {n}) = Cardinality(RankedServers) + 1
      BY <2>1, <3>1, FS_AddElement
    <3>. QED  BY <1>1, <1>3, <1>6, <2>1, <3>2 DEF RankInv
  <2>4. \A m \in RankedServers : sched.rank[m] \in 0 .. sched.serverRank - 1 /\ sched'.rank[m] = sched.rank[m]
    BY <1>4, <2>1, <2>2, NodesProcs DEF RankInv
  <2>5. sched'.rank[n] = sched.serverRank
    BY <1>1, <1>3, <1>6
  <2>6. {sched'.rank[m] : m \in RankedServers'} = 0 .. sched'.serverRank - 1
    <3>1. {sched'.rank[m] : m \in RankedServers'} = {sched.rank[m] : m \in RankedServers} \cup {sched.serverRank}
      BY <2>1, <2>4, <2>5
    <3>2. {sched.rank[m] : m \in RankedServers} \cup {sched.serverRank} = 0 .. sched.serverRank
      BY <1>3 DEF RankInv
    <3>. QED  BY <1>1, <1>3, <1>6, <3>1, <3>2
  <2>7. ASSUME NEW k \in Nodes, NEW m \in Nodes, C!SameRole(k, m), k # m, Ranked(k)', Ranked(m)'
        PROVE  sched'.rank[k] # sched'.rank[m]
    <3>1. CASE k # n /\ m # n
      BY <1>4, <2>7, <3>1 DEF RankInv
    <3>2. CASE k = n
      <4>1. m \in RankedServers
        BY <1>4, <2>2, <2>7, <3>2 DEF C!SameRole, RankedServers
      <4>. QED  BY <1>3, <2>4, <2>5, <3>2, <4>1
    <3>3. CASE m = n
      <4>1. k \in RankedServers
        BY <1>4, <2>2, <2>7, <3>3 DEF C!SameRole, RankedServers
      <4>. QED  BY <1>3, <2>4, <2>5, <3>3, <4>1
    <3>. QED  BY <3>1, <3>2, <3>3
  <2>8. \A m \in WorkerIds : Ranked(m)' => sched'.rank[m] \in 0 .. sched'.workerRank - 1
    BY <1>1, <1>4, <2>2, NodesProcs DEF RankInv
  <2>9. sched'.serverRank <= NumServers
    BY <1>1, <1>3, <1>6, ClusterAssumption
  <2>. QED  BY <1>5, <2>3, <2>6, <2>7, <2>8, <2>9 DEF RankInv
<1>7. CASE n \notin ServerIds
  <2>1. n \in WorkerIds
    BY <1>7, NodesProcs
  <2>2. RankedServers' = RankedServers /\ \A m \in RankedServers : sched'.rank[m] = sched.rank[m]
    BY <1>4, <1>7, NodesProcs DEF RankedServers
  <2>3. sched'.serverRank = sched.serverRank /\ sched'.rank[n] = sched.workerRank
    BY <1>1, <1>3, <1>7
  <2>4. {sched'.rank[m] : m \in RankedServers'} = 0 .. sched'.serverRank - 1
    BY <2>2, <2>3 DEF RankInv
  <2>5. \A m \in WorkerIds : Ranked(m)' => sched'.rank[m] \in 0 .. sched'.workerRank - 1
    <3>1. sched'.workerRank = sched.workerRank + 1
      BY <1>1, <2>1
    <3>2. \A m \in WorkerIds : m # n => (Ranked(m)' => sched'.rank[m] \in 0 .. sched.workerRank - 1)
      BY <1>4, NodesProcs DEF RankInv
    <3>. QED  BY <1>3, <2>3, <3>1, <3>2
  <2>6. ASSUME NEW k \in Nodes, NEW m \in Nodes, C!SameRole(k, m), k # m, Ranked(k)', Ranked(m)'
        PROVE  sched'.rank[k] # sched'.rank[m]
    <3>1. CASE k # n /\ m # n
      BY <1>4, <2>6, <3>1 DEF RankInv
    <3>2. CASE k = n
      <4>1. m \in WorkerIds /\ sched'.rank[m] \in 0 .. sched.workerRank - 1
        BY <1>4, <1>7, <2>6, <3>2 DEF C!SameRole, RankInv
      <4>. QED  BY <1>3, <2>3, <3>2, <4>1
    <3>3. CASE m = n
      <4>1. k \in WorkerIds /\ sched'.rank[k] \in 0 .. sched.workerRank - 1
        BY <1>4, <1>7, <2>6, <3>3 DEF C!SameRole, RankInv
      <4>. QED  BY <1>3, <2>3, <3>3, <4>1
    <3>. QED  BY <3>1, <3>2, <3>3
  <2>. QED  BY <1>5, <2>2, <2>3, <2>4, <2>5, <2>6 DEF RankInv
<1>. QED  BY <1>6, <1>7

RanksInv == OrderInv /\ RegisterInv /\ RankInv

LEMMA RanksInit == ASSUME C!Init PROVE RanksInv
<1>1. OrderInv
  BY OrderInit
<1>2. /\ \A n \in Nodes : up[n] = << >> /\ down[n] = << >> /\ sched.rank[n] = -1
      /\ sched.active = {} /\ sched.serverRank = 0 /\ sched.workerRank = 0
  BY DEF C!Init, Nodes
<1>3. proc[H].nodes = {H}
  BY NodesProcs DEF C!Init, C!NewProc, Procs
<1>4. \A n \in Nodes : ~Ranked(n) /\ Msgs(up[n]) = {} /\ Behind(up[n]) = {} /\ Msgs(down[n]) = {}
  BY <1>2, NoMsgs DEF Ranked
<1>5. RegisterInv
  BY <1>2, <1>3, <1>4 DEF RegisterInv
<1>6. RankedServers = {}
  BY <1>4, NodesProcs DEF RankedServers
<1>7. Cardinality({}) = 0
  BY FS_EmptySet
<1>8. RankInv
  BY <1>2, <1>4, <1>6, <1>7, NodesProcs, ClusterAssumption DEF RankInv
<1>. QED  BY <1>1, <1>5, <1>8 DEF RanksInv

\* A process ends before its time.
LEMMA LeavingRanks ==
    ASSUME RanksInv, NEW n \in Procs, NEW how \in {"dead", "forced"}, C!Leaves(n, how),
           sched' = sched, up' \in [Nodes -> Seq(UpMsg)],
           \A m \in Nodes : Msgs(up'[m]) \subseteq Msgs(up[m]) /\ Behind(up'[m]) \subseteq Behind(up[m])
    PROVE  RegisterInv' /\ RankInv'
<1>1. ClusterTypeOK' /\ PcSet(n, how) /\ NodesSame /\ DownLess
  BY LeavingEffect DEF RanksInv, OrderInv
<1>2. \A m \in Nodes : proc'[m].pc = "off" => proc[m].pc = "off"
  BY <1>1, NodesProcs DEF PcSet
<1>3. proc'[H].nodes \subseteq proc[H].nodes /\ \A m \in Nodes : Msgs(down'[m]) # {} => Msgs(down[m]) # {}
  BY <1>1, NodesProcs DEF NodesSame, DownLess
<1>4. RankSame /\ \A m \in sched'.active : m \in sched.active
  BY DEF RankSame
<1>. QED  BY <1>1, <1>2, <1>3, <1>4, RanksLast DEF RanksInv, OrderInv

LEMMA NextRanks == ASSUME RanksInv, C!Next PROVE RanksInv' /\ Forward
<1>. USE DEF RanksInv
<1>0. ClusterTypeOK
  BY DEF OrderInv
<1>1. ASSUME NEW n \in Nodes, C!Start(n) PROVE RanksInv' /\ Forward
  <2>1. OrderInv' /\ Forward
    BY <1>1, StartOrder
  <2>2. /\ proc[n].pc = "off" /\ PcSet(n, "wait") /\ NodesSame
        /\ Msgs(up'[n]) = {[cmd |-> "REGISTER_NODE"]} /\ Behind(up'[n]) = {}
        /\ \A m \in Nodes : m # n => up'[m] = up[m]
        /\ sched' = sched /\ down' = down
    BY <1>0, <1>1, StartEffect
  <2>3. \A m \in Nodes : proc'[m].pc = "off" => proc[m].pc = "off" /\ Msgs(up'[m]) \subseteq Msgs(up[m])
    BY <2>2, NodesProcs DEF PcSet
  <2>4. ~Ranked(n)
    BY <2>2 DEF RegisterInv
  <2>5. RankSame /\ proc'[H].nodes = proc[H].nodes
    BY <2>2, NodesProcs DEF RankSame, NodesSame
  <2>6. \A m \in Nodes : \A u \in Behind(up'[m]) : u \in Behind(up[m]) \/ u.cmd # "REGISTER_NODE"
    BY <2>2
  <2>7. \A m \in Nodes : \A u \in Msgs(up'[m]) :
           \/ u \in Msgs(up[m])
           \/ (u.cmd = "REGISTER_NODE" => ~Ranked(m)) /\ (u.cmd = "READY_TO_RUN" => Ranked(m))
    BY <2>2, <2>4
  <2>8. RegisterInv' /\ RankInv'
    BY <1>0, <2>1, <2>2, <2>3, <2>5, <2>6, <2>7, RanksLast DEF OrderInv
  <2>. QED  BY <2>1, <2>8
<1>2. ASSUME NEW n \in Nodes, C!RegisterNode(n) PROVE RanksInv' /\ Forward
  <2>1. OrderInv' /\ Forward
    BY <1>2, RegisterOrder
  <2>2. CASE ~C!RegisterFails(n)
    BY <1>0, <1>2, <2>1, <2>2, RegisterRanks
  <2>3. CASE C!RegisterFails(n)
    <3>1. C!Receives(n, "REGISTER_NODE") /\ C!Leaves(H, "dead") /\ sched' = sched
      BY <1>2, <2>3 DEF C!RegisterNode
    <3>2. up' \in [Nodes -> Seq(UpMsg)] /\ Taken(n)
      BY <1>0, <3>1, ReceivesEffect DEF ClusterTypeOK
    <3>3. \A m \in Nodes : Msgs(up'[m]) \subseteq Msgs(up[m]) /\ Behind(up'[m]) \subseteq Behind(up[m])
      BY <3>2, UpTaken
    <3>. QED  BY <2>1, <3>1, <3>2, <3>3, NodesProcs, LeavingRanks
  <2>. QED  BY <2>2, <2>3
<1>3. ASSUME NEW n \in Nodes, C!ReadyToRun(n) PROVE RanksInv' /\ Forward
  <2>1. OrderInv' /\ Forward
    BY <1>3, ReadyToRunOrder
  <2>2. /\ PcSame /\ NodesSame /\ Taken(n)
        /\ Head(up[n]).cmd = "READY_TO_RUN" /\ Head(up[n]) \in Msgs(up[n])
        /\ sched'.active = sched.active \cup {n} /\ RankSame
        /\ DownLess \/ Told(proc[H].nodes, [cmd |-> "READY_TO_RUN"])
    BY <1>0, <1>3, ReadyToRunEffect DEF RankSame
  <2>3. \A m \in Nodes : Msgs(up'[m]) \subseteq Msgs(up[m]) /\ Behind(up'[m]) \subseteq Behind(up[m])
    BY <2>2, UpTaken
  <2>4. /\ \A m \in Nodes : proc'[m].pc = "off" => proc[m].pc = "off"
        /\ proc'[H].nodes = proc[H].nodes
        /\ \A m \in Nodes : Msgs(down'[m]) # {} => Msgs(down[m]) # {} \/ m \in proc[H].nodes
    BY <2>2, NodesProcs DEF PcSame, NodesSame, DownLess, Told
  <2>5. \A m \in sched'.active : m \in sched.active \/ Ranked(m)
    BY <2>2 DEF RegisterInv
  <2>6. RegisterInv' /\ RankInv'
    BY <1>0, <2>1, <2>2, <2>3, <2>4, <2>5, RanksLast DEF OrderInv
  <2>. QED  BY <2>1, <2>6
<1>4. ASSUME NEW n \in Nodes, C!ReadyToExit(n) PROVE RanksInv' /\ Forward
  <2>1. OrderInv' /\ Forward
    BY <1>4, ReadyToExitOrder
  <2>2. proc' = proc /\ Taken(n) /\ sched'.active = sched.active \ {n} /\ RankSame /\ down' = down
    BY <1>0, <1>4, ReadyToExitEffect DEF RankSame
  <2>3. \A m \in Nodes : Msgs(up'[m]) \subseteq Msgs(up[m]) /\ Behind(up'[m]) \subseteq Behind(up[m])
    BY <2>2, UpTaken
  <2>4. RegisterInv' /\ RankInv'
    BY <1>0, <2>1, <2>2, <2>3, RanksLast DEF OrderInv
  <2>. QED  BY <2>1, <2>4
<1>5. ASSUME NEW n \in Nodes, C!ProcessAdd(n) PROVE RanksInv' /\ Forward
  <2>1. OrderInv' /\ Forward
    BY <1>5, ProcessAddOrder
  <2>2. sched' = sched /\ C!Running(n)
    BY <1>0, <1>5, ProcessAddEffect DEF C!ProcessAdd, C!Delivers
  <2>3. CASE C!Leaves(n, "dead") /\ up' = up
    <3>1. up' \in [Nodes -> Seq(UpMsg)]
      BY <1>0, <2>3 DEF ClusterTypeOK, ChanOK
    <3>. QED  BY <2>1, <2>2, <2>3, <3>1, NodesProcs, LeavingRanks
  <2>4. CASE ~(C!Leaves(n, "dead") /\ up' = up)
    <3>. DEFINE msg == [cmd |-> "READY_TO_RUN"]
    <3>1. /\ PcSame /\ DownLess /\ Head(down[n]) \in Msgs(down[n])
          /\ \A m \in Procs : m # n => proc'[m].nodes = proc[m].nodes /\ proc'[m].senders = proc[m].senders
          /\ \A m \in Nodes : m # n => up'[m] = up[m]
          /\ Msgs(up'[n]) \subseteq Msgs(up[n]) \cup {msg} /\ Behind(up'[n]) \subseteq Behind(up[n]) \cup {msg}
      BY <1>0, <1>5, <2>4, ProcessAddEffect
    <3>2. Ranked(n) /\ proc[n].pc # "off"
      BY <2>2, <3>1 DEF RegisterInv, C!Running
    <3>3. \A m \in Nodes : proc'[m].pc = "off" => proc[m].pc = "off" /\ Msgs(up'[m]) \subseteq Msgs(up[m])
      BY <3>1, <3>2, NodesProcs DEF PcSame
    <3>4. /\ \A m \in Nodes : \A u \in Behind(up'[m]) : u \in Behind(up[m]) \/ u.cmd # "REGISTER_NODE"
          /\ \A m \in Nodes : \A u \in Msgs(up'[m]) :
               \/ u \in Msgs(up[m])
               \/ (u.cmd = "REGISTER_NODE" => ~Ranked(m)) /\ (u.cmd = "READY_TO_RUN" => Ranked(m))
      BY <3>1, <3>2
    <3>5. proc'[H].nodes = proc[H].nodes /\ \A m \in Nodes : Msgs(down'[m]) # {} => Msgs(down[m]) # {}
      BY <3>1, NodesProcs DEF DownLess
    <3>6. RankSame
      BY <2>2 DEF RankSame
    <3>7. RegisterInv' /\ RankInv'
      BY <1>0, <2>1, <2>2, <3>3, <3>4, <3>5, <3>6, RanksLast DEF OrderInv
    <3>. QED  BY <2>1, <3>7
  <2>. QED  BY <2>3, <2>4
<1>6. ASSUME NEW n \in Nodes, C!ProcessRun(n) \/ C!ProcessExit(n) PROVE RanksInv' /\ Forward
  <2>1. OrderInv' /\ Forward
    BY <1>6, ProcessRunOrder, ProcessExitOrder
  <2>2. PcSame /\ NodesSame /\ DownLess /\ sched' = sched /\ up' = up
    BY <1>0, <1>6, ProcessRunEffect, ProcessExitEffect
  <2>3. /\ \A m \in Nodes : proc'[m].pc = "off" => proc[m].pc = "off"
        /\ proc'[H].nodes = proc[H].nodes /\ RankSame
        /\ \A m \in Nodes : Msgs(down'[m]) # {} => Msgs(down[m]) # {}
    BY <2>2, NodesProcs DEF PcSame, NodesSame, DownLess, RankSame
  <2>4. RegisterInv' /\ RankInv'
    BY <1>0, <2>1, <2>2, <2>3, RanksLast DEF OrderInv
  <2>. QED  BY <2>1, <2>4
<1>7. ASSUME NEW n \in Nodes, C!ProcessRemove(n) PROVE RanksInv' /\ Forward
  <2>1. OrderInv' /\ Forward
    BY <1>7, ProcessRemoveOrder
  <2>2. sched' = sched /\ up' = up /\ up \in [Nodes -> Seq(UpMsg)]
    BY <1>0, <1>7, ProcessRemoveEffect DEF ClusterTypeOK, ChanOK
  <2>3. CASE C!Leaves(n, "forced")
    BY <2>1, <2>2, <2>3, NodesProcs, LeavingRanks
  <2>4. CASE ~C!Leaves(n, "forced")
    <3>1. /\ PcSame /\ DownLess
          /\ \A m \in Procs : m # n => proc'[m].nodes = proc[m].nodes /\ proc'[m].senders = proc[m].senders
      BY <1>0, <1>7, <2>4, ProcessRemoveEffect
    <3>2. /\ \A m \in Nodes : proc'[m].pc = "off" => proc[m].pc = "off"
          /\ proc'[H].nodes = proc[H].nodes /\ RankSame
          /\ \A m \in Nodes : Msgs(down'[m]) # {} => Msgs(down[m]) # {}
      BY <2>2, <3>1, NodesProcs DEF PcSame, DownLess, RankSame
    <3>3. RegisterInv' /\ RankInv'
      BY <1>0, <2>1, <2>2, <3>2, RanksLast DEF OrderInv
    <3>. QED  BY <2>1, <3>3
  <2>. QED  BY <2>3, <2>4
<1>8. ASSUME NEW n \in Nodes, C!NodeDisconnected(n) PROVE RanksInv' /\ Forward
  <2>1. OrderInv' /\ Forward
    BY <1>8, DisconnectedOrder
  <2>2. /\ PcSame /\ up' = up /\ proc'[H].nodes \subseteq proc[H].nodes
        /\ sched'.active \subseteq sched.active /\ RankSame
        /\ DownLess \/ Told(proc[H].nodes, [cmd |-> "REMOVE_NODE", node |-> n])
    BY <1>0, <1>8, DisconnectedEffect DEF RankSame
  <2>3. /\ \A m \in Nodes : proc'[m].pc = "off" => proc[m].pc = "off"
        /\ \A m \in Nodes : Msgs(down'[m]) # {} => Msgs(down[m]) # {} \/ m \in proc[H].nodes
    BY <2>2, NodesProcs DEF PcSame, DownLess, Told
  <2>4. RegisterInv' /\ RankInv'
    BY <1>0, <2>1, <2>2, <2>3, RanksLast DEF OrderInv
  <2>. QED  BY <2>1, <2>4
<1>9. ASSUME NEW n \in Procs,
             \/ C!RunApp(n) \/ C!AppEnds(n) \/ (n # H /\ C!EndNode(n)) \/ (n = H /\ C!EndScheduler)
      PROVE  RanksInv' /\ Forward
  <2>1. OrderInv' /\ Forward
    BY <1>9, MainOrder
  <2>. DEFINE msg == [cmd |-> "READY_TO_EXIT"]
  <2>2. /\ NodesSame /\ sched' = sched /\ down' = down
        /\ \E how \in {"app", "stop", "end"} : PcSet(n, how)
        /\ \A m \in Nodes : m # n => up'[m] = up[m]
        /\ n # H => Msgs(up'[n]) \subseteq Msgs(up[n]) \cup {msg} /\ Behind(up'[n]) \subseteq Behind(up[n]) \cup {msg}
    BY <1>0, <1>9, MainEffect
  <2>3. /\ \A m \in Nodes : proc'[m].pc = "off" => proc[m].pc = "off" /\ Msgs(up'[m]) \subseteq Msgs(up[m])
        /\ proc'[H].nodes = proc[H].nodes /\ RankSame
    BY <2>2, NodesProcs DEF PcSet, NodesSame, RankSame
  <2>4. /\ \A m \in Nodes : \A u \in Behind(up'[m]) : u \in Behind(up[m]) \/ u.cmd # "REGISTER_NODE"
        /\ \A m \in Nodes : \A u \in Msgs(up'[m]) :
             \/ u \in Msgs(up[m])
             \/ (u.cmd = "REGISTER_NODE" => ~Ranked(m)) /\ (u.cmd = "READY_TO_RUN" => Ranked(m))
    BY <2>2, NodesProcs
  <2>5. RegisterInv' /\ RankInv'
    BY <1>0, <2>1, <2>2, <2>3, <2>4, RanksLast DEF OrderInv
  <2>. QED  BY <2>1, <2>5
<1>10. ASSUME C!BroadcastExit PROVE RanksInv' /\ Forward
  <2>1. OrderInv' /\ Forward
    BY <1>10, BroadcastExitOrder
  <2>2. /\ PcSet(H, "bye") /\ NodesSame /\ sched'.active = sched.active /\ RankSame
        /\ Told(proc[H].nodes, [cmd |-> "EXIT"]) /\ up' = up
    BY <1>0, <1>10, BroadcastExitEffect DEF RankSame
  <2>3. /\ \A m \in Nodes : proc'[m].pc = "off" => proc[m].pc = "off"
        /\ proc'[H].nodes = proc[H].nodes
        /\ \A m \in Nodes : Msgs(down'[m]) # {} => Msgs(down[m]) # {} \/ m \in proc[H].nodes
    BY <2>2, NodesProcs DEF PcSet, NodesSame, Told
  <2>4. RegisterInv' /\ RankInv'
    BY <1>0, <2>1, <2>2, <2>3, RanksLast DEF OrderInv
  <2>. QED  BY <2>1, <2>4
<1>11. ASSUME NEW n \in Procs, C!Die(n) \/ C!TimeoutRun(n) \/ C!SchedulerLost(n) PROVE RanksInv' /\ Forward
  <2>1. PICK how \in {"dead", "forced"} :
          /\ C!Leaves(n, how) /\ sched' = sched /\ up' = up /\ C!Running(n)
          /\ how = "forced" => n # H /\ C!Ended(H)
    BY <1>11 DEF C!Die, C!TimeoutRun, C!SchedulerLost, C!Running
  <2>2. up' \in [Nodes -> Seq(UpMsg)] /\ \A m \in Nodes : Msgs(up'[m]) \subseteq Msgs(up[m]) /\ Behind(up'[m]) \subseteq Behind(up[m])
    BY <1>0, <2>1 DEF ClusterTypeOK, ChanOK
  <2>3. how = "forced" => n # H /\ (proc[H].pc \in {"dead", "end"} \/ ServerDead)
    BY <2>1 DEF OrderInv, PhaseInv, C!Ended
  <2>4. OrderInv' /\ Forward
    BY <2>1, <2>2, <2>3, LeavingOrder
  <2>. QED  BY <2>1, <2>2, <2>4, LeavingRanks
<1>. QED
  <2>1. CASE \E n \in Nodes : C!Start(n) \/ C!Receive(n) \/ C!Process(n) \/ C!Monitor(n)
    BY <1>1, <1>2, <1>3, <1>4, <1>5, <1>6, <1>7, <1>8, <1>11, <2>1, NodesProcs
       DEF C!Receive, C!Process, C!Monitor
  <2>2. CASE \E n \in Procs : C!Main(n) \/ C!Die(n)
    BY <1>9, <1>10, <1>11, <2>2 DEF C!Main
  <2>. QED  BY <2>1, <2>2 DEF C!Next, Nodes, Procs
-----------------------------------------------------------------------------
(***************************************************************************)
(* Without spare processes a complete cluster is the whole cluster.        *)
(***************************************************************************)
LEMMA CompleteIsAll ==
    ASSUME NoSpare, NEW ns, C!Complete(ns)
    PROVE  Nodes \subseteq ns
<1>1. \A S, T : IsFiniteSet(T) /\ S \subseteq T /\ Cardinality(S) >= Cardinality(T) => S = T
  <2>1. SUFFICES ASSUME NEW S, NEW T, IsFiniteSet(T), S \subseteq T, Cardinality(S) >= Cardinality(T)
                 PROVE  S = T
    OBVIOUS
  <2>2. /\ IsFiniteSet(S) /\ Cardinality(S) <= Cardinality(T)
        /\ Cardinality(S) = Cardinality(T) => S = T
    BY <2>1, FS_Subset
  <2>3. Cardinality(S) \in Nat /\ Cardinality(T) \in Nat
    BY <2>1, <2>2, FS_CardinalityType
  <2>. QED  BY <2>1, <2>2, <2>3
<1>2. Cardinality(ns \cap WorkerIds) >= Cardinality(WorkerIds) /\ Cardinality(ns \cap ServerIds) >= Cardinality(ServerIds)
  BY SameCardinality DEF NoSpare, C!Complete
<1>3. ns \cap WorkerIds = WorkerIds /\ ns \cap ServerIds = ServerIds
  BY <1>1, <1>2, ClusterAssumption
<1>. QED  BY <1>3, NodesProcs

LEMMA AllActive ==
    ASSUME NoSpare, NEW S \in SUBSET Nodes, Cardinality(S) >= NumWorkers + NumServers
    PROVE  S = Nodes
<1>1. IsFiniteSet(Nodes) /\ Cardinality(Nodes) = Cardinality(WorkerIds) + Cardinality(ServerIds)
  <2>1. IsFiniteSet(WorkerIds \cap ServerIds) /\ Cardinality(WorkerIds \cap ServerIds) = 0
    BY ClusterAssumption, FS_EmptySet
  <2>2. /\ IsFiniteSet(WorkerIds \cup ServerIds)
        /\ Cardinality(WorkerIds \cup ServerIds)
             = Cardinality(WorkerIds) + Cardinality(ServerIds) - Cardinality(WorkerIds \cap ServerIds)
    BY ClusterAssumption, FS_Union
  <2>3. Cardinality(WorkerIds) \in Nat /\ Cardinality(ServerIds) \in Nat
    BY ClusterAssumption, FS_CardinalityType
  <2>. QED  BY <2>1, <2>2, <2>3, NodesProcs
<1>2. /\ IsFiniteSet(S) /\ Cardinality(S) <= Cardinality(Nodes)
      /\ Cardinality(S) = Cardinality(Nodes) => S = Nodes
  BY <1>1, FS_Subset
<1>3. Cardinality(S) \in Nat /\ Cardinality(Nodes) \in Nat
  BY <1>1, <1>2, FS_CardinalityType
<1>. QED  BY <1>1, <1>2, <1>3 DEF NoSpare

StartInv == RanksInv /\ ReadyInv

\* What a step has to leave of the readiness of the nodes.
LEMMA ReadyLasts ==
    ASSUME StartInv, RanksInv', Forward,
           proc'[H].inited => proc[H].inited \/ sched'.active = Nodes,
           \A m \in Nodes : \A k \in proc[m].nodes : k \in proc'[m].nodes \/ C!Ended(k),
           \A m \in Nodes : Ranked(m) => Ranked(m)',
           \A m \in sched'.active : m \in sched.active \/ Knows(m),
           \A m \in Nodes : \A u \in Msgs(up'[m]) : u \in Msgs(up[m]) \/ (u.cmd = "READY_TO_RUN" => Knows(m)'),
           \A m \in sched.active : m \in sched'.active \/ proc'[m].pc \notin {"wait", "app"},
           \A m \in Nodes : proc'[m].pc \in {"wait", "app"} => proc[m].pc \in {"wait", "app"} \/ ~Ranked(m),
           sched'.inExit = sched.inExit
    PROVE  ReadyInv'
<1>. USE DEF StartInv
<1>1. \A m \in Nodes : Knows(m) => Knows(m)'
  BY TruthLasts DEF Knows
<1>2. \A m \in sched'.active : m \in Nodes /\ Ranked(m)' /\ Knows(m)'
  <2>1. sched'.active \subseteq Nodes /\ \A m \in sched'.active : Ranked(m)'
    BY DEF RanksInv, OrderInv, ClusterTypeOK, SchedOK, RegisterInv
  <2>. QED  BY <1>1, <2>1 DEF ReadyInv
<1>3. \A n \in Nodes : proc'[H].inited => Knows(n)' /\ Ranked(n)'
  BY <1>1, <1>2 DEF ReadyInv
<1>4. \A n \in Nodes : \A msg \in Msgs(up'[n]) : msg.cmd = "READY_TO_RUN" => Knows(n)'
  BY <1>1 DEF ReadyInv
<1>5. ASSUME NEW n \in Nodes, proc'[H].inited, ~sched'.inExit, proc'[n].pc \in {"wait", "app"}
      PROVE  n \in sched'.active
  <2>1. CASE sched'.active = Nodes
    BY <2>1
  <2>2. CASE sched'.active # Nodes
    <3>1. proc[H].inited /\ ~sched.inExit
      BY <1>5, <2>2
    <3>2. proc[n].pc \in {"wait", "app"}
      BY <1>5, <3>1 DEF ReadyInv
    <3>. QED  BY <1>5, <3>1, <3>2 DEF ReadyInv
  <2>. QED  BY <2>1, <2>2
<1>6. \A n \in Nodes : sched'.inExit => Past(n)'
  BY NodesProcs DEF ReadyInv, Forward, Past
<1>. QED  BY <1>2, <1>3, <1>4, <1>5, <1>6 DEF ReadyInv

LEMMA LeavingReady ==
    ASSUME StartInv, RanksInv', Forward, NEW n \in Procs, NEW how \in {"dead", "forced"}, C!Leaves(n, how),
           sched' = sched, up' \in [Nodes -> Seq(UpMsg)], \A m \in Nodes : Msgs(up'[m]) \subseteq Msgs(up[m])
    PROVE  ReadyInv'
<1>1. PcSet(n, how) /\ NodesSame /\ InitedSame
  BY LeavingEffect DEF StartInv, RanksInv, OrderInv
<1>2. proc'[H].inited = proc[H].inited /\ \A m \in Nodes : proc'[m].nodes = proc[m].nodes
  BY <1>1, NodesProcs DEF NodesSame, InitedSame
<1>3. \A m \in Nodes : proc'[m].pc \in {"wait", "app"} => proc[m].pc \in {"wait", "app"}
  BY <1>1, NodesProcs DEF PcSet
<1>4. \A m \in Nodes : Ranked(m) => Ranked(m)'
  BY DEF Ranked
<1>. QED  BY <1>2, <1>3, <1>4, ReadyLasts

LEMMA NextReady == ASSUME NoSpare, StartInv, C!Next PROVE StartInv'
<1>0. ClusterTypeOK /\ RanksInv' /\ Forward
  BY NextRanks DEF StartInv, RanksInv, OrderInv
<1>. USE DEF StartInv
<1>1. ASSUME NEW n \in Nodes, C!Start(n) PROVE ReadyInv'
  <2>1. /\ proc[n].pc = "off" /\ PcSet(n, "wait") /\ NodesSame /\ InitedSame
        /\ Msgs(up'[n]) = {[cmd |-> "REGISTER_NODE"]} /\ \A m \in Nodes : m # n => up'[m] = up[m]
        /\ sched' = sched
    BY <1>0, <1>1, StartEffect
  <2>2. proc'[H].inited = proc[H].inited /\ \A m \in Nodes : proc'[m].nodes = proc[m].nodes
    BY <2>1, NodesProcs DEF NodesSame, InitedSame
  <2>3. \A m \in Nodes : proc'[m].pc \in {"wait", "app"} => proc[m].pc \in {"wait", "app"} \/ ~Ranked(m)
    BY <2>1, NodesProcs DEF PcSet, RanksInv, RegisterInv
  <2>4. \A m \in Nodes : Ranked(m) => Ranked(m)'
    BY <2>1 DEF Ranked
  <2>5. \A m \in Nodes : \A u \in Msgs(up'[m]) : u \in Msgs(up[m]) \/ (u.cmd = "READY_TO_RUN" => Knows(m)')
    BY <2>1
  <2>. QED  BY <1>0, <2>1, <2>2, <2>3, <2>4, <2>5, ReadyLasts
<1>2. ASSUME NEW n \in Nodes, C!RegisterNode(n) PROVE ReadyInv'
  <2>1. C!Receives(n, "REGISTER_NODE")
    BY <1>2 DEF C!RegisterNode
  <2>2. up' \in [Nodes -> Seq(UpMsg)] /\ Taken(n)
    BY <1>0, <2>1, ReceivesEffect DEF ClusterTypeOK
  <2>3. \A m \in Nodes : Msgs(up'[m]) \subseteq Msgs(up[m])
    BY <2>2, UpTaken
  <2>4. CASE C!RegisterFails(n)
    <3>1. C!Leaves(H, "dead") /\ sched' = sched
      BY <1>2, <2>4 DEF C!RegisterNode
    <3>. QED  BY <1>0, <2>2, <2>3, <3>1, NodesProcs, LeavingReady
  <2>5. CASE ~C!RegisterFails(n)
    <3>1. /\ PcSame /\ InitedSame /\ sched'.active = sched.active /\ sched'.inExit = sched.inExit
          /\ \A m \in Nodes : proc'[m].nodes = proc[m].nodes
          /\ sched'.rank = [sched.rank EXCEPT ![n] = IF n \in ServerIds THEN sched.serverRank ELSE sched.workerRank]
      BY <1>0, <1>2, <2>5, RegisterEffect
    <3>2. /\ proc'[H].inited = proc[H].inited
          /\ \A m \in Nodes : proc'[m].pc \in {"wait", "app"} => proc[m].pc \in {"wait", "app"}
      BY <3>1, NodesProcs DEF PcSame, InitedSame
    <3>3. \A m \in Nodes : Ranked(m) => Ranked(m)'
      <4>1. sched.rank \in [Nodes -> Int] /\ sched.serverRank \in Nat /\ sched.workerRank \in Nat
        BY <1>0 DEF ClusterTypeOK, SchedOK
      <4>. QED  BY <3>1, <4>1 DEF Ranked
    <3>. QED  BY <1>0, <2>3, <3>1, <3>2, <3>3, ReadyLasts
  <2>. QED  BY <2>4, <2>5
<1>3. ASSUME NEW n \in Nodes, C!ReadyToRun(n) PROVE ReadyInv'
  <2>1. /\ PcSame /\ NodesSame /\ Taken(n)
        /\ Head(up[n]).cmd = "READY_TO_RUN" /\ Head(up[n]) \in Msgs(up[n])
        /\ proc'[H].inited = (proc[H].inited \/ Cardinality(sched'.active) >= NumWorkers + NumServers)
        /\ sched'.active = sched.active \cup {n} /\ sched'.inExit = sched.inExit
        /\ sched'.rank = sched.rank
    BY <1>0, <1>3, ReadyToRunEffect
  <2>2. Knows(n)
    BY <2>1 DEF ReadyInv
  <2>3. proc'[H].inited => proc[H].inited \/ sched'.active = Nodes
    <3>1. sched'.active \in SUBSET Nodes
      BY <1>0, <2>1 DEF ClusterTypeOK, SchedOK
    <3>2. Cardinality(sched'.active) >= NumWorkers + NumServers => sched'.active = Nodes
      BY <3>1, AllActive
    <3>. QED  BY <2>1, <3>2
  <2>4. /\ \A m \in Nodes : proc'[m].nodes = proc[m].nodes
        /\ \A m \in Nodes : proc'[m].pc \in {"wait", "app"} => proc[m].pc \in {"wait", "app"}
    BY <2>1, NodesProcs DEF PcSame, NodesSame
  <2>5. \A m \in Nodes : Ranked(m) => Ranked(m)'
    BY <2>1 DEF Ranked
  <2>6. \A m \in Nodes : Msgs(up'[m]) \subseteq Msgs(up[m])
    BY <2>1, UpTaken
  <2>. QED  BY <1>0, <2>1, <2>2, <2>3, <2>4, <2>5, <2>6, ReadyLasts
<1>4. ASSUME NEW n \in Nodes, C!ReadyToExit(n) PROVE ReadyInv'
  <2>1. /\ proc' = proc /\ Taken(n)
        /\ Head(up[n]).cmd = "READY_TO_EXIT" /\ Head(up[n]) \in Msgs(up[n])
        /\ sched'.active = sched.active \ {n} /\ sched'.inExit = sched.inExit
        /\ sched'.rank = sched.rank
    BY <1>0, <1>4, ReadyToExitEffect
  <2>2. proc'[n].pc \notin {"wait", "app"}
    BY <2>1 DEF RanksInv, OrderInv, MsgInv, Past
  <2>3. \A m \in Nodes : Ranked(m) => Ranked(m)'
    BY <2>1 DEF Ranked
  <2>4. \A m \in Nodes : Msgs(up'[m]) \subseteq Msgs(up[m])
    BY <2>1, UpTaken
  <2>. QED  BY <1>0, <2>1, <2>2, <2>3, <2>4, ReadyLasts
<1>5. ASSUME NEW n \in Nodes, C!ProcessAdd(n) PROVE ReadyInv'
  <2>1. sched' = sched
    BY <1>0, <1>5, ProcessAddEffect
  <2>2. CASE C!Leaves(n, "dead") /\ up' = up
    <3>1. up' \in [Nodes -> Seq(UpMsg)]
      BY <1>0, <2>2 DEF ClusterTypeOK, ChanOK
    <3>. QED  BY <1>0, <2>1, <2>2, <3>1, NodesProcs, LeavingReady
  <2>3. CASE ~(C!Leaves(n, "dead") /\ up' = up)
    <3>1. /\ PcSame /\ InitedSame
          /\ Head(down[n]) \in Msgs(down[n]) /\ Head(down[n]).cmd = "ADD_NODE"
          /\ proc'[n].nodes = proc[n].nodes \cup Head(down[n]).nodes
          /\ \A m \in Procs : m # n => proc'[m].nodes = proc[m].nodes /\ proc'[m].senders = proc[m].senders
          /\ \A m \in Nodes : m # n => up'[m] = up[m]
          /\ \/ C!Complete(proc'[n].nodes)
             \/ Msgs(up'[n]) \subseteq Msgs(up[n])
      BY <1>0, <1>5, <2>3, ProcessAddEffect
    <3>2. H \in proc'[n].nodes
      BY <3>1 DEF RanksInv, OrderInv, MsgInv, TrueMsg
    <3>3. C!Complete(proc'[n].nodes) => Knows(n)'
      <4>1. C!Complete(proc'[n].nodes) => Nodes \subseteq proc'[n].nodes
        BY CompleteIsAll
      <4>. QED  BY <3>2, <4>1, NodesProcs DEF Knows
    <3>4. \A m \in Nodes : \A u \in Msgs(up'[m]) : u \in Msgs(up[m]) \/ (u.cmd = "READY_TO_RUN" => Knows(m)')
      BY <3>1, <3>3
    <3>5. /\ proc'[H].inited = proc[H].inited
          /\ \A m \in Nodes : \A k \in proc[m].nodes : k \in proc'[m].nodes
          /\ \A m \in Nodes : proc'[m].pc \in {"wait", "app"} => proc[m].pc \in {"wait", "app"}
      BY <3>1, NodesProcs DEF PcSame, InitedSame
    <3>6. \A m \in Nodes : Ranked(m) => Ranked(m)'
      BY <2>1 DEF Ranked
    <3>. QED  BY <1>0, <2>1, <3>4, <3>5, <3>6, ReadyLasts
  <2>. QED  BY <2>2, <2>3
<1>6. ASSUME NEW n \in Nodes, C!ProcessRun(n) \/ C!ProcessExit(n) PROVE ReadyInv'
  <2>1. PcSame /\ NodesSame /\ proc'[H].inited = proc[H].inited /\ sched' = sched /\ up' = up
    BY <1>0, <1>6, NodesProcs, ProcessRunEffect, ProcessExitEffect DEF InitedSame
  <2>2. /\ \A m \in Nodes : proc'[m].nodes = proc[m].nodes
        /\ \A m \in Nodes : proc'[m].pc \in {"wait", "app"} => proc[m].pc \in {"wait", "app"}
    BY <2>1, NodesProcs DEF PcSame, NodesSame
  <2>3. \A m \in Nodes : Ranked(m) => Ranked(m)'
    BY <2>1 DEF Ranked
  <2>. QED  BY <1>0, <2>1, <2>2, <2>3, ReadyLasts
<1>7. ASSUME NEW n \in Nodes, C!ProcessRemove(n) PROVE ReadyInv'
  <2>. DEFINE k == Head(down[n]).node
  <2>1. /\ sched' = sched /\ up' = up /\ up \in [Nodes -> Seq(UpMsg)]
        /\ Head(down[n]) \in Msgs(down[n]) /\ Head(down[n]).cmd = "REMOVE_NODE"
    BY <1>0, <1>7, ProcessRemoveEffect DEF ClusterTypeOK, ChanOK
  <2>2. C!Ended(k)
    BY <2>1 DEF RanksInv, OrderInv, MsgInv, TrueMsg
  <2>3. CASE C!Leaves(n, "forced")
    BY <1>0, <2>1, <2>3, NodesProcs, LeavingReady
  <2>4. CASE ~C!Leaves(n, "forced")
    <3>1. /\ PcSame /\ InitedSame /\ proc[n].nodes \ {k} \subseteq proc'[n].nodes
          /\ \A m \in Procs : m # n => proc'[m].nodes = proc[m].nodes /\ proc'[m].senders = proc[m].senders
      BY <1>0, <1>7, <2>4, ProcessRemoveEffect
    <3>. HIDE DEF k
    <3>2. /\ proc'[H].inited = proc[H].inited
          /\ \A m \in Nodes : \A j \in proc[m].nodes : j \in proc'[m].nodes \/ C!Ended(j)
          /\ \A m \in Nodes : proc'[m].pc \in {"wait", "app"} => proc[m].pc \in {"wait", "app"}
      BY <2>2, <3>1, NodesProcs DEF PcSame, InitedSame
    <3>3. \A m \in Nodes : Ranked(m) => Ranked(m)'
      BY <2>1 DEF Ranked
    <3>. QED  BY <1>0, <2>1, <3>2, <3>3, ReadyLasts
  <2>. QED  BY <2>3, <2>4
<1>8. ASSUME NEW n \in Nodes, C!NodeDisconnected(n) PROVE ReadyInv'
  <2>1. /\ PcSame /\ InitedSame /\ up' = up /\ n \in unseen
        /\ \A m \in Nodes : proc'[m].nodes = proc[m].nodes /\ proc'[m].senders = proc[m].senders
        /\ sched'.active \subseteq sched.active /\ sched.active \ {n} \subseteq sched'.active
        /\ sched'.inExit = sched.inExit /\ sched'.rank = sched.rank
    BY <1>0, <1>8, DisconnectedEffect
  <2>2. /\ proc'[H].inited = proc[H].inited
        /\ \A m \in Nodes : proc'[m].pc = proc[m].pc
    BY <2>1, NodesProcs DEF PcSame, InitedSame
  <2>3. proc'[n].pc \notin {"wait", "app"}
    BY <2>1, <2>2 DEF RanksInv, OrderInv, PhaseInv, C!Ended
  <2>4. \A m \in Nodes : Ranked(m) => Ranked(m)'
    BY <2>1 DEF Ranked
  <2>5. \A m \in sched.active : m \in sched'.active \/ proc'[m].pc \notin {"wait", "app"}
    BY <2>1, <2>3
  <2>. QED  BY <1>0, <2>1, <2>2, <2>4, <2>5, ReadyLasts
<1>9. ASSUME NEW n \in Procs,
             \/ C!RunApp(n) \/ C!AppEnds(n) \/ (n # H /\ C!EndNode(n)) \/ (n = H /\ C!EndScheduler)
      PROVE  ReadyInv'
  <2>1. /\ NodesSame /\ InitedSame /\ sched' = sched
        /\ \E how \in {"app", "stop", "end"} : PcSet(n, how) /\ (how = "app" => proc[n].pc = "wait")
        /\ \A m \in Nodes : m # n => up'[m] = up[m]
        /\ n # H => Msgs(up'[n]) \subseteq Msgs(up[n]) \cup {[cmd |-> "READY_TO_EXIT"]}
    BY <1>0, <1>9, MainEffect
  <2>2. /\ proc'[H].inited = proc[H].inited
        /\ \A m \in Nodes : proc'[m].nodes = proc[m].nodes
        /\ \A m \in Nodes : proc'[m].pc \in {"wait", "app"} => proc[m].pc \in {"wait", "app"}
    BY <2>1, NodesProcs DEF PcSet, NodesSame, InitedSame
  <2>3. \A m \in Nodes : Ranked(m) => Ranked(m)'
    BY <2>1 DEF Ranked
  <2>4. \A m \in Nodes : \A u \in Msgs(up'[m]) : u \in Msgs(up[m]) \/ (u.cmd = "READY_TO_RUN" => Knows(m)')
    BY <2>1, NodesProcs
  <2>. QED  BY <1>0, <2>1, <2>2, <2>3, <2>4, ReadyLasts
<1>10. ASSUME C!BroadcastExit PROVE ReadyInv'
  <2>1. /\ proc[H].pc = "stop" /\ PcSet(H, "bye") /\ NodesSame /\ InitedSame
        /\ sched.active = {} /\ sched'.active = {} /\ sched'.inExit /\ sched'.rank = sched.rank /\ up' = up
    BY <1>0, <1>10, BroadcastExitEffect
  <2>2. \A m \in Nodes : Knows(m) => Knows(m)'
    BY <1>0, <2>1, NodesProcs, TruthLasts DEF Knows, NodesSame
  <2>3. proc[H].inited /\ ~sched.inExit
    BY <2>1 DEF RanksInv, OrderInv, PhaseInv
  <2>4. \A m \in Nodes : Knows(m)' /\ Ranked(m)'
    BY <2>1, <2>2, <2>3 DEF ReadyInv, Ranked
  <2>5. \A m \in Nodes : Past(m)
    BY <2>1, <2>3 DEF ReadyInv, Past, RanksInv, RegisterInv
  <2>6. \A m \in Nodes : Past(m)'
    BY <1>0, <2>5, NodesProcs DEF Forward, Past
  <2>. QED  BY <2>1, <2>4, <2>6 DEF ReadyInv
<1>11. ASSUME NEW n \in Procs, C!Die(n) \/ C!TimeoutRun(n) \/ C!SchedulerLost(n) PROVE ReadyInv'
  <2>1. PICK how \in {"dead", "forced"} : C!Leaves(n, how) /\ sched' = sched /\ up' = up
    BY <1>11 DEF C!Die, C!TimeoutRun, C!SchedulerLost
  <2>2. up' \in [Nodes -> Seq(UpMsg)]
    BY <1>0, <2>1 DEF ClusterTypeOK, ChanOK
  <2>. QED  BY <1>0, <2>1, <2>2, LeavingReady
<1>. QED
  <2>1. CASE \E n \in Nodes : C!Start(n) \/ C!Receive(n) \/ C!Process(n) \/ C!Monitor(n)
    BY <1>0, <1>1, <1>2, <1>3, <1>4, <1>5, <1>6, <1>7, <1>8, <1>11, <2>1, NodesProcs
       DEF C!Receive, C!Process, C!Monitor
  <2>2. CASE \E n \in Procs : C!Main(n) \/ C!Die(n)
    BY <1>0, <1>9, <1>10, <1>11, <2>2 DEF C!Main
  <2>. QED  BY <2>1, <2>2 DEF C!Next, Nodes, Procs
-----------------------------------------------------------------------------
LEMMA Unchanged ==
    ASSUME UNCHANGED clusterVars
    PROVE  (RanksInv => RanksInv') /\ (ReadyInv => ReadyInv')
<1>. USE DEF clusterVars
<1>1. ClusterTypeOK => ClusterTypeOK'
  BY DEF ClusterTypeOK, ProcOK, SchedOK, ChanOK
<1>2. PhaseInv => PhaseInv'
  BY DEF PhaseInv, Excused, ServerDead, C!Ended
<1>3. ViewInv => ViewInv'
  BY DEF ViewInv
<1>4. MsgInv => MsgInv'
  BY DEF MsgInv, TrueMsg, Past, ServerDead, C!Ended
<1>5. RegisterInv => RegisterInv'
  BY DEF RegisterInv, Ranked
<1>6. RankInv => RankInv'
  BY DEF RankInv, RankedServers, Ranked
<1>7. ReadyInv => ReadyInv'
  BY DEF ReadyInv, Knows, Ranked, Past, C!Ended
<1>. QED  BY <1>1, <1>2, <1>3, <1>4, <1>5, <1>6, <1>7 DEF RanksInv, OrderInv

LEMMA ClusterSteps ==
    ASSUME [Next]_<<part, clusterVars, kvVars>>
    PROVE  C!Next \/ UNCHANGED clusterVars
  BY DEF Next

\* The order of starting and ending and the ranks, for all constants.
LEMMA RanksAlways == Spec => []RanksInv
<1>1. Init => RanksInv
  BY RanksInit DEF Init
<1>2. RanksInv /\ [Next]_<<part, clusterVars, kvVars>> => RanksInv'
  BY ClusterSteps, NextRanks, Unchanged
<1>. QED  BY <1>1, <1>2, PTL DEF Spec

LEMMA ReadyInit == ASSUME C!Init PROVE ReadyInv
<1>1. /\ \A n \in Nodes : up[n] = << >>
      /\ sched.active = {} /\ ~sched.inExit
  BY DEF C!Init, Nodes
<1>2. ~proc[H].inited
  BY NodesProcs DEF C!Init, C!NewProc, Procs
<1>. QED  BY <1>1, <1>2, NoMsgs DEF ReadyInv

LEMMA StartAlways == ASSUME NoSpare PROVE Spec => []StartInv
<1>1. Init => StartInv
  BY RanksInit, ReadyInit DEF Init, StartInv
<1>2. StartInv /\ [Next]_<<part, clusterVars, kvVars>> => StartInv'
  BY ClusterSteps, NextReady, Unchanged DEF StartInv
<1>. QED  BY <1>1, <1>2, PTL DEF Spec
-----------------------------------------------------------------------------
\* Nobody is made to leave (ForceExit) because a worker died: some server has failed, or the
\* scheduler has ended.  For every number of processes, spare ones included (NodeDisconnected,
\* REMOVE_NODE in Manager::Process).
NobodyForced ==
    \A n \in Nodes : proc[n].pc = "forced" =>
        proc[H].pc \in {"dead", "end"} \/ \E m \in ServerIds : proc[m].pc = "dead"

\* With any number of processes, spare ones included, no process leaves because of a dead worker.
THEOREM WorkersMayDie == Spec => []NobodyForced
<1>1. RanksInv => NobodyForced
  BY DEF RanksInv, OrderInv, PhaseInv, Excused, ServerDead, NobodyForced
<1>. QED  BY <1>1, RanksAlways, PTL

\* The servers that the scheduler has registered have the key ranges from 0 on, one each, and never
\* more than there are; workers of the same cluster never have the same rank (NodeAssigner::Assign).
RanksDistinct ==
    /\ sched.serverRank <= NumServers
    /\ {sched.rank[m] : m \in {k \in ServerIds : sched.rank[k] # -1}} = 0 .. sched.serverRank - 1
    /\ \A k, m \in Nodes : C!SameRole(k, m) /\ k # m /\ sched.rank[k] # -1 /\ sched.rank[m] # -1 =>
          sched.rank[k] # sched.rank[m]

\* With any number of processes, spare ones included, a rank is given once and a key range never
\* stays free below one that is taken.
THEOREM RanksStayDistinct == Spec => []RanksDistinct
<1>1. RanksInv => RanksDistinct
  BY DEF RanksInv, RankInv, RankedServers, Ranked, RanksDistinct
<1>. QED  BY <1>1, RanksAlways, PTL

\* In a cluster without spare processes, whichever processes die and when, nobody is told to exit
\* while another one runs its application, and nobody is made to leave because of a worker
\* (Manager::Stop, NodeDisconnected).
THEOREM ExitsTogether == ASSUME NoSpare PROVE Spec => []ExitTogether
<1>1. StartInv => ExitTogether
  <2>1. SUFFICES ASSUME StartInv PROVE C!ExitTogether
    BY DEF ExitTogether
  <2>2. ASSUME NEW n \in Nodes, proc[n].done PROVE \A m \in Procs : proc[m].pc # "app"
    <3>1. sched.inExit
      BY <2>1, <2>2 DEF StartInv, RanksInv, OrderInv, PhaseInv
    <3>2. proc[H].pc # "app" /\ \A m \in Nodes : proc[m].pc # "app"
      BY <2>1, <3>1 DEF StartInv, RanksInv, OrderInv, PhaseInv, ReadyInv, Past
    <3>. QED  BY <3>2, NodesProcs
  <2>3. \A n \in Nodes : Excused(n)
    BY <2>1 DEF StartInv, RanksInv, OrderInv, PhaseInv
  <2>. QED  BY <2>2, <2>3 DEF C!ExitTogether, Excused, ServerDead, Nodes, Procs
<1>. QED  BY <1>1, StartAlways, PTL

\* In a cluster without spare processes, as soon as one process may start its application all that
\* are left know each other, are connected, have their own ranks, and every key range has a server
\* unless one died (Manager::Process, Van::Connect, NodeAssigner::Assign).
THEOREM StartsTogether == ASSUME NoSpare PROVE Spec => []StartTogether
<1>1. StartInv => StartTogether
  <2>1. SUFFICES ASSUME StartInv, NEW n \in Procs, proc[n].inited PROVE C!StartTogether
    BY DEF StartTogether, C!StartTogether, Procs
  <2>. DEFINE left == {m \in proc[H].nodes : C!Running(m) /\ m \notin Spare}
  <2>2. proc[H].inited
    BY <2>1, NodesProcs DEF StartInv, RanksInv, OrderInv, PhaseInv
  <2>3. left \subseteq Procs /\ \A m \in left : ~C!Ended(m)
    BY <2>1, NodesProcs DEF StartInv, RanksInv, OrderInv, ClusterTypeOK, ProcOK, C!Running, C!Ended
  <2>4. ASSUME NEW m \in left PROVE left \subseteq proc[m].nodes /\ {k \in left : ~C!SameRole(k, m)} \subseteq proc[m].senders
    <3>1. left \subseteq proc[m].nodes
      <4>1. CASE m = H
        BY <4>1
      <4>2. CASE m # H
        BY <2>1, <2>2, <2>3, <4>2, NodesProcs DEF StartInv, ReadyInv, Knows
      <4>. QED  BY <4>1, <4>2
    <3>. QED  BY <2>1, <2>3, <3>1 DEF StartInv, RanksInv, OrderInv, ViewInv
  <2>5. \A m \in Nodes : Ranked(m)
    BY <2>1, <2>2 DEF StartInv, ReadyInv
  <2>6. /\ RankedServers = ServerIds /\ sched.serverRank = NumServers
        /\ {sched.rank[m] : m \in ServerIds} = 0 .. NumServers - 1
    <3>1. RankedServers = ServerIds
      BY <2>5, NodesProcs DEF RankedServers
    <3>. QED  BY <2>1, <3>1 DEF StartInv, RanksInv, RankInv, NoSpare
  <2>7. {sched.rank[m] : m \in left \cap ServerIds} \subseteq 0 .. NumServers - 1
    BY <2>6
  <2>8. \A k, m \in left \cap Nodes : C!SameRole(k, m) /\ k # m => sched.rank[k] # sched.rank[m]
    BY <2>1, <2>5 DEF StartInv, RanksInv, RankInv
  <2>9. {sched.rank[m] : m \in ServerIds \ Spare} = 0 .. NumServers - 1
    BY <2>6 DEF NoSpare
  <2>. QED  BY <2>4, <2>7, <2>8, <2>9 DEF C!StartTogether, Nodes
<1>. QED  BY <1>1, StartAlways, PTL
=============================================================================
