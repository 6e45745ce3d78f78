-------------------------- MODULE AsyncWorkerProofs --------------------------
(***************************************************************************)
(* num_mb_fly_ counts the minibatches that are being processed, although   *)
(* it is incremented after the requests of a minibatch were sent, from     *)
(* which follow the bound on concurrent minibatches and that Process       *)
(* returns only when all are finished: for every set of servers and key    *)
(* lists, every number of minibatches, and every max_mb.                   *)
(***************************************************************************)
EXTENDS AsyncWorker, FiniteSetTheorems, SequenceTheorems, TLAPS

(* A connection holds a message about minibatch i whose answers are        *)
(* awaited; it never holds two.                                            *)
About(q, op, i) == \E a \in DOMAIN q : q[a].op = op /\ q[a].mb = i

Unique(q) ==
    \A a, b \in DOMAIN q :
        a # b /\ q[a].op # "count" /\ q[b].op # "count" => q[a].mb # q[b].mb

Awaited == {"pull", "grad"}

PhaseOf(op) == IF op = "pull" THEN "pulling" ELSE "pushing"

(* Process has started the minibatches up to cur.                          *)
Started == 1 .. (IF pc = "incr" THEN cur ELSE cur - 1)

Finished == {i \in Mb : phase[i] = "finished"}

StartedInv ==
    /\ pc \in {"wait", "count", "pull", "incr"} => cur \in Mb
    /\ \A i \in Mb : phase[i] # "new" <=> i \in Started

(* num_mb_fly_ is the number of counted minibatches less the finished      *)
(* ones, and leaves room for one more from WaitMinibatch to its increment. *)
FlyInv ==
    /\ numFly = cur - 1 - Cardinality(Finished)
    /\ numFly <= MaxMb
    /\ pc \in {"count", "pull", "incr"} => numFly < MaxMb
    /\ pc = "returned" => \A i \in Mb : phase[i] \in {"new", "finished"}

(* A message is about a minibatch that awaits it from that server, and the *)
(* callback that is due is that of the minibatch's last request.           *)
AwaitInv ==
    /\ \A s \in Server :
        /\ Unique(toServer[s]) /\ Unique(toWorker[s])
        /\ \A op \in Awaited, i \in Mb :
            /\ About(toServer[s], op, i) \/ About(toWorker[s], op, i) =>
                   phase[i] = PhaseOf(op) /\ s \in pending[i]
            /\ ~(About(toServer[s], op, i) /\ About(toWorker[s], op, i))
    /\ kv.at \in Awaited => phase[kv.mb] = PhaseOf(kv.at) /\ pending[kv.mb] = {}

WorkerInv == TypeOK /\ StartedInv /\ FlyInv /\ AwaitInv
-----------------------------------------------------------------------------
(* Connections                                                             *)

LEMMA AboutEmpty ==
    /\ Unique(<<>>)
    /\ \A op, i : ~About(<<>>, op, i)
  BY DEF Unique, About

LEMMA AboutAppend ==
    ASSUME NEW M, NEW q \in Seq(M), NEW m \in M
    PROVE  /\ \A op, i : About(Append(q, m), op, i) <=> About(q, op, i) \/ (m.op = op /\ m.mb = i)
           /\ Unique(q) /\ (\A a \in DOMAIN q : m.op # "count" /\ q[a].op # "count" => q[a].mb # m.mb)
                => Unique(Append(q, m))
  <1> DEFINE r == Append(q, m)
  <1>1. /\ r \in Seq(M) /\ Len(r) = Len(q) + 1
        /\ \A a \in 1 .. Len(q) : r[a] = q[a]
        /\ r[Len(q) + 1] = m
    BY AppendProperties
  <1>2. DOMAIN q = 1 .. Len(q) /\ DOMAIN r = 1 .. Len(r) /\ Len(q) \in Nat
    BY <1>1, LenProperties
  <1> HIDE DEF r
  <1>3. DOMAIN r = DOMAIN q \cup {Len(q) + 1} /\ Len(q) + 1 \notin DOMAIN q
    BY <1>1, <1>2
  <1>4. \A op, i : About(r, op, i) <=> About(q, op, i) \/ (m.op = op /\ m.mb = i)
    BY <1>1, <1>2, <1>3 DEF About
  <1>5. ASSUME Unique(q), \A a \in DOMAIN q : m.op # "count" /\ q[a].op # "count" => q[a].mb # m.mb
        PROVE  Unique(r)
    BY <1>1, <1>2, <1>3, <1>5 DEF Unique
  <1> QED
    BY <1>4, <1>5 DEF r

LEMMA AboutTail ==
    ASSUME NEW M, NEW q \in Seq(M), q # <<>>, Unique(q)
    PROVE  /\ Unique(Tail(q))
           /\ \A op, i : About(Tail(q), op, i) => About(q, op, i)
           /\ About(q, Head(q).op, Head(q).mb)
           /\ \A op \in Awaited : Head(q).op # "count" => ~About(Tail(q), op, Head(q).mb)
  <1> DEFINE r == Tail(q)
  <1>1. /\ r \in Seq(M) /\ Len(r) = Len(q) - 1
        /\ \A a \in 1 .. Len(r) : r[a] = q[a + 1]
        /\ Head(q) = q[1]
    BY HeadTailProperties
  <1>2. DOMAIN q = 1 .. Len(q) /\ DOMAIN r = 1 .. Len(r) /\ Len(q) \in Nat /\ Len(q) > 0
    BY <1>1, LenProperties, EmptySeq
  <1> HIDE DEF r
  <1>3. 1 \in DOMAIN q /\ \A a \in DOMAIN r : a + 1 \in DOMAIN q /\ a + 1 # 1 /\ r[a] = q[a + 1]
    BY <1>1, <1>2
  <1>4. \A a, b \in DOMAIN r : a # b => a + 1 # b + 1
    BY <1>2
  <1>5. Unique(r)
    BY <1>3, <1>4 DEF Unique
  <1>6. \A op, i : About(r, op, i) => About(q, op, i)
    BY <1>3 DEF About
  <1>7. About(q, Head(q).op, Head(q).mb)
    BY <1>1, <1>3 DEF About
  <1>8. \A op \in Awaited : Head(q).op # "count" => ~About(r, op, Head(q).mb)
    BY <1>1, <1>3 DEF About, Unique, Awaited
  <1> QED
    BY <1>5, <1>6, <1>7, <1>8 DEF r
-----------------------------------------------------------------------------
(* The key caching filter                                                  *)

LEMMA CacheTypes ==
    ASSUME NEW cache \in Cache
    PROVE  /\ \A x \in Slice, clear \in BOOLEAN : EncodeCache(cache, x, clear) \in Cache
           /\ \A m \in Message : DecodeCache(cache, m) \in Cache
           /\ \A m \in Request : ~Invalid(cache, m) => DecodedKey(cache, m) \in Slice
           /\ \A i \in Mb, op \in {"count", "pull", "grad"}, x \in Slice :
                  /\ Msg(i, op, x, cache) \in Request
                  /\ Msg(i, op, x, cache).mb = i /\ Msg(i, op, x, cache).op = op
           /\ \A m \in Message : Ack(m) \in Message /\ Ack(m).mb = m.mb /\ Ack(m).op = m.op
  <1> USE AsyncAssumption, NoneAssumption
  <1>1. ASSUME NEW x \in Slice, NEW clear \in BOOLEAN PROVE EncodeCache(cache, x, clear) \in Cache
    <2>1. Sig[x] \in Signature
      BY DEF Signature
    <2> QED
      BY <2>1 DEF EncodeCache, Cache
  <1>2. ASSUME NEW m \in Message PROVE DecodeCache(cache, m) \in Cache
    <2>1. m.sig \in Signature \cup {None} /\ m.key \in Slice \cup {None}
      BY DEF Message
    <2> QED
      BY <2>1 DEF DecodeCache, Cache
  <1>3. ASSUME NEW m \in Request, ~Invalid(cache, m) PROVE DecodedKey(cache, m) \in Slice
    BY <1>3 DEF Request, Message, Invalid, DecodedKey, Cache
  <1>4. ASSUME NEW i \in Mb, NEW op \in {"count", "pull", "grad"}, NEW x \in Slice
        PROVE  /\ Msg(i, op, x, cache) \in Request
               /\ Msg(i, op, x, cache).mb = i /\ Msg(i, op, x, cache).op = op
    <2>1. Sig[x] \in Signature
      BY DEF Signature
    <2>2. EncodedKey(cache, x) \in Slice \cup {None}
      BY DEF EncodedKey
    <2>3. EncodedKey(cache, x) = None => x \notin Small
      BY DEF EncodedKey
    <2> QED
      BY <2>1, <2>2, <2>3 DEF Msg, Request, Message
  <1>5. ASSUME NEW m \in Message PROVE Ack(m) \in Message /\ Ack(m).mb = m.mb /\ Ack(m).op = m.op
    BY DEF Ack, Message
  <1> QED
    BY <1>1, <1>2, <1>3, <1>4, <1>5

(* A request goes to the servers that own some of the keys, once to each.  *)
LEMMA SubmitEffect ==
    ASSUME TypeOK, NEW i \in Mb, NEW op \in {"count", "pull", "grad"}, Submit(i, op)
    PROVE  /\ toServer' \in [Server -> Seq(Request)]
           /\ wcache' \in [Server -> Cache]
           /\ Receivers(i) \subseteq Server
           /\ \A s \in Server \ Receivers(i) : toServer'[s] = toServer[s]
           /\ \A s \in Receivers(i) : \E m \in Request :
                  m.op = op /\ m.mb = i /\ toServer'[s] = Append(toServer[s], m)
  <1> DEFINE msg(s) == Msg(i, op, keys[i][s], wcache[s])
  <1>1. \A s \in Server : toServer[s] \in Seq(Request) /\ wcache[s] \in Cache
    BY DEF TypeOK
  <1>2. Receivers(i) \subseteq Server /\ \A s \in Receivers(i) : keys[i][s] \in Slice
    BY DEF TypeOK, Receivers
  <1>3. \A s \in Receivers(i) : msg(s) \in Request /\ msg(s).op = op /\ msg(s).mb = i
    BY <1>1, <1>2, CacheTypes
  <1>4. \A s \in Receivers(i) : EncodeCache(wcache[s], keys[i][s], op = "grad") \in Cache
    BY <1>1, <1>2, CacheTypes
  <1>5. \A s \in Receivers(i) : Append(toServer[s], msg(s)) \in Seq(Request)
    BY <1>1, <1>2, <1>3, AppendProperties
  <1>6. /\ toServer' = [s \in Server |-> IF s \in Receivers(i) THEN Append(toServer[s], msg(s)) ELSE toServer[s]]
        /\ wcache' = [s \in Server |-> IF s \in Receivers(i) THEN EncodeCache(wcache[s], keys[i][s], op = "grad")
                                                             ELSE wcache[s]]
    BY DEF Submit
  <1> HIDE DEF msg
  <1> QED
    BY <1>1, <1>2, <1>3, <1>4, <1>5, <1>6
-----------------------------------------------------------------------------
(* Counting                                                                *)

LEMMA Counts ==
    ASSUME cur \in 1 .. NumMb + 1, StartedInv, phase \in [Mb -> {"new", "pulling", "pushing", "finished"}]
    PROVE  /\ IsFiniteSet(Finished) /\ Cardinality(Finished) \in Nat
           /\ IsFiniteSet(Running) /\ Cardinality(Running) \in Nat
           /\ Cardinality(Running) = (IF pc = "incr" THEN cur ELSE cur - 1) - Cardinality(Finished)
           /\ Cardinality(Running) = 0 => \A i \in Mb : phase[i] \in {"new", "finished"}
  <1> USE AsyncAssumption
  <1> DEFINE top == IF pc = "incr" THEN cur ELSE cur - 1
  <1>1. top \in 0 .. NumMb /\ Started = 1 .. top
    BY DEF StartedInv, Started, Mb
  <1> HIDE DEF top
  <1>2. Started \subseteq Mb
    BY <1>1 DEF Mb
  <1>3. Finished \subseteq Started /\ Running = Started \ Finished
    BY <1>2 DEF Finished, Running, StartedInv
  <1>4. IsFiniteSet(Started) /\ Cardinality(Started) = top
    BY <1>1, FS_Interval
  <1>5. IsFiniteSet(Finished) /\ IsFiniteSet(Running)
    BY <1>3, <1>4, FS_Subset
  <1>6. Cardinality(Running) = Cardinality(Started) - Cardinality(Started \cap Finished)
    BY <1>3, <1>4, FS_Difference
  <1>7. Started \cap Finished = Finished
    BY <1>3
  <1>8. Cardinality(Running) = 0 => Running = {}
    BY <1>5, FS_EmptySet
  <1>9. Running = {} => \A i \in Mb : phase[i] \in {"new", "finished"}
    BY DEF Running
  <1>10. Cardinality(Finished) \in Nat /\ Cardinality(Running) \in Nat
    BY <1>5, FS_CardinalityType
  <1> QED
    BY <1>4, <1>5, <1>6, <1>7, <1>8, <1>9, <1>10 DEF top

LEMMA MaxMbType ==
    ASSUME job \in Jobs, wl \in Workload
    PROVE  MaxMb \in Nat \ {0}
  BY AsyncAssumption DEF MaxMb, Workload
-----------------------------------------------------------------------------
LEMMA WorkerInitInv == Init => WorkerInv
  <1> SUFFICES ASSUME Init PROVE WorkerInv
    OBVIOUS
  <1> USE AsyncAssumption DEF Init
  <1>1. job \in Jobs /\ wl \in Workload /\ MaxMb \in Nat \ {0}
    <2>1. job \in Jobs /\ wl \in Workload
      BY DEF Workload
    <2> QED
      BY <2>1, MaxMbType
  <1>2. Finished = {} /\ Cardinality(Finished) = 0
    <2>1. Finished = {}
      BY DEF Finished
    <2> QED
      BY <2>1, FS_EmptySet
  <1>3. TypeOK
    <2>1. NoCache \in Cache
      BY DEF NoCache, Cache
    <2>2. \A S : <<>> \in Seq(S)
      BY EmptySeq
    <2>3. keys \in [Mb -> [Server -> Slice \cup {None}]]
      BY DEF NoKeys
    <2>4. numFly \in -1 .. MaxMb /\ calls \in 0 .. job.calls
      BY <1>1
    <2>5. cur \in 1 .. NumMb + 1 /\ kv \in {Idle} \cup [at : {"pull", "grad", "notify"}, mb : Mb]
      OBVIOUS
    <2>6. toServer \in [Server -> Seq(Request)] /\ toWorker \in [Server -> Seq(Message)]
      BY <2>2
    <2>7. wcache \in [Server -> Cache] /\ scache \in [Server -> Cache]
      BY <2>1
    <2>8. phase \in [Mb -> {"new", "pulling", "pushing", "finished"}] /\ pending \in [Mb -> SUBSET Server]
      OBVIOUS
    <2> QED
      BY <1>1, <2>3, <2>4, <2>5, <2>6, <2>7, <2>8 DEF TypeOK
  <1>4. StartedInv
    BY DEF StartedInv, Started
  <1>5. FlyInv
    BY <1>1, <1>2 DEF FlyInv
  <1>6. AwaitInv
    BY AboutEmpty DEF AwaitInv, Idle, Awaited
  <1> QED
    BY <1>3, <1>4, <1>5, <1>6 DEF WorkerInv
-----------------------------------------------------------------------------
(* The thread that runs Process                                            *)

LEMMA StartProcessInv ==
    ASSUME WorkerInv, StartProcess
    PROVE  WorkerInv'
  <1> USE AsyncAssumption
  <1>1. /\ UNCHANGED <<job, blocked, pending, kv, toServer, toWorker, wcache, scache, crashed, misread>>
        /\ wl' \in Workload /\ calls' = calls + 1 /\ calls < job.calls
        /\ pc = "returned" /\ pc' = "read" /\ cur' = 1 /\ numFly' = 0
        /\ keys' = NoKeys /\ phase' = [i \in Mb |-> "new"]
    BY DEF StartProcess, netVars, cacheVars
  <1>2. TypeOK /\ FlyInv /\ AwaitInv
    BY DEF WorkerInv
  <1>3. job' \in Jobs /\ wl' \in Workload /\ MaxMb' \in Nat \ {0}
    <2>1. job' \in Jobs /\ wl' \in Workload
      BY <1>1, <1>2 DEF TypeOK
    <2> QED
      BY <2>1, AsyncAssumption DEF MaxMb, Workload
  <1>4. Cardinality(Finished') = 0
    <2>1. Finished' = {}
      BY <1>1 DEF Finished
    <2> QED
      BY <2>1, FS_EmptySet
  <1>5. TypeOK'
    <2>1. keys' \in [Mb -> [Server -> Slice \cup {None}]]
      BY <1>1 DEF NoKeys
    <2>2. numFly' \in -1 .. MaxMb' /\ calls' \in 0 .. job'.calls /\ cur' \in 1 .. NumMb + 1
      BY <1>1, <1>2, <1>3 DEF TypeOK
    <2> QED
      BY <1>1, <1>2, <1>3, <2>1, <2>2 DEF TypeOK
  <1>6. StartedInv'
    BY <1>1 DEF StartedInv, Started
  <1>7. FlyInv'
    BY <1>1, <1>3, <1>4 DEF FlyInv
  <1>8. AwaitInv'
    <2>1. \A i \in Mb : phase[i] # "pulling" /\ phase[i] # "pushing"
      BY <1>1, <1>2 DEF FlyInv
    <2>2. \A s \in Server, op \in Awaited, i \in Mb : ~About(toServer[s], op, i) /\ ~About(toWorker[s], op, i)
      BY <1>2, <2>1 DEF AwaitInv, PhaseOf
    <2>3. kv.at \notin Awaited
      <3> SUFFICES ASSUME kv.at \in Awaited PROVE FALSE
        OBVIOUS
      <3>1. kv.mb \in Mb
        BY <1>2 DEF TypeOK, Idle, Awaited
      <3> QED
        BY <1>2, <2>1, <3>1 DEF AwaitInv, PhaseOf
    <2> QED
      BY <1>1, <1>2, <2>2, <2>3 DEF AwaitInv
  <1> QED
    BY <1>5, <1>6, <1>7, <1>8 DEF WorkerInv

LEMMA ReadMinibatchInv ==
    ASSUME WorkerInv, ReadMinibatch
    PROVE  WorkerInv'
  <1> USE AsyncAssumption
  <1>1. /\ UNCHANGED <<job, wl, calls, cur, blocked, numFly, phase, pending, kv, toServer, toWorker, wcache, scache, crashed, misread>>
        /\ pc = "read"
        /\ (pc' = "wait" /\ cur <= job.mb) \/ pc' = "final"
    BY DEF ReadMinibatch, wlVars, netVars, cacheVars
  <1>2. TypeOK /\ StartedInv /\ FlyInv /\ AwaitInv
    BY DEF WorkerInv
  <1>3. job \in Jobs /\ job.mb \in 0 .. NumMb /\ job.slices \subseteq Slice
    BY <1>2 DEF TypeOK
  <1>4. keys' \in [Mb -> [Server -> Slice \cup {None}]]
    <2>1. \A x \in [Server -> job.slices \cup {None}] : x \in [Server -> Slice \cup {None}]
      BY <1>3
    <2> QED
      BY <1>2, <2>1 DEF ReadMinibatch, TypeOK
  <1>5. MaxMb' = MaxMb /\ Finished' = Finished
    BY <1>1 DEF MaxMb, Finished
  <1>6. TypeOK'
    BY <1>1, <1>2, <1>4, <1>5 DEF TypeOK
  <1>7. StartedInv'
    <2>1. pc' = "wait" => cur \in Mb
      BY <1>1, <1>2, <1>3 DEF TypeOK, Mb
    <2> QED
      BY <1>1, <1>2, <2>1 DEF StartedInv, Started
  <1>8. FlyInv' /\ AwaitInv'
    BY <1>1, <1>2, <1>5 DEF FlyInv, AwaitInv
  <1> QED
    BY <1>6, <1>7, <1>8 DEF WorkerInv

LEMMA WaitForSlotInv ==
    ASSUME WorkerInv, WaitForSlot
    PROVE  WorkerInv'
  <1>1. /\ UNCHANGED <<job, wl, calls, cur, numFly, keys, phase, pending, kv, toServer, toWorker, wcache, scache, crashed, misread>>
        /\ pc = "wait" /\ blocked' \in {blocked, TRUE}
        /\ pc' = pc \/ (pc' \in {"count", "pull"} /\ numFly < MaxMb)
    BY DEF WaitForSlot, WaitMinibatch, wlVars, mbVars, netVars, cacheVars
  <1>2. TypeOK /\ StartedInv /\ FlyInv /\ AwaitInv
    BY DEF WorkerInv
  <1>3. MaxMb' = MaxMb /\ Finished' = Finished
    BY <1>1 DEF MaxMb, Finished
  <1>4. TypeOK'
    BY <1>1, <1>2, <1>3 DEF TypeOK
  <1>5. StartedInv' /\ FlyInv' /\ AwaitInv'
    BY <1>1, <1>2, <1>3 DEF StartedInv, Started, FlyInv, AwaitInv
  <1> QED
    BY <1>4, <1>5 DEF WorkerInv

LEMMA WaitForAllInv ==
    ASSUME WorkerInv, WaitForAll
    PROVE  WorkerInv'
  <1>1. /\ UNCHANGED <<job, wl, calls, cur, numFly, keys, phase, pending, kv, toServer, toWorker, wcache, scache, crashed, misread>>
        /\ pc = "final" /\ blocked' \in {blocked, TRUE}
        /\ pc' = pc \/ (pc' = "returned" /\ numFly < 1)
    BY DEF WaitForAll, WaitMinibatch, wlVars, mbVars, netVars, cacheVars
  <1>2. TypeOK /\ StartedInv /\ FlyInv /\ AwaitInv
    BY DEF WorkerInv
  <1>3. MaxMb' = MaxMb /\ Finished' = Finished
    BY <1>1 DEF MaxMb, Finished
  <1>4. TypeOK'
    BY <1>1, <1>2, <1>3 DEF TypeOK
  <1>5. StartedInv' /\ AwaitInv'
    BY <1>1, <1>2 DEF StartedInv, Started, AwaitInv
  <1>6. FlyInv'
    <2>1. numFly < 1 => \A i \in Mb : phase[i] \in {"new", "finished"}
      <3>1. /\ Cardinality(Running) = cur - 1 - Cardinality(Finished) /\ Cardinality(Running) \in Nat
            /\ Cardinality(Running) = 0 => \A i \in Mb : phase[i] \in {"new", "finished"}
        BY <1>1, <1>2, Counts DEF TypeOK
      <3> QED
        BY <1>2, <3>1 DEF FlyInv
    <2> QED
      BY <1>1, <1>2, <1>3, <2>1 DEF FlyInv
  <1> QED
    BY <1>4, <1>5, <1>6 DEF WorkerInv

(* The counts have no callback, so nobody awaits their answers.            *)
LEMMA PushFeaCntInv ==
    ASSUME WorkerInv, PushFeaCnt
    PROVE  WorkerInv'
  <1>1. /\ UNCHANGED <<job, wl, calls, cur, blocked, numFly, keys, phase, pending, kv, toWorker, scache, crashed, misread>>
        /\ pc = "count" /\ pc' = "pull" /\ Submit(cur, "count")
    BY DEF PushFeaCnt, wlVars, mbVars
  <1>2. TypeOK /\ StartedInv /\ FlyInv /\ AwaitInv /\ cur \in Mb
    BY <1>1 DEF WorkerInv, StartedInv
  <1>3. MaxMb' = MaxMb /\ Finished' = Finished
    BY <1>1 DEF MaxMb, Finished
  <1>4. /\ toServer' \in [Server -> Seq(Request)]
        /\ wcache' \in [Server -> Cache]
        /\ \A s \in Server : \/ toServer'[s] = toServer[s]
                             \/ \E m \in Request : m.op = "count" /\ toServer'[s] = Append(toServer[s], m)
    BY <1>1, <1>2, SubmitEffect
  <1>5. TypeOK'
    BY <1>1, <1>2, <1>3, <1>4 DEF TypeOK
  <1>6. StartedInv' /\ FlyInv'
    BY <1>1, <1>2, <1>3 DEF StartedInv, Started, FlyInv
  <1>7. ASSUME NEW s \in Server
        PROVE  /\ Unique(toServer'[s])
               /\ \A op \in Awaited, i \in Mb : About(toServer'[s], op, i) <=> About(toServer[s], op, i)
    <2>1. CASE toServer'[s] = toServer[s]
      BY <1>2, <2>1 DEF AwaitInv
    <2>2. CASE \E m \in Request : m.op = "count" /\ toServer'[s] = Append(toServer[s], m)
      <3>1. PICK m \in Request : m.op = "count" /\ toServer'[s] = Append(toServer[s], m)
        BY <2>2
      <3>2. toServer[s] \in Seq(Request) /\ Unique(toServer[s])
        BY <1>2 DEF TypeOK, AwaitInv
      <3>3. /\ Unique(toServer'[s])
            /\ \A op, i : About(toServer'[s], op, i) <=> About(toServer[s], op, i) \/ (m.op = op /\ m.mb = i)
        BY <3>1, <3>2, AboutAppend
      <3> QED
        BY <3>1, <3>3 DEF Awaited
    <2> QED
      BY <1>4, <2>1, <2>2
  <1>8. AwaitInv'
    BY <1>1, <1>2, <1>7 DEF AwaitInv
  <1> QED
    BY <1>5, <1>6, <1>8 DEF WorkerInv

(* When a request with callback is submitted for a minibatch about which   *)
(* nothing is under way, what is awaited is what is under way.             *)
LEMMA SubmitAwaited ==
    ASSUME TypeOK, NEW i \in Mb, NEW o \in Awaited, Submit(i, o), AwaitInv,
           \A s \in Server, op \in Awaited : ~About(toServer[s], op, i)
    PROVE  \A s \in Server :
               /\ Unique(toServer'[s])
               /\ \A op \in Awaited, j \in Mb :
                      About(toServer'[s], op, j) <=>
                          About(toServer[s], op, j) \/ (j = i /\ op = o /\ s \in Receivers(i))
  <1> SUFFICES ASSUME NEW s \in Server
               PROVE  /\ Unique(toServer'[s])
                      /\ \A op \in Awaited, j \in Mb :
                             About(toServer'[s], op, j) <=>
                          About(toServer[s], op, j) \/ (j = i /\ op = o /\ s \in Receivers(i))
    OBVIOUS
  <1>1. o \in {"count", "pull", "grad"} /\ o # "count"
    BY DEF Awaited
  <1>2. /\ \A t \in Server \ Receivers(i) : toServer'[t] = toServer[t]
        /\ \A t \in Receivers(i) : \E m \in Request :
                  m.op = o /\ m.mb = i /\ toServer'[t] = Append(toServer[t], m)
    <2>1. CASE o = "pull"
      BY <2>1, SubmitEffect
    <2>2. CASE o = "grad"
      BY <2>2, SubmitEffect
    <2> QED
      BY <2>1, <2>2 DEF Awaited
  <1>3. toServer[s] \in Seq(Request) /\ Unique(toServer[s])
    BY DEF TypeOK, AwaitInv
  <1>4. CASE s \in Receivers(i)
    <2>1. PICK m \in Request : m.op = o /\ m.mb = i /\ toServer'[s] = Append(toServer[s], m)
      BY <1>2, <1>4
    <2>2. \A a \in DOMAIN toServer[s] : toServer[s][a].op # "count" => toServer[s][a].mb # i
      <3>1. \A a \in DOMAIN toServer[s] : toServer[s][a].op \in {"count", "pull", "grad"}
        BY <1>3, ElementOfSeq DEF Request, Message
      <3> QED
        BY <3>1 DEF About, Awaited
    <2>3. /\ \A op, j : About(toServer'[s], op, j) <=> About(toServer[s], op, j) \/ (m.op = op /\ m.mb = j)
          /\ Unique(toServer'[s])
      BY <1>3, <2>1, <2>2, AboutAppend
    <2> QED
      BY <1>4, <2>1, <2>3
  <1>5. CASE s \notin Receivers(i)
    <2>1. toServer'[s] = toServer[s]
      BY <1>2, <1>5
    <2> QED
      BY <1>3, <1>5, <2>1, Zenon
  <1> QED
    BY <1>4, <1>5

LEMMA PullWeightInv ==
    ASSUME WorkerInv, PullWeight
    PROVE  WorkerInv'
  <1> USE AsyncAssumption
  <1>1. /\ UNCHANGED <<job, wl, calls, cur, blocked, numFly, keys, kv, toWorker, scache, crashed, misread>>
        /\ pc = "pull" /\ pc' = "incr" /\ Submit(cur, "pull")
        /\ phase' = [phase EXCEPT ![cur] = "pulling"]
        /\ pending' = [pending EXCEPT ![cur] = Receivers(cur)]
    BY DEF PullWeight, wlVars
  <1>2. TypeOK /\ StartedInv /\ FlyInv /\ AwaitInv /\ cur \in Mb
    BY <1>1 DEF WorkerInv, StartedInv
  <1>3. phase[cur] = "new"
    BY <1>1, <1>2 DEF StartedInv, Started, Mb
  <1>4. MaxMb' = MaxMb /\ Finished' = Finished
    BY <1>1, <1>2, <1>3 DEF MaxMb, Finished, TypeOK
  <1>5. /\ toServer' \in [Server -> Seq(Request)]
        /\ wcache' \in [Server -> Cache]
        /\ Receivers(cur) \subseteq Server
    BY <1>1, <1>2, SubmitEffect
  <1>6. TypeOK'
    BY <1>1, <1>2, <1>4, <1>5 DEF TypeOK
  <1>7. StartedInv'
    <2>1. \A i \in Mb : i \in 1 .. cur <=> i = cur \/ i \in 1 .. cur - 1
      BY <1>2 DEF Mb
    <2> QED
      BY <1>1, <1>2, <2>1 DEF StartedInv, Started, TypeOK
  <1>8. FlyInv'
    BY <1>1, <1>2, <1>4 DEF FlyInv
  <1>9. \A s \in Server, op \in Awaited : ~About(toServer[s], op, cur) /\ ~About(toWorker[s], op, cur)
    BY <1>2, <1>3 DEF AwaitInv, PhaseOf
  <1>10. \A s \in Server :
               /\ Unique(toServer'[s])
               /\ \A op \in Awaited, j \in Mb :
                      About(toServer'[s], op, j) <=>
                          About(toServer[s], op, j) \/ (j = cur /\ op = "pull" /\ s \in Receivers(cur))
    BY <1>1, <1>2, <1>9, SubmitAwaited DEF Awaited
  <1>11. /\ phase'[cur] = "pulling" /\ pending'[cur] = Receivers(cur)
         /\ \A i \in Mb \ {cur} : phase'[i] = phase[i] /\ pending'[i] = pending[i]
    BY <1>1, <1>2 DEF TypeOK
  <1>12. kv.at \in Awaited => kv.mb \in Mb \ {cur}
    BY <1>2, <1>3 DEF AwaitInv, PhaseOf, TypeOK, Idle, Awaited
  <1>13. AwaitInv'
    <2>1. ASSUME NEW s \in Server, NEW op \in Awaited, NEW i \in Mb
          PROVE  /\ About(toServer'[s], op, i) \/ About(toWorker'[s], op, i) =>
                        phase'[i] = PhaseOf(op) /\ s \in pending'[i]
                 /\ ~(About(toServer'[s], op, i) /\ About(toWorker'[s], op, i))
      <3>1. CASE i = cur
        BY <1>1, <1>9, <1>10, <1>11, <3>1 DEF PhaseOf
      <3>2. CASE i # cur
        BY <1>1, <1>2, <1>10, <1>11, <3>2 DEF AwaitInv
      <3> QED
        BY <3>1, <3>2
    <2>2. \A s \in Server : Unique(toServer'[s]) /\ Unique(toWorker'[s])
      BY <1>1, <1>2, <1>10 DEF AwaitInv
    <2>3. kv'.at \in Awaited => phase'[kv'.mb] = PhaseOf(kv'.at) /\ pending'[kv'.mb] = {}
      BY <1>1, <1>2, <1>11, <1>12 DEF AwaitInv
    <2> QED
      BY <2>1, <2>2, <2>3 DEF AwaitInv
  <1> QED
    BY <1>6, <1>7, <1>8, <1>13 DEF WorkerInv

LEMMA IncrFlyInv ==
    ASSUME WorkerInv, IncrFly
    PROVE  WorkerInv'
  <1> USE AsyncAssumption
  <1>1. /\ UNCHANGED <<job, wl, calls, blocked, keys, phase, pending, kv, toServer, toWorker, wcache, scache, crashed, misread>>
        /\ pc = "incr" /\ pc' = "read" /\ cur' = cur + 1 /\ numFly' = numFly + 1
    BY DEF IncrFly, wlVars, mbVars, netVars, cacheVars
  <1>2. TypeOK /\ StartedInv /\ FlyInv /\ AwaitInv /\ cur \in Mb
    BY <1>1 DEF WorkerInv, StartedInv
  <1>3. MaxMb' = MaxMb /\ Finished' = Finished /\ MaxMb \in Nat
    BY <1>1, <1>2, MaxMbType DEF MaxMb, Finished, TypeOK
  <1>4. Cardinality(Finished) \in Nat
    BY <1>2, Counts DEF TypeOK
  <1>5. numFly' \in -1 .. MaxMb /\ cur' \in 1 .. NumMb + 1
    BY <1>1, <1>2, <1>3 DEF TypeOK, FlyInv, Mb
  <1>6. TypeOK'
    BY <1>1, <1>2, <1>3, <1>5 DEF TypeOK
  <1>7. StartedInv'
    <2>1. cur' - 1 = cur
      BY <1>1, <1>2 DEF Mb
    <2> QED
      BY <1>1, <1>2, <2>1 DEF StartedInv, Started
  <1>8. FlyInv'
    BY <1>1, <1>2, <1>3, <1>4 DEF FlyInv, Mb
  <1>9. AwaitInv'
    BY <1>1, <1>2 DEF AwaitInv
  <1> QED
    BY <1>6, <1>7, <1>8, <1>9 DEF WorkerInv
-----------------------------------------------------------------------------
(* A server                                                                *)

LEMMA ServeRequestInv ==
    ASSUME WorkerInv, NEW s \in Server, ServeRequest(s)
    PROVE  WorkerInv'
  <1> DEFINE m == Head(toServer[s])
             x == DecodedKey(scache[s], m)
             c == DecodeCache(scache[s], m)
             r == IF m.op = "pull" THEN Msg(m.mb, m.op, x, c) ELSE Ack(m)
  <1>1. /\ UNCHANGED <<job, wl, calls, pc, cur, blocked, numFly, keys, phase, pending, kv, wcache>>
        /\ toServer[s] # <<>>
    BY DEF ServeRequest, procVars, wlVars, mbVars
  <1>2. TypeOK /\ StartedInv /\ FlyInv /\ AwaitInv
    BY DEF WorkerInv
  <1>3. MaxMb' = MaxMb /\ Finished' = Finished
    BY <1>1 DEF MaxMb, Finished
  <1>4. StartedInv' /\ FlyInv'
    BY <1>1, <1>2, <1>3 DEF StartedInv, Started, FlyInv
  <1>5. CASE Invalid(scache[s], m)
    <2>1. crashed' = "server" /\ UNCHANGED <<toServer, toWorker, scache, misread>>
      BY <1>5 DEF ServeRequest
    <2>2. TypeOK' /\ AwaitInv'
      BY <1>1, <1>2, <1>3, <2>1 DEF TypeOK, AwaitInv
    <2> QED
      BY <1>4, <2>2 DEF WorkerInv
  <1>6. CASE ~Invalid(scache[s], m)
    <2>1. /\ misread' = (misread \/ x # m.orig) /\ UNCHANGED crashed
          /\ toServer' = [toServer EXCEPT ![s] = Tail(@)]
          /\ toWorker' = [toWorker EXCEPT ![s] = Append(@, r)]
          /\ scache' = [scache EXCEPT ![s] = IF m.op = "pull" THEN EncodeCache(c, x, FALSE) ELSE c]
      BY <1>6 DEF ServeRequest
    <2>2. toServer[s] \in Seq(Request) /\ toWorker[s] \in Seq(Message) /\ scache[s] \in Cache
      BY <1>2 DEF TypeOK
    <2>3. m \in Request /\ m \in Message /\ Tail(toServer[s]) \in Seq(Request)
      BY <1>1, <2>2, HeadTailProperties DEF Request
    <2>4. x \in Slice /\ c \in Cache
      BY <1>6, <2>2, <2>3, CacheTypes
    <2>5. m.mb \in Mb /\ m.op \in {"count", "pull", "grad"}
      BY <2>3 DEF Message
    <2>6. r \in Message /\ r.mb = m.mb /\ r.op = m.op
      <3>1. Ack(m) \in Message /\ Ack(m).mb = m.mb /\ Ack(m).op = m.op
        BY <2>2, <2>3, CacheTypes
      <3>2. Msg(m.mb, m.op, x, c) \in Request /\ Msg(m.mb, m.op, x, c).mb = m.mb /\ Msg(m.mb, m.op, x, c).op = m.op
        BY <2>4, <2>5, CacheTypes
      <3> QED
        BY <3>1, <3>2 DEF Request
    <2>7. EncodeCache(c, x, FALSE) \in Cache
      BY <2>4, CacheTypes
    <2> HIDE DEF m, x, c, r
    <2>8. Append(toWorker[s], r) \in Seq(Message)
      BY <2>2, <2>6, AppendProperties
    <2>9. TypeOK'
      <3>1. toServer' \in [Server -> Seq(Request)] /\ toWorker' \in [Server -> Seq(Message)]
        BY <1>2, <2>1, <2>3, <2>8 DEF TypeOK
      <3>2. scache' \in [Server -> Cache]
        BY <1>2, <2>1, <2>4, <2>7 DEF TypeOK
      <3>3. misread' \in BOOLEAN
        BY <2>1
      <3> QED
        BY <1>1, <1>2, <1>3, <2>1, <3>1, <3>2, <3>3 DEF TypeOK
    <2>10. /\ toServer'[s] = Tail(toServer[s]) /\ toWorker'[s] = Append(toWorker[s], r)
           /\ \A t \in Server \ {s} : toServer'[t] = toServer[t] /\ toWorker'[t] = toWorker[t]
      BY <1>2, <2>1 DEF TypeOK
    <2>11. /\ Unique(toServer'[s])
           /\ \A op, i : About(toServer'[s], op, i) => About(toServer[s], op, i)
           /\ About(toServer[s], m.op, m.mb)
           /\ \A op \in Awaited : m.op # "count" => ~About(toServer'[s], op, m.mb)
      BY <1>1, <1>2, <2>2, <2>10, AboutTail DEF AwaitInv, m
    <2>12. m.op # "count" => \A op \in Awaited : ~About(toWorker[s], op, m.mb)
      <3> SUFFICES ASSUME m.op # "count", NEW op \in Awaited PROVE ~About(toWorker[s], op, m.mb)
        OBVIOUS
      <3>1. m.op \in Awaited
        BY <2>5 DEF Awaited
      <3>2. phase[m.mb] = PhaseOf(m.op) /\ ~About(toWorker[s], m.op, m.mb)
        BY <1>2, <2>5, <2>11, <3>1 DEF AwaitInv
      <3>3. op # m.op => PhaseOf(op) # PhaseOf(m.op)
        BY <3>1 DEF PhaseOf, Awaited
      <3> QED
        BY <1>2, <2>5, <3>2, <3>3 DEF AwaitInv
    <2>13. \A a \in DOMAIN toWorker[s] : r.op # "count" /\ toWorker[s][a].op # "count" => toWorker[s][a].mb # r.mb
      <3>1. \A a \in DOMAIN toWorker[s] : toWorker[s][a].op \in {"count", "pull", "grad"}
        <4>1. DOMAIN toWorker[s] = 1 .. Len(toWorker[s])
          BY <2>2, LenProperties
        <4>2. \A a \in DOMAIN toWorker[s] : toWorker[s][a] \in Message
          BY <2>2, <4>1, ElementOfSeq
        <4> QED
          BY <4>2 DEF Message
      <3> QED
        BY <2>6, <2>12, <3>1 DEF About, Awaited
    <2>14. /\ Unique(toWorker'[s])
           /\ \A op, i : About(toWorker'[s], op, i) <=> About(toWorker[s], op, i) \/ (m.op = op /\ m.mb = i)
      BY <1>2, <2>2, <2>6, <2>10, <2>13, AboutAppend DEF AwaitInv
    <2>15. AwaitInv'
      <3>1. ASSUME NEW t \in Server
            PROVE  /\ Unique(toServer'[t]) /\ Unique(toWorker'[t])
                   /\ \A op \in Awaited, i \in Mb :
                        /\ About(toServer'[t], op, i) \/ About(toWorker'[t], op, i) =>
                               phase[i] = PhaseOf(op) /\ t \in pending[i]
                        /\ ~(About(toServer'[t], op, i) /\ About(toWorker'[t], op, i))
        <4>1. CASE t = s
          <5>1. \A op \in Awaited, i \in Mb : About(toWorker'[s], op, i) =>
                    About(toWorker[s], op, i) \/ About(toServer[s], op, i)
            BY <2>11, <2>14
          <5>2. \A op \in Awaited, i \in Mb : ~(About(toServer'[s], op, i) /\ About(toWorker'[s], op, i))
            BY <1>2, <2>11, <2>14 DEF AwaitInv, Awaited
          <5> QED
            BY <1>2, <2>11, <2>14, <4>1, <5>1, <5>2 DEF AwaitInv
        <4>2. CASE t # s
          BY <1>2, <2>10, <4>2 DEF AwaitInv
        <4> QED
          BY <4>1, <4>2
      <3> QED
        BY <1>1, <1>2, <3>1 DEF AwaitInv
    <2> QED
      BY <1>4, <2>9, <2>15 DEF WorkerInv
  <1> QED
    BY <1>5, <1>6
-----------------------------------------------------------------------------
(* The executor thread of the worker's key-value customer                  *)

LEMMA ReceiveResponseInv ==
    ASSUME WorkerInv, NEW s \in Server, ReceiveResponse(s)
    PROVE  WorkerInv'
  <1> DEFINE m == Head(toWorker[s])
             left == pending[m.mb] \ {s}
  <1>1. /\ UNCHANGED <<job, wl, calls, pc, cur, blocked, numFly, keys, phase, toServer, scache>>
        /\ toWorker[s] # <<>> /\ kv = Idle
    BY DEF ReceiveResponse, procVars, wlVars
  <1>2. TypeOK /\ StartedInv /\ FlyInv /\ AwaitInv
    BY DEF WorkerInv
  <1>3. MaxMb' = MaxMb /\ Finished' = Finished
    BY <1>1 DEF MaxMb, Finished
  <1>4. StartedInv' /\ FlyInv'
    BY <1>1, <1>2, <1>3 DEF StartedInv, Started, FlyInv
  <1>5. CASE Invalid(wcache[s], m)
    <2>1. crashed' = "worker" /\ UNCHANGED <<toWorker, wcache, misread, pending, kv>>
      BY <1>5 DEF ReceiveResponse
    <2>2. TypeOK' /\ AwaitInv'
      BY <1>1, <1>2, <1>3, <2>1 DEF TypeOK, AwaitInv
    <2> QED
      BY <1>4, <2>2 DEF WorkerInv
  <1>6. CASE ~Invalid(wcache[s], m)
    <2>1. /\ misread' = (misread \/ DecodedKey(wcache[s], m) # m.orig) /\ UNCHANGED crashed
          /\ toWorker' = [toWorker EXCEPT ![s] = Tail(@)]
          /\ wcache' = [wcache EXCEPT ![s] = DecodeCache(@, m)]
          /\ m.op = "count" => UNCHANGED <<pending, kv>>
          /\ m.op # "count" => /\ pending' = [pending EXCEPT ![m.mb] = left]
                               /\ kv' = IF left = {} THEN [at |-> m.op, mb |-> m.mb] ELSE Idle
      BY <1>6 DEF ReceiveResponse
    <2>2. toWorker[s] \in Seq(Message) /\ wcache[s] \in Cache
      BY <1>2 DEF TypeOK
    <2>3. m \in Message /\ Tail(toWorker[s]) \in Seq(Message)
      BY <1>1, <2>2, HeadTailProperties
    <2>4. m.mb \in Mb /\ m.op \in {"count", "pull", "grad"} /\ DecodeCache(wcache[s], m) \in Cache
      BY <2>2, <2>3, CacheTypes DEF Message
    <2>5. /\ toWorker'[s] = Tail(toWorker[s])
          /\ \A t \in Server \ {s} : toWorker'[t] = toWorker[t]
      BY <1>2, <2>1 DEF TypeOK
    <2>6. /\ Unique(toWorker'[s])
          /\ \A op, i : About(toWorker'[s], op, i) => About(toWorker[s], op, i)
          /\ About(toWorker[s], m.op, m.mb)
          /\ \A op \in Awaited : m.op # "count" => ~About(toWorker'[s], op, m.mb)
      BY <1>1, <1>2, <2>2, <2>5, AboutTail DEF AwaitInv
    <2> HIDE DEF m
    <2>7. TypeOK'
      <3>1. toWorker' \in [Server -> Seq(Message)] /\ wcache' \in [Server -> Cache]
        BY <1>2, <2>1, <2>3, <2>4 DEF TypeOK
      <3>2. misread' \in BOOLEAN
        BY <2>1
      <3>3. pending' \in [Mb -> SUBSET Server] /\ kv' \in {Idle} \cup [at : {"pull", "grad", "notify"}, mb : Mb]
        <4>1. left \in SUBSET Server
          BY <1>2, <2>4 DEF TypeOK
        <4>2. CASE m.op = "count"
          BY <1>1, <1>2, <2>1, <4>2 DEF TypeOK
        <4>3. CASE m.op # "count"
          <5>1. m.op \in {"pull", "grad", "notify"}
            BY <2>4, <4>3
          <5> HIDE DEF left
          <5>2. pending' \in [Mb -> SUBSET Server]
            BY <1>2, <2>1, <2>4, <4>1, <4>3 DEF TypeOK
          <5> QED
            BY <2>1, <2>4, <4>3, <5>1, <5>2
        <4> QED
          BY <4>2, <4>3
      <3> QED
        BY <1>1, <1>2, <1>3, <2>1, <3>1, <3>2, <3>3 DEF TypeOK
    <2>8. m.op # "count" => /\ m.op \in Awaited /\ phase[m.mb] = PhaseOf(m.op)
                            /\ ~About(toServer[s], m.op, m.mb)
      BY <1>2, <2>4, <2>6 DEF AwaitInv, Awaited
    <2>9. m.op # "count" => \A op \in Awaited : ~About(toServer[s], op, m.mb)
      <3> SUFFICES ASSUME m.op # "count", NEW op \in Awaited PROVE ~About(toServer[s], op, m.mb)
        OBVIOUS
      <3>1. op # m.op => PhaseOf(op) # PhaseOf(m.op)
        BY <2>8 DEF PhaseOf, Awaited
      <3> QED
        BY <1>2, <2>4, <2>8, <3>1 DEF AwaitInv
    <2>10. \A i \in Mb, t \in Server : t \in pending[i] /\ ~(m.op # "count" /\ i = m.mb /\ t = s) => t \in pending'[i]
      BY <1>2, <2>1, <2>4 DEF TypeOK
    <2>11. ASSUME NEW t \in Server
           PROVE  /\ Unique(toServer'[t]) /\ Unique(toWorker'[t])
                  /\ \A op \in Awaited, i \in Mb :
                        /\ About(toServer'[t], op, i) \/ About(toWorker'[t], op, i) =>
                               phase'[i] = PhaseOf(op) /\ t \in pending'[i]
                        /\ ~(About(toServer'[t], op, i) /\ About(toWorker'[t], op, i))
      <3>1. \A op, i : About(toWorker'[t], op, i) => About(toWorker[t], op, i)
        BY <2>5, <2>6
      <3>2. Unique(toServer'[t]) /\ Unique(toWorker'[t])
        BY <1>1, <1>2, <2>5, <2>6 DEF AwaitInv
      <3>3. ASSUME NEW op \in Awaited, NEW i \in Mb
            PROVE  /\ About(toServer'[t], op, i) \/ About(toWorker'[t], op, i) =>
                          phase'[i] = PhaseOf(op) /\ t \in pending'[i]
                   /\ ~(About(toServer'[t], op, i) /\ About(toWorker'[t], op, i))
        <4>1. /\ About(toServer'[t], op, i) => About(toServer[t], op, i)
              /\ About(toWorker'[t], op, i) => About(toWorker[t], op, i)
          BY <1>1, <3>1
        <4>2. CASE m.op # "count" /\ i = m.mb /\ t = s
          BY <1>1, <2>6, <2>9, <4>2
        <4>3. CASE ~(m.op # "count" /\ i = m.mb /\ t = s)
          BY <1>1, <1>2, <2>10, <4>1, <4>3 DEF AwaitInv
        <4> QED
          BY <4>2, <4>3
      <3> QED
        BY <3>2, <3>3
    <2>12. kv'.at \in Awaited => phase'[kv'.mb] = PhaseOf(kv'.at) /\ pending'[kv'.mb] = {}
      <3>1. CASE m.op # "count" /\ left = {}
        <4>1. kv' = [at |-> m.op, mb |-> m.mb] /\ pending'[m.mb] = {}
          BY <1>2, <2>1, <2>4, <3>1 DEF TypeOK
        <4> QED
          BY <1>1, <2>8, <3>1, <4>1
      <3>2. CASE ~(m.op # "count" /\ left = {})
        <4>1. kv' = Idle
          BY <1>1, <2>1, <3>2
        <4> QED
          BY <4>1 DEF Idle, Awaited
      <3> QED
        BY <3>1, <3>2
    <2>13. AwaitInv'
      BY <2>11, <2>12 DEF AwaitInv
    <2> QED
      BY <1>4, <2>7, <2>13 DEF WorkerInv
  <1> QED
    BY <1>5, <1>6

(* A minibatch about which nothing is under way may change its phase.      *)
LEMMA PushGradInv ==
    ASSUME WorkerInv, PushGrad
    PROVE  WorkerInv'
  <1> DEFINE i == kv.mb
  <1>1. /\ UNCHANGED <<job, wl, calls, pc, cur, blocked, numFly, keys, toWorker, scache, crashed, misread>>
        /\ kv.at = "pull" /\ kv' = Idle /\ Submit(i, "grad")
        /\ phase' = [phase EXCEPT ![i] = "pushing"]
        /\ pending' = [pending EXCEPT ![i] = Receivers(i)]
    BY DEF PushGrad, procVars, wlVars
  <1>2. TypeOK /\ StartedInv /\ FlyInv /\ AwaitInv
    BY DEF WorkerInv
  <1>3. i \in Mb /\ phase[i] = "pulling" /\ pending[i] = {}
    <2>1. i \in Mb
      BY <1>1, <1>2 DEF TypeOK, Idle
    <2> QED
      BY <1>1, <1>2, <2>1 DEF AwaitInv, Awaited, PhaseOf
  <1> HIDE DEF i
  <1>4. /\ phase'[i] = "pushing" /\ pending'[i] = Receivers(i)
        /\ \A j \in Mb \ {i} : phase'[j] = phase[j] /\ pending'[j] = pending[j]
    BY <1>1, <1>2, <1>3 DEF TypeOK
  <1>5. MaxMb' = MaxMb /\ Finished' = Finished
    BY <1>1, <1>3, <1>4 DEF MaxMb, Finished
  <1>6. /\ toServer' \in [Server -> Seq(Request)]
        /\ wcache' \in [Server -> Cache]
        /\ Receivers(i) \subseteq Server
    BY <1>1, <1>2, <1>3, SubmitEffect
  <1>7. TypeOK'
    BY <1>1, <1>2, <1>3, <1>5, <1>6 DEF TypeOK
  <1>8. StartedInv'
    BY <1>1, <1>2, <1>3, <1>4 DEF StartedInv, Started
  <1>9. FlyInv'
    BY <1>1, <1>2, <1>3, <1>5 DEF FlyInv
  <1>10. \A s \in Server, op \in Awaited : ~About(toServer[s], op, i) /\ ~About(toWorker[s], op, i)
    BY <1>2, <1>3 DEF AwaitInv
  <1>11. \A s \in Server :
               /\ Unique(toServer'[s])
               /\ \A op \in Awaited, j \in Mb :
                      About(toServer'[s], op, j) <=>
                          About(toServer[s], op, j) \/ (j = i /\ op = "grad" /\ s \in Receivers(i))
    BY <1>1, <1>2, <1>3, <1>10, SubmitAwaited DEF Awaited
  <1>12. AwaitInv'
    <2>1. ASSUME NEW s \in Server, NEW op \in Awaited, NEW j \in Mb
          PROVE  /\ About(toServer'[s], op, j) \/ About(toWorker'[s], op, j) =>
                        phase'[j] = PhaseOf(op) /\ s \in pending'[j]
                 /\ ~(About(toServer'[s], op, j) /\ About(toWorker'[s], op, j))
      <3>1. CASE j = i
        BY <1>1, <1>4, <1>10, <1>11, <3>1 DEF PhaseOf
      <3>2. CASE j # i
        BY <1>1, <1>2, <1>4, <1>11, <3>2 DEF AwaitInv
      <3> QED
        BY <3>1, <3>2
    <2>2. \A s \in Server : Unique(toServer'[s]) /\ Unique(toWorker'[s])
      BY <1>1, <1>2, <1>11 DEF AwaitInv
    <2>3. kv'.at \notin Awaited
      BY <1>1 DEF Idle, Awaited
    <2> QED
      BY <2>1, <2>2, <2>3 DEF AwaitInv
  <1> QED
    BY <1>7, <1>8, <1>9, <1>12 DEF WorkerInv

LEMMA FinishMinibatchInv ==
    ASSUME WorkerInv, FinishMinibatch
    PROVE  WorkerInv'
  <1> DEFINE i == kv.mb
  <1>1. /\ UNCHANGED <<job, wl, calls, pc, cur, blocked, keys, pending, toServer, toWorker, wcache, scache, crashed, misread>>
        /\ kv.at \in Awaited /\ kv' = [kv EXCEPT !.at = "notify"]
        /\ numFly' = numFly - 1
        /\ phase' = [phase EXCEPT ![i] = "finished"]
    BY DEF FinishMinibatch, procVars, wlVars, netVars, cacheVars, Awaited
  <1>2. TypeOK /\ StartedInv /\ FlyInv /\ AwaitInv
    BY DEF WorkerInv
  <1>3. /\ kv \in [at : {"pull", "grad", "notify"}, mb : Mb]
        /\ kv' \in [at : {"pull", "grad", "notify"}, mb : Mb] /\ kv'.at = "notify"
    <2>1. kv \in [at : {"pull", "grad", "notify"}, mb : Mb]
      BY <1>1, <1>2 DEF TypeOK, Idle, Awaited
    <2> QED
      BY <1>1, <2>1
  <1>4. i \in Mb /\ phase[i] \in {"pulling", "pushing"} /\ pending[i] = {}
    BY <1>1, <1>2, <1>3 DEF AwaitInv, PhaseOf
  <1> HIDE DEF i
  <1>5. /\ phase'[i] = "finished" /\ \A j \in Mb \ {i} : phase'[j] = phase[j]
        /\ phase' \in [Mb -> {"new", "pulling", "pushing", "finished"}]
    BY <1>1, <1>2, <1>4 DEF TypeOK
  <1>6. StartedInv'
    BY <1>1, <1>2, <1>4, <1>5 DEF StartedInv, Started
  <1>7. /\ IsFiniteSet(Finished) /\ Cardinality(Finished) \in Nat
        /\ Cardinality(Running) = (IF pc = "incr" THEN cur ELSE cur - 1) - Cardinality(Finished)
        /\ Cardinality(Running) \in Nat
        /\ Cardinality(Running) = 0 => \A j \in Mb : phase[j] \in {"new", "finished"}
    BY <1>2, Counts DEF TypeOK
  <1>8. Cardinality(Running) # 0
    BY <1>4, <1>7
  <1>9. Cardinality(Finished') = Cardinality(Finished) + 1
    <2>1. Finished' = Finished \cup {i} /\ i \notin Finished
      BY <1>4, <1>5 DEF Finished
    <2> QED
      BY <1>7, <2>1, FS_AddElement
  <1>10. MaxMb' = MaxMb /\ MaxMb \in Nat
    BY <1>1, <1>2, MaxMbType DEF MaxMb, TypeOK
  <1>11. cur \in Nat /\ numFly = cur - 1 - Cardinality(Finished)
    BY <1>2 DEF TypeOK, FlyInv
  <1>12. numFly' \in -1 .. MaxMb
    <2>1. numFly \in -1 .. MaxMb
      BY <1>2 DEF TypeOK
    <2> QED
      BY <1>1, <1>7, <1>8, <1>10, <1>11, <2>1
  <1>13. TypeOK'
    BY <1>1, <1>2, <1>3, <1>5, <1>10, <1>12 DEF TypeOK
  <1>14. FlyInv'
    <2>1. numFly' = cur' - 1 - Cardinality(Finished')
      BY <1>1, <1>7, <1>9, <1>11
    <2>2. numFly' <= MaxMb' /\ (pc' \in {"count", "pull", "incr"} => numFly' < MaxMb')
      BY <1>1, <1>2, <1>7, <1>10, <1>11 DEF FlyInv
    <2>3. pc' = "returned" => \A j \in Mb : phase'[j] \in {"new", "finished"}
      BY <1>1, <1>2, <1>4, <1>5 DEF FlyInv
    <2> QED
      BY <2>1, <2>2, <2>3 DEF FlyInv
  <1>15. AwaitInv'
    <2>1. \A s \in Server, op \in Awaited : ~About(toServer[s], op, i) /\ ~About(toWorker[s], op, i)
      BY <1>2, <1>4 DEF AwaitInv
    <2>2. \A s \in Server, op \in Awaited, j \in Mb :
            About(toServer[s], op, j) \/ About(toWorker[s], op, j) => phase'[j] = PhaseOf(op) /\ s \in pending[j]
      BY <1>2, <1>5, <2>1 DEF AwaitInv
    <2>3. kv'.at \notin Awaited
      BY <1>3 DEF Awaited
    <2> QED
      BY <1>1, <1>2, <2>2, <2>3 DEF AwaitInv
  <1> QED
    BY <1>6, <1>13, <1>14, <1>15 DEF WorkerInv

LEMMA NotifyOneInv ==
    ASSUME WorkerInv, NotifyOne
    PROVE  WorkerInv'
  <1>1. /\ UNCHANGED <<job, wl, calls, pc, cur, numFly, keys, phase, pending, toServer, toWorker, wcache, scache, crashed, misread>>
        /\ blocked' = FALSE /\ kv' = Idle
    BY DEF NotifyOne, wlVars, mbVars, netVars, cacheVars
  <1>2. TypeOK /\ StartedInv /\ FlyInv /\ AwaitInv
    BY DEF WorkerInv
  <1>3. MaxMb' = MaxMb /\ Finished' = Finished
    BY <1>1 DEF MaxMb, Finished
  <1>4. TypeOK'
    BY <1>1, <1>2, <1>3 DEF TypeOK
  <1>5. StartedInv' /\ FlyInv'
    BY <1>1, <1>2, <1>3 DEF StartedInv, Started, FlyInv
  <1>6. AwaitInv'
    BY <1>1, <1>2 DEF AwaitInv, Idle, Awaited
  <1> QED
    BY <1>4, <1>5, <1>6 DEF WorkerInv

LEMMA WorkerStepInv == WorkerInv /\ [Next]_vars => WorkerInv'
  <1> SUFFICES ASSUME WorkerInv, [Next]_vars PROVE WorkerInv'
    OBVIOUS
  <1>1. CASE UNCHANGED vars
    <2>1. UNCHANGED <<job, wl, calls, pc, cur, blocked, numFly, keys, phase, pending, kv, toServer, toWorker, wcache, scache, crashed, misread>>
      BY <1>1 DEF vars, procVars, wlVars, mbVars, netVars, cacheVars
    <2>2. MaxMb' = MaxMb /\ Finished' = Finished
      BY <2>1 DEF MaxMb, Finished
    <2> QED
      BY <2>1, <2>2 DEF WorkerInv, TypeOK, StartedInv, Started, FlyInv, AwaitInv
  <1>2. CASE Process
    BY <1>2, StartProcessInv, ReadMinibatchInv, WaitForSlotInv, PushFeaCntInv, PullWeightInv, IncrFlyInv,
       WaitForAllInv DEF Process
  <1>3. CASE Callbacks
    BY <1>3, ReceiveResponseInv, PushGradInv, FinishMinibatchInv, NotifyOneInv DEF Callbacks
  <1>4. CASE \E s \in Server : ServeRequest(s)
    BY <1>4, ServeRequestInv
  <1> QED
    BY <1>1, <1>2, <1>3, <1>4 DEF Next
-----------------------------------------------------------------------------
(* The inductive invariant of the worker, its callbacks and its servers.   *)
THEOREM WorkerInvariant == Spec => []WorkerInv
  BY WorkerInitInv, WorkerStepInv, PTL DEF Spec

(* The state of the worker, its messages and its caches have their types;  *)
(* num_mb_fly_ never leaves -1 .. max_mb.                                  *)
THEOREM WorkerTypes == Spec => []TypeOK
  <1>1. WorkerInv => TypeOK
    BY DEF WorkerInv
  <1> QED
    BY WorkerInvariant, <1>1, PTL

(* Never more than max_mb minibatches are being processed, although        *)
(* num_mb_fly_ is incremented after the requests were sent and their       *)
(* callbacks may run before.                                               *)
THEOREM WorkerConcurrency == Spec => []ConcurrencyBound
  <1>1. WorkerInv => ConcurrencyBound
    <2> SUFFICES ASSUME WorkerInv PROVE ConcurrencyBound
      OBVIOUS
    <2>1. Cardinality(Running) = (IF pc = "incr" THEN cur ELSE cur - 1) - Cardinality(Finished)
      BY Counts DEF WorkerInv, TypeOK
    <2>2. Cardinality(Finished) \in Nat /\ cur \in Nat
      BY Counts DEF WorkerInv, TypeOK
    <2>3. MaxMb \in Nat
      BY MaxMbType DEF WorkerInv, TypeOK
    <2>4. /\ numFly = cur - 1 - Cardinality(Finished) /\ numFly <= MaxMb
          /\ pc = "incr" => numFly < MaxMb
      BY DEF WorkerInv, FlyInv
    <2> QED
      BY <2>1, <2>2, <2>3, <2>4 DEF ConcurrencyBound
  <1> QED
    BY WorkerInvariant, <1>1, PTL

(* Process returns only when every minibatch it started is finished: the   *)
(* last WaitMinibatch cannot be satisfied by a counter that lags behind.   *)
THEOREM WorkerReturns == Spec => []ReturnedMeansAllDone
  <1>1. WorkerInv => ReturnedMeansAllDone
    <2> SUFFICES ASSUME WorkerInv, pc = "returned", NEW i \in 1 .. cur - 1 PROVE phase[i] = "finished"
      BY DEF ReturnedMeansAllDone
    <2>1. i \in Mb /\ i \in Started
      BY AsyncAssumption DEF WorkerInv, TypeOK, Mb, Started
    <2> QED
      BY <2>1 DEF WorkerInv, StartedInv, FlyInv
  <1> QED
    BY WorkerInvariant, <1>1, PTL
-----------------------------------------------------------------------------
(***************************************************************************)
(* The key caches of a worker and its servers never make a message         *)
(* unreadable or misread, and agree when nothing is under way.             *)
(*                                                                         *)
(* The worker's cache is ahead of the server's by the requests under way:  *)
(* both are changed by requests only, because the answer to a pull finds   *)
(* its list in the server's cache and is sent without keys.  So an answer  *)
(* is readable if no other request replaced or cleared its list meanwhile. *)
(***************************************************************************)
(* FastHash tells lists of the same length apart; and a job runs one       *)
(* minibatch at a time, or no two of its lists have the same signature.    *)
HashSeparates ==
    \A x, y \in Slice \ Small : Sig[x] = Sig[y] /\ Size[x] = Size[y] => x = y

OneAtATime(j) == j.concurrent = 1 /\ j.val = 1
NoCollision(j) == \A x, y \in j.slices \ Small : Sig[x] = Sig[y] => x = y

HashAssumption == HashSeparates /\ \A j \in Jobs : OneAtATime(j) \/ NoCollision(j)

(* The server, having decoded the requests under way one by one, reads     *)
(* each of them right and ends with the cache the worker has now.          *)
Reads(cache, m) == ~Invalid(cache, m) /\ DecodedKey(cache, m) = m.orig

Replay(q, from, to) ==
    \E cs \in [0 .. Len(q) -> Cache] :
        /\ cs[0] = from /\ cs[Len(q)] = to
        /\ \A p \in 1 .. Len(q) : Reads(cs[p - 1], q[p]) /\ cs[p] = DecodeCache(cs[p - 1], q[p])

(* A list is named by its signature if it is long enough.                  *)
Signed(m) == m.orig \in Slice /\ m.sig = (IF m.orig \in Small THEN None ELSE Sig[m.orig])

AsSent(s, m) == Signed(m) /\ m.clear = (m.op = "grad") /\ (m.op = "pull" => m.orig = keys[m.mb][s])

AsAnswered(s, m) ==
    /\ ~m.clear
    /\ IF m.op = "pull"
       THEN Signed(m) /\ m.orig = keys[m.mb][s] /\ m.key = (IF m.orig \in Small THEN m.orig ELSE None)
       ELSE m.orig = None /\ m.key = None /\ m.sig = None

(* The lists are those of the job, and cached under their signature.       *)
ListsInv ==
    /\ \A i \in Mb, s \in Server : keys[i][s] \in job.slices \cup {None}
    /\ \A s \in Server, g \in Signature :
            wcache[s][g] # None => wcache[s][g] \in job.slices \ Small /\ Sig[wcache[s][g]] = g

WireInv ==
    \A s \in Server :
        /\ Replay(toServer[s], scache[s], wcache[s])
        /\ \A a \in DOMAIN toServer[s] : AsSent(s, toServer[s][a])
        /\ \A a \in DOMAIN toWorker[s] : AsAnswered(s, toWorker[s][a])

(* What a minibatch asked a server for, if it is cached, and its cache.    *)
Cached(i, s) == keys[i][s] \notin Small \cup {None}
Entry(i, s) == wcache[s][Sig[keys[i][s]]]

(* The list of a minibatch that waits for its weights is in the worker's   *)
(* cache, unless a concurrent minibatch with the same list cleared it.     *)
PullingInv ==
    \A i \in Mb, s \in Server :
        phase[i] = "pulling" /\ Cached(i, s) =>
            \/ Entry(i, s) = keys[i][s]
            \/ Entry(i, s) = None /\ Train /\ job.concurrent > 1

(* After its gradients were pushed the list is gone, unless the next       *)
(* minibatch put its own there.                                            *)
Open(j) == phase[j] = "pulling" \/ (j = cur /\ pc = "pull")

ClearedInv ==
    Train /\ job.concurrent = 1 =>
        \A i \in Mb, s \in Server :
            phase[i] \in {"pushing", "finished"} /\ Cached(i, s) =>
                Entry(i, s) = None \/ \E j \in Mb : Open(j) /\ keys[j][s] = Entry(i, s)

CachingInv == ListsInv /\ WireInv /\ PullingInv /\ ClearedInv /\ Readable

CacheInv == WorkerInv /\ CachingInv
-----------------------------------------------------------------------------
(* Caches along a queue of requests                                        *)

LEMMA ReplayEmpty ==
    ASSUME NEW from \in Cache
    PROVE  /\ Replay(<<>>, from, from)
           /\ \A to : Replay(<<>>, from, to) => to = from
  <1>1. Len(<<>>) = 0
    OBVIOUS
  <1>2. [n \in 0 .. 0 |-> from] \in [0 .. 0 -> Cache] /\ 1 .. 0 = {}
    OBVIOUS
  <1>3. Replay(<<>>, from, from)
    <2> DEFINE cs == [n \in 0 .. 0 |-> from]
    <2>1. cs \in [0 .. Len(<<>>) -> Cache] /\ cs[0] = from /\ cs[Len(<<>>)] = from
      BY <1>1
    <2>2. \A p \in 1 .. Len(<<>>) : Reads(cs[p - 1], <<>>[p]) /\ cs[p] = DecodeCache(cs[p - 1], <<>>[p])
      BY <1>1, <1>2
    <2> HIDE DEF cs
    <2> QED
      BY <2>1, <2>2, Zenon DEF Replay
  <1>4. \A to : Replay(<<>>, from, to) => to = from
    BY <1>1 DEF Replay
  <1> QED
    BY <1>3, <1>4

LEMMA ReplayAppend ==
    ASSUME NEW q \in Seq(Message), NEW m \in Message, NEW from, NEW to \in Cache,
           Replay(q, from, to), Reads(to, m)
    PROVE  Replay(Append(q, m), from, DecodeCache(to, m))
  <1> DEFINE r == Append(q, m)
             n == Len(q)
  <1>1. /\ Len(r) = n + 1 /\ n \in Nat
        /\ \A p \in 1 .. n : r[p] = q[p]
        /\ r[n + 1] = m
    BY AppendProperties, LenProperties
  <1>2. PICK cs \in [0 .. n -> Cache] :
            /\ cs[0] = from /\ cs[n] = to
            /\ \A p \in 1 .. n : Reads(cs[p - 1], q[p]) /\ cs[p] = DecodeCache(cs[p - 1], q[p])
    BY DEF Replay
  <1>3. DecodeCache(to, m) \in Cache
    BY CacheTypes
  <1> HIDE DEF r, n
  <1> DEFINE ds == [p \in 0 .. n + 1 |-> IF p = n + 1 THEN DecodeCache(to, m) ELSE cs[p]]
  <1>4. /\ ds \in [0 .. n + 1 -> Cache]
        /\ ds[n + 1] = DecodeCache(to, m)
        /\ \A p \in 0 .. n : ds[p] = cs[p]
    BY <1>1, <1>2, <1>3
  <1> HIDE DEF ds
  <1>5. ASSUME NEW p \in 1 .. n + 1
        PROVE  Reads(ds[p - 1], r[p]) /\ ds[p] = DecodeCache(ds[p - 1], r[p])
    <2>1. CASE p = n + 1
      <3>1. p - 1 = n /\ n \in 0 .. n
        BY <1>1, <2>1
      <3>2. ds[p - 1] = to /\ r[p] = m
        BY <1>1, <1>2, <1>4, <2>1, <3>1
      <3> QED
        BY <1>4, <2>1, <3>2
    <2>2. CASE p \in 1 .. n
      <3>1. p \in 0 .. n /\ p - 1 \in 0 .. n
        BY <1>1, <2>2
      <3>2. ds[p - 1] = cs[p - 1] /\ ds[p] = cs[p] /\ r[p] = q[p]
        BY <1>1, <1>4, <2>2, <3>1
      <3> QED
        BY <1>2, <2>2, <3>2
    <2> QED
      BY <1>1, <2>1, <2>2
  <1>6. ds[0] = from
    BY <1>1, <1>2, <1>4
  <1>7. Replay(r, from, DecodeCache(to, m))
    BY <1>1, <1>4, <1>5, <1>6 DEF Replay
  <1> QED
    BY <1>7 DEF r

LEMMA ReplayTail ==
    ASSUME NEW q \in Seq(Message), q # <<>>, NEW from, NEW to, Replay(q, from, to)
    PROVE  /\ Reads(from, Head(q))
           /\ Replay(Tail(q), DecodeCache(from, Head(q)), to)
  <1> DEFINE r == Tail(q)
             n == Len(q)
  <1>1. /\ Len(r) = n - 1 /\ n \in Nat /\ n > 0
        /\ \A p \in 1 .. n - 1 : r[p] = q[p + 1]
        /\ Head(q) = q[1]
    BY HeadTailProperties, LenProperties, EmptySeq
  <1>2. PICK cs \in [0 .. n -> Cache] :
            /\ cs[0] = from /\ cs[n] = to
            /\ \A p \in 1 .. n : Reads(cs[p - 1], q[p]) /\ cs[p] = DecodeCache(cs[p - 1], q[p])
    BY DEF Replay
  <1> HIDE DEF r, n
  <1>3. Reads(from, Head(q)) /\ cs[1] = DecodeCache(from, Head(q))
    <2>1. 1 \in 1 .. n /\ 1 - 1 = 0
      BY <1>1
    <2>2. Reads(cs[0], q[1]) /\ cs[1] = DecodeCache(cs[0], q[1])
      BY <1>2, <2>1
    <2> QED
      BY <1>1, <1>2, <2>2
  <1> DEFINE ds == [p \in 0 .. n - 1 |-> cs[p + 1]]
  <1>4. ds \in [0 .. n - 1 -> Cache] /\ ds[0] = cs[1] /\ ds[n - 1] = cs[n]
    BY <1>1, <1>2
  <1>5. ASSUME NEW p \in 1 .. n - 1
        PROVE  Reads(ds[p - 1], r[p]) /\ ds[p] = DecodeCache(ds[p - 1], r[p])
    <2>1. p + 1 \in 1 .. n /\ (p + 1) - 1 = p /\ (p - 1) + 1 = p /\ p \in 0 .. n - 1 /\ p - 1 \in 0 .. n - 1
      BY <1>1
    <2>2. ds[p - 1] = cs[p] /\ ds[p] = cs[p + 1] /\ r[p] = q[p + 1]
      BY <1>1, <2>1
    <2>3. Reads(cs[p], q[p + 1]) /\ cs[p + 1] = DecodeCache(cs[p], q[p + 1])
      BY <1>2, <2>1
    <2> QED
      BY <2>2, <2>3
  <1> HIDE DEF ds
  <1>6. Replay(r, DecodeCache(from, Head(q)), to)
    BY <1>1, <1>2, <1>3, <1>4, <1>5 DEF Replay
  <1> QED
    BY <1>3, <1>6 DEF r
-----------------------------------------------------------------------------
(* The two sides of the filter                                             *)

(* A cache in which every list stands at its signature.                    *)
Sound(cache) == \A g \in Signature : cache[g] # None => cache[g] \in Slice \ Small /\ Sig[cache[g]] = g

(* What Encode leaves in such a cache.                                     *)
LEMMA EncodedEntries ==
    ASSUME HashSeparates, NEW cache \in Cache, Sound(cache), NEW x \in Slice
    PROVE  /\ x \in Small => EncodeCache(cache, x, FALSE) = cache /\ EncodeCache(cache, x, TRUE) = cache
           /\ x \notin Small => /\ Sig[x] \in Signature
                                /\ EncodeCache(cache, x, FALSE) = [cache EXCEPT ![Sig[x]] = x]
                                /\ EncodeCache(cache, x, TRUE) =
                                      IF cache[Sig[x]] = x THEN [cache EXCEPT ![Sig[x]] = None] ELSE cache
           /\ x \notin Small => (Hit(cache, x) <=> cache[Sig[x]] = x)
  <1> USE AsyncAssumption, NoneAssumption
  <1>1. x \in Small => EncodeCache(cache, x, FALSE) = cache /\ EncodeCache(cache, x, TRUE) = cache
    BY DEF EncodeCache
  <1>2. ASSUME x \notin Small
        PROVE  /\ Sig[x] \in Signature
               /\ Hit(cache, x) <=> cache[Sig[x]] = x
    <2>1. Sig[x] \in Signature
      BY DEF Signature
    <2>2. Hit(cache, x) => cache[Sig[x]] = x
      BY <1>2, <2>1 DEF Hit, Sound, HashSeparates
    <2>3. cache[Sig[x]] = x => Hit(cache, x)
      BY DEF Hit
    <2> QED
      BY <2>1, <2>2, <2>3
  <1>3. ASSUME x \notin Small
        PROVE  /\ EncodeCache(cache, x, FALSE) = [cache EXCEPT ![Sig[x]] = x]
               /\ EncodeCache(cache, x, TRUE) =
                     IF cache[Sig[x]] = x THEN [cache EXCEPT ![Sig[x]] = None] ELSE cache
    <2>1. cache[Sig[x]] = x => cache = [cache EXCEPT ![Sig[x]] = x]
      BY DEF Cache
    <2> QED
      BY <1>2, <1>3, <2>1 DEF EncodeCache
  <1> QED
    BY <1>1, <1>2, <1>3

(* The receiver reads what Encode made of the list, and ends with the same *)
(* cache, if it had the same cache before.                                 *)
LEMMA EncodeDecode ==
    ASSUME HashSeparates, NEW cache \in Cache, Sound(cache), NEW x \in Slice,
           NEW i, NEW op \in {"count", "pull", "grad"}
    PROVE  LET m == Msg(i, op, x, cache)
           IN  /\ Signed(m) /\ m.orig = x /\ m.clear = (op = "grad")
               /\ Reads(cache, m)
               /\ DecodeCache(cache, m) = EncodeCache(cache, x, op = "grad")
  <1> USE AsyncAssumption, NoneAssumption
  <1> DEFINE m == Msg(i, op, x, cache)
  <1>1. /\ m.orig = x /\ m.clear = (op = "grad")
        /\ m.sig = (IF x \in Small THEN None ELSE Sig[x])
        /\ m.key = EncodedKey(cache, x)
    BY DEF Msg
  <1>2. Sig[x] \in Signature /\ Sig[x] # None /\ x # None
    BY DEF Signature
  <1> HIDE DEF m
  <1>3. Signed(m)
    BY <1>1 DEF Signed
  <1>4. CASE x \in Small
    <2>1. m.sig = None /\ m.key = x
      BY <1>1, <1>4 DEF EncodedKey
    <2> QED
      BY <1>1, <1>2, <1>3, <1>4, <2>1 DEF Reads, Invalid, DecodedKey, DecodeCache, EncodeCache, m
  <1>5. CASE x \notin Small /\ Hit(cache, x)
    <2>1. cache[Sig[x]] = x
      BY <1>5, EncodedEntries
    <2>2. m.sig = Sig[x] /\ m.key = None
      BY <1>1, <1>5 DEF EncodedKey
    <2>3. Reads(cache, m)
      BY <1>1, <1>2, <2>1, <2>2 DEF Reads, Invalid, DecodedKey
    <2>4. CASE op = "grad"
      <3>1. m.clear /\ op = "grad"
        BY <1>1, <2>4
      <3>2. DecodeCache(cache, m) = [cache EXCEPT ![Sig[x]] = None]
        BY <1>2, <2>2, <3>1 DEF DecodeCache
      <3>3. EncodeCache(cache, x, TRUE) = [cache EXCEPT ![Sig[x]] = None]
        BY <1>5 DEF EncodeCache
      <3> QED
        BY <1>1, <1>3, <2>3, <2>4, <3>2, <3>3 DEF m
    <2>5. CASE op # "grad"
      <3>1. ~m.clear
        BY <1>1, <2>5
      <3>2. DecodeCache(cache, m) = cache
        BY <1>2, <2>2, <3>1 DEF DecodeCache
      <3>3. EncodeCache(cache, x, op = "grad") = cache
        BY <1>5, <2>5 DEF EncodeCache
      <3> QED
        BY <1>1, <1>3, <2>3, <3>2, <3>3 DEF m
    <2> QED
      BY <2>4, <2>5
  <1>6. CASE x \notin Small /\ ~Hit(cache, x)
    <2>1. m.sig = Sig[x] /\ m.key = x
      BY <1>1, <1>6 DEF EncodedKey
    <2> QED
      BY <1>1, <1>2, <1>3, <1>6, <2>1 DEF Reads, Invalid, DecodedKey, DecodeCache, EncodeCache, m
  <1> QED
    BY <1>4, <1>5, <1>6

LEMMA MessageFields ==
    /\ \A i, x, cache : LET m == Msg(i, "pull", x, cache)
                        IN  /\ m.mb = i /\ m.op = "pull" /\ m.orig = x /\ m.key = EncodedKey(cache, x)
                            /\ m.sig = (IF x \in Small THEN None ELSE Sig[x]) /\ ~m.clear
    /\ \A m : /\ Ack(m).mb = m.mb /\ Ack(m).op = m.op /\ Ack(m).orig = None /\ Ack(m).key = None
              /\ Ack(m).sig = None /\ ~Ack(m).clear
  BY DEF Msg, Ack

(* A pull that was read right has its list in the receiver's cache: the    *)
(* answer goes without keys and changes nothing.                           *)
LEMMA AnswerEncoded ==
    ASSUME NEW cache \in Cache, NEW m \in Message, Reads(cache, m), Signed(m), ~m.clear
    PROVE  LET x == DecodedKey(cache, m)
               c == DecodeCache(cache, m)
           IN  /\ x = m.orig
               /\ EncodeCache(c, x, FALSE) = c
               /\ EncodedKey(c, x) = IF x \in Small THEN x ELSE None
  <1> USE AsyncAssumption, NoneAssumption
  <1> DEFINE x == DecodedKey(cache, m)
             c == DecodeCache(cache, m)
  <1>1. x = m.orig /\ x \in Slice
    BY DEF Reads, Signed
  <1>2. CASE x \in Small
    BY <1>1, <1>2 DEF EncodeCache, EncodedKey
  <1>3. CASE x \notin Small
    <2>1. m.sig = Sig[x] /\ Sig[x] \in Signature /\ m.sig # None /\ x # None
      BY <1>1, <1>3 DEF Signed, Signature
    <2>2. c[Sig[x]] = x
      <3>1. CASE m.key = None
        BY <2>1, <3>1 DEF DecodeCache, DecodedKey
      <3>2. CASE m.key # None
        BY <2>1, <3>2 DEF DecodeCache, DecodedKey, Cache
      <3> QED
        BY <3>1, <3>2
    <2>3. Hit(c, x)
      BY <2>1, <2>2 DEF Hit
    <2> QED
      BY <1>1, <1>3, <2>3 DEF EncodeCache, EncodedKey
  <1> QED
    BY <1>1, <1>2, <1>3
-----------------------------------------------------------------------------
LEMMA AppendElements ==
    ASSUME NEW M, NEW q \in Seq(M), NEW m \in M
    PROVE  \A a \in DOMAIN Append(q, m) :
               Append(q, m)[a] = m \/ \E b \in DOMAIN q : Append(q, m)[a] = q[b]
  <1> DEFINE r == Append(q, m)
  <1>1. /\ r \in Seq(M) /\ Len(r) = Len(q) + 1
        /\ \A a \in 1 .. Len(q) : r[a] = q[a]
        /\ r[Len(q) + 1] = m
    BY AppendProperties
  <1>2. DOMAIN q = 1 .. Len(q) /\ DOMAIN r = 1 .. Len(r) /\ Len(q) \in Nat
    BY <1>1, LenProperties
  <1> HIDE DEF r
  <1>3. \A a \in DOMAIN r : a = Len(q) + 1 \/ a \in DOMAIN q
    BY <1>1, <1>2
  <1>4. \A a \in DOMAIN r : r[a] = m \/ \E b \in DOMAIN q : r[a] = q[b]
    BY <1>1, <1>2, <1>3
  <1> QED
    BY <1>4 DEF r

LEMMA TailElements ==
    ASSUME NEW M, NEW q \in Seq(M), q # <<>>
    PROVE  /\ \A a \in DOMAIN Tail(q) : \E b \in DOMAIN q : Tail(q)[a] = q[b]
           /\ \E b \in DOMAIN q : Head(q) = q[b]
  <1> DEFINE r == Tail(q)
  <1>1. /\ r \in Seq(M) /\ Len(r) = Len(q) - 1
        /\ \A a \in 1 .. Len(r) : r[a] = q[a + 1]
        /\ Head(q) = q[1]
    BY HeadTailProperties
  <1>2. DOMAIN q = 1 .. Len(q) /\ DOMAIN r = 1 .. Len(r) /\ Len(q) \in Nat /\ Len(q) > 0
    BY <1>1, LenProperties, EmptySeq
  <1> HIDE DEF r
  <1>3. 1 \in DOMAIN q /\ \A a \in DOMAIN r : a + 1 \in DOMAIN q /\ r[a] = q[a + 1]
    BY <1>1, <1>2
  <1> QED
    BY <1>1, <1>3 DEF r

(* What a request leaves in the caches and on the wire.                    *)
LEMMA SubmitCaches ==
    ASSUME HashSeparates, TypeOK, ListsInv, WireInv,
           NEW i \in Mb, NEW op \in {"count", "pull", "grad"}, Submit(i, op),
           UNCHANGED <<job, keys, toWorker, scache>>
    PROVE  /\ ListsInv' /\ WireInv'
           /\ \A s \in Server :
                 /\ ~Cached(i, s) => wcache'[s] = wcache[s]
                 /\ Cached(i, s) =>
                      /\ Sig[keys[i][s]] \in Signature
                      /\ op # "grad" => wcache'[s] = [wcache[s] EXCEPT ![Sig[keys[i][s]]] = keys[i][s]]
                      /\ op = "grad" => wcache'[s] = IF Entry(i, s) = keys[i][s]
                                                    THEN [wcache[s] EXCEPT ![Sig[keys[i][s]]] = None]
                                                    ELSE wcache[s]
  <1> USE AsyncAssumption, NoneAssumption
  <1>1. job \in Jobs /\ job.slices \subseteq Slice
    BY DEF TypeOK
  <1>2. \A s \in Server : keys[i][s] \in job.slices \cup {None} /\ wcache[s] \in Cache /\ Sound(wcache[s])
    BY <1>1 DEF ListsInv, TypeOK, Sound
  <1>3. \A s \in Server : s \in Receivers(i) <=> keys[i][s] # None
    BY DEF Receivers
  <1>4. ASSUME NEW s \in Server, keys[i][s] = None
        PROVE  wcache'[s] = wcache[s] /\ toServer'[s] = toServer[s]
    BY <1>3, <1>4 DEF Submit
  <1>5. ASSUME NEW s \in Server, keys[i][s] # None
        PROVE  /\ keys[i][s] \in job.slices /\ keys[i][s] \in Slice
               /\ wcache'[s] = EncodeCache(wcache[s], keys[i][s], op = "grad")
               /\ toServer'[s] = Append(toServer[s], Msg(i, op, keys[i][s], wcache[s]))
    BY <1>1, <1>2, <1>3, <1>5 DEF Submit
  <1>6. ASSUME NEW s \in Server
        PROVE  /\ ~Cached(i, s) => wcache'[s] = wcache[s]
               /\ Cached(i, s) =>
                      /\ Sig[keys[i][s]] \in Signature
                      /\ op # "grad" => wcache'[s] = [wcache[s] EXCEPT ![Sig[keys[i][s]]] = keys[i][s]]
                      /\ op = "grad" => wcache'[s] = IF Entry(i, s) = keys[i][s]
                                                    THEN [wcache[s] EXCEPT ![Sig[keys[i][s]]] = None]
                                                    ELSE wcache[s]
    <2>1. CASE keys[i][s] = None
      BY <1>4, <2>1 DEF Cached
    <2>2. CASE keys[i][s] # None
      <3> DEFINE x == keys[i][s]
      <3>1. /\ x \in Slice /\ wcache'[s] = EncodeCache(wcache[s], x, op = "grad")
            /\ Cached(i, s) <=> x \notin Small
        BY <1>5, <2>2 DEF Cached
      <3> HIDE DEF x
      <3>2. CASE op = "grad"
        <4>1. (op = "grad") = TRUE
          BY <3>2
        <4>2. wcache'[s] = EncodeCache(wcache[s], x, TRUE)
          BY <3>1, <4>1
        <4>3. /\ x \in Small => EncodeCache(wcache[s], x, TRUE) = wcache[s]
              /\ x \notin Small => /\ Sig[x] \in Signature
                                   /\ EncodeCache(wcache[s], x, TRUE) = IF wcache[s][Sig[x]] = x
                                         THEN [wcache[s] EXCEPT ![Sig[x]] = None] ELSE wcache[s]
          BY <1>2, <3>1, EncodedEntries, Zenon
        <4> QED
          BY <3>1, <3>2, <4>2, <4>3, Zenon DEF Entry, x
      <3>3. CASE op # "grad"
        <4>1. (op = "grad") = FALSE
          BY <3>3
        <4>2. wcache'[s] = EncodeCache(wcache[s], x, FALSE)
          BY <3>1, <4>1
        <4>3. /\ x \in Small => EncodeCache(wcache[s], x, FALSE) = wcache[s]
              /\ x \notin Small => /\ Sig[x] \in Signature
                                   /\ EncodeCache(wcache[s], x, FALSE) = [wcache[s] EXCEPT ![Sig[x]] = x]
          <5>1. wcache[s] \in Cache /\ Sound(wcache[s]) /\ x \in Slice /\ HashSeparates
            BY <1>2, <3>1
          <5> QED
            BY <5>1, EncodedEntries
        <4> QED
          BY <3>1, <3>3, <4>2, <4>3, Zenon DEF x
      <3> QED
        BY <3>2, <3>3
    <2> QED
      BY <2>1, <2>2
  <1>7. ListsInv'
    <2>1. \A j \in Mb, s \in Server : keys'[j][s] \in job'.slices \cup {None}
      BY DEF ListsInv
    <2>2. ASSUME NEW s \in Server, NEW g \in Signature, wcache'[s][g] # None
          PROVE  wcache'[s][g] \in job'.slices \ Small /\ Sig[wcache'[s][g]] = g
      <3>1. \/ wcache'[s][g] = wcache[s][g]
            \/ Cached(i, s) /\ g = Sig[keys[i][s]] /\ wcache'[s][g] = keys[i][s]
        <4> DEFINE x == keys[i][s]
        <4>1. \/ wcache'[s] = wcache[s]
              \/ Cached(i, s) /\ Sig[x] \in Signature /\ wcache'[s] = [wcache[s] EXCEPT ![Sig[x]] = x]
              \/ Cached(i, s) /\ Sig[x] \in Signature /\ wcache'[s] = [wcache[s] EXCEPT ![Sig[x]] = None]
          BY <1>6
        <4> HIDE DEF x
        <4>2. \/ wcache'[s][g] = wcache[s][g]
              \/ Cached(i, s) /\ g = Sig[x] /\ wcache'[s][g] = x
          BY <1>2, <2>2, <4>1 DEF Cache
        <4> QED
          BY <4>2 DEF x
      <3>2. CASE wcache'[s][g] = wcache[s][g]
        BY <2>2, <3>2 DEF ListsInv
      <3>3. CASE Cached(i, s) /\ g = Sig[keys[i][s]] /\ wcache'[s][g] = keys[i][s]
        BY <1>2, <3>3 DEF Cached
      <3> QED
        BY <3>1, <3>2, <3>3
    <2> QED
      BY <2>1, <2>2 DEF ListsInv
  <1>8. WireInv'
    <2>1. SUFFICES ASSUME NEW s \in Server
                   PROVE  /\ Replay(toServer'[s], scache[s], wcache'[s])
                          /\ \A a \in DOMAIN toServer'[s] : AsSent(s, toServer'[s][a])
                          /\ \A a \in DOMAIN toWorker[s] : AsAnswered(s, toWorker[s][a])
      BY DEF WireInv, AsSent, AsAnswered
    <2>2. \A a \in DOMAIN toWorker[s] : AsAnswered(s, toWorker[s][a])
      BY DEF WireInv
    <2>3. CASE keys[i][s] = None
      <3>1. wcache'[s] = wcache[s] /\ toServer'[s] = toServer[s]
        BY <1>4, <2>3
      <3>2. /\ Replay(toServer[s], scache[s], wcache[s])
            /\ \A a \in DOMAIN toServer[s] : AsSent(s, toServer[s][a])
        BY DEF WireInv
      <3> QED
        BY <2>2, <3>1, <3>2
    <2>4. CASE keys[i][s] # None
      <3> DEFINE x == keys[i][s]
                 m == Msg(i, op, x, wcache[s])
      <3>1. /\ x \in Slice /\ wcache'[s] = EncodeCache(wcache[s], x, op = "grad")
            /\ toServer'[s] = Append(toServer[s], m)
        BY <1>5, <2>4
      <3>2. /\ Signed(m) /\ m.orig = x /\ m.clear = (op = "grad")
            /\ Reads(wcache[s], m)
            /\ DecodeCache(wcache[s], m) = wcache'[s]
        BY <1>2, <3>1, EncodeDecode
      <3>3. m \in Request /\ m \in Message /\ m.mb = i /\ m.op = op
        BY <1>2, <3>1, CacheTypes DEF Request
      <3>4. toServer[s] \in Seq(Request) /\ toServer[s] \in Seq(Message)
        <4>1. Request \subseteq Message
          BY DEF Request
        <4> QED
          BY <4>1, SeqMonotonic DEF TypeOK
      <3>5. AsSent(s, m)
        BY <3>2, <3>3 DEF AsSent
      <3> HIDE DEF m
      <3>6. Replay(toServer'[s], scache[s], wcache'[s])
        <4>1. Replay(toServer[s], scache[s], wcache[s])
          BY DEF WireInv
        <4>2. Replay(Append(toServer[s], m), scache[s], DecodeCache(wcache[s], m))
          BY <1>2, <3>2, <3>3, <3>4, <4>1, ReplayAppend
        <4> QED
          BY <3>1, <3>2, <4>2
      <3>7. \A a \in DOMAIN toServer'[s] : toServer'[s][a] = m \/ \E b \in DOMAIN toServer[s] : toServer'[s][a] = toServer[s][b]
        BY <3>1, <3>3, <3>4, AppendElements
      <3>8. \A a \in DOMAIN toServer'[s] : AsSent(s, toServer'[s][a])
        BY <3>5, <3>7 DEF WireInv
      <3> QED
        BY <2>2, <3>6, <3>8
    <2> QED
      BY <2>3, <2>4
  <1> QED
    BY <1>6, <1>7, <1>8

(* With max_mb = 1 nothing is running when a minibatch is sent, and there  *)
(* are never two.                                                          *)
LEMMA Alone ==
    ASSUME WorkerInv, MaxMb = 1, pc \in {"count", "pull"}
    PROVE  \A j \in Mb : phase[j] \in {"new", "finished"}
  <1>1. /\ Cardinality(Running) = cur - 1 - Cardinality(Finished) /\ Cardinality(Running) \in Nat
        /\ Cardinality(Running) = 0 => \A j \in Mb : phase[j] \in {"new", "finished"}
    BY Counts DEF WorkerInv, TypeOK
  <1>2. numFly = cur - 1 - Cardinality(Finished) /\ numFly < 1
    BY DEF WorkerInv, FlyInv
  <1> QED
    BY <1>1, <1>2

LEMMA TwoRunning ==
    ASSUME WorkerInv, NEW i \in Running, NEW j \in Running, i # j
    PROVE  MaxMb > 1
  <1>1. Cardinality(Running) <= MaxMb
    <2>1. Cardinality(Running) = (IF pc = "incr" THEN cur ELSE cur - 1) - Cardinality(Finished)
      BY Counts DEF WorkerInv, TypeOK
    <2>2. Cardinality(Finished) \in Nat /\ cur \in Nat
      BY Counts DEF WorkerInv, TypeOK
    <2>3. MaxMb \in Nat
      BY MaxMbType DEF WorkerInv, TypeOK
    <2>4. /\ numFly = cur - 1 - Cardinality(Finished) /\ numFly <= MaxMb
          /\ pc = "incr" => numFly < MaxMb
      BY DEF WorkerInv, FlyInv
    <2> QED
      BY <2>1, <2>2, <2>3, <2>4
  <1>2. IsFiniteSet(Running)
    BY Counts DEF WorkerInv, TypeOK
  <1>3. Cardinality({i, j}) = 2
    <2>1. {i, j} = {i} \cup {j} /\ j \notin {i}
      OBVIOUS
    <2>2. IsFiniteSet({i}) /\ Cardinality({i}) = 1
      BY FS_Singleton
    <2> QED
      BY <2>1, <2>2, FS_AddElement
  <1>4. Cardinality({i, j}) <= Cardinality(Running)
    BY <1>2, FS_Subset
  <1>5. MaxMb \in Nat /\ Cardinality(Running) \in Nat
    BY <1>2, MaxMbType, FS_CardinalityType DEF WorkerInv, TypeOK
  <1> QED
    BY <1>1, <1>3, <1>4, <1>5
-----------------------------------------------------------------------------
LEMMA CachingInitInv == Init => CachingInv
  <1> SUFFICES ASSUME Init PROVE CachingInv
    OBVIOUS
  <1> USE DEF Init
  <1>1. NoCache \in Cache /\ \A g \in Signature : NoCache[g] = None
    BY DEF NoCache, Cache
  <1>2. ListsInv
    BY <1>1 DEF ListsInv, NoKeys
  <1>3. WireInv
    BY <1>1, ReplayEmpty DEF WireInv
  <1>4. PullingInv /\ ClearedInv
    BY DEF PullingInv, ClearedInv
  <1>5. Readable
    BY DEF Readable
  <1> QED
    BY <1>2, <1>3, <1>4, <1>5 DEF CachingInv

(* Steps that touch neither messages nor caches nor phases.                *)
LEMMA CachingFrame ==
    ASSUME CachingInv,
           UNCHANGED <<job, wl, keys, phase, toServer, toWorker, wcache, scache, crashed, misread>>,
           \A j \in Mb : Open(j) => Open(j)'
    PROVE  CachingInv'
  <1>1. \A i, s : (Cached(i, s)' <=> Cached(i, s)) /\ Entry(i, s)' = Entry(i, s)
    BY DEF Cached, Entry
  <1>2. Train' <=> Train
    BY DEF Train
  <1>3. ListsInv' /\ Readable'
    BY <1>2 DEF CachingInv, ListsInv, Readable
  <1>4. WireInv'
    BY DEF CachingInv, WireInv, AsSent, AsAnswered
  <1>5. PullingInv'
    BY <1>1, <1>2 DEF CachingInv, PullingInv
  <1>6. ClearedInv'
    BY <1>1, <1>2 DEF CachingInv, ClearedInv
  <1> QED
    BY <1>3, <1>4, <1>5, <1>6 DEF CachingInv

(* A pull under way is about a minibatch that waits for it.                *)
LEMMA PullsAwaited ==
    ASSUME WorkerInv, NEW s \in Server
    PROVE  /\ \A a \in DOMAIN toServer[s] :
                 toServer[s][a].mb \in Mb /\ (toServer[s][a].op = "pull" => phase[toServer[s][a].mb] = "pulling")
           /\ \A a \in DOMAIN toWorker[s] :
                 toWorker[s][a].mb \in Mb /\ (toWorker[s][a].op = "pull" => phase[toWorker[s][a].mb] = "pulling")
  <1>1. toServer[s] \in Seq(Request) /\ toWorker[s] \in Seq(Message)
    BY DEF WorkerInv, TypeOK
  <1>2. /\ DOMAIN toServer[s] = 1 .. Len(toServer[s])
        /\ DOMAIN toWorker[s] = 1 .. Len(toWorker[s])
    BY <1>1, LenProperties
  <1>3. \A a \in DOMAIN toServer[s] : toServer[s][a] \in Message
    BY <1>1, <1>2, ElementOfSeq DEF Request
  <1>4. \A a \in DOMAIN toWorker[s] : toWorker[s][a] \in Message
    BY <1>1, <1>2, ElementOfSeq
  <1>5. /\ \A a \in DOMAIN toServer[s] : toServer[s][a].mb \in Mb
        /\ \A a \in DOMAIN toWorker[s] : toWorker[s][a].mb \in Mb
    BY <1>3, <1>4 DEF Message
  <1>6. \A i \in Mb : About(toServer[s], "pull", i) \/ About(toWorker[s], "pull", i) => phase[i] = "pulling"
    BY DEF WorkerInv, AwaitInv, Awaited, PhaseOf
  <1> QED
    BY <1>5, <1>6 DEF About

(* What is under way keeps its meaning while the keys of the minibatches   *)
(* that are pulled stay the same.                                          *)
LEMMA WireKept ==
    ASSUME WireInv, UNCHANGED <<toServer, toWorker, wcache, scache>>,
           \A s \in Server :
               /\ \A a \in DOMAIN toServer[s] :
                     toServer[s][a].op = "pull" => keys'[toServer[s][a].mb] = keys[toServer[s][a].mb]
               /\ \A a \in DOMAIN toWorker[s] :
                     toWorker[s][a].op = "pull" => keys'[toWorker[s][a].mb] = keys[toWorker[s][a].mb]
    PROVE  WireInv'
  BY DEF WireInv, AsSent, AsAnswered

LEMMA StartProcessCaching ==
    ASSUME WorkerInv, WorkerInv', CachingInv, crashed = "no", StartProcess
    PROVE  CachingInv'
  <1>1. /\ UNCHANGED <<job, toServer, toWorker, wcache, scache, crashed, misread>>
        /\ keys' = NoKeys /\ phase' = [i \in Mb |-> "new"]
    BY DEF StartProcess, netVars, cacheVars
  <1>2. ListsInv'
    BY <1>1 DEF CachingInv, ListsInv, NoKeys
  <1>3. WireInv'
    <2>1. \A s \in Server : /\ \A a \in DOMAIN toServer[s] : toServer[s][a].op # "pull"
                            /\ \A a \in DOMAIN toWorker[s] : toWorker[s][a].op # "pull"
      <3> SUFFICES ASSUME NEW s \in Server
                   PROVE  /\ \A a \in DOMAIN toServer[s] : toServer[s][a].op # "pull"
                          /\ \A a \in DOMAIN toWorker[s] : toWorker[s][a].op # "pull"
        OBVIOUS
      <3>1. \A i \in Mb : phase[i] # "pulling"
        BY DEF WorkerInv, FlyInv, StartProcess
      <3> QED
        BY <3>1, PullsAwaited
    <2>2. \A s \in Server :
               /\ \A a \in DOMAIN toServer[s] :
                     toServer[s][a].op = "pull" => keys'[toServer[s][a].mb] = keys[toServer[s][a].mb]
               /\ \A a \in DOMAIN toWorker[s] :
                     toWorker[s][a].op = "pull" => keys'[toWorker[s][a].mb] = keys[toWorker[s][a].mb]
      BY <2>1
    <2>3. WireInv /\ UNCHANGED <<toServer, toWorker, wcache, scache>>
      BY <1>1 DEF CachingInv
    <2> QED
      BY <2>2, <2>3, WireKept
  <1>4. PullingInv' /\ ClearedInv'
    BY <1>1 DEF PullingInv, ClearedInv
  <1>5. Readable'
    BY <1>1 DEF CachingInv, Readable
  <1> QED
    BY <1>2, <1>3, <1>4, <1>5 DEF CachingInv

LEMMA ReadMinibatchCaching ==
    ASSUME WorkerInv, CachingInv, ReadMinibatch
    PROVE  CachingInv'
  <1>1. /\ UNCHANGED <<job, wl, cur, phase, toServer, toWorker, wcache, scache, crashed, misread>>
        /\ pc = "read"
        /\ keys' = keys \/ \E x \in [Server -> job.slices \cup {None}] : keys' = [keys EXCEPT ![cur] = x]
    BY DEF ReadMinibatch, wlVars, netVars, cacheVars
  <1>2. \A i \in Mb : phase[i] # "new" => i # cur
    <2>1. cur \in Int /\ \A i \in Mb : phase[i] # "new" => i \in 1 .. cur - 1
      BY <1>1 DEF WorkerInv, TypeOK, StartedInv, Started
    <2> QED
      BY <2>1
  <1>3. \A i \in Mb : phase[i] # "new" => keys'[i] = keys[i]
    BY <1>1, <1>2 DEF WorkerInv, TypeOK
  <1>4. \A i \in Mb, s \in Server : phase[i] # "new" => (Cached(i, s)' <=> Cached(i, s)) /\ Entry(i, s)' = Entry(i, s)
    BY <1>1, <1>3 DEF Cached, Entry
  <1>5. Train' <=> Train
    BY <1>1 DEF Train
  <1>6. ListsInv'
    <2>1. \A i \in Mb, s \in Server : keys'[i][s] \in job.slices \cup {None}
      BY <1>1 DEF CachingInv, ListsInv, WorkerInv, TypeOK
    <2> QED
      BY <1>1, <2>1 DEF CachingInv, ListsInv
  <1>7. WireInv'
    <2>1. ASSUME NEW s \in Server
          PROVE  /\ \A a \in DOMAIN toServer[s] : toServer[s][a].op = "pull" => keys'[toServer[s][a].mb] = keys[toServer[s][a].mb]
                 /\ \A a \in DOMAIN toWorker[s] : toWorker[s][a].op = "pull" => keys'[toWorker[s][a].mb] = keys[toWorker[s][a].mb]
      BY <1>3, PullsAwaited
    <2> QED
      BY <1>1, <2>1, WireKept DEF CachingInv
  <1>8. PullingInv'
    BY <1>1, <1>3, <1>4, <1>5 DEF CachingInv, PullingInv
  <1>9. ClearedInv'
    <2>1. \A j \in Mb : Open(j) => Open(j)' /\ keys'[j] = keys[j]
      BY <1>1, <1>3 DEF Open
    <2> QED
      BY <1>1, <1>3, <1>4, <1>5, <2>1 DEF CachingInv, ClearedInv
  <1>10. Readable'
    BY <1>1, <1>5 DEF CachingInv, Readable
  <1> QED
    BY <1>6, <1>7, <1>8, <1>9, <1>10 DEF CachingInv

(* The list of another minibatch stands under the same signature only if   *)
(* it is the same list, or nothing else is running.                        *)
LEMMA SameSignature ==
    ASSUME HashAssumption, WorkerInv, ListsInv, pc \in {"count", "pull"},
           NEW i \in Mb, phase[i] = "pulling", NEW s \in Server, NEW k \in Mb,
           Cached(i, s), Cached(k, s), Sig[keys[i][s]] = Sig[keys[k][s]]
    PROVE  keys[i][s] = keys[k][s]
  <1>1. job \in Jobs /\ wl \in Workload
    BY DEF WorkerInv, TypeOK
  <1>2. CASE OneAtATime(job)
    <2>1. MaxMb = 1
      BY <1>1, <1>2 DEF MaxMb, OneAtATime, Workload
    <2> QED
      BY <2>1, Alone
  <1>3. CASE NoCollision(job)
    <2>1. keys[i][s] \in job.slices \ Small /\ keys[k][s] \in job.slices \ Small
      BY DEF ListsInv, Cached
    <2> QED
      BY <1>3, <2>1 DEF NoCollision
  <1> QED
    BY <1>1, <1>2, <1>3 DEF HashAssumption

(* Counts and pulls put the list of the current minibatch into the cache.  *)
LEMMA SendCaching ==
    ASSUME HashAssumption, WorkerInv, CachingInv, PushFeaCnt \/ PullWeight
    PROVE  CachingInv'
  <1>1. /\ UNCHANGED <<job, wl, cur, keys, toWorker, scache, crashed, misread>>
        /\ pc \in {"count", "pull"} /\ \E op \in {"count", "pull"} : Submit(cur, op)
        /\ \/ pc = "count" /\ pc' = "pull" /\ phase' = phase
           \/ pc = "pull" /\ phase' = [phase EXCEPT ![cur] = "pulling"]
    BY DEF PushFeaCnt, PullWeight, wlVars, mbVars
  <1>2. TypeOK /\ ListsInv /\ WireInv /\ PullingInv /\ ClearedInv /\ Readable /\ cur \in Mb /\ HashSeparates
    BY <1>1 DEF WorkerInv, StartedInv, CachingInv, HashAssumption
  <1>3. PICK op \in {"count", "pull"} : Submit(cur, op)
    BY <1>1
  <1>4. /\ ListsInv' /\ WireInv'
        /\ \A s \in Server :
              /\ ~Cached(cur, s) => wcache'[s] = wcache[s]
              /\ Cached(cur, s) =>
                    /\ Sig[keys[cur][s]] \in Signature
                    /\ wcache'[s] = [wcache[s] EXCEPT ![Sig[keys[cur][s]]] = keys[cur][s]]
    <2>1. op \in {"count", "pull", "grad"} /\ op # "grad"
      OBVIOUS
    <2> QED
      BY <1>1, <1>2, <1>3, <2>1, SubmitCaches
  <1>5. phase[cur] = "new"
    <2>1. cur \in Int /\ (phase[cur] # "new" <=> cur \in 1 .. cur - 1)
      BY <1>1, <1>2 DEF WorkerInv, StartedInv, Started, TypeOK
    <2> QED
      BY <1>2, <2>1 DEF WorkerInv, TypeOK
  <1>6. /\ \A i \in Mb \ {cur} : phase'[i] = phase[i]
        /\ phase'[cur] \in {"new", "pulling"}
    BY <1>1, <1>2, <1>5 DEF TypeOK
  <1>7. \A i, s : Cached(i, s)' <=> Cached(i, s)
    BY <1>1 DEF Cached
  <1>8. Train' <=> Train
    BY <1>1 DEF Train
  <1>9. ASSUME NEW i \in Mb, NEW s \in Server, Cached(i, s)
        PROVE  IF Cached(cur, s) /\ Sig[keys[i][s]] = Sig[keys[cur][s]]
               THEN Entry(i, s)' = keys[cur][s] ELSE Entry(i, s)' = Entry(i, s)
    <2>1. keys[i][s] \in Slice /\ Sig[keys[i][s]] \in Signature /\ wcache[s] \in Cache
      BY <1>2, <1>9 DEF Cached, TypeOK, Signature
    <2>2. Entry(i, s)' = wcache'[s][Sig[keys[i][s]]]
      BY <1>1 DEF Entry
    <2>3. CASE Cached(cur, s)
      BY <1>4, <2>1, <2>2, <2>3 DEF Entry, Cache
    <2>4. CASE ~Cached(cur, s)
      BY <1>4, <2>2, <2>4 DEF Entry
    <2> QED
      BY <2>3, <2>4
  <1>10. PullingInv'
    <2> SUFFICES ASSUME NEW i \in Mb, NEW s \in Server, phase'[i] = "pulling", Cached(i, s)
                 PROVE  \/ Entry(i, s)' = keys[i][s]
                        \/ Entry(i, s)' = None /\ Train /\ job.concurrent > 1
      BY <1>1, <1>7, <1>8 DEF PullingInv
    <2>1. CASE i = cur
      BY <1>9, <2>1
    <2>2. CASE i # cur
      <3>1. phase[i] = "pulling"
        BY <1>6, <2>2
      <3>2. CASE Cached(cur, s) /\ Sig[keys[i][s]] = Sig[keys[cur][s]]
        BY <1>1, <1>2, <1>9, <3>1, <3>2, SameSignature
      <3>3. CASE ~(Cached(cur, s) /\ Sig[keys[i][s]] = Sig[keys[cur][s]])
        BY <1>2, <1>9, <3>1, <3>3 DEF PullingInv
      <3> QED
        BY <3>2, <3>3
    <2> QED
      BY <2>1, <2>2
  <1>11. ClearedInv'
    <2> SUFFICES ASSUME Train, job.concurrent = 1,
                        NEW i \in Mb, NEW s \in Server, phase'[i] \in {"pushing", "finished"}, Cached(i, s)
                 PROVE  Entry(i, s)' = None \/ \E j \in Mb : Open(j)' /\ keys[j][s] = Entry(i, s)'
      BY <1>1, <1>7, <1>8 DEF ClearedInv
    <2>1. \A j \in Mb : j = cur => Open(j)'
      BY <1>1, <1>2 DEF Open, TypeOK
    <2>2. \A j \in Mb : Open(j) => Open(j)'
      BY <1>1, <1>2, <1>6, <2>1 DEF Open
    <2>3. CASE Cached(cur, s) /\ Sig[keys[i][s]] = Sig[keys[cur][s]]
      <3>1. Entry(i, s)' = keys[cur][s]
        BY <1>9, <2>3
      <3> QED
        BY <1>2, <2>1, <3>1
    <2>4. CASE ~(Cached(cur, s) /\ Sig[keys[i][s]] = Sig[keys[cur][s]])
      <3>1. Entry(i, s)' = Entry(i, s) /\ phase[i] \in {"pushing", "finished"}
        BY <1>6, <1>9, <2>4
      <3>2. Entry(i, s) = None \/ \E j \in Mb : Open(j) /\ keys[j][s] = Entry(i, s)
        BY <1>2, <3>1 DEF ClearedInv
      <3> QED
        BY <2>2, <3>1, <3>2
    <2> QED
      BY <2>3, <2>4
  <1>12. Readable'
    BY <1>1, <1>2, <1>8 DEF Readable
  <1> QED
    BY <1>4, <1>10, <1>11, <1>12 DEF CachingInv

(* The gradients clear the list, which another running minibatch may need. *)
LEMMA PushGradCaching ==
    ASSUME HashAssumption, WorkerInv, CachingInv, PushGrad
    PROVE  CachingInv'
  <1> DEFINE k == kv.mb
  <1>1. /\ UNCHANGED <<job, wl, pc, cur, keys, toWorker, scache, crashed, misread>>
        /\ Train /\ kv.at = "pull" /\ Submit(k, "grad")
        /\ phase' = [phase EXCEPT ![k] = "pushing"]
    BY DEF PushGrad, procVars, wlVars
  <1>2. TypeOK /\ ListsInv /\ WireInv /\ PullingInv /\ ClearedInv /\ Readable /\ HashSeparates
    BY DEF WorkerInv, CachingInv, HashAssumption
  <1>3. k \in Mb /\ phase[k] = "pulling"
    <2>1. k \in Mb
      BY <1>1, <1>2 DEF TypeOK, Idle
    <2> QED
      BY <1>1, <2>1 DEF WorkerInv, AwaitInv, Awaited, PhaseOf
  <1> HIDE DEF k
  <1>4. /\ ListsInv' /\ WireInv'
        /\ \A s \in Server :
              /\ ~Cached(k, s) => wcache'[s] = wcache[s]
              /\ Cached(k, s) =>
                    /\ Sig[keys[k][s]] \in Signature
                    /\ wcache'[s] = IF Entry(k, s) = keys[k][s]
                                    THEN [wcache[s] EXCEPT ![Sig[keys[k][s]]] = None]
                                    ELSE wcache[s]
    BY <1>1, <1>2, <1>3, SubmitCaches
  <1>5. phase'[k] = "pushing" /\ \A i \in Mb \ {k} : phase'[i] = phase[i]
    BY <1>1, <1>2, <1>3 DEF TypeOK
  <1>6. \A i, s : Cached(i, s)' <=> Cached(i, s)
    BY <1>1 DEF Cached
  <1>7. (Train' <=> Train) /\ MaxMb = job.concurrent
    BY <1>1 DEF Train, MaxMb
  <1>8. ASSUME NEW i \in Mb, NEW s \in Server, Cached(i, s)
        PROVE  IF Cached(k, s) /\ Sig[keys[i][s]] = Sig[keys[k][s]] /\ Entry(k, s) = keys[k][s]
               THEN Entry(i, s)' = None ELSE Entry(i, s)' = Entry(i, s)
    <2>1. keys[i][s] \in Slice /\ Sig[keys[i][s]] \in Signature /\ wcache[s] \in Cache
      BY <1>2, <1>8 DEF Cached, TypeOK, Signature
    <2>2. Entry(i, s)' = wcache'[s][Sig[keys[i][s]]]
      BY <1>1 DEF Entry
    <2>3. CASE Cached(k, s) /\ Entry(k, s) = keys[k][s]
      <3>1. wcache'[s] = [wcache[s] EXCEPT ![Sig[keys[k][s]]] = None]
        BY <1>4, <2>3
      <3> QED
        BY <2>1, <2>2, <2>3, <3>1 DEF Entry, Cache
    <2>4. CASE ~(Cached(k, s) /\ Entry(k, s) = keys[k][s])
      BY <1>4, <2>2, <2>4 DEF Entry
    <2> QED
      BY <2>3, <2>4
  <1>9. PullingInv'
    <2> SUFFICES ASSUME NEW i \in Mb, NEW s \in Server, phase'[i] = "pulling", Cached(i, s)
                 PROVE  \/ Entry(i, s)' = keys[i][s]
                        \/ Entry(i, s)' = None /\ Train /\ job.concurrent > 1
      BY <1>1, <1>6, <1>7 DEF PullingInv
    <2>1. i # k /\ phase[i] = "pulling"
      BY <1>5
    <2>2. job.concurrent > 1
      BY <1>3, <1>7, <2>1, TwoRunning DEF Running
    <2> QED
      BY <1>1, <1>2, <1>8, <2>1, <2>2 DEF PullingInv
  <1>10. ClearedInv'
    <2> SUFFICES ASSUME job.concurrent = 1,
                        NEW i \in Mb, NEW s \in Server, phase'[i] \in {"pushing", "finished"}, Cached(i, s)
                 PROVE  Entry(i, s)' = None
      BY <1>1, <1>6, <1>7 DEF ClearedInv
    <2>1. Cached(k, s) => Entry(k, s) = keys[k][s]
      BY <1>1, <1>2, <1>3 DEF PullingInv
    <2>2. CASE i = k
      BY <1>8, <2>1, <2>2
    <2>3. CASE i # k
      <3>1. Entry(i, s) = None \/ \E j \in Mb : Open(j) /\ keys[j][s] = Entry(i, s)
        BY <1>1, <1>2, <1>5, <2>3 DEF ClearedInv
      <3>2. ASSUME NEW j \in Mb, Open(j) PROVE j = k
        <4>1. phase[j] = "pulling" => j = k
          BY <1>3, <1>7, TwoRunning DEF Running
        <4>2. pc # "pull"
          BY <1>3, <1>7, Alone
        <4> QED
          BY <3>2, <4>1, <4>2 DEF Open
      <3>3. CASE Entry(i, s) = None
        BY <1>8, <3>3
      <3>4. CASE Entry(i, s) # None
        <4>1. keys[k][s] = Entry(i, s)
          BY <3>1, <3>2, <3>4
        <4>2. keys[i][s] \in Slice /\ Sig[keys[i][s]] \in Signature
          BY <1>2 DEF Cached, TypeOK, Signature
        <4>3. Entry(i, s) \notin Small /\ Sig[Entry(i, s)] = Sig[keys[i][s]]
          BY <1>2, <3>4, <4>2 DEF ListsInv, Entry
        <4>4. Cached(k, s) /\ Sig[keys[i][s]] = Sig[keys[k][s]]
          BY <3>4, <4>1, <4>3 DEF Cached
        <4> QED
          BY <1>8, <2>1, <4>4
      <3> QED
        BY <3>3, <3>4
    <2> QED
      BY <2>2, <2>3
  <1>11. Readable'
    BY <1>1, <1>2, <1>7 DEF Readable
  <1> QED
    BY <1>4, <1>9, <1>10, <1>11 DEF CachingInv

LEMMA FinishMinibatchCaching ==
    ASSUME WorkerInv, CachingInv, FinishMinibatch
    PROVE  CachingInv'
  <1> DEFINE k == kv.mb
  <1>1. /\ UNCHANGED <<job, wl, pc, cur, keys, toServer, toWorker, wcache, scache, crashed, misread>>
        /\ kv.at \in Awaited /\ (Train => kv.at = "grad")
        /\ phase' = [phase EXCEPT ![k] = "finished"]
    BY DEF FinishMinibatch, procVars, wlVars, netVars, cacheVars, Awaited
  <1>2. k \in Mb /\ (Train => phase[k] = "pushing")
    <2>1. k \in Mb
      BY <1>1 DEF WorkerInv, TypeOK, Idle, Awaited
    <2> QED
      BY <1>1, <2>1 DEF WorkerInv, AwaitInv, PhaseOf
  <1> HIDE DEF k
  <1>3. phase'[k] = "finished" /\ \A i \in Mb \ {k} : phase'[i] = phase[i]
    BY <1>1, <1>2 DEF WorkerInv, TypeOK
  <1>4. \A i, s : (Cached(i, s)' <=> Cached(i, s)) /\ Entry(i, s)' = Entry(i, s)
    BY <1>1 DEF Cached, Entry
  <1>5. Train' <=> Train
    BY <1>1 DEF Train
  <1>6. ListsInv' /\ Readable'
    BY <1>1, <1>5 DEF CachingInv, ListsInv, Readable
  <1>7. WireInv'
    BY <1>1, WireKept DEF CachingInv
  <1>8. PullingInv'
    BY <1>1, <1>3, <1>4, <1>5 DEF CachingInv, PullingInv
  <1>9. ClearedInv'
    <2>1. Train => \A j \in Mb : Open(j) => Open(j)'
      BY <1>1, <1>2, <1>3 DEF Open
    <2>2. Train => \A i \in Mb : phase'[i] \in {"pushing", "finished"} => phase[i] \in {"pushing", "finished"}
      BY <1>2, <1>3
    <2> QED
      BY <1>1, <1>4, <1>5, <2>1, <2>2 DEF CachingInv, ClearedInv
  <1> QED
    BY <1>6, <1>7, <1>8, <1>9 DEF CachingInv

(* A server reads its requests right; its answers change no cache.         *)
LEMMA ServeRequestCaching ==
    ASSUME WorkerInv, CachingInv, crashed = "no", NEW s \in Server, ServeRequest(s)
    PROVE  CachingInv'
  <1> DEFINE m == Head(toServer[s])
             x == DecodedKey(scache[s], m)
             c == DecodeCache(scache[s], m)
             r == IF m.op = "pull" THEN Msg(m.mb, m.op, x, c) ELSE Ack(m)
  <1>1. /\ TypeOK /\ ListsInv /\ WireInv /\ PullingInv /\ ClearedInv /\ Readable
        /\ toServer[s] # <<>> /\ toServer[s] \in Seq(Request) /\ toWorker[s] \in Seq(Message)
        /\ scache[s] \in Cache
    BY DEF WorkerInv, CachingInv, TypeOK, ServeRequest
  <1>2. toServer[s] \in Seq(Message) /\ Request \subseteq Message
    BY <1>1, SeqMonotonic DEF Request
  <1>3. m \in Request /\ m \in Message /\ \E b \in DOMAIN toServer[s] : m = toServer[s][b]
    BY <1>1, <1>2, HeadTailProperties, TailElements
  <1>4. AsSent(s, m)
    BY <1>1, <1>3 DEF WireInv
  <1>5. Reads(scache[s], m) /\ Replay(Tail(toServer[s]), c, wcache[s])
    BY <1>1, <1>2, ReplayTail DEF WireInv
  <1>6. /\ toServer' = [toServer EXCEPT ![s] = Tail(@)]
        /\ toWorker' = [toWorker EXCEPT ![s] = Append(@, r)]
        /\ scache' = [scache EXCEPT ![s] = IF m.op = "pull" THEN EncodeCache(c, x, FALSE) ELSE c]
        /\ misread' = (misread \/ x # m.orig)
        /\ UNCHANGED <<job, wl, pc, cur, keys, phase, wcache, crashed>>
    BY <1>5 DEF ServeRequest, Reads, procVars, wlVars, mbVars
  <1>7. x = m.orig /\ x \in Slice /\ c \in Cache /\ m.mb \in Mb
    BY <1>1, <1>3, <1>4, <1>5, CacheTypes DEF Reads, AsSent, Signed, Message
  <1>8. m.op = "pull" => /\ EncodeCache(c, x, FALSE) = c
                         /\ EncodedKey(c, x) = IF x \in Small THEN x ELSE None
                         /\ x = keys[m.mb][s] /\ m.sig = (IF x \in Small THEN None ELSE Sig[x])
    <2> SUFFICES ASSUME m.op = "pull"
                 PROVE  /\ EncodeCache(c, x, FALSE) = c
                        /\ EncodedKey(c, x) = IF x \in Small THEN x ELSE None
                        /\ x = keys[m.mb][s] /\ m.sig = (IF x \in Small THEN None ELSE Sig[x])
      OBVIOUS
    <2>1. Signed(m) /\ ~m.clear /\ m.orig = keys[m.mb][s]
      BY <1>4 DEF AsSent
    <2>2. EncodeCache(c, x, FALSE) = c /\ EncodedKey(c, x) = IF x \in Small THEN x ELSE None
      BY <1>1, <1>3, <1>5, <2>1, AnswerEncoded
    <2> QED
      BY <1>7, <2>1, <2>2 DEF Signed
  <1>9. r \in Message /\ AsAnswered(s, r)
    <2>1. CASE m.op = "pull"
      <3>1. r = Msg(m.mb, "pull", x, c) /\ r \in Message
        BY <1>2, <1>7, <2>1, CacheTypes
      <3>2. /\ r.mb = m.mb /\ r.op = "pull" /\ r.orig = x /\ r.key = EncodedKey(c, x)
            /\ r.sig = (IF x \in Small THEN None ELSE Sig[x]) /\ ~r.clear
        BY <3>1, MessageFields
      <3> HIDE DEF r
      <3> QED
        BY <1>7, <1>8, <2>1, <3>1, <3>2 DEF AsAnswered, Signed
    <2>2. CASE m.op # "pull"
      <3>1. r = Ack(m) /\ r \in Message
        BY <1>1, <1>3, <2>2, CacheTypes
      <3>2. r.op # "pull" /\ r.orig = None /\ r.key = None /\ r.sig = None /\ ~r.clear
        BY <2>2, <3>1, MessageFields
      <3> HIDE DEF r
      <3> QED
        BY <3>1, <3>2 DEF AsAnswered
    <2> QED
      BY <2>1, <2>2
  <1> HIDE DEF m, x, c, r
  <1>10. /\ toServer'[s] = Tail(toServer[s]) /\ toWorker'[s] = Append(toWorker[s], r) /\ scache'[s] = c
         /\ \A u \in Server \ {s} : toServer'[u] = toServer[u] /\ toWorker'[u] = toWorker[u] /\ scache'[u] = scache[u]
    BY <1>1, <1>6, <1>8 DEF TypeOK
  <1>11. WireInv'
    <2>1. SUFFICES ASSUME NEW u \in Server
                   PROVE  /\ Replay(toServer'[u], scache'[u], wcache[u])
                          /\ \A a \in DOMAIN toServer'[u] : AsSent(u, toServer'[u][a])
                          /\ \A a \in DOMAIN toWorker'[u] : AsAnswered(u, toWorker'[u][a])
      <3>1. keys' = keys /\ wcache' = wcache
        BY <1>6
      <3> QED
        BY <3>1 DEF WireInv, AsSent, AsAnswered
    <2>2. CASE u = s
      <3>1. \A a \in DOMAIN toServer'[s] : AsSent(s, toServer'[s][a])
        BY <1>1, <1>10, TailElements DEF WireInv
      <3>2. \A a \in DOMAIN toWorker'[s] :
                toWorker'[s][a] = r \/ \E b \in DOMAIN toWorker[s] : toWorker'[s][a] = toWorker[s][b]
        BY <1>1, <1>9, <1>10, AppendElements
      <3>3. \A a \in DOMAIN toWorker'[s] : AsAnswered(s, toWorker'[s][a])
        BY <1>1, <1>9, <3>2 DEF WireInv
      <3> QED
        BY <1>5, <1>10, <2>2, <3>1, <3>3
    <2>3. CASE u # s
      BY <1>1, <1>10, <2>3 DEF WireInv
    <2> QED
      BY <2>2, <2>3
  <1>12. /\ \A i, u : (Cached(i, u)' <=> Cached(i, u)) /\ Entry(i, u)' = Entry(i, u)
         /\ \A j : Open(j)' <=> Open(j)
         /\ Train' <=> Train
    BY <1>6 DEF Cached, Entry, Open, Train
  <1>13. ListsInv'
    BY <1>1, <1>6 DEF ListsInv
  <1>14. PullingInv'
    BY <1>1, <1>6, <1>12 DEF PullingInv
  <1>15. ClearedInv'
    BY <1>1, <1>6, <1>12 DEF ClearedInv
  <1>16. Readable'
    BY <1>1, <1>6, <1>7, <1>12 DEF Readable
  <1> QED
    BY <1>11, <1>13, <1>14, <1>15, <1>16 DEF CachingInv

(* The worker reads an answer right, if the list it needs is there.        *)
LEMMA ReceiveResponseCaching ==
    ASSUME WorkerInv, CachingInv, crashed = "no", NEW s \in Server, ReceiveResponse(s)
    PROVE  CachingInv'
  <1> USE AsyncAssumption, NoneAssumption
  <1> DEFINE m == Head(toWorker[s])
             i == m.mb
  <1>1. /\ TypeOK /\ ListsInv /\ WireInv /\ PullingInv /\ ClearedInv /\ Readable
        /\ toWorker[s] # <<>> /\ toWorker[s] \in Seq(Message) /\ wcache[s] \in Cache
    BY DEF WorkerInv, CachingInv, TypeOK, ReceiveResponse
  <1>2. PICK b \in DOMAIN toWorker[s] : m = toWorker[s][b]
    BY <1>1, TailElements
  <1>3. AsAnswered(s, m) /\ m.mb \in Mb /\ (m.op = "pull" => phase[i] = "pulling")
    BY <1>1, <1>2, PullsAwaited DEF WireInv
  <1>4. /\ UNCHANGED <<job, wl, pc, cur, keys, phase, toServer, scache>>
        /\ \/ /\ Invalid(wcache[s], m)
              /\ crashed' = "worker" /\ UNCHANGED <<toWorker, wcache, misread>>
           \/ /\ ~Invalid(wcache[s], m)
              /\ crashed' = crashed
              /\ misread' = (misread \/ DecodedKey(wcache[s], m) # m.orig)
              /\ toWorker' = [toWorker EXCEPT ![s] = Tail(@)]
              /\ wcache' = [wcache EXCEPT ![s] = DecodeCache(@, m)]
    BY DEF ReceiveResponse, procVars, wlVars
  <1> HIDE DEF m
  <1>5. Invalid(wcache[s], m) => Train /\ job.concurrent > 1
    <2> SUFFICES ASSUME Invalid(wcache[s], m) PROVE Train /\ job.concurrent > 1
      OBVIOUS
    <2>1. m.op = "pull" /\ Cached(i, s) /\ m.sig = Sig[keys[i][s]]
      BY <1>3 DEF Invalid, AsAnswered, Signed, Cached
    <2>2. Entry(i, s) = None /\ keys[i][s] # None
      BY <2>1 DEF Invalid, Entry, Cached
    <2> QED
      BY <1>1, <1>3, <2>1, <2>2 DEF PullingInv
  <1>6. ~Invalid(wcache[s], m) => DecodeCache(wcache[s], m) = wcache[s] /\ DecodedKey(wcache[s], m) = m.orig
    <2> SUFFICES ASSUME ~Invalid(wcache[s], m)
                 PROVE  DecodeCache(wcache[s], m) = wcache[s] /\ DecodedKey(wcache[s], m) = m.orig
      OBVIOUS
    <2>1. DecodeCache(wcache[s], m) = wcache[s]
      BY <1>3 DEF AsAnswered, Signed, DecodeCache
    <2>2. CASE m.op = "pull" /\ m.orig \notin Small
      <3>1. m.key = None /\ m.sig = Sig[m.orig] /\ m.sig # None /\ m.orig = keys[i][s] /\ m.orig # None
        BY <1>3, <2>2 DEF AsAnswered, Signed, Signature
      <3>2. Cached(i, s) /\ Entry(i, s) # None
        BY <2>2, <3>1 DEF Cached, Entry, Invalid
      <3>3. Entry(i, s) = keys[i][s]
        BY <1>1, <1>3, <2>2, <3>2 DEF PullingInv
      <3> QED
        BY <2>1, <3>1, <3>3 DEF DecodedKey, Entry
    <2>3. CASE ~(m.op = "pull" /\ m.orig \notin Small)
      BY <1>3, <2>1, <2>3 DEF AsAnswered, Signed, DecodedKey
    <2> QED
      BY <2>2, <2>3
  <1>7. /\ wcache' = wcache
        /\ misread' = misread
        /\ crashed' # crashed => crashed' = "worker" /\ Train /\ job.concurrent > 1
        /\ \A u \in Server : toWorker'[u] = toWorker[u] \/ (u = s /\ toWorker'[u] = Tail(toWorker[s]))
    BY <1>1, <1>4, <1>5, <1>6 DEF TypeOK
  <1>8. WireInv'
    <2>1. SUFFICES ASSUME NEW u \in Server
                   PROVE  /\ Replay(toServer[u], scache[u], wcache[u])
                          /\ \A a \in DOMAIN toServer[u] : AsSent(u, toServer[u][a])
                          /\ \A a \in DOMAIN toWorker'[u] : AsAnswered(u, toWorker'[u][a])
      BY <1>4, <1>7 DEF WireInv, AsSent, AsAnswered
    <2>2. \A a \in DOMAIN toWorker'[u] : \E d \in DOMAIN toWorker[u] : toWorker'[u][a] = toWorker[u][d]
      <3>1. \A a \in DOMAIN Tail(toWorker[s]) : \E d \in DOMAIN toWorker[s] : Tail(toWorker[s])[a] = toWorker[s][d]
        BY <1>1, TailElements
      <3>2. CASE toWorker'[u] = toWorker[u]
        BY <3>2
      <3>3. CASE u = s /\ toWorker'[u] = Tail(toWorker[s])
        BY <3>1, <3>3
      <3> QED
        BY <1>7, <3>2, <3>3
    <2> QED
      BY <1>1, <2>2 DEF WireInv
  <1>9. /\ \A j, u : (Cached(j, u)' <=> Cached(j, u)) /\ Entry(j, u)' = Entry(j, u)
        /\ \A j : Open(j)' <=> Open(j)
        /\ Train' <=> Train
    BY <1>4, <1>7 DEF Cached, Entry, Open, Train
  <1>10. ListsInv'
    BY <1>1, <1>4, <1>7 DEF ListsInv
  <1>11. PullingInv'
    BY <1>1, <1>4, <1>9 DEF PullingInv
  <1>12. ClearedInv'
    BY <1>1, <1>4, <1>9 DEF ClearedInv
  <1>13. Readable'
    BY <1>1, <1>4, <1>7, <1>9 DEF Readable
  <1> QED
    BY <1>8, <1>10, <1>11, <1>12, <1>13 DEF CachingInv

LEMMA CachingStepInv == HashAssumption /\ CacheInv /\ [Next]_vars => CacheInv'
  <1> SUFFICES ASSUME HashAssumption, CacheInv, [Next]_vars PROVE CacheInv'
    OBVIOUS
  <1>1. WorkerInv /\ CachingInv /\ WorkerInv'
    BY WorkerStepInv DEF CacheInv
  <1>2. CASE UNCHANGED vars
    <2>1. /\ UNCHANGED <<job, wl, keys, phase, toServer, toWorker, wcache, scache, crashed, misread>>
          /\ \A j \in Mb : Open(j) => Open(j)'
      BY <1>2 DEF vars, procVars, wlVars, mbVars, netVars, cacheVars, Open
    <2> QED
      BY <1>1, <2>1, CachingFrame DEF CacheInv
  <1>3. CASE WaitForSlot \/ IncrFly \/ WaitForAll \/ NotifyOne
    <2>1. /\ UNCHANGED <<job, wl, keys, phase, toServer, toWorker, wcache, scache, crashed, misread>>
          /\ \A j \in Mb : Open(j) => Open(j)'
      BY <1>3 DEF WaitForSlot, WaitForAll, WaitMinibatch, IncrFly, NotifyOne, procVars, wlVars, mbVars, netVars,
                  cacheVars, Open
    <2> QED
      BY <1>1, <2>1, CachingFrame DEF CacheInv
  <1>4. ASSUME Next PROVE crashed = "no"
    BY <1>4 DEF Next
  <1>5. CASE Next /\ Process
    BY <1>1, <1>3, <1>4, <1>5, StartProcessCaching, ReadMinibatchCaching, SendCaching DEF Process, CacheInv
  <1>6. CASE Next /\ Callbacks
    BY <1>1, <1>3, <1>4, <1>6, ReceiveResponseCaching, PushGradCaching, FinishMinibatchCaching DEF Callbacks, CacheInv
  <1>7. CASE Next /\ \E s \in Server : ServeRequest(s)
    BY <1>1, <1>4, <1>7, ServeRequestCaching DEF CacheInv
  <1> QED
    BY <1>2, <1>5, <1>6, <1>7 DEF Next
-----------------------------------------------------------------------------
(* The inductive invariant of the key caches.                              *)
THEOREM CacheInvariant == HashAssumption /\ Spec => []CacheInv
  <1>1. Init => CacheInv
    BY WorkerInitInv, CachingInitInv DEF CacheInv
  <1>2. ASSUME HashAssumption PROVE CacheInv /\ [Next]_vars => CacheInv'
    BY <1>2, CachingStepInv
  <1>3. ASSUME HashAssumption PROVE Spec => []CacheInv
    BY <1>1, <1>2, <1>3, PTL DEF Spec
  <1> QED
    BY <1>3

(* Decode of the key caching filter never fails on a server, fails on the  *)
(* worker only for concurrent training minibatches, and always gives the   *)
(* keys that were sent, with signatures that collide too.                  *)
THEOREM WorkerReadable == HashAssumption /\ Spec => []Readable
  <1>1. CacheInv => Readable
    BY DEF CacheInv, CachingInv
  <1> QED
    BY CacheInvariant, <1>1, PTL

(* Between two parts the caches of the worker and of a server it has no    *)
(* message under way with are the same, and training with one minibatch at *)
(* a time has left nothing in them.                                        *)
THEOREM WorkerCachesAgree == HashAssumption /\ Spec => []CachesAgree
  <1>1. CacheInv => CachesAgree
    <2> SUFFICES ASSUME CacheInv, pc = "returned"
                 PROVE  /\ \A s \in Server : toServer[s] = <<>> => wcache[s] = scache[s]
                        /\ Train /\ job.concurrent = 1 =>
                              \A i \in 1 .. cur - 1, s \in Server : Cached(i, s) => Entry(i, s) = None
      BY DEF CachesAgree, Cached, Entry
    <2>1. TypeOK /\ StartedInv /\ FlyInv /\ WireInv /\ ClearedInv
      BY DEF CacheInv, WorkerInv, CachingInv
    <2>2. ASSUME NEW s \in Server, toServer[s] = <<>> PROVE wcache[s] = scache[s]
      BY <2>1, <2>2, ReplayEmpty DEF WireInv, TypeOK
    <2>3. ASSUME Train, job.concurrent = 1, NEW i \in 1 .. cur - 1, NEW s \in Server, Cached(i, s)
          PROVE  Entry(i, s) = None
      <3>1. i \in Mb /\ i \in Started
        BY <2>1, AsyncAssumption DEF TypeOK, Mb, Started
      <3>2. phase[i] = "finished"
        BY <2>1, <3>1 DEF StartedInv, FlyInv
      <3>3. \A j \in Mb : ~Open(j)
        BY <2>1 DEF FlyInv, Open
      <3> QED
        BY <2>1, <2>3, <3>1, <3>2, <3>3 DEF ClearedInv
    <2> QED
      BY <2>2, <2>3
  <1> QED
    BY CacheInvariant, <1>1, PTL
=============================================================================
