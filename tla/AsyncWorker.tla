----------------------------- MODULE AsyncWorker -----------------------------
(***************************************************************************)
(* How a worker runs through parts of the data: the loop of                *)
(* MinibatchWorker::Process (src/solver/minibatch_solver.h), the requests  *)
(* of AsyncWorker::ProcessMinibatch (src/difacto/async_sgd.h), and the key *)
(* caches these requests go through (src/filter/key_caching.h of ps-lite). *)
(*                                                                         *)
(* Two threads of the worker: the one that runs Process, and the executor  *)
(* thread of the key-value customer, which runs the callbacks.  A          *)
(* minibatch pushes its feature counts (first data pass only), pulls the   *)
(* weights, and, in training, pushes the gradients when all servers have   *)
(* answered the pull.  Each server gets the slice of the keys it owns.     *)
(* Between the worker and a server both directions are FIFO.               *)
(***************************************************************************)
EXTENDS Integers, FiniteSets, Sequences

CONSTANTS
    Server,       \* the servers
    Slice,        \* the key lists a server can be asked for
    Small,        \* those below min_len_, which are never cached
    Sig,          \* per slice, its FastHash
    Size,         \* per slice, its length
    NumMb,        \* bound on the minibatches of a part
    Jobs          \* the jobs that may be run: [servers, slices, embedding, concurrent, val, mb, calls]

(***************************************************************************)
(* A job: the servers it uses, the key lists its data is made of,          *)
(* do_embedding_, concurrent_mb_ and val_concurrent_mb_, and bounds on the *)
(* minibatches of a part and on the parts.                                 *)
(***************************************************************************)
ASSUME AsyncAssumption ==
    /\ NumMb \in Nat
    /\ Small \subseteq Slice
    /\ DOMAIN Sig = Slice
    /\ Size \in [Slice -> Nat]
    /\ \A j \in Jobs :
        /\ j.servers \subseteq Server /\ j.slices \subseteq Slice
        /\ j.embedding \in BOOLEAN
        /\ j.concurrent \in Nat \ {0} /\ j.val \in Nat \ {0}
        /\ j.mb \in 0 .. NumMb /\ j.calls \in Nat

None == "none"        \* no key list: nothing cached, no keys in the message, or an empty slice
Signature == {Sig[x] : x \in Slice}
Mb == 1 .. NumMb

ASSUME NoneAssumption == None \notin Slice \cup Signature

Workload == [type : {"TRAIN", "VAL", "PRED"}, pass : {0, 1}]

VARIABLES
    job,       \* the job
    wl,        \* the workload: its type and data pass
    calls,     \* the number of calls of Process so far
    pc,        \* where Process is
    cur,       \* the minibatch Process is working on
    blocked,   \* Process sleeps on mb_cond_
    numFly,    \* num_mb_fly_
    keys,      \* per minibatch, the slice for each server
    phase,     \* per minibatch, how far it is
    pending,   \* per minibatch, the servers whose answer to its last request is missing
    kv,        \* what the executor thread of the key-value customer is doing
    toServer,  \* per server, the requests on their way
    toWorker,  \* per server, the responses on their way
    wcache,    \* per server, cache_ of the worker's filter: signature -> key list
    scache,    \* per server, cache_ of the server's filter for this worker
    crashed,   \* where a CHECK of Decode failed
    misread    \* history: some message was decoded to other keys than it was sent with

wlVars    == <<job, wl, calls>>
procVars  == <<wlVars, pc, cur, blocked>>
mbVars    == <<keys, phase, pending>>
netVars   == <<toServer, toWorker>>
cacheVars == <<wcache, scache>>
vars == <<procVars, numFly, mbVars, kv, netVars, cacheVars, crashed, misread>>
-----------------------------------------------------------------------------
(* The key caching filter.  A cache maps a signature to a key list.        *)

Hit(cache, x) == cache[Sig[x]] # None /\ Size[cache[Sig[x]]] = Size[x]

\* Encode: what goes over the wire and what is cached afterwards.  The list x is the key of
\* a message; clear says that this is the last message that needs it.
EncodedKey(cache, x) == IF x \notin Small /\ Hit(cache, x) THEN None ELSE x

\* mutant of EncodeCache: the sender does not remember a list it sent
MutEncodeCache(cache, x, clear) ==
    IF x \notin Small /\ clear /\ Hit(cache, x) THEN [cache EXCEPT ![Sig[x]] = None] ELSE cache

EncodeCache(cache, x, clear) ==
    CASE x \in Small -> cache
      [] x \notin Small /\ clear -> IF Hit(cache, x) THEN [cache EXCEPT ![Sig[x]] = None] ELSE cache
      [] OTHER -> IF Hit(cache, x) THEN cache ELSE [cache EXCEPT ![Sig[x]] = x]

\* Decode: a message with no signature is taken as it is.
Invalid(cache, m) == m.sig # None /\ m.key = None /\ cache[m.sig] = None

DecodedKey(cache, m) == IF m.sig # None /\ m.key = None THEN cache[m.sig] ELSE m.key

\* mutant of DecodeCache: the receiver does not forget the list
MutDecodeCache(cache, m) ==
    IF m.sig = None \/ m.key = None THEN cache ELSE [cache EXCEPT ![m.sig] = m.key]

DecodeCache(cache, m) ==
    CASE m.sig = None -> cache
      [] m.sig # None /\ m.key # None /\ ~m.clear -> [cache EXCEPT ![m.sig] = m.key]
      [] m.sig # None /\ m.key = None /\ m.clear -> [cache EXCEPT ![m.sig] = None]
      [] OTHER -> cache

\* A message about minibatch i with the key list x.
Msg(i, op, x, cache) ==
    [mb |-> i, op |-> op, orig |-> x,
     key |-> EncodedKey(cache, x), sig |-> IF x \in Small THEN None ELSE Sig[x],
     clear |-> op = "grad"]

\* The answer to a push: an empty message without filters.
Ack(m) == [mb |-> m.mb, op |-> m.op, orig |-> None, key |-> None, sig |-> None, clear |-> FALSE]
-----------------------------------------------------------------------------
(* Executor::Submit to the server group: sliced, encoded and queued under  *)
(* one lock.  A server with no keys gets nothing and counts as answered.   *)

NoKeys == [i \in Mb |-> [s \in Server |-> None]]

Receivers(i) == {s \in Server : keys[i][s] # None}

Submit(i, op) ==
    /\ toServer' = [s \in Server |-> IF s \in Receivers(i)
                                     THEN Append(toServer[s], Msg(i, op, keys[i][s], wcache[s]))
                                     ELSE toServer[s]]
    /\ wcache' = [s \in Server |-> IF s \in Receivers(i)
                                   THEN EncodeCache(wcache[s], keys[i][s], op = "grad")
                                   ELSE wcache[s]]
-----------------------------------------------------------------------------
(* The thread that runs Process.                                           *)

Train == wl.type = "TRAIN"

\* max_mb
MaxMb ==
    CASE wl.type = "PRED" -> 1
      [] wl.type = "TRAIN" -> job.concurrent
      [] wl.type = "VAL" -> job.val

\* Process is called with the next workload; num_mb_fly_ starts again from 0.
StartProcess ==
    /\ pc = "returned"
    /\ calls < job.calls
    /\ wl' \in Workload
    /\ calls' = calls + 1
    /\ pc' = "read" /\ cur' = 1
    /\ numFly' = 0
    /\ keys' = NoKeys
    /\ phase' = [i \in Mb |-> "new"]
    /\ UNCHANGED <<job, blocked, pending, kv, netVars, cacheVars, crashed, misread>>

\* reader.Next(): a minibatch with some keys, or the end of the part.
ReadMinibatch ==
    /\ pc = "read"
    /\ \/ /\ cur <= job.mb
          /\ \E x \in [Server -> job.slices \cup {None}] :
                /\ {s \in Server : x[s] # None} \in SUBSET job.servers \ {{}}
                /\ keys' = [keys EXCEPT ![cur] = x]
          /\ pc' = "wait"
       \/ /\ pc' = "final"
          /\ UNCHANGED keys
    /\ UNCHANGED <<wlVars, cur, blocked, numFly, phase, pending, kv, netVars, cacheVars, crashed, misread>>

\* mutant of WaitMinibatch: off by one
MutWaitMinibatch(num, next) ==
    /\ ~blocked
    /\ IF numFly <= num THEN pc' = next /\ UNCHANGED blocked
                        ELSE blocked' = TRUE /\ UNCHANGED pc
    /\ UNCHANGED <<wlVars, cur, numFly, mbVars, kv, netVars, cacheVars, crashed, misread>>

\* WaitMinibatch(num): go on, or sleep on the condition variable until notified.
WaitMinibatch(num, next) ==
    /\ ~blocked
    /\ IF numFly < num THEN pc' = next /\ UNCHANGED blocked
                       ELSE blocked' = TRUE /\ UNCHANGED pc
    /\ UNCHANGED <<wlVars, cur, numFly, mbVars, kv, netVars, cacheVars, crashed, misread>>

WaitForSlot ==
    /\ pc = "wait"
    /\ WaitMinibatch(MaxMb, IF Train /\ wl.pass = 0 /\ job.embedding THEN "count" ELSE "pull")

\* ProcessMinibatch pushes the feature counts; no callback.
PushFeaCnt ==
    /\ pc = "count"
    /\ Submit(cur, "count")
    /\ pc' = "pull"
    /\ UNCHANGED <<wlVars, cur, blocked, numFly, mbVars, kv, toWorker, scache, crashed, misread>>

\* ProcessMinibatch pulls the weights and returns.
PullWeight ==
    /\ pc = "pull"
    /\ Submit(cur, "pull")
    /\ phase' = [phase EXCEPT ![cur] = "pulling"]
    /\ pending' = [pending EXCEPT ![cur] = Receivers(cur)]
    /\ pc' = "incr"
    /\ UNCHANGED <<wlVars, cur, blocked, numFly, keys, kv, toWorker, scache, crashed, misread>>

\* mutant of IncrFly: the counter is not incremented
MutIncrFly ==
    /\ pc = "incr"
    /\ cur' = cur + 1
    /\ pc' = "read"
    /\ UNCHANGED <<wlVars, blocked, numFly, mbVars, kv, netVars, cacheVars, crashed, misread>>

\* Only then is the minibatch counted; its callbacks may all have run already.
IncrFly ==
    /\ pc = "incr"
    /\ numFly' = numFly + 1
    /\ cur' = cur + 1
    /\ pc' = "read"
    /\ UNCHANGED <<wlVars, blocked, mbVars, kv, netVars, cacheVars, crashed, misread>>

\* Process waits for all minibatches, and returns.
WaitForAll == pc = "final" /\ WaitMinibatch(1, "returned")
-----------------------------------------------------------------------------
(* A server.                                                               *)

\* The executor of a server takes a request, decodes it, and answers: a pull with a message
\* that goes through the same filter again, a push with an acknowledgement.
ServeRequest(s) ==
    /\ toServer[s] # <<>>
    /\ LET m == Head(toServer[s])
           x == DecodedKey(scache[s], m)
           c == DecodeCache(scache[s], m)
       IN  IF Invalid(scache[s], m)
           THEN crashed' = "server" /\ UNCHANGED <<toServer, toWorker, scache, misread>>
           ELSE /\ misread' = (misread \/ x # m.orig)
                /\ toServer' = [toServer EXCEPT ![s] = Tail(@)]
                /\ toWorker' = [toWorker EXCEPT ![s] =
                        Append(@, IF m.op = "pull" THEN Msg(m.mb, m.op, x, c) ELSE Ack(m))]
                /\ scache' = [scache EXCEPT ![s] =
                        IF m.op = "pull" THEN EncodeCache(c, x, FALSE) ELSE c]
                /\ UNCHANGED crashed
    /\ UNCHANGED <<procVars, numFly, mbVars, kv, wcache>>
-----------------------------------------------------------------------------
(* The executor thread of the worker's key-value customer.                 *)

Idle == [at |-> "idle"]

\* It takes a response and decodes it; the last one of a pull or of a gradient push makes
\* the callback run.  The answers to the feature counts have none.
ReceiveResponse(s) ==
    /\ kv = Idle
    /\ toWorker[s] # <<>>
    /\ LET m == Head(toWorker[s])
           left == pending[m.mb] \ {s}
       IN  IF Invalid(wcache[s], m)
           THEN crashed' = "worker" /\ UNCHANGED <<toWorker, wcache, misread, pending, kv>>
           ELSE /\ misread' = (misread \/ DecodedKey(wcache[s], m) # m.orig)
                /\ toWorker' = [toWorker EXCEPT ![s] = Tail(@)]
                /\ wcache' = [wcache EXCEPT ![s] = DecodeCache(@, m)]
                /\ IF m.op = "count"
                   THEN UNCHANGED <<pending, kv>>
                   ELSE /\ pending' = [pending EXCEPT ![m.mb] = left]
                        /\ kv' = IF left = {} THEN [at |-> m.op, mb |-> m.mb] ELSE Idle
                /\ UNCHANGED crashed
    /\ UNCHANGED <<procVars, numFly, keys, phase, toServer, scache>>

\* The callback of the pull in training: compute and push the gradients.
PushGrad ==
    /\ kv.at = "pull" /\ Train
    /\ Submit(kv.mb, "grad")
    /\ phase' = [phase EXCEPT ![kv.mb] = "pushing"]
    /\ pending' = [pending EXCEPT ![kv.mb] = Receivers(kv.mb)]
    /\ kv' = Idle
    /\ UNCHANGED <<procVars, numFly, keys, toWorker, scache, crashed, misread>>

\* FinishMinibatch, at the end of a pull in validation and of a gradient push: first the
\* counters, under mb_mu_,
FinishMinibatch ==
    /\ (kv.at = "pull" /\ ~Train) \/ kv.at = "grad"
    /\ numFly' = numFly - 1
    /\ phase' = [phase EXCEPT ![kv.mb] = "finished"]
    /\ kv' = [kv EXCEPT !.at = "notify"]
    /\ UNCHANGED <<procVars, keys, pending, netVars, cacheVars, crashed, misread>>

\* mutant of NotifyOne: nobody is woken
MutNotifyOne ==
    /\ kv.at = "notify"
    /\ kv' = Idle
    /\ UNCHANGED <<procVars, numFly, mbVars, netVars, cacheVars, crashed, misread>>

\* and then, with the lock released, notify_one.
NotifyOne ==
    /\ kv.at = "notify"
    /\ blocked' = FALSE
    /\ kv' = Idle
    /\ UNCHANGED <<wlVars, pc, cur, numFly, mbVars, netVars, cacheVars, crashed, misread>>
-----------------------------------------------------------------------------
NoCache == [g \in Signature |-> None]

Init ==
    /\ job \in Jobs
    /\ wl = [type |-> "TRAIN", pass |-> 0]
    /\ calls = 0
    /\ pc = "returned" /\ cur = 1 /\ blocked = FALSE
    /\ numFly = 0
    /\ keys = NoKeys
    /\ phase = [i \in Mb |-> "new"]
    /\ pending = [i \in Mb |-> {}]
    /\ kv = Idle
    /\ toServer = [s \in Server |-> <<>>]
    /\ toWorker = [s \in Server |-> <<>>]
    /\ wcache = [s \in Server |-> NoCache]
    /\ scache = [s \in Server |-> NoCache]
    /\ crashed = "no"
    /\ misread = FALSE

Process == StartProcess \/ ReadMinibatch \/ WaitForSlot \/ PushFeaCnt \/ PullWeight \/ IncrFly \/ WaitForAll

Callbacks == (\E s \in Server : ReceiveResponse(s)) \/ PushGrad \/ FinishMinibatch \/ NotifyOne

\* A failed CHECK ends the program.
Next ==
    /\ crashed = "no"
    /\ \/ Process
       \/ Callbacks
       \/ \E s \in Server : ServeRequest(s)

Spec == Init /\ [][Next]_vars

\* Threads keep running and every server answers.
FairSpec ==
    /\ Spec
    /\ WF_vars(crashed = "no" /\ Process)
    /\ WF_vars(crashed = "no" /\ Callbacks)
    /\ \A s \in Server : WF_vars(crashed = "no" /\ ServeRequest(s))
-----------------------------------------------------------------------------
(* Properties.                                                             *)

Cache == [Signature -> Slice \cup {None}]

Message ==
    [mb : Mb, op : {"count", "pull", "grad"}, orig : Slice \cup {None}, key : Slice \cup {None},
     sig : Signature \cup {None}, clear : BOOLEAN]

\* A request has a key list, or the signature of one.
Request == {m \in Message : m.key = None => m.sig # None}

\* Type invariant.  num_mb_fly_ may be -1, when all callbacks of a minibatch run before it
\* is counted, but never less, and it never exceeds max_mb.
TypeOK ==
    /\ job \in Jobs
    /\ wl \in Workload
    /\ calls \in 0 .. job.calls
    /\ pc \in {"read", "wait", "count", "pull", "incr", "final", "returned"}
    /\ cur \in 1 .. NumMb + 1
    /\ blocked \in BOOLEAN
    /\ numFly \in -1 .. MaxMb
    /\ keys \in [Mb -> [Server -> Slice \cup {None}]]
    /\ phase \in [Mb -> {"new", "pulling", "pushing", "finished"}]
    /\ pending \in [Mb -> SUBSET Server]
    /\ kv \in {Idle} \cup [at : {"pull", "grad", "notify"}, mb : Mb]
    /\ toServer \in [Server -> Seq(Request)]
    /\ toWorker \in [Server -> Seq(Message)]
    /\ wcache \in [Server -> Cache] /\ scache \in [Server -> Cache]
    /\ crashed \in {"no", "worker", "server"}
    /\ misread \in BOOLEAN

Running == {i \in Mb : phase[i] \in {"pulling", "pushing"}}

\* The comment on concurrent_mb_: never more than MaxMb minibatches are being processed,
\* although num_mb_fly_ lags behind.
ConcurrencyBound == Cardinality(Running) <= MaxMb

\* Process returns, and the part is reported as finished to the scheduler, only when the
\* gradients of every minibatch have reached all servers.
ReturnedMeansAllDone == pc = "returned" => \A i \in 1 .. cur - 1 : phase[i] = "finished"

\* The CHECK "invalid key cache" in Decode on the worker, for the answers of the servers.
WorkerCacheValid == crashed # "worker"

\* What a message needs is in the cache of its receiver, and what it is decoded to are the keys
\* it was sent with, although requests and answers share a cache, lists with the same signature
\* replace each other, and validation never clears.  (Not so for the answers to the pulls of
\* concurrent minibatches in training.)
Readable ==
    /\ crashed = "worker" => Train /\ job.concurrent > 1
    /\ crashed # "server"
    /\ ~misread

\* Between two parts, with no message under way, both ends of a connection hold the same
\* lists, also those that validation left behind: a difference would make a later message
\* unreadable.  After a training part with one minibatch at a time its lists are gone: the
\* gradient push, the last use of a list, clears it on both sides.
CachesAgree ==
    pc = "returned" =>
        /\ \A s \in Server : toServer[s] = <<>> /\ toWorker[s] = <<>> => wcache[s] = scache[s]
        /\ Train /\ job.concurrent = 1 =>
            \A i \in 1 .. cur - 1, s \in Server :
                keys[i][s] \notin Small \cup {None} => wcache[s][Sig[keys[i][s]]] = None

\* Process returns, unless the program was ended by a CHECK: the notification is never lost and
\* the last callback always comes.
ProcessReturns == pc = "read" ~> pc = "returned" \/ crashed # "no"
=============================================================================
