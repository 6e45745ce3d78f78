------------------------------ MODULE KVServer ------------------------------
(***************************************************************************)
(* Workers that pull weights from the servers and push gradients: KVCache  *)
(* (ps-lite/src/kv/kv_cache.h), SliceMessage (message.h), the stores       *)
(* KVStoreSparseST and KVStoreSparse (kv_store_sparse_st.h,                *)
(* kv_store_sparse.h), and the entries and handles of difacto and linear   *)
(* (src/difacto/async_sgd.h, src/linear/async_sgd.h).                      *)
(*                                                                         *)
(* An entry of difacto is a weight w and, once its feature was seen often  *)
(* enough, a vector V: it has 1 or Dim + 1 numbers, so that values have    *)
(* dynamic sizes.  An entry of linear is one number.  Of w it only matters *)
(* whether it is zero; what an update makes of it is nondeterministic.     *)
(* The value at position j of the entry of key k is <<k, j>>.              *)
(***************************************************************************)
EXTENDS Integers, FiniteSets, Sequences, SequencesExt

CONSTANTS
    Workers,
    Stores,     \* set of <<app, threads>>: "difacto" or "linear" on a store with that many threads
    KeyRanges,  \* KeyRanges[s]: <<begin, end>>, the keys of server s, one range after the other
    Batches,    \* the key lists of the minibatches, in ascending order
    Dim,        \* V.dim
    Thr,        \* V.thr
    MaxRounds   \* bound on the minibatches of a worker

VARIABLES
    app, nt,    \* the application, and the threads of a store
    shrink,     \* l1_shrk
    data,       \* data[bucket][key]: the entries of the servers
    stats,      \* stats[s]: new_w, new_V and ct_ of the handle
    reported,   \* new_w and new_V summed up by the scheduler
    raced,      \* some request changed new_w in several threads of a store (history)
    chan,       \* chan[w][s]: requests under way, in order
    resps,      \* pull responses under way
    kv,         \* kv[w]: the minibatch of a worker
    file        \* the saved model, or NoModel

kvVars == <<app, nt, shrink, data, stats, reported, raced, chan, resps, kv, file>>

Servers == DOMAIN KeyRanges
Keys == KeyRanges[1][1] .. KeyRanges[Len(KeyRanges)][2] - 1
Buckets == 0 .. nt - 1

\* Localizer gives a minibatch each key once, in ascending order.
Ascending(keys) == \A i, j \in DOMAIN keys : i < j => keys[i] < keys[j]

\* The ranges are in order and have all keys; difacto has a store of one thread.
KVOK ==
    /\ KeyRanges \in Seq(Int \X Int) /\ KeyRanges # <<>>
    /\ \A s, t \in Servers : s < t => KeyRanges[s][2] <= KeyRanges[t][1]
    /\ \A k \in Keys : \E s \in Servers : KeyRanges[s][1] <= k /\ k < KeyRanges[s][2]
    /\ \A st \in Stores : st[2] \in Nat \ {0} /\ (st[1] = "difacto" => st[2] = 1)
    /\ Batches \subseteq Seq(Keys) /\ \A keys \in Batches : Ascending(keys)
    /\ Dim \in Nat /\ Thr \in Int

NoEntry == [cnt |-> 0, size |-> 1, w |-> 0]
NoStats == [w |-> 0, v |-> 0, ct |-> 0]
NoModel == <<-1>>
Dynamic == app = "difacto"
-----------------------------------------------------------------------------
(* Stores.  With several threads a message of fixed-size values is cut at  *)
(* the borders of the buckets and every thread has one of them; values of  *)
(* dynamic size are all in the first bucket.                               *)

ServerOf(k) == CHOOSE s \in Servers : KeyRanges[s][1] <= k /\ k < KeyRanges[s][2]
BucketSize(s) == (KeyRanges[s][2] - KeyRanges[s][1] - 1) \div nt + 1

\* SliceKey: the bucket whose thread handles the key
SliceKey(s, k) ==
    CHOOSE i \in Buckets :
        /\ i > 0 => k >= KeyRanges[s][1] + BucketSize(s) * i
        /\ i < nt - 1 => k < KeyRanges[s][1] + BucketSize(s) * (i + 1)

\* GetValue, used by Load
GetValue(s, k) == (k - KeyRanges[s][1]) \div BucketSize(s)

\* where HandlePush and HandlePull find the entry
BucketOf(k) == IF Dynamic THEN 0 ELSE SliceKey(ServerOf(k), k)
Entry(k) == data[BucketOf(k)][k]
-----------------------------------------------------------------------------
(* Handles                                                                 *)

\* AdaGradHandle::Resize
Resize(e) ==
    IF Dynamic /\ e.cnt > Thr /\ e.size < Dim + 1 /\ (~shrink \/ e.w # 0) THEN [e EXCEPT !.size = Dim + 1] ELSE e

\* Push of a count (counts above the threshold are not told apart)
PushCount(e) == Resize([e EXCEPT !.cnt = IF @ <= Thr THEN @ + 1 ELSE @])

\* What SGDHandle, AdaGradHandle and FTRLHandle of linear, and UpdateW of difacto, may make of a
\* weight: L1L2::Solve and the shrinkage make it zero or not.
NewWeights == {0, 1}

\* mutant of PushGrad: a weight that becomes zero loses its vector
MutPushGrad(e, w) ==
    LET n == [e EXCEPT !.w = w] IN IF e.w = 0 /\ w # 0 THEN Resize(n) ELSE [n EXCEPT !.size = IF w = 0 THEN 1 ELSE @]

\* Push of a gradient: UpdateW, and the handles of linear; w: the weight it ends with
PushGrad(e, w) ==
    LET n == [e EXCEPT !.w = w] IN IF e.w = 0 /\ w # 0 THEN Resize(n) ELSE n

\* Pull: how many numbers of the entry are sent
PullSize(e) == IF e.size = 1 \/ (shrink /\ e.w = 0) THEN 1 ELSE e.size

Nonzero(e) == IF e.w # 0 THEN 1 ELSE 0
Gain(old, new) == [w |-> Nonzero(new) - Nonzero(old), v |-> new.size - old.size]

\* mutant of Finish: what was reported is counted again
MutFinish(s, gain) ==
    LET now == [w |-> stats[s].w + gain.w, v |-> stats[s].v + gain.v, ct |-> stats[s].ct + 1]
    IN  IF now.ct >= Len(KeyRanges)
        THEN /\ stats' = [stats EXCEPT ![s] = [now EXCEPT !.ct = 0]]
             /\ reported' = [w |-> reported.w + now.w, v |-> reported.v + now.v]
        ELSE stats' = [stats EXCEPT ![s] = now] /\ UNCHANGED reported

\* Finish and Report: after as many requests as there are servers
Finish(s, gain) ==
    LET now == [w |-> stats[s].w + gain.w, v |-> stats[s].v + gain.v, ct |-> stats[s].ct + 1]
    IN  IF now.ct >= Len(KeyRanges)
        THEN /\ stats' = [stats EXCEPT ![s] = NoStats]
             /\ reported' = [w |-> reported.w + now.w, v |-> reported.v + now.v]
        ELSE stats' = [stats EXCEPT ![s] = now] /\ UNCHANGED reported

Sum(s) == LET upTo[i \in 0 .. Len(s)] == IF i = 0 THEN 0 ELSE upTo[i - 1] + s[i] IN upTo[Len(s)]
SumKeys(f) == Sum([i \in 1 .. Cardinality(Keys) |-> f[KeyRanges[1][1] + i - 1]])
-----------------------------------------------------------------------------
(* Workers                                                                 *)

Idle(r) == [pc |-> "idle", keys |-> <<>>, sizes |-> <<>>, matched |-> 0, recv |-> <<>>, vals |-> <<>>, acks |-> 0,
            round |-> r]

\* The values of keys with these sizes, one after the other
Values(keys, sizes) == FlattenSeq([i \in DOMAIN keys |-> [j \in 1 .. sizes[i] |-> <<keys[i], j>>]])

LowerBound(keys, v) == Cardinality({i \in DOMAIN keys : keys[i] < v})

\* SliceMessage: the keys of the range, with their part of the values.  A slice without keys is
\* not valid, and not sent.
Slice(keys, sizes, s) ==
    LET from == LowerBound(keys, KeyRanges[s][1]) + 1
        to == LowerBound(keys, KeyRanges[s][2])
    IN  [keys |-> SubSeq(keys, from, to), sizes |-> IF sizes = <<>> THEN <<>> ELSE SubSeq(sizes, from, to)]

Request(kind, slice) == [kind |-> kind, keys |-> slice.keys, sizes |-> slice.sizes]
SendTo(w, keys, sizes, kinds) ==
    chan' = [chan EXCEPT ![w] = [s \in Servers |->
        LET sl == Slice(keys, sizes, s)
        IN  IF sl.keys = <<>> THEN @[s] ELSE @[s] \o [i \in DOMAIN kinds |-> Request(kinds[i], sl)]]]

\* ProcessMinibatch: difacto pushes the counts and then pulls; linear pulls.  The pull of a server
\* comes after the counts it got.
StartMinibatch(w, ks) ==
    /\ kv[w].pc = "idle" /\ kv[w].round < MaxRounds
    /\ SendTo(w, ks, <<>>, IF Dynamic THEN <<"count", "pull">> ELSE <<"pull">>)
    /\ kv' = [kv EXCEPT ![w] = [Idle(kv[w].round + 1) EXCEPT !.pc = "pull", !.keys = ks,
                                                              !.sizes = [i \in DOMAIN ks |-> 0]]]
    /\ UNCHANGED <<app, nt, shrink, data, stats, reported, raced, resps, file>>

\* ProcessResponse of KVCache: sizes are matched by key; when all keys have come the values are
\* put together in the order of the first keys of the responses.  Values of a fixed size go to
\* the same places in the code without sizes: here each size is 1.
ProcessResponse(r) ==
    /\ r \in resps /\ resps' = resps \ {r}
    /\ LET k == kv[r.worker]
           sizes == [i \in DOMAIN k.keys |->
                       IF \E j \in DOMAIN r.keys : r.keys[j] = k.keys[i]
                       THEN r.sizes[CHOOSE j \in DOMAIN r.keys : r.keys[j] = k.keys[i]] ELSE k.sizes[i]]
           matched == k.matched + Len(r.keys)
           recv == [first \in DOMAIN k.recv \cup {r.keys[1]} |-> IF first = r.keys[1] THEN r.vals ELSE k.recv[first]]
           parts == [i \in DOMAIN k.keys |-> IF k.keys[i] \in DOMAIN recv THEN recv[k.keys[i]] ELSE <<>>]
       IN  kv' = [kv EXCEPT ![r.worker] =
                    IF matched # Len(k.keys) THEN [k EXCEPT !.sizes = sizes, !.matched = matched, !.recv = recv]
                    ELSE [k EXCEPT !.sizes = sizes, !.matched = matched, !.recv = <<>>, !.pc = "pulled",
                                   !.vals = FlattenSeq(parts)]]
    /\ UNCHANGED <<app, nt, shrink, data, stats, reported, raced, chan, file>>

\* the callback of the pull: the gradients have the sizes of what was pulled
PushGradients(w) ==
    /\ kv[w].pc = "pulled"
    /\ SendTo(w, kv[w].keys, kv[w].sizes, <<"push">>)
    /\ kv' = [kv EXCEPT ![w].pc = "push",
                        ![w].acks = Cardinality({s \in Servers : Slice(kv[w].keys, <<>>, s).keys # <<>>})]
    /\ UNCHANGED <<app, nt, shrink, data, stats, reported, raced, resps, file>>
-----------------------------------------------------------------------------
(* ProcessRequest of a server, for the first request of a worker           *)

\* new_w is a plain integer that the threads of a store count up and down: of changes made at once
\* only the last one written counts.  Those of one thread all count.
Counts(changed) ==
    {counted \in SUBSET changed : \A k \in changed \ counted : \E j \in counted : BucketOf(j) # BucketOf(k)}

\* The entries of the keys of m become the ones in new, and new_w and new_V are counted.
Update(s, m, new) ==
    LET now == [k \in Keys |-> IF k \in ToSet(m.keys) THEN new[k] ELSE Entry(k)]
        gain == [k \in Keys |-> Gain(Entry(k), now[k])]
        changed == {k \in Keys : gain[k].w # 0}
    IN  /\ data' = [b \in Buckets |-> [k \in Keys |-> IF BucketOf(k) = b THEN now[k] ELSE data[b][k]]]
        /\ raced' = (raced \/ \E j, k \in changed : BucketOf(j) # BucketOf(k))
        /\ \E counted \in Counts(changed) :
              Finish(s, [w |-> SumKeys([k \in Keys |-> IF k \in counted THEN gain[k].w ELSE 0]),
                         v |-> SumKeys([k \in Keys |-> gain[k].v])])

Take(w, s) == chan' = [chan EXCEPT ![w][s] = Tail(@)]

\* HandlePush
HandleCount(w, s) ==
    /\ chan[w][s] # <<>> /\ Head(chan[w][s]).kind = "count" /\ Take(w, s)
    /\ Update(s, Head(chan[w][s]), [k \in ToSet(Head(chan[w][s]).keys) |-> PushCount(Entry(k))])
    /\ UNCHANGED <<app, nt, shrink, resps, kv, file>>

Fits(m) == \A i \in DOMAIN m.keys : m.sizes[i] <= Entry(m.keys[i]).size
HandlePush(w, s) ==
    /\ chan[w][s] # <<>> /\ Head(chan[w][s]).kind = "push" /\ Take(w, s)
    /\ Fits(Head(chan[w][s]))
    /\ \E nw \in [ToSet(Head(chan[w][s]).keys) -> NewWeights] :
          Update(s, Head(chan[w][s]), [k \in DOMAIN nw |-> PushGrad(Entry(k), nw[k])])
    /\ kv' = [kv EXCEPT ![w] = IF @.acks = 1 THEN Idle(@.round) ELSE [@ EXCEPT !.acks = kv[w].acks - 1]]
    /\ UNCHANGED <<app, nt, shrink, resps, file>>

\* HandlePull: the values one after the other, and their sizes
HandlePull(w, s) ==
    /\ chan[w][s] # <<>> /\ Head(chan[w][s]).kind = "pull" /\ Take(w, s)
    /\ LET ks == Head(chan[w][s]).keys
           sizes == [i \in DOMAIN ks |-> PullSize(Entry(ks[i]))]
       IN  /\ resps' = resps \cup {[worker |-> w, keys |-> ks, sizes |-> sizes,
                                    vals |-> Values(ks, sizes)]}
           /\ Finish(s, [w |-> 0, v |-> 0])
    /\ UNCHANGED <<app, nt, shrink, data, raced, kv, file>>
-----------------------------------------------------------------------------
(* SaveModel and LoadModel                                                 *)

Empty(e) == e.w = 0 /\ e.size = 1

\* One step: the scheduler sends the command between passes, when the workers have no part left
\* (QuietWhenFinished), so that only a straggler's requests could come while the buckets are written.
Save ==
    /\ file = NoModel
    /\ file' = [b \in Buckets |-> [k \in Keys |-> data[b][k]]]
    /\ UNCHANGED <<app, nt, shrink, data, stats, reported, raced, chan, resps, kv>>

\* mutant of Loaded: the vectors are not saved
MutLoaded(k) ==
    LET there == {b \in Buckets : ~Empty(file[b][k])}
    IN  IF there = {} THEN NoEntry ELSE [file[CHOOSE b \in there : TRUE][k] EXCEPT !.size = 1]

\* what is saved of an entry that is not empty, as it is loaded: all but the count
Loaded(k) ==
    LET there == {b \in Buckets : ~Empty(file[b][k])}
    IN  IF there = {} THEN NoEntry ELSE [file[CHOOSE b \in there : TRUE][k] EXCEPT !.cnt = 0]

\* A new job with a saved model, at any time after all workers have had a minibatch: LoadModel
\* reports what was loaded.
Restart ==
    /\ file # NoModel /\ \A w \in Workers : kv[w].round > 0
    /\ data' = [b \in Buckets |-> [k \in Keys |-> IF GetValue(ServerOf(k), k) = b THEN Loaded(k) ELSE NoEntry]]
    /\ reported' = [w |-> SumKeys([k \in Keys |-> Nonzero(Loaded(k))]),
                    v |-> SumKeys([k \in Keys |-> Loaded(k).size - 1])]
    /\ stats' = [s \in Servers |-> NoStats] /\ raced' = FALSE
    /\ chan' = [w \in Workers |-> [s \in Servers |-> <<>>]]
    /\ resps' = {} /\ kv' = [w \in Workers |-> Idle(MaxRounds - 1)]
    /\ UNCHANGED <<app, nt, shrink, file>>
-----------------------------------------------------------------------------
KVInit ==
    /\ \E st \in Stores : app = st[1] /\ nt = st[2]
    /\ shrink \in IF Dynamic THEN BOOLEAN ELSE {FALSE}
    /\ data = [b \in Buckets |-> [k \in Keys |-> NoEntry]]
    /\ stats = [s \in Servers |-> NoStats] /\ reported = [w |-> 0, v |-> 0] /\ raced = FALSE
    /\ chan = [w \in Workers |-> [s \in Servers |-> <<>>]]
    /\ resps = {} /\ kv = [w \in Workers |-> Idle(0)] /\ file = NoModel

KVNext ==
    \/ \E w \in Workers : (\E ks \in Batches : StartMinibatch(w, ks)) \/ PushGradients(w)
    \/ \E w \in Workers, s \in Servers : HandleCount(w, s) \/ HandlePush(w, s) \/ HandlePull(w, s)
    \/ \E r \in resps : ProcessResponse(r)
    \/ Save \/ Restart
-----------------------------------------------------------------------------
\* A worker that got all responses, in whatever order, has the values of each key in the place
\* the sizes say; the gradients it then pushes fit the entries, although other workers may have
\* changed them in between.
PullsRight ==
    /\ \A w \in Workers : kv[w].pc = "pulled" => kv[w].vals = Values(kv[w].keys, kv[w].sizes)
    /\ \A w \in Workers, s \in Servers :
          chan[w][s] # <<>> /\ Head(chan[w][s]).kind = "push" => Fits(Head(chan[w][s]))

\* What the servers have reported, with what they have not reported yet, is the size of all vectors,
\* also after a model was loaded; and the number of weights that are not zero, unless two threads of
\* a store changed new_w for the same request: then changes may be lost.
CountsRight ==
    /\ ~raced => reported.w + Sum([s \in Servers |-> stats[s].w]) = SumKeys([k \in Keys |-> Nonzero(Entry(k))])
    /\ reported.v + Sum([s \in Servers |-> stats[s].v]) = SumKeys([k \in Keys |-> Entry(k).size - 1])

\* After a restart every weight and vector that was saved is served, until it is changed.
ModelServed ==
    [][Restart => \A k \in Keys : /\ Entry(k)'.w = file[BucketOf(k)][k].w
                                  /\ Entry(k)'.size = file[BucketOf(k)][k].size]_kvVars
=============================================================================
