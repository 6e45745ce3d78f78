---------------------- MODULE ApplicationMasterProofs ----------------------
(***************************************************************************)
(* The application master loses no task and no container: for any number   *)
(* of tasks, attempts and containers, and lists of any length.             *)
(***************************************************************************)
EXTENDS ApplicationMaster, FiniteSetTheorems, SequenceTheorems, WellFoundedInduction, TLAPS

Spec == LaunchInit /\ [][LaunchNext]_amVars

-----------------------------------------------------------------------------
(***************************************************************************)
(* Induction, on the least number a set has.                               *)
(***************************************************************************)
LEMMA Least == \A T \in SUBSET Nat : T # {} => \E m \in T : \A y \in T : m <= y
<1>1. TAKE T \in SUBSET Nat
<1>2. HAVE T # {}
<1>3. PICK m \in T : \A y \in T : ~(<<y, m>> \in OpToRel(<, Nat))
  BY <1>2, WFMin, NatLessThanWellFounded, Zenon
<1>4. m \in Nat /\ \A y \in T : y \in Nat /\ ~(y < m)
  BY <1>3 DEF OpToRel
<1>5. \A y \in T : m <= y
  BY <1>4
<1>. QED  BY <1>3, <1>5

LEMMA Induction ==
    ASSUME NEW T, 0 \in T, \A n \in Nat : n \in T => n + 1 \in T
    PROVE  Nat \subseteq T
<1>1. SUFFICES ASSUME Nat \ T # {} PROVE FALSE
  OBVIOUS
<1>2. PICK m \in Nat \ T : \A y \in Nat \ T : m <= y
  BY <1>1, Least
<1>3. m # 0 /\ m - 1 \in Nat /\ m - 1 \in T
  BY <1>2
<1>. QED  BY <1>2, <1>3

-----------------------------------------------------------------------------
(***************************************************************************)
(* The three loops.                                                        *)
(***************************************************************************)
Body(k, a, c) ==
    IF k = "fail" THEN FailTask(a, c) ELSE IF k = "complete" THEN CompleteContainer(a, c) ELSE Allocate(a, c)

IsLoop(f, k, a, cs, n) == f = [i \in 0 .. n |-> IF i = 0 THEN a ELSE Body(k, f[i - 1], cs[i])]

\* A loop can be run for any number of steps.
LEMMA LoopRuns == \A k, a, cs : \A n \in Nat : \E f : IsLoop(f, k, a, cs, n)
<1>1. SUFFICES ASSUME NEW k, NEW a, NEW cs PROVE \A n \in Nat : \E f : IsLoop(f, k, a, cs, n)
  OBVIOUS
<1>. DEFINE T == {n \in Nat : \E f : IsLoop(f, k, a, cs, n)}
<1>2. 0 \in T
  <2>. DEFINE f == [i \in 0 .. 0 |-> a]
  <2>1. f = [i \in 0 .. 0 |-> IF i = 0 THEN a ELSE Body(k, f[i - 1], cs[i])]
    OBVIOUS
  <2>. QED  BY <2>1 DEF IsLoop
<1>3. ASSUME NEW n \in Nat, n \in T PROVE n + 1 \in T
  <2>1. PICK f : IsLoop(f, k, a, cs, n)
    BY <1>3
  <2>. DEFINE g == [i \in 0 .. n + 1 |-> IF i = n + 1 THEN Body(k, f[n], cs[n + 1]) ELSE f[i]]
              h == [i \in 0 .. n + 1 |-> IF i = 0 THEN a ELSE Body(k, g[i - 1], cs[i])]
  <2>2. ASSUME NEW i \in 0 .. n + 1 PROVE g[i] = h[i]
    <3>1. CASE i = 0
      BY <2>1, <3>1 DEF IsLoop
    <3>2. CASE i = n + 1
      BY <3>2
    <3>3. CASE i # 0 /\ i # n + 1
      <4>1. i \in 0 .. n /\ i - 1 \in 0 .. n /\ i - 1 # n + 1 /\ i - 1 \in 0 .. n + 1
        BY <3>3
      <4>2. f[i] = Body(k, f[i - 1], cs[i]) /\ g[i] = f[i] /\ g[i - 1] = f[i - 1]
        BY <2>1, <3>3, <4>1 DEF IsLoop
      <4>. QED  BY <3>3, <4>2
    <3>. QED  BY <3>1, <3>2, <3>3
  <2>3. g = h
    BY <2>2
  <2>4. IsLoop(g, k, a, cs, n + 1)
    BY <2>3 DEF IsLoop
  <2>. QED  BY <2>4
<1>4. Nat \subseteq T
  <2>. HIDE DEF T
  <2>. QED  BY <1>2, <1>3, Induction
<1>. QED  BY <1>4

Loop(k, a, cs) == CHOOSE f : IsLoop(f, k, a, cs, Len(cs))

LEMMA Loops ==
    ASSUME NEW k, NEW a, NEW cs, Len(cs) \in Nat
    PROVE  /\ Loop(k, a, cs)[0] = a
           /\ \A i \in 1 .. Len(cs) : Loop(k, a, cs)[i] = Body(k, Loop(k, a, cs)[i - 1], cs[i])
<1>1. PICK f : f = Loop(k, a, cs)
  OBVIOUS
<1>2. IsLoop(f, k, a, cs, Len(cs))
  BY <1>1, LoopRuns DEF Loop
<1>. QED  BY <1>1, <1>2 DEF IsLoop

LEMMA ForEachLoops ==
    ASSUME NEW a, NEW cs
    PROVE  /\ ForEach(FailTask, a, cs) = Loop("fail", a, cs)[Len(cs)]
           /\ ForEach(CompleteContainer, a, cs) = Loop("complete", a, cs)[Len(cs)]
           /\ ForEach(Allocate, a, cs) = Loop("allocate", a, cs)[Len(cs)]
  BY DEF ForEach, Loop, IsLoop, Body

-----------------------------------------------------------------------------
(***************************************************************************)
(* What holds of the tables, also in the middle of a loop: a task is in    *)
(* one place, at one position.                                             *)
(***************************************************************************)
Vals(f) == {f[i] : i \in DOMAIN f}
Once(f) == \A i, j \in DOMAIN f : f[i] = f[j] => i = j
In(x, S) == IF x \in S THEN 1 ELSE 0

Fields == {"pending", "running", "finished", "killed", "attempt", "abort", "stop", "requests", "failed", "tasks",
           "returned"}

TablesOK(a) ==
    /\ DOMAIN a = Fields
    /\ a.pending \in Seq(Task) /\ a.tasks \in Seq(Task) /\ a.failed \in Seq(Container)
    /\ DOMAIN a.running \subseteq Container /\ Vals(a.running) \subseteq Task
    /\ a.finished \in [Task -> Nat] /\ a.killed \in [Task -> Nat] /\ DOMAIN a.attempt = Task
    /\ a.stop \subseteq Container

Conserved(a) ==
    /\ Once(a.pending) /\ Once(a.running) /\ Once(a.tasks)
    /\ \A t \in Task :
          In(t, Vals(a.pending)) + In(t, Vals(a.running)) + In(t, Vals(a.tasks)) + a.finished[t] + a.killed[t] = 1

\* A container that has a task was started for it; one that may still work is known or was stopped.
Served(a) ==
    /\ \A c \in DOMAIN a.running : container[c].state \notin {"none", "idle"} /\ container[c].task = a.running[c]
    /\ \A c \in Container : container[c].state \in {"starting", "up"} => c \in a.stop \/ c \in DOMAIN a.running

\* A finished task had a container that succeeded, among those in R.
Succeeded(a, R) ==
    \A t \in Task : a.finished[t] # 0 => \E c \in R : container[c] = [state |-> "success", task |-> t]

Good(a, R) == TablesOK(a) /\ Conserved(a) /\ Served(a) /\ Succeeded(a, R)

\* In a list without repetitions a value is once or not at all.
LEMMA CountOnce ==
    ASSUME NEW f, Once(f), NEW t
    PROVE  Cardinality({i \in DOMAIN f : f[i] = t}) = In(t, Vals(f))
<1>1. CASE t \in Vals(f)
  <2>1. PICK i \in DOMAIN f : f[i] = t
    BY <1>1 DEF Vals
  <2>2. {j \in DOMAIN f : f[j] = t} = {i}
    BY <2>1 DEF Once
  <2>. QED  BY <1>1, <2>2, FS_Singleton DEF In
<1>2. CASE t \notin Vals(f)
  <2>1. {j \in DOMAIN f : f[j] = t} = {}
    BY <1>2 DEF Vals
  <2>. QED  BY <1>2, <2>1, FS_EmptySet DEF In
<1>. QED  BY <1>1, <1>2

LEMMA NoVals == Vals(<< >>) = {} /\ Once(<< >>) /\ DOMAIN << >> = {}
  BY DEF Vals, Once

\* Lists and tables that get longer or shorter.
LEMMA AppendVals ==
    ASSUME NEW S, NEW q \in Seq(S), NEW x \in S, Once(q), x \notin Vals(q)
    PROVE  Append(q, x) \in Seq(S) /\ Once(Append(q, x)) /\ Vals(Append(q, x)) = Vals(q) \cup {x}
<1>1. /\ Append(q, x) \in Seq(S) /\ DOMAIN Append(q, x) = 1 .. Len(q) + 1 /\ DOMAIN q = 1 .. Len(q) /\ Len(q) \in Nat
      /\ Append(q, x)[Len(q) + 1] = x /\ \A i \in 1 .. Len(q) : Append(q, x)[i] = q[i]
  OBVIOUS
<1>2. Once(Append(q, x))
  BY <1>1 DEF Once, Vals
<1>3. Vals(Append(q, x)) = Vals(q) \cup {x}
  <2>1. \A i \in 1 .. Len(q) + 1 : i \in 1 .. Len(q) \/ i = Len(q) + 1
    BY <1>1
  <2>2. \A i \in 1 .. Len(q) : i \in 1 .. Len(q) + 1
    BY <1>1
  <2>3. Len(q) + 1 \in 1 .. Len(q) + 1
    BY <1>1
  <2>. QED  BY <1>1, <2>1, <2>2, <2>3 DEF Vals
<1>. QED  BY <1>1, <1>2, <1>3

LEMMA TailVals ==
    ASSUME NEW S, NEW q \in Seq(S), q # << >>, Once(q)
    PROVE  /\ Tail(q) \in Seq(S) /\ Once(Tail(q)) /\ Head(q) \in S
           /\ Head(q) \notin Vals(Tail(q)) /\ Vals(q) = Vals(Tail(q)) \cup {Head(q)}
<1>1. /\ Tail(q) \in Seq(S) /\ Len(q) \in Nat \ {0} /\ DOMAIN Tail(q) = 1 .. Len(q) - 1 /\ DOMAIN q = 1 .. Len(q)
      /\ Head(q) = q[1] /\ Head(q) \in S /\ \A i \in 1 .. Len(q) - 1 : Tail(q)[i] = q[i + 1]
  OBVIOUS
<1>2. \A i \in 1 .. Len(q) - 1 : i + 1 \in 1 .. Len(q) /\ i + 1 # 1
  BY <1>1
<1>3. \A i \in 1 .. Len(q) : i = 1 \/ (i - 1 \in 1 .. Len(q) - 1 /\ (i - 1) + 1 = i)
  BY <1>1
<1>4. 1 \in 1 .. Len(q)
  BY <1>1
<1>5. Once(Tail(q))
  BY <1>1, <1>2 DEF Once
<1>6. Head(q) \notin Vals(Tail(q))
  BY <1>1, <1>2, <1>4 DEF Once, Vals
<1>7. Vals(q) = Vals(Tail(q)) \cup {Head(q)}
  <2>1. ASSUME NEW i \in 1 .. Len(q) PROVE q[i] \in Vals(Tail(q)) \cup {Head(q)}
    <3>1. CASE i = 1
      BY <1>1, <3>1
    <3>2. CASE i # 1
      <4>1. i - 1 \in DOMAIN Tail(q) /\ Tail(q)[i - 1] = q[i]
        BY <1>1, <1>3, <3>2
      <4>. QED  BY <4>1 DEF Vals
    <3>. QED  BY <3>1, <3>2
  <2>2. ASSUME NEW i \in 1 .. Len(q) - 1 PROVE Tail(q)[i] \in Vals(q)
    BY <1>1, <1>2 DEF Vals
  <2>3. Head(q) \in Vals(q)
    BY <1>1, <1>4 DEF Vals
  <2>. QED  BY <1>1, <2>1, <2>2, <2>3 DEF Vals
<1>. QED  BY <1>1, <1>5, <1>6, <1>7

LEMMA ConcatVals ==
    ASSUME NEW S, NEW q \in Seq(S), NEW r \in Seq(S), Once(q), Once(r), Vals(q) \cap Vals(r) = {}
    PROVE  q \o r \in Seq(S) /\ Once(q \o r) /\ Vals(q \o r) = Vals(q) \cup Vals(r)
<1>1. /\ q \o r \in Seq(S) /\ Len(q) \in Nat /\ Len(r) \in Nat /\ DOMAIN (q \o r) = 1 .. Len(q) + Len(r)
      /\ DOMAIN q = 1 .. Len(q) /\ DOMAIN r = 1 .. Len(r)
      /\ \A i \in 1 .. Len(q) + Len(r) : (q \o r)[i] = IF i <= Len(q) THEN q[i] ELSE r[i - Len(q)]
  OBVIOUS
<1>2. \A i \in 1 .. Len(q) + Len(r) : i \in 1 .. Len(q) \/ (~(i <= Len(q)) /\ i - Len(q) \in 1 .. Len(r))
  BY <1>1
<1>3. \A i \in 1 .. Len(q) : i \in 1 .. Len(q) + Len(r) /\ i <= Len(q)
  BY <1>1
<1>4. \A i \in 1 .. Len(r) : i + Len(q) \in 1 .. Len(q) + Len(r) /\ ~(i + Len(q) <= Len(q)) /\ (i + Len(q)) - Len(q) = i
  BY <1>1
<1>5. \A i \in 1 .. Len(q) : (q \o r)[i] = q[i]
  BY <1>1, <1>3
<1>6. \A i \in 1 .. Len(r) : (q \o r)[i + Len(q)] = r[i]
  BY <1>1, <1>4
<1>7. Vals(q \o r) = Vals(q) \cup Vals(r)
  <2>1. ASSUME NEW x \in Vals(q \o r) PROVE x \in Vals(q) \cup Vals(r)
    BY <1>1, <1>2, <2>1 DEF Vals
  <2>2. ASSUME NEW x \in Vals(q) PROVE x \in Vals(q \o r)
    BY <1>1, <1>3, <1>5, <2>2 DEF Vals
  <2>3. ASSUME NEW x \in Vals(r) PROVE x \in Vals(q \o r)
    BY <1>1, <1>4, <1>6, <2>3 DEF Vals
  <2>. QED  BY <2>1, <2>2, <2>3
<1>8. Once(q \o r)
  <2>1. SUFFICES ASSUME NEW i \in DOMAIN (q \o r), NEW j \in DOMAIN (q \o r), (q \o r)[i] = (q \o r)[j] PROVE i = j
    BY DEF Once
  <2>2. CASE i <= Len(q) /\ j <= Len(q)
    <3>1. i \in DOMAIN q /\ j \in DOMAIN q /\ q[i] = q[j]
      BY <1>1, <1>2, <2>1, <2>2
    <3>. QED  BY <3>1 DEF Once
  <2>3. CASE ~(i <= Len(q)) /\ ~(j <= Len(q))
    <3>1. i - Len(q) \in DOMAIN r /\ j - Len(q) \in DOMAIN r /\ r[i - Len(q)] = r[j - Len(q)]
      BY <1>1, <1>2, <2>1, <2>3
    <3>2. i - Len(q) = j - Len(q)
      BY <3>1 DEF Once
    <3>. QED  BY <1>1, <3>2
  <2>4. CASE i <= Len(q) /\ ~(j <= Len(q))
    <3>1. q[i] \in Vals(q) /\ r[j - Len(q)] \in Vals(r) /\ q[i] = r[j - Len(q)]
      BY <1>1, <1>2, <2>1, <2>4 DEF Vals
    <3>. QED  BY <3>1
  <2>5. CASE ~(i <= Len(q)) /\ j <= Len(q)
    <3>1. r[i - Len(q)] \in Vals(r) /\ q[j] \in Vals(q) /\ r[i - Len(q)] = q[j]
      BY <1>1, <1>2, <2>1, <2>5 DEF Vals
    <3>. QED  BY <3>1
  <2>. QED  BY <2>2, <2>3, <2>4, <2>5
<1>. QED  BY <1>1, <1>7, <1>8

LEMMA WithoutVals ==
    ASSUME NEW f, NEW c \in DOMAIN f, Once(f)
    PROVE  /\ DOMAIN Without(f, c) = DOMAIN f \ {c} /\ \A d \in DOMAIN f \ {c} : Without(f, c)[d] = f[d]
           /\ Once(Without(f, c)) /\ f[c] \in Vals(f) /\ Vals(Without(f, c)) = Vals(f) \ {f[c]}
  BY DEF Without, Once, Vals

-----------------------------------------------------------------------------
(***************************************************************************)
(* The helpers of the callbacks keep the tables good.                      *)
(***************************************************************************)
LEMMA CountTasks ==
    ASSUME NEW table \in [Task -> Nat], NEW ts, Once(ts)
    PROVE  /\ Count(table, ts) \in [Task -> Nat]
           /\ \A t \in Task : Count(table, ts)[t] = table[t] + In(t, Vals(ts))
<1>1. \A t \in Task : Count(table, ts)[t] = table[t] + In(t, Vals(ts))
  BY CountOnce DEF Count
<1>2. \A t \in Task : In(t, Vals(ts)) \in Nat
  BY DEF In
<1>. QED  BY <1>1, <1>2 DEF Count

LEMMA AbortFields ==
    ASSUME NEW a, TablesOK(a), Conserved(a)
    PROVE  /\ DOMAIN AbortJob(a) = Fields /\ AbortJob(a).pending = << >> /\ AbortJob(a).running = << >>
           /\ AbortJob(a).tasks = a.tasks /\ AbortJob(a).failed = a.failed
           /\ AbortJob(a).finished = a.finished /\ AbortJob(a).attempt = a.attempt
           /\ AbortJob(a).stop = a.stop \cup DOMAIN a.running
           /\ AbortJob(a).killed \in [Task -> Nat]
           /\ \A t \in Task : AbortJob(a).killed[t] = a.killed[t] + In(t, Vals(a.running)) + In(t, Vals(a.pending))
<1>1. /\ DOMAIN AbortJob(a) = Fields /\ AbortJob(a).pending = << >> /\ AbortJob(a).running = << >>
      /\ AbortJob(a).tasks = a.tasks /\ AbortJob(a).failed = a.failed
      /\ AbortJob(a).finished = a.finished /\ AbortJob(a).attempt = a.attempt
      /\ AbortJob(a).stop = a.stop \cup DOMAIN a.running
      /\ AbortJob(a).killed = [t \in Task |-> a.killed[t] + Cardinality({c \in DOMAIN a.running : a.running[c] = t})
                                                         + Cardinality({i \in DOMAIN a.pending : a.pending[i] = t})]
  BY DEF AbortJob, TablesOK, Fields
<1>2. \A t \in Task : /\ Cardinality({c \in DOMAIN a.running : a.running[c] = t}) = In(t, Vals(a.running))
                      /\ Cardinality({i \in DOMAIN a.pending : a.pending[i] = t}) = In(t, Vals(a.pending))
  BY CountOnce DEF Conserved
<1>3. \A t \in Task : AbortJob(a).killed[t] = a.killed[t] + In(t, Vals(a.running)) + In(t, Vals(a.pending))
  BY <1>1, <1>2
<1>4. \A t \in Task : a.killed[t] \in Nat /\ In(t, Vals(a.running)) \in Nat /\ In(t, Vals(a.pending)) \in Nat
  BY DEF TablesOK, In
<1>5. AbortJob(a).killed \in [Task -> Nat]
  BY <1>1, <1>2, <1>4
<1>. QED  BY <1>1, <1>3, <1>5

\* abortJob moves all tasks that wait or run to killedTasks and stops what runs.
LEMMA AbortGood ==
    ASSUME NEW a, NEW R, Good(a, R)
    PROVE  Good(AbortJob(a), R)
<1>1. PICK b : b = AbortJob(a)
  OBVIOUS
<1>2. /\ DOMAIN b = Fields /\ b.pending = << >> /\ b.running = << >>
      /\ b.tasks = a.tasks /\ b.failed = a.failed /\ b.finished = a.finished /\ b.attempt = a.attempt
      /\ b.stop = a.stop \cup DOMAIN a.running /\ b.killed \in [Task -> Nat]
      /\ \A t \in Task : b.killed[t] = a.killed[t] + In(t, Vals(a.running)) + In(t, Vals(a.pending))
  BY <1>1, AbortFields DEF Good
<1>3. << >> \in Seq(Task)
  OBVIOUS
<1>4. TablesOK(b)
  BY <1>2, <1>3, NoVals DEF Good, TablesOK
<1>5. Conserved(b)
  <2>1. Once(b.pending) /\ Once(b.running) /\ Once(b.tasks)
    BY <1>2, NoVals DEF Good, Conserved
  <2>2. ASSUME NEW t \in Task
        PROVE  In(t, Vals(b.pending)) + In(t, Vals(b.running)) + In(t, Vals(b.tasks)) + b.finished[t] + b.killed[t] = 1
    <3>1. In(t, Vals(b.pending)) = 0 /\ In(t, Vals(b.running)) = 0 /\ In(t, Vals(b.tasks)) = In(t, Vals(a.tasks))
      BY <1>2, NoVals DEF In
    <3>2. In(t, Vals(a.pending)) + In(t, Vals(a.running)) + In(t, Vals(a.tasks)) + a.finished[t] + a.killed[t] = 1
      BY DEF Good, Conserved
    <3>3. /\ In(t, Vals(a.pending)) \in Nat /\ In(t, Vals(a.running)) \in Nat /\ In(t, Vals(a.tasks)) \in Nat
          /\ a.finished[t] \in Nat /\ a.killed[t] \in Nat
      BY DEF In, Good, TablesOK
    <3>4. b.killed[t] = a.killed[t] + In(t, Vals(a.running)) + In(t, Vals(a.pending)) /\ b.finished[t] = a.finished[t]
      BY <1>2
    <3>. QED  BY <3>1, <3>2, <3>3, <3>4
  <2>. QED  BY <2>1, <2>2 DEF Conserved
<1>6. Served(b)
  BY <1>2, NoVals DEF Good, Served
<1>7. Succeeded(b, R)
  BY <1>2 DEF Good, Succeeded
<1>. QED  BY <1>1, <1>4, <1>5, <1>6, <1>7 DEF Good

\* A task that moves from one place to another is still in one place.
LEMMA Moved ==
    ASSUME NEW a, NEW b, TablesOK(a), TablesOK(b), Conserved(a), Once(b.pending), Once(b.running), Once(b.tasks),
           \A t \in Task : In(t, Vals(b.pending)) + In(t, Vals(b.running)) + In(t, Vals(b.tasks)) + b.finished[t] + b.killed[t]
                           = In(t, Vals(a.pending)) + In(t, Vals(a.running)) + In(t, Vals(a.tasks)) + a.finished[t] + a.killed[t]
    PROVE  Conserved(b)
  BY DEF Conserved

\* handleFailure: the task of a container that has ended waits to be submitted again.
LEMMA FailGood ==
    ASSUME NEW a, NEW R, Good(a, R), NEW c \in Container, Exited(c)
    PROVE  Good(FailTask(a, c), R) /\ FailTask(a, c).failed = a.failed
<1>1. CASE c \notin DOMAIN a.running
  BY <1>1 DEF FailTask
<1>2. CASE c \in DOMAIN a.running
  <2>1. PICK t : t = a.running[c]
    OBVIOUS
  <2>2. PICK b : b = [a EXCEPT !.running = Without(@, c), !.attempt[t] = @ + 1, !.tasks = Append(@, t)]
    OBVIOUS
  <2>3. /\ t \in Task /\ t \in Vals(a.running) /\ a.tasks \in Seq(Task) /\ Once(a.running) /\ Once(a.tasks)
        /\ In(t, Vals(a.pending)) + In(t, Vals(a.running)) + In(t, Vals(a.tasks)) + a.finished[t] + a.killed[t] = 1
        /\ a.finished[t] \in Nat /\ a.killed[t] \in Nat
    BY <1>2, <2>1 DEF Good, TablesOK, Conserved, Vals
  <2>4. t \notin Vals(a.tasks)
    BY <2>3 DEF In
  <2>5. /\ DOMAIN b = Fields /\ b.pending = a.pending /\ b.running = Without(a.running, c) /\ b.tasks = Append(a.tasks, t)
        /\ b.failed = a.failed /\ b.finished = a.finished /\ b.killed = a.killed /\ b.stop = a.stop /\ DOMAIN b.attempt = Task
    BY <2>2, <2>3 DEF Good, TablesOK, Fields
  <2>6. /\ DOMAIN b.running = DOMAIN a.running \ {c} /\ \A d \in DOMAIN a.running \ {c} : b.running[d] = a.running[d]
        /\ Once(b.running) /\ Vals(b.running) = Vals(a.running) \ {t}
    <3>1. Once(a.running)
      BY <2>3
    <3>2. /\ DOMAIN Without(a.running, c) = DOMAIN a.running \ {c}
          /\ \A d \in DOMAIN a.running \ {c} : Without(a.running, c)[d] = a.running[d]
          /\ Once(Without(a.running, c)) /\ Vals(Without(a.running, c)) = Vals(a.running) \ {a.running[c]}
      BY <1>2, <3>1, WithoutVals
    <3>. QED  BY <2>1, <2>5, <3>2
  <2>7. b.tasks \in Seq(Task) /\ Once(b.tasks) /\ Vals(b.tasks) = Vals(a.tasks) \cup {t}
    BY <2>3, <2>4, <2>5, AppendVals
  <2>8. TablesOK(b)
    BY <2>5, <2>6, <2>7 DEF Good, TablesOK
  <2>9. Conserved(b)
    <3>1. ASSUME NEW u \in Task
          PROVE  In(u, Vals(b.running)) + In(u, Vals(b.tasks)) = In(u, Vals(a.running)) + In(u, Vals(a.tasks))
      BY <2>3, <2>4, <2>6, <2>7 DEF In
    <3>2. \A u \in Task : /\ In(u, Vals(a.pending)) \in Nat /\ In(u, Vals(b.running)) \in Nat /\ In(u, Vals(b.tasks)) \in Nat
                          /\ In(u, Vals(a.running)) \in Nat /\ In(u, Vals(a.tasks)) \in Nat
                          /\ a.finished[u] \in Nat /\ a.killed[u] \in Nat
      BY DEF In, Good, TablesOK
    <3>3. \A u \in Task : In(u, Vals(b.pending)) + In(u, Vals(b.running)) + In(u, Vals(b.tasks)) + b.finished[u] + b.killed[u]
                          = In(u, Vals(a.pending)) + In(u, Vals(a.running)) + In(u, Vals(a.tasks)) + a.finished[u] + a.killed[u]
      <4>1. b.pending = a.pending /\ b.finished = a.finished /\ b.killed = a.killed
        BY <2>5
      <4>. QED  BY <3>1, <3>2, <4>1
    <3>. QED  BY <2>5, <2>6, <2>7, <2>8, <3>3, Moved DEF Good, Conserved
  <2>10. Served(b)
    BY <2>5, <2>6 DEF Good, Served, Exited
  <2>11. Succeeded(b, R)
    BY <2>5 DEF Good, Succeeded
  <2>12. Good(b, R)
    BY <2>8, <2>9, <2>10, <2>11 DEF Good
  <2>13. FailTask(a, c) \in {b, AbortJob(b)}
    BY <1>2, <2>1, <2>2 DEF FailTask
  <2>14. Good(AbortJob(b), R) /\ AbortJob(b).failed = a.failed
    BY <2>5, <2>12, AbortGood, AbortFields DEF Good
  <2>. QED  BY <2>5, <2>12, <2>13, <2>14
<1>. QED  BY <1>1, <1>2

\* The loop of handleFailure, and what it does with the tasks of the containers.
LEMMA FailLoop ==
    ASSUME NEW a, NEW R, Good(a, R), NEW cs \in Seq(Container), \A i \in DOMAIN cs : Exited(cs[i])
    PROVE  Good(ForEach(FailTask, a, cs), R) /\ ForEach(FailTask, a, cs).failed = a.failed
<1>1. PICK f : f = Loop("fail", a, cs)
  OBVIOUS
<1>2. Len(cs) \in Nat /\ DOMAIN cs = 1 .. Len(cs) /\ \A i \in 1 .. Len(cs) : cs[i] \in Container
  OBVIOUS
<1>3. f[0] = a /\ \A i \in 1 .. Len(cs) : f[i] = FailTask(f[i - 1], cs[i])
  BY <1>1, <1>2, Loops DEF Body
<1>. DEFINE T == {n \in Nat : n <= Len(cs) => Good(f[n], R) /\ f[n].failed = a.failed}
<1>4. 0 \in T
  BY <1>3
<1>5. ASSUME NEW n \in Nat, n \in T PROVE n + 1 \in T
  <2>1. CASE n + 1 <= Len(cs)
    <3>1. n <= Len(cs) /\ n + 1 \in 1 .. Len(cs) /\ (n + 1) - 1 = n
      BY <1>2, <2>1
    <3>2. Good(f[n], R) /\ f[n].failed = a.failed /\ f[n + 1] = FailTask(f[n], cs[n + 1]) /\ Exited(cs[n + 1]) /\ cs[n + 1] \in Container
      BY <1>2, <1>3, <1>5, <3>1
    <3>3. Good(f[n + 1], R) /\ f[n + 1].failed = a.failed
      BY <3>2, FailGood
    <3>. QED  BY <3>3
  <2>. QED  BY <2>1
<1>6. Nat \subseteq T
  <2>. HIDE DEF T
  <2>. QED  BY <1>4, <1>5, Induction
<1>7. Good(f[Len(cs)], R) /\ f[Len(cs)].failed = a.failed
  BY <1>2, <1>6
<1>. QED  BY <1>1, <1>7, ForEachLoops

LEMMA HandleGood ==
    ASSUME NEW a, NEW R, Good(a, R), NEW cs \in Seq(Container), \A i \in DOMAIN cs : Exited(cs[i])
    PROVE  /\ Good(HandleFailure(a, cs), R) /\ HandleFailure(a, cs).tasks = << >>
           /\ HandleFailure(a, cs).failed = a.failed
<1>1. PICK b : b = ForEach(FailTask, a, cs)
  OBVIOUS
<1>2. Good(b, R) /\ b.failed = a.failed
  BY <1>1, FailLoop
<1>3. PICK e : e = [(IF b.abort THEN [b EXCEPT !.killed = Count(@, b.tasks)] ELSE SubmitTasks(b, b.tasks)) EXCEPT !.tasks = << >>]
  OBVIOUS
<1>4. /\ DOMAIN b = Fields /\ b.pending \in Seq(Task) /\ b.tasks \in Seq(Task) /\ b.killed \in [Task -> Nat]
      /\ Once(b.pending) /\ Once(b.tasks) /\ Once(b.running) /\ b.finished \in [Task -> Nat]
      /\ Vals(b.pending) \subseteq Task
  BY <1>2 DEF Good, TablesOK, Conserved, Vals
<1>5. /\ DOMAIN e = Fields /\ e.tasks = << >> /\ e.running = b.running /\ e.failed = b.failed /\ e.finished = b.finished
      /\ e.stop = b.stop /\ e.attempt = b.attempt
      /\ \/ e.pending = b.pending /\ e.killed = Count(b.killed, b.tasks)
         \/ e.pending = b.pending \o b.tasks /\ e.killed = b.killed
  BY <1>3, <1>4 DEF SubmitTasks, Fields
<1>6. \A t \in Task : In(t, Vals(b.pending)) + In(t, Vals(b.running)) + In(t, Vals(b.tasks)) + b.finished[t] + b.killed[t] = 1
  BY <1>2 DEF Good, Conserved
<1>7. \A t \in Task : /\ In(t, Vals(b.pending)) \in {0, 1} /\ In(t, Vals(b.running)) \in {0, 1} /\ In(t, Vals(b.tasks)) \in {0, 1}
                      /\ b.finished[t] \in Nat /\ b.killed[t] \in Nat
  BY <1>4 DEF In
<1>8. Vals(b.pending) \cap Vals(b.tasks) = {}
  <2>1. \A t \in Task : ~(In(t, Vals(b.pending)) = 1 /\ In(t, Vals(b.tasks)) = 1)
    BY <1>6, <1>7
  <2>. QED  BY <1>4, <2>1 DEF In
<1>9. << >> \in Seq(Task)
  OBVIOUS
<1>10. ASSUME e.pending = b.pending /\ e.killed = Count(b.killed, b.tasks)
       PROVE  TablesOK(e) /\ Conserved(e)
  <2>1. e.killed \in [Task -> Nat] /\ \A t \in Task : e.killed[t] = b.killed[t] + In(t, Vals(b.tasks))
    <3>1. b.killed \in [Task -> Nat] /\ Once(b.tasks)
      BY <1>4
    <3>2. /\ Count(b.killed, b.tasks) \in [Task -> Nat]
          /\ \A t \in Task : Count(b.killed, b.tasks)[t] = b.killed[t] + In(t, Vals(b.tasks))
      BY <3>1, CountTasks
    <3>. QED  BY <1>10, <3>2
  <2>2. TablesOK(e)
    BY <1>2, <1>5, <1>9, <1>10, <2>1 DEF Good, TablesOK
  <2>3. \A t \in Task : In(t, Vals(e.tasks)) = 0
    BY <1>5, NoVals DEF In
  <2>4. \A t \in Task : In(t, Vals(e.pending)) + In(t, Vals(e.running)) + In(t, Vals(e.tasks)) + e.finished[t] + e.killed[t]
                        = In(t, Vals(b.pending)) + In(t, Vals(b.running)) + In(t, Vals(b.tasks)) + b.finished[t] + b.killed[t]
    BY <1>5, <1>7, <1>10, <2>1, <2>3
  <2>5. Conserved(e)
    BY <1>2, <1>4, <1>5, <1>10, <2>2, <2>4, NoVals, Moved DEF Good
  <2>. QED  BY <2>2, <2>5
<1>11. ASSUME e.pending = b.pending \o b.tasks /\ e.killed = b.killed
       PROVE  TablesOK(e) /\ Conserved(e)
  <2>1. e.pending \in Seq(Task) /\ Once(e.pending) /\ Vals(e.pending) = Vals(b.pending) \cup Vals(b.tasks)
    <3>1. b.pending \in Seq(Task) /\ b.tasks \in Seq(Task) /\ Once(b.pending) /\ Once(b.tasks)
      BY <1>4
    <3>2. /\ b.pending \o b.tasks \in Seq(Task) /\ Once(b.pending \o b.tasks)
          /\ Vals(b.pending \o b.tasks) = Vals(b.pending) \cup Vals(b.tasks)
      BY <1>8, <3>1, ConcatVals
    <3>. QED  BY <1>11, <3>2
  <2>2. TablesOK(e)
    BY <1>2, <1>5, <1>9, <1>11, <2>1 DEF Good, TablesOK
  <2>3. \A t \in Task : In(t, Vals(e.tasks)) = 0 /\ In(t, Vals(e.pending)) = In(t, Vals(b.pending)) + In(t, Vals(b.tasks))
    BY <1>5, <1>8, <2>1, NoVals DEF In
  <2>4. \A t \in Task : In(t, Vals(e.pending)) + In(t, Vals(e.running)) + In(t, Vals(e.tasks)) + e.finished[t] + e.killed[t]
                        = In(t, Vals(b.pending)) + In(t, Vals(b.running)) + In(t, Vals(b.tasks)) + b.finished[t] + b.killed[t]
    BY <1>5, <1>7, <1>11, <2>3
  <2>5. Conserved(e)
    BY <1>2, <1>4, <1>5, <1>11, <2>1, <2>2, <2>4, NoVals, Moved DEF Good
  <2>. QED  BY <2>2, <2>5
<1>12. TablesOK(e) /\ Conserved(e)
  BY <1>5, <1>10, <1>11
<1>13. Served(e) /\ Succeeded(e, R)
  BY <1>2, <1>5 DEF Good, Served, Succeeded
<1>14. HandleFailure(a, cs) = e
  BY <1>1, <1>3 DEF HandleFailure
<1>. QED  BY <1>2, <1>5, <1>12, <1>13, <1>14 DEF Good

\* onContainersCompleted: the containers it collects in failed have ended.
Collected(a) == a.tasks = << >> /\ \A i \in DOMAIN a.failed : Exited(a.failed[i])

LEMMA CompleteGood ==
    ASSUME NEW a, NEW R, Good(a, R), Collected(a), NEW c \in Container, Exited(c), c \in R,
           container[c] = [state |-> container[c].state, task |-> container[c].task]
    PROVE  Good(CompleteContainer(a, c), R) /\ Collected(CompleteContainer(a, c))
<1>1. CASE a.returned \/ c \notin DOMAIN a.running
  BY <1>1 DEF CompleteContainer
<1>2. ASSUME ~a.returned, c \in DOMAIN a.running, container[c].state = "success"
      PROVE  Good(CompleteContainer(a, c), R) /\ Collected(CompleteContainer(a, c))
  <2>1. PICK t : t = a.running[c]
    OBVIOUS
  <2>2. PICK b : b = [a EXCEPT !.finished[t] = @ + 1, !.running = Without(@, c)]
    OBVIOUS
  <2>3. /\ t \in Task /\ t \in Vals(a.running) /\ Once(a.running) /\ a.finished \in [Task -> Nat]
        /\ container[c].task = t
    BY <1>2, <2>1 DEF Good, TablesOK, Conserved, Served, Vals
  <2>4. /\ DOMAIN b = Fields /\ b.pending = a.pending /\ b.running = Without(a.running, c) /\ b.tasks = a.tasks
        /\ b.failed = a.failed /\ b.killed = a.killed /\ b.stop = a.stop /\ b.attempt = a.attempt
        /\ b.finished = [a.finished EXCEPT ![t] = @ + 1]
    BY <2>2, <2>3 DEF Good, TablesOK, Fields
  <2>5. b.finished \in [Task -> Nat] /\ \A u \in Task : b.finished[u] = a.finished[u] + In(u, {t})
    BY <2>3, <2>4 DEF In
  <2>6. /\ DOMAIN b.running = DOMAIN a.running \ {c} /\ \A d \in DOMAIN a.running \ {c} : b.running[d] = a.running[d]
        /\ Once(b.running) /\ Vals(b.running) = Vals(a.running) \ {t}
    <3>1. Once(a.running)
      BY <2>3
    <3>2. /\ DOMAIN Without(a.running, c) = DOMAIN a.running \ {c}
          /\ \A d \in DOMAIN a.running \ {c} : Without(a.running, c)[d] = a.running[d]
          /\ Once(Without(a.running, c)) /\ Vals(Without(a.running, c)) = Vals(a.running) \ {a.running[c]}
      BY <1>2, <3>1, WithoutVals
    <3>. QED  BY <2>1, <2>4, <3>2
  <2>7. TablesOK(b)
    BY <2>4, <2>5, <2>6 DEF Good, TablesOK
  <2>8. Conserved(b)
    <3>1. \A u \in Task : In(u, Vals(b.running)) + In(u, {t}) = In(u, Vals(a.running))
      BY <2>3, <2>6 DEF In
    <3>2. \A u \in Task : /\ In(u, Vals(a.pending)) \in Nat /\ In(u, Vals(b.running)) \in Nat /\ In(u, {t}) \in Nat
                          /\ In(u, Vals(a.running)) \in Nat /\ In(u, Vals(a.tasks)) \in Nat
                          /\ a.finished[u] \in Nat /\ a.killed[u] \in Nat
      BY DEF In, Good, TablesOK
    <3>3. \A u \in Task : In(u, Vals(b.pending)) + In(u, Vals(b.running)) + In(u, Vals(b.tasks)) + b.finished[u] + b.killed[u]
                          = In(u, Vals(a.pending)) + In(u, Vals(a.running)) + In(u, Vals(a.tasks)) + a.finished[u] + a.killed[u]
      <4>1. b.pending = a.pending /\ b.tasks = a.tasks /\ b.killed = a.killed
        BY <2>4
      <4>2. TAKE u \in Task
      <4>3. b.finished[u] = a.finished[u] + In(u, {t}) /\ In(u, Vals(b.running)) + In(u, {t}) = In(u, Vals(a.running))
        BY <2>5, <3>1
      <4>4. /\ In(u, Vals(b.running)) \in Nat /\ In(u, {t}) \in Nat /\ a.finished[u] \in Nat
            /\ In(u, Vals(a.pending)) \in Nat /\ In(u, Vals(a.tasks)) \in Nat /\ a.killed[u] \in Nat
        BY <3>2
      <4>. QED  BY <4>1, <4>3, <4>4
    <3>. QED  BY <2>4, <2>6, <2>7, <3>3, Moved DEF Good, Conserved
  <2>9. Served(b)
    BY <1>2, <2>4, <2>6 DEF Good, Served
  <2>10. Succeeded(b, R)
    <3>1. container[c] = [state |-> "success", task |-> t]
      BY <1>2, <2>3
    <3>2. SUFFICES ASSUME NEW u \in Task, b.finished[u] # 0
                   PROVE  \E d \in R : container[d] = [state |-> "success", task |-> u]
      BY DEF Succeeded
    <3>3. CASE u = t
      BY <3>1, <3>3
    <3>4. CASE u # t
      BY <2>3, <2>4, <3>2, <3>4 DEF Good, Succeeded
    <3>. QED  BY <3>3, <3>4
  <2>11. Collected(b)
    BY <2>4 DEF Collected
  <2>12. CompleteContainer(a, c) = b
    BY <1>2, <2>1, <2>2 DEF CompleteContainer
  <2>. QED  BY <2>7, <2>8, <2>9, <2>10, <2>11, <2>12 DEF Good
<1>3. ASSUME ~a.returned, c \in DOMAIN a.running, container[c].state = "memory"
      PROVE  Good(CompleteContainer(a, c), R) /\ Collected(CompleteContainer(a, c))
  <2>1. PICK e : e = AbortJob(a)
    OBVIOUS
  <2>2. Good(e, R) /\ e.failed = a.failed /\ e.tasks = a.tasks
    BY <2>1, AbortGood, AbortFields DEF Good
  <2>3. PICK b : b = [e EXCEPT !.returned = TRUE]
    OBVIOUS
  <2>4. /\ DOMAIN b = Fields /\ b.pending = e.pending /\ b.running = e.running /\ b.tasks = e.tasks
        /\ b.failed = e.failed /\ b.killed = e.killed /\ b.stop = e.stop /\ b.attempt = e.attempt /\ b.finished = e.finished
    BY <2>2, <2>3 DEF Good, TablesOK, Fields
  <2>5. Good(b, R)
    BY <2>2, <2>4 DEF Good, TablesOK, Conserved, Served, Succeeded
  <2>6. Collected(b)
    BY <2>2, <2>4 DEF Collected
  <2>7. CompleteContainer(a, c) = b
    BY <1>3, <2>1, <2>3 DEF CompleteContainer
  <2>. QED  BY <2>5, <2>6, <2>7
<1>4. ASSUME ~a.returned, c \in DOMAIN a.running, container[c].state \notin {"success", "memory"}
      PROVE  Good(CompleteContainer(a, c), R) /\ Collected(CompleteContainer(a, c))
  <2>1. PICK b : b = [a EXCEPT !.failed = Append(@, c)]
    OBVIOUS
  <2>2. /\ DOMAIN b = Fields /\ b.pending = a.pending /\ b.running = a.running /\ b.tasks = a.tasks
        /\ b.failed = Append(a.failed, c) /\ b.killed = a.killed /\ b.stop = a.stop /\ b.attempt = a.attempt
        /\ b.finished = a.finished /\ a.failed \in Seq(Container)
    BY <2>1 DEF Good, TablesOK, Fields
  <2>3. b.failed \in Seq(Container)
    BY <2>2
  <2>4. Good(b, R)
    BY <2>2, <2>3 DEF Good, TablesOK, Conserved, Served, Succeeded
  <2>5. Collected(b)
    BY <2>2 DEF Collected
  <2>6. CompleteContainer(a, c) = b
    BY <1>4, <2>1 DEF CompleteContainer
  <2>. QED  BY <2>4, <2>5, <2>6
<1>. QED  BY <1>1, <1>2, <1>3, <1>4

LEMMA CompleteLoop ==
    ASSUME NEW a, NEW R, Good(a, R), Collected(a), NEW cs \in Seq(Container),
           \A i \in DOMAIN cs : /\ Exited(cs[i]) /\ cs[i] \in R
                                /\ container[cs[i]] = [state |-> container[cs[i]].state, task |-> container[cs[i]].task]
    PROVE  Good(ForEach(CompleteContainer, a, cs), R) /\ Collected(ForEach(CompleteContainer, a, cs))
<1>1. PICK f : f = Loop("complete", a, cs)
  OBVIOUS
<1>2. Len(cs) \in Nat /\ DOMAIN cs = 1 .. Len(cs) /\ \A i \in 1 .. Len(cs) : cs[i] \in Container
  OBVIOUS
<1>3. f[0] = a /\ \A i \in 1 .. Len(cs) : f[i] = CompleteContainer(f[i - 1], cs[i])
  BY <1>1, <1>2, Loops DEF Body
<1>. DEFINE T == {n \in Nat : n <= Len(cs) => Good(f[n], R) /\ Collected(f[n])}
<1>4. 0 \in T
  BY <1>3
<1>5. ASSUME NEW n \in Nat, n \in T PROVE n + 1 \in T
  <2>1. CASE n + 1 <= Len(cs)
    <3>1. n <= Len(cs) /\ n + 1 \in 1 .. Len(cs) /\ (n + 1) - 1 = n
      BY <1>2, <2>1
    <3>2. PICK c : c = cs[n + 1]
      OBVIOUS
    <3>3. /\ Good(f[n], R) /\ Collected(f[n]) /\ f[n + 1] = CompleteContainer(f[n], c) /\ Exited(c) /\ c \in Container
          /\ c \in R /\ container[c] = [state |-> container[c].state, task |-> container[c].task]
      BY <1>2, <1>3, <1>5, <3>1, <3>2
    <3>. QED  BY <3>3, CompleteGood
  <2>. QED  BY <2>1
<1>6. Nat \subseteq T
  <2>. HIDE DEF T
  <2>. QED  BY <1>4, <1>5, Induction
<1>7. Good(f[Len(cs)], R) /\ Collected(f[Len(cs)])
  BY <1>2, <1>6
<1>. QED  BY <1>1, <1>7, ForEachLoops

LEMMA ContainerRange == ASSUME LaunchOK PROVE \E N \in Nat : Container = 1 .. N
<1>1. Cardinality(Task) \in Nat
  BY FS_CardinalityType DEF LaunchOK
<1>2. Cardinality(Task) * MaxNumAttempt + MaxIdle \in Nat
  BY <1>1 DEF LaunchOK
<1>. QED  BY <1>2 DEF Container

\* onContainersAllocated, after n of the new containers u + 1, u + 2, ...: pending tasks have moved to them.
Launched(a, n, u) ==
    /\ TablesOK(a) /\ Conserved(a)
    /\ a.finished = am.finished /\ a.killed = am.killed /\ a.stop = am.stop /\ a.tasks = am.tasks /\ a.failed = am.failed
    /\ DOMAIN am.running \subseteq DOMAIN a.running /\ \A c \in DOMAIN am.running : a.running[c] = am.running[c]
    /\ \A c \in DOMAIN a.running : c \in DOMAIN am.running \/ u < c
    /\ \A c \in DOMAIN a.running : c <= u + n

LEMMA AllocateGood ==
    ASSUME NEW a, NEW n \in Nat, NEW u \in Nat, Launched(a, n, u), u + n + 1 \in Container
    PROVE  Launched(Allocate(a, u + n + 1), n + 1, u)
<1>. DEFINE c == u + n + 1
<1>0. c \in Nat /\ c = u + n + 1 /\ c \in Container /\ Container \subseteq Int
  BY DEF Container
<1>. HIDE DEF c
<1>1. /\ \A d \in DOMAIN a.running : d \in Int /\ d # c /\ d <= u + (n + 1)
      /\ u < c /\ c <= u + (n + 1)
  <2>1. ASSUME NEW d \in DOMAIN a.running PROVE d \in Int /\ d <= u + n
    BY <1>0, <2>1 DEF Launched, TablesOK
  <2>2. \A d \in DOMAIN a.running : d \in Int /\ d # c /\ d <= u + (n + 1)
    BY <1>0, <2>1
  <2>. QED  BY <1>0, <2>2
<1>2. CASE a.pending = << >>
  <2>1. Allocate(a, c) = a
    BY <1>2 DEF Allocate
  <2>. QED  BY <1>0, <1>1, <2>1 DEF Launched
<1>3. CASE a.pending # << >>
  <2>1. PICK t : t = Head(a.pending)
    OBVIOUS
  <2>2. a.pending \in Seq(Task) /\ Once(a.pending) /\ Once(a.running) /\ a.running = a.running
    BY DEF Launched, TablesOK, Conserved
  <2>3. /\ Tail(a.pending) \in Seq(Task) /\ Once(Tail(a.pending)) /\ t \in Task
        /\ t \notin Vals(Tail(a.pending)) /\ Vals(a.pending) = Vals(Tail(a.pending)) \cup {t}
    BY <1>3, <2>1, <2>2, TailVals
  <2>4. PICK b : b = [a EXCEPT !.running = [d \in DOMAIN @ \cup {c} |-> IF d = c THEN t ELSE @[d]], !.pending = Tail(@)]
    OBVIOUS
  <2>5. /\ DOMAIN b = Fields /\ b.pending = Tail(a.pending) /\ b.tasks = a.tasks
        /\ b.failed = a.failed /\ b.killed = a.killed /\ b.stop = a.stop /\ b.attempt = a.attempt /\ b.finished = a.finished
        /\ b.running = [d \in DOMAIN a.running \cup {c} |-> IF d = c THEN t ELSE a.running[d]]
    BY <2>4 DEF Launched, TablesOK, Fields
  <2>6. In(t, Vals(a.pending)) + In(t, Vals(a.running)) + In(t, Vals(a.tasks)) + a.finished[t] + a.killed[t] = 1
    BY <2>3 DEF Launched, Conserved
  <2>7. t \notin Vals(a.running)
    <3>1. a.finished[t] \in Nat /\ a.killed[t] \in Nat /\ In(t, Vals(a.tasks)) \in Nat /\ In(t, Vals(a.pending)) = 1
      BY <2>3 DEF Launched, TablesOK, In
    <3>2. In(t, Vals(a.running)) # 1
      BY <2>6, <3>1
    <3>. QED  BY <3>2 DEF In
  <2>8. c \notin DOMAIN a.running
    BY <1>1
  <2>9. /\ DOMAIN b.running = DOMAIN a.running \cup {c} /\ b.running[c] = t
        /\ \A d \in DOMAIN a.running : b.running[d] = a.running[d]
    BY <2>5, <2>8
  <2>10. Vals(b.running) = Vals(a.running) \cup {t} /\ Once(b.running)
    BY <2>2, <2>7, <2>8, <2>9 DEF Vals, Once
  <2>11. TablesOK(b)
    BY <1>0, <2>3, <2>5, <2>9, <2>10 DEF Launched, TablesOK
  <2>12. Conserved(b)
    <3>1. \A x \in Task : In(x, Vals(b.pending)) + In(x, Vals(b.running)) = In(x, Vals(a.pending)) + In(x, Vals(a.running))
      <4>1. ASSUME NEW x \in Task, x # t PROVE In(x, Vals(b.pending)) = In(x, Vals(a.pending)) /\ In(x, Vals(b.running)) = In(x, Vals(a.running))
        BY <2>3, <2>5, <2>10, <4>1 DEF In
      <4>2. In(t, Vals(b.pending)) = 0 /\ In(t, Vals(b.running)) = 1 /\ In(t, Vals(a.pending)) = 1 /\ In(t, Vals(a.running)) = 0
        BY <2>3, <2>5, <2>7, <2>10 DEF In
      <4>. QED  BY <4>1, <4>2
    <3>2. \A x \in Task : /\ In(x, Vals(a.pending)) \in Nat /\ In(x, Vals(b.running)) \in Nat /\ In(x, Vals(b.pending)) \in Nat
                          /\ In(x, Vals(a.running)) \in Nat /\ In(x, Vals(a.tasks)) \in Nat
                          /\ a.finished[x] \in Nat /\ a.killed[x] \in Nat
      BY DEF In, Launched, TablesOK
    <3>3. \A x \in Task : In(x, Vals(b.pending)) + In(x, Vals(b.running)) + In(x, Vals(b.tasks)) + b.finished[x] + b.killed[x]
                          = In(x, Vals(a.pending)) + In(x, Vals(a.running)) + In(x, Vals(a.tasks)) + a.finished[x] + a.killed[x]
      <4>1. b.finished = a.finished /\ b.tasks = a.tasks /\ b.killed = a.killed
        BY <2>5
      <4>. QED  BY <3>1, <3>2, <4>1
    <3>4. Once(b.pending) /\ Once(b.running) /\ Once(b.tasks)
      BY <2>3, <2>5, <2>10 DEF Launched, Conserved
    <3>. QED  BY <2>11, <3>3, <3>4, Moved DEF Launched
  <2>13. Allocate(a, c) = b
    BY <1>3, <2>1, <2>4 DEF Allocate
  <2>14. /\ DOMAIN am.running \subseteq DOMAIN b.running /\ \A d \in DOMAIN am.running : b.running[d] = am.running[d]
         /\ \A d \in DOMAIN b.running : d \in DOMAIN am.running \/ u < d
         /\ \A d \in DOMAIN b.running : d <= u + (n + 1)
    BY <1>1, <2>9 DEF Launched
  <2>15. Launched(b, n + 1, u)
    BY <2>5, <2>11, <2>12, <2>14 DEF Launched
  <2>. QED  BY <1>0, <2>13, <2>15
<1>. QED  BY <1>2, <1>3

LEMMA AllocateLoop ==
    ASSUME LaunchOK, NEW n \in Nat, NEW u \in Nat, NEW cs, cs = [i \in 1 .. n |-> u + i], u + n \in Container \/ n = 0, Launched(am, 0, u)
    PROVE  Launched(ForEach(Allocate, am, cs), n, u)
<1>1. PICK f : f = Loop("allocate", am, cs)
  OBVIOUS
<1>2. Len(cs) = n /\ \A i \in 1 .. n : cs[i] = u + i
  OBVIOUS
<1>3. f[0] = am /\ \A i \in 1 .. n : f[i] = Allocate(f[i - 1], cs[i])
  BY <1>1, <1>2, Loops DEF Body
<1>. DEFINE T == {k \in Nat : k <= n => Launched(f[k], k, u)}
<1>4. 0 \in T
  BY <1>3
<1>5. ASSUME NEW k \in Nat, k \in T PROVE k + 1 \in T
  <2>1. CASE k + 1 <= n
    <3>1. k <= n /\ k + 1 \in 1 .. n /\ (k + 1) - 1 = k /\ u + (k + 1) = u + k + 1
      BY <2>1
    <3>2. u + k + 1 \in Container
      BY <2>1, ContainerRange
    <3>3. Launched(f[k], k, u) /\ f[k + 1] = Allocate(f[k], u + k + 1)
      BY <1>2, <1>3, <1>5, <3>1
    <3>4. Launched(f[k + 1], k + 1, u)
      BY <3>2, <3>3, AllocateGood
    <3>. QED  BY <3>4
  <2>. QED  BY <2>1
<1>6. Nat \subseteq T
  <2>. HIDE DEF T
  <2>. QED  BY <1>4, <1>5, Induction
<1>7. Launched(f[n], n, u)
  BY <1>6
<1>. QED  BY <1>1, <1>2, <1>7, ForEachLoops
-----------------------------------------------------------------------------
(***************************************************************************)
(* The inductive invariant.                                                *)
(***************************************************************************)
ContainersInv ==
    /\ DOMAIN container = Container
    /\ \A c \in Container : container[c] = [state |-> container[c].state, task |-> container[c].task]
    /\ \E u \in Nat : {c \in Container : container[c].state # "none"} = 1 .. u
    /\ reported \subseteq Container /\ \A c \in reported : Exited(c)

MasterInv ==
    /\ ContainersInv
    /\ master \in {"start", "poll", "SUCCEEDED", "FAILED"}
    /\ master = "start" => am = EmptyTables /\ \A c \in Container : container[c].state = "none"
    /\ master # "start" => Good(am, reported) /\ am.tasks = << >> /\ am.failed = << >>
    /\ master = "SUCCEEDED" => \A t \in Task : am.finished[t] = 1

LEMMA MasterInit == ASSUME LaunchInit PROVE MasterInv
<1>1. /\ DOMAIN container = Container
      /\ \A c \in Container : container[c] = [state |-> "none", task |-> Nobody]
      /\ reported = {} /\ master = "start" /\ am = EmptyTables
  BY DEF LaunchInit
<1>2. {c \in Container : container[c].state # "none"} = 1 .. 0
  BY <1>1
<1>3. ContainersInv
  BY <1>1, <1>2 DEF ContainersInv
<1>. QED  BY <1>1, <1>3 DEF MasterInv

\* A list of tasks that is each task once.
LEMMA AllTasks ==
    ASSUME LaunchOK
    PROVE  /\ SetToSeq(Task) \in Seq(Task) /\ Once(SetToSeq(Task)) /\ Vals(SetToSeq(Task)) = Task
<1>1. PICK n \in Nat : n = Cardinality(Task)
  BY FS_CardinalityType DEF LaunchOK
<1>2. PICK g \in Bijection(1 .. n, Task) : TRUE
  BY <1>1, FS_CardinalityType DEF LaunchOK, ExistsBijection
<1>3. g \in [1 .. n -> Task] /\ IsInjective(g)
  BY <1>2 DEF Bijection, Injection, IsInjective
<1>4. PICK f : f = SetToSeq(Task)
  OBVIOUS
<1>5. f \in [1 .. n -> Task] /\ IsInjective(f)
  <2>1. f = CHOOSE h \in [1 .. n -> Task] : IsInjective(h)
    BY <1>1, <1>4 DEF SetToSeq
  <2>. QED  BY <1>3, <2>1
<1>6. f \in Seq(Task)
  BY <1>5
<1>7. Once(f)
  BY <1>5 DEF Once, IsInjective
<1>8. Vals(f) = Task
  <2>1. f \in Injection(1 .. n, Task)
    BY <1>5 DEF Injection, IsInjective
  <2>2. IsFiniteSet(Task) /\ IsFiniteSet(1 .. n) /\ Cardinality(1 .. n) = n
    BY <1>1, FS_Interval DEF LaunchOK
  <2>3. f \in Surjection(1 .. n, Task)
    BY <1>1, <2>1, <2>2, FS_Injection DEF Surjection
  <2>. QED  BY <1>5, <2>3 DEF Surjection, Vals
<1>. QED  BY <1>4, <1>6, <1>7, <1>8

LEMMA StartStep == ASSUME LaunchOK, MasterInv, StartMaster PROVE MasterInv'
<1>1. /\ master = "start" /\ master' = "poll" /\ am = EmptyTables /\ \A c \in Container : container[c].state = "none"
      /\ am' = SubmitTasks(am, SetToSeq(Task)) /\ container' = container /\ reported' = reported
  BY DEF StartMaster, MasterInv
<1>2. /\ DOMAIN am' = Fields /\ am'.pending = << >> \o SetToSeq(Task) /\ am'.running = << >> /\ am'.tasks = << >>
      /\ am'.failed = << >> /\ am'.stop = {} /\ am'.finished = [t \in Task |-> 0] /\ am'.killed = [t \in Task |-> 0]
      /\ am'.attempt = [t \in Task |-> 0]
  BY <1>1 DEF SubmitTasks, EmptyTables, Fields
<1>3. am'.pending = SetToSeq(Task)
  BY <1>2, AllTasks
<1>4. << >> \in Seq(Task) /\ << >> \in Seq(Container)
  OBVIOUS
<1>5. TablesOK(am')
  BY <1>2, <1>3, <1>4, AllTasks, NoVals DEF TablesOK
<1>6. Conserved(am')
  <2>1. \A t \in Task : /\ In(t, Vals(am'.pending)) = 1 /\ In(t, Vals(am'.running)) = 0 /\ In(t, Vals(am'.tasks)) = 0
                        /\ am'.finished[t] = 0 /\ am'.killed[t] = 0
    BY <1>2, <1>3, AllTasks, NoVals DEF In
  <2>2. Once(am'.pending) /\ Once(am'.running) /\ Once(am'.tasks)
    BY <1>2, <1>3, AllTasks, NoVals
  <2>. QED  BY <2>1, <2>2 DEF Conserved
<1>7. Served(am)'
  BY <1>1, <1>2, NoVals DEF Served
<1>8. Succeeded(am, reported)'
  BY <1>2 DEF Succeeded
<1>9. Good(am, reported)'
  BY <1>5, <1>6, <1>7, <1>8 DEF Good, TablesOK, Conserved
<1>10. ContainersInv'
  BY <1>1 DEF MasterInv, ContainersInv, Exited
<1>. QED  BY <1>1, <1>2, <1>9, <1>10 DEF MasterInv

\* The callbacks that leave the containers as they are.
LEMMA CallbackStep ==
    ASSUME MasterInv, NEW x, NEW R, Good(x, R), x.tasks = << >>, x.failed = << >>, R \subseteq Container,
           \A c \in R : Exited(c), master = "poll", master' = master, container' = container, am' = x, reported' = R
    PROVE  MasterInv'
<1>1. TablesOK(am)' /\ Conserved(am)'
  BY DEF Good, TablesOK, Conserved
<1>2. Served(am)'
  BY DEF Good, Served
<1>3. Succeeded(am, reported)'
  BY DEF Good, Succeeded
<1>4. ContainersInv'
  BY DEF MasterInv, ContainersInv, Exited
<1>. QED  BY <1>1, <1>2, <1>3, <1>4 DEF MasterInv, Good

LEMMA BatchIsList == \A cs \in Batches : cs \in Seq(Container)
<1>1. ASSUME NEW n \in 1 .. MaxBatch, NEW cs \in [1 .. n -> Container] PROVE cs \in Seq(Container)
  OBVIOUS
<1>. QED  BY <1>1 DEF Batches

LEMMA ShutdownStep == ASSUME MasterInv, OnShutdownRequest PROVE MasterInv'
<1>1. PICK x : x = AbortJob(am)
  OBVIOUS
<1>2. PICK R : R = reported
  OBVIOUS
<1>3. /\ master = "poll" /\ master' = master /\ container' = container /\ am' = x /\ reported' = R
      /\ Good(am, R) /\ am.tasks = << >> /\ am.failed = << >> /\ R \subseteq Container /\ \A c \in R : Exited(c)
  BY <1>1, <1>2 DEF OnShutdownRequest, MasterInv, ContainersInv
<1>4. Good(x, R) /\ x.tasks = << >> /\ x.failed = << >>
  BY <1>1, <1>3, AbortGood, AbortFields DEF Good
<1>. QED  BY <1>3, <1>4, CallbackStep

LEMMA StartErrorStep == ASSUME MasterInv, NEW c \in Container, OnStartContainerError(c) PROVE MasterInv'
<1>1. PICK x : x = HandleFailure(am, <<c>>)
  OBVIOUS
<1>2. PICK R : R = reported
  OBVIOUS
<1>3. /\ master = "poll" /\ master' = master /\ container' = container /\ am' = x /\ reported' = R /\ Exited(c)
      /\ Good(am, R) /\ am.failed = << >> /\ R \subseteq Container /\ \A d \in R : Exited(d)
  BY <1>1, <1>2 DEF OnStartContainerError, MasterInv, ContainersInv, Exited
<1>4. <<c>> \in Seq(Container) /\ DOMAIN <<c>> = {1} /\ <<c>>[1] = c
  OBVIOUS
<1>5. \A i \in DOMAIN <<c>> : Exited(<<c>>[i])
  BY <1>3, <1>4
<1>6. Good(x, R) /\ x.tasks = << >> /\ x.failed = am.failed
  BY <1>1, <1>3, <1>4, <1>5, HandleGood
<1>. QED  BY <1>3, <1>6, CallbackStep

LEMMA CompletedStep ==
    ASSUME MasterInv, NEW cs \in Batches, OnContainersCompleted(cs)
    PROVE  MasterInv'
<1>1. PICK b : b = ForEach(CompleteContainer, am, cs)
  OBVIOUS
<1>2. PICK R : R = reported \cup ToSet(cs)
  OBVIOUS
<1>3. PICK e : e = IF b.returned THEN b ELSE HandleFailure(b, b.failed)
  OBVIOUS
<1>4. PICK x : x = [e EXCEPT !.failed = << >>, !.returned = FALSE]
  OBVIOUS
<1>5. /\ master = "poll" /\ master' = master /\ container' = container /\ am' = x /\ reported' = R
      /\ \A i \in DOMAIN cs : Exited(cs[i])
  BY <1>1, <1>2, <1>3, <1>4 DEF OnContainersCompleted
<1>6. cs \in Seq(Container) /\ DOMAIN cs = 1 .. Len(cs) /\ ToSet(cs) = {cs[i] : i \in DOMAIN cs}
  BY BatchIsList DEF ToSet
<1>7. R \subseteq Container /\ \A c \in R : Exited(c)
  BY <1>2, <1>5, <1>6 DEF MasterInv, ContainersInv
<1>8. Good(am, R) /\ am.tasks = << >> /\ am.failed = << >> /\ Collected(am)
  BY <1>2, <1>5, NoVals DEF MasterInv, Good, Succeeded, Collected
<1>9. \A i \in DOMAIN cs : /\ Exited(cs[i]) /\ cs[i] \in R
                           /\ container[cs[i]] = [state |-> container[cs[i]].state, task |-> container[cs[i]].task]
  BY <1>2, <1>5, <1>6 DEF MasterInv, ContainersInv
<1>10. Good(b, R) /\ Collected(b)
  BY <1>1, <1>6, <1>8, <1>9, CompleteLoop
<1>11. b.tasks = << >>
  BY <1>10 DEF Collected
<1>12. Good(e, R) /\ e.tasks = << >>
  <2>1. b.failed \in Seq(Container) /\ \A i \in DOMAIN b.failed : Exited(b.failed[i])
    BY <1>10 DEF Good, TablesOK, Collected
  <2>2. Good(HandleFailure(b, b.failed), R) /\ HandleFailure(b, b.failed).tasks = << >>
    BY <1>10, <2>1, HandleGood
  <2>. QED  BY <1>3, <1>10, <1>11, <2>2
<1>13. << >> \in Seq(Container)
  OBVIOUS
<1>14. Good(x, R) /\ x.tasks = << >> /\ x.failed = << >>
  <2>1. /\ DOMAIN x = Fields /\ x.pending = e.pending /\ x.running = e.running /\ x.tasks = e.tasks
        /\ x.failed = << >> /\ x.killed = e.killed /\ x.stop = e.stop /\ x.attempt = e.attempt /\ x.finished = e.finished
    BY <1>4, <1>12 DEF Good, TablesOK, Fields
  <2>. QED  BY <1>12, <1>13, <2>1 DEF Good, TablesOK, Conserved, Served, Succeeded
<1>. QED  BY <1>5, <1>7, <1>14, CallbackStep

\* New containers are the next ones; each gets a task that waits, or stays idle.
LEMMA AllocatedStep ==
    ASSUME LaunchOK, MasterInv, NEW n \in 1 .. MaxBatch, OnContainersAllocated(n)
    PROVE  MasterInv'
<1>1. n \in Nat /\ n # 0 /\ master = "poll" /\ Good(am, reported) /\ am.tasks = << >> /\ am.failed = << >>
  BY DEF LaunchOK, OnContainersAllocated, MasterInv
<1>2. PICK u \in Nat : {c \in Container : container[c].state # "none"} = 1 .. u
  BY DEF MasterInv, ContainersInv
<1>3. Used = u
  <2>1. Cardinality(1 .. u) = IF 1 > u THEN 0 ELSE u - 1 + 1
    BY FS_Interval
  <2>2. Cardinality(1 .. u) = u
    BY <2>1
  <2>. QED  BY <1>2, <2>2 DEF Used
<1>4. PICK cs : cs = [i \in 1 .. n |-> u + i]
  OBVIOUS
<1>5. PICK a : a = IF am.abort THEN am ELSE ForEach(Allocate, am, cs)
  OBVIOUS
<1>6. PICK L : L = ToSet(cs) \cap DOMAIN a.running
  OBVIOUS
<1>7. /\ u + n \in Container /\ am' = a /\ master' = master /\ reported' = reported
      /\ container' = [c \in Container |->
              IF c \in L THEN [state |-> "starting", task |-> a.running[c]]
              ELSE IF c \in ToSet(cs) THEN [state |-> "idle", task |-> Nobody]
              ELSE container[c]]
  BY <1>3, <1>4, <1>5, <1>6 DEF OnContainersAllocated
<1>8. Launched(am, 0, u)
  <2>1. \A c \in DOMAIN am.running : c \in Container /\ container[c].state # "none"
    BY <1>1 DEF Good, TablesOK, Served
  <2>2. \A c \in DOMAIN am.running : c <= u + 0
    BY <1>2, <2>1
  <2>. QED  BY <1>1, <2>2 DEF Launched, Good
<1>9. Launched(a, n, u)
  <2>1. CASE am.abort
    <3>1. a = am /\ \A c \in DOMAIN am.running : c \in Int
      BY <1>5, <1>8, <2>1 DEF Launched, TablesOK, Container
    <3>2. \A c \in DOMAIN am.running : c <= u + n
      BY <1>1, <1>8, <3>1 DEF Launched
    <3>. QED  BY <1>8, <3>1, <3>2 DEF Launched
  <2>2. CASE ~am.abort
    BY <1>1, <1>4, <1>5, <1>7, <1>8, <2>2, AllocateLoop
  <2>. QED  BY <2>1, <2>2
<1>10. \A c : c \in ToSet(cs) <=> c \in Int /\ u < c /\ c <= u + n
  <2>1. ToSet(cs) = {cs[i] : i \in 1 .. n}
    BY <1>4 DEF ToSet
  <2>2. ASSUME NEW c \in ToSet(cs) PROVE c \in Int /\ u < c /\ c <= u + n
    <3>1. PICK i \in 1 .. n : c = u + i
      BY <1>4, <2>1, <2>2
    <3>. QED  BY <3>1
  <2>3. ASSUME NEW c \in Int, u < c, c <= u + n PROVE c \in ToSet(cs)
    <3>1. c - u \in 1 .. n /\ u + (c - u) = c
      BY <1>1, <2>3
    <3>2. cs[c - u] = c
      BY <1>4, <3>1
    <3>. QED  BY <2>1, <3>1, <3>2
  <2>. QED  BY <2>2, <2>3
<1>11. \A c \in Container : c \in Int /\ 1 <= c
  BY DEF Container
<1>12. \A c \in 1 .. u : c \in Container /\ c \notin ToSet(cs) /\ container'[c] = container[c]
  <2>1. \A c \in 1 .. u : c \in Container
    BY <1>2
  <2>2. \A c \in 1 .. u : c \notin ToSet(cs)
    BY <1>10
  <2>. QED  BY <1>6, <1>7, <2>1, <2>2
<1>13. \A c \in Container : c \in ToSet(cs) => container'[c].state \in {"starting", "idle"}
  BY <1>6, <1>7
<1>14. ContainersInv'
  <2>1. DOMAIN container' = Container
    BY <1>7
  <2>2. ASSUME NEW c \in Container PROVE container'[c] = [state |-> container'[c].state, task |-> container'[c].task]
    <3>1. container[c] = [state |-> container[c].state, task |-> container[c].task]
      BY DEF MasterInv, ContainersInv
    <3>. QED  BY <1>7, <3>1
  <2>3. ASSUME NEW c \in Container PROVE container'[c].state # "none" <=> c \in 1 .. u + n
    <3>1. CASE c \in ToSet(cs)
      <4>1. c \in 1 .. u + n
        BY <1>10, <1>11, <3>1
      <4>. QED  BY <1>13, <3>1, <4>1
    <3>2. CASE c \notin ToSet(cs)
      <4>1. container'[c] = container[c]
        BY <1>6, <1>7, <3>2
      <4>2. c \in 1 .. u <=> c \in 1 .. u + n
        BY <1>1, <1>10, <1>11, <3>2
      <4>. QED  BY <1>2, <4>1, <4>2
    <3>. QED  BY <3>1, <3>2
  <2>4. \A c \in 1 .. u + n : c \in Container
    BY <1>7, ContainerRange
  <2>5. {c \in Container : container'[c].state # "none"} = 1 .. u + n
    BY <2>3, <2>4
  <2>6. u + n \in Nat
    BY <1>1
  <2>7. reported \subseteq Container /\ \A c \in reported : Exited(c)
    BY DEF MasterInv, ContainersInv
  <2>8. \A c \in reported : container'[c] = container[c]
    BY <1>2, <1>12, <2>7 DEF Exited
  <2>9. \A c \in reported' : Exited(c)'
    BY <1>7, <2>7, <2>8 DEF Exited
  <2>10. \E v \in Nat : {c \in Container : container'[c].state # "none"} = 1 .. v
    BY <2>5, <2>6
  <2>. QED  BY <1>7, <2>1, <2>2, <2>7, <2>9, <2>10 DEF ContainersInv
<1>15. TablesOK(am)' /\ Conserved(am)'
  BY <1>7, <1>9 DEF Launched, TablesOK, Conserved
<1>16. Served(am)'
  <2>1. ASSUME NEW c \in DOMAIN a.running
        PROVE  container'[c].state \notin {"none", "idle"} /\ container'[c].task = a.running[c]
    <3>0. c \in Container
      BY <1>9 DEF Launched, TablesOK
    <3>1. CASE c \in DOMAIN am.running
      <4>1. c \in Container /\ container[c].state \notin {"none", "idle"} /\ container[c].task = am.running[c]
        BY <1>1, <3>1 DEF Good, TablesOK, Served
      <4>2. a.running[c] = am.running[c]
        BY <1>9, <3>1 DEF Launched
      <4>3. container'[c] = container[c]
        BY <1>2, <1>12, <4>1
      <4>. QED  BY <4>1, <4>2, <4>3
    <3>2. CASE c \notin DOMAIN am.running
      <4>1. u < c /\ c <= u + n
        BY <1>9, <3>2 DEF Launched
      <4>2. c \in L
        BY <1>6, <1>10, <1>11, <3>0, <4>1
      <4>. QED  BY <1>7, <3>0, <4>2
    <3>. QED  BY <3>1, <3>2
  <2>2. ASSUME NEW c \in Container, container'[c].state \in {"starting", "up"} PROVE c \in a.stop \/ c \in DOMAIN a.running
    <3>1. CASE c \in L
      BY <1>6, <3>1
    <3>2. CASE c \notin L
      <4>1. container'[c] = container[c]
        BY <1>7, <2>2, <3>2
      <4>2. c \in am.stop \/ c \in DOMAIN am.running
        BY <1>1, <2>2, <4>1 DEF Good, Served
      <4>. QED  BY <1>9, <4>2 DEF Launched
    <3>. QED  BY <3>1, <3>2
  <2>. QED  BY <1>7, <2>1, <2>2 DEF Served
<1>17. Succeeded(am, reported)'
  <2>1. \A c \in reported : container'[c] = container[c]
    <3>1. \A c \in reported : c \in Container /\ container[c].state # "none"
      BY DEF MasterInv, ContainersInv, Exited
    <3>. QED  BY <1>2, <1>12, <3>1
  <2>2. a.finished = am.finished
    BY <1>9 DEF Launched
  <2>. QED  BY <1>1, <1>7, <2>1, <2>2 DEF Good, Succeeded
<1>18. am'.tasks = << >> /\ am'.failed = << >>
  BY <1>1, <1>7, <1>9 DEF Launched
<1>. QED  BY <1>1, <1>7, <1>14, <1>15, <1>16, <1>17, <1>18 DEF MasterInv, Good

\* The node manager changes the state of a container that no callback reported as completed.
LEMMA BecomeStep ==
    ASSUME MasterInv, NEW c \in Container, container[c].state \in {"starting", "up"},
           NEW s \in {"up", "nostart", "success", "failure", "memory"}, Become(c, s)
    PROVE  MasterInv'
<1>1. /\ DOMAIN container = Container /\ container' = [container EXCEPT ![c].state = s]
      /\ am' = am /\ master' = master /\ reported' = reported /\ master # "start"
  BY DEF Become, MasterInv, ContainersInv
<1>2. /\ DOMAIN container' = Container /\ container'[c].state = s /\ container'[c].task = container[c].task
      /\ \A d \in Container \ {c} : container'[d] = container[d]
  <2>1. container[c] = [state |-> container[c].state, task |-> container[c].task]
    BY DEF MasterInv, ContainersInv
  <2>. QED  BY <1>1, <2>1
<1>3. c \notin reported
  BY DEF MasterInv, ContainersInv, Exited
<1>4. \A d \in reported : container'[d] = container[d]
  BY <1>2, <1>3 DEF MasterInv, ContainersInv
<1>5. ContainersInv'
  <2>1. \A d \in Container : container'[d].state # "none" <=> container[d].state # "none"
    BY <1>2
  <2>2. {d \in Container : container'[d].state # "none"} = {d \in Container : container[d].state # "none"}
    BY <2>1
  <2>3. \E u \in Nat : {d \in Container : container'[d].state # "none"} = 1 .. u
    BY <2>2 DEF MasterInv, ContainersInv
  <2>4. ASSUME NEW d \in Container PROVE container'[d] = [state |-> container'[d].state, task |-> container'[d].task]
    <3>1. container[d] = [state |-> container[d].state, task |-> container[d].task]
      BY DEF MasterInv, ContainersInv
    <3>. QED  BY <1>1, <1>2, <3>1
  <2>5. reported' \subseteq Container /\ \A d \in reported' : Exited(d)'
    BY <1>1, <1>4 DEF MasterInv, ContainersInv, Exited
  <2>. QED  BY <1>2, <2>3, <2>4, <2>5 DEF ContainersInv
<1>6. TablesOK(am)' /\ Conserved(am)'
  BY <1>1 DEF MasterInv, Good, TablesOK, Conserved
<1>7. Served(am)'
  <2>1. DOMAIN am.running \subseteq Container /\ Served(am)
    BY <1>1 DEF MasterInv, Good, TablesOK
  <2>2. \A d \in DOMAIN am.running : container'[d].state \notin {"none", "idle"} /\ container'[d].task = am.running[d]
    BY <1>2, <2>1 DEF Served
  <2>3. \A d \in Container : container'[d].state \in {"starting", "up"} => d \in am.stop \/ d \in DOMAIN am.running
    BY <1>2, <2>1 DEF Served
  <2>. QED  BY <1>1, <2>2, <2>3 DEF Served
<1>8. Succeeded(am, reported)'
  <2>1. Succeeded(am, reported)
    BY <1>1 DEF MasterInv, Good
  <2>2. ASSUME NEW t \in Task, am.finished[t] # 0 PROVE \E d \in reported : container'[d] = [state |-> "success", task |-> t]
    <3>1. PICK d \in reported : container[d] = [state |-> "success", task |-> t]
      BY <2>1, <2>2 DEF Succeeded
    <3>. QED  BY <1>4, <3>1
  <2>. QED  BY <1>1, <2>2 DEF Succeeded
<1>. QED  BY <1>1, <1>5, <1>6, <1>7, <1>8 DEF MasterInv, Good

LEMMA IdleStep ==
    ASSUME MasterInv, am' = am, container' = container, reported' = reported,
           master' = master \/ EndMaster
    PROVE  MasterInv'
<1>1. ContainersInv'
  BY DEF MasterInv, ContainersInv, Exited
<1>2. master' = master \/ (master # "start" /\ master' \in {"SUCCEEDED", "FAILED"} /\ (master' = "SUCCEEDED" => \A t \in Task : am.finished[t] = 1))
  BY DEF EndMaster
<1>3. Good(am, reported)' <=> Good(am, reported)
  BY DEF Good, TablesOK, Conserved, Served, Succeeded
<1>. QED  BY <1>1, <1>2, <1>3 DEF MasterInv

LEMMA MasterStep == ASSUME LaunchOK, MasterInv, [LaunchNext]_amVars PROVE MasterInv'
<1>1. ASSUME NEW n \in 1 .. MaxBatch, OnContainersAllocated(n) PROVE MasterInv'
  BY <1>1, AllocatedStep
<1>2. ASSUME NEW cs \in Batches, OnContainersCompleted(cs) PROVE MasterInv'
  BY <1>2, CompletedStep
<1>3. ASSUME NEW c \in Container, OnStartContainerError(c) PROVE MasterInv'
  BY <1>3, StartErrorStep
<1>4. ASSUME NEW c \in Container, StartContainer(c) PROVE MasterInv'
  BY <1>4, BecomeStep DEF StartContainer
<1>5. ASSUME NEW c \in Container, Exit(c) PROVE MasterInv'
  BY <1>5, BecomeStep DEF Exit
<1>6. CASE OnShutdownRequest
  BY <1>6, ShutdownStep
<1>7. CASE StartMaster
  BY <1>7, StartStep
<1>8. CASE EndMaster
  BY <1>8, IdleStep DEF EndMaster
<1>9. CASE SubmitApplication \/ PollApplication \/ UNCHANGED amVars
  BY <1>9, IdleStep DEF SubmitApplication, PollApplication, amVars
<1>. QED  BY <1>1, <1>2, <1>3, <1>4, <1>5, <1>6, <1>7, <1>8, <1>9 DEF LaunchNext

LEMMA MasterSafe == MasterInv => TasksAccounted
<1>1. SUFFICES ASSUME MasterInv PROVE TasksAccounted
  OBVIOUS
<1>2. TasksConserved
  <2>1. SUFFICES ASSUME master # "start", NEW t \in Task
                 PROVE  Cardinality({i \in DOMAIN am.pending : am.pending[i] = t})
                          + Cardinality({c \in DOMAIN am.running : am.running[c] = t})
                          + am.finished[t] + am.killed[t] = 1
    BY DEF TasksConserved
  <2>2. TablesOK(am) /\ Conserved(am) /\ am.tasks = << >>
    BY <1>1, <2>1 DEF MasterInv, Good
  <2>3. In(t, Vals(am.pending)) + In(t, Vals(am.running)) + In(t, Vals(am.tasks)) + am.finished[t] + am.killed[t] = 1
    BY <2>2 DEF Conserved
  <2>4. /\ In(t, Vals(am.pending)) \in Nat /\ In(t, Vals(am.running)) \in Nat /\ In(t, Vals(am.tasks)) = 0
        /\ am.finished[t] \in Nat /\ am.killed[t] \in Nat
    BY <2>2, NoVals DEF In, TablesOK
  <2>5. /\ Cardinality({i \in DOMAIN am.pending : am.pending[i] = t}) = In(t, Vals(am.pending))
        /\ Cardinality({c \in DOMAIN am.running : am.running[c] = t}) = In(t, Vals(am.running))
    BY <2>2, CountOnce DEF Conserved
  <2>. QED  BY <2>3, <2>4, <2>5
<1>3. NoOrphan
  BY <1>1 DEF MasterInv, Good, Served, NoOrphan
<1>4. SuccessIsReal
  <2>1. SUFFICES ASSUME master = "SUCCEEDED", NEW t \in Task
                 PROVE  \E c \in reported : container[c] = [state |-> "success", task |-> t]
    BY DEF SuccessIsReal
  <2>2. am.finished[t] = 1 /\ Succeeded(am, reported)
    BY <1>1, <2>1 DEF MasterInv, Good
  <2>. QED  BY <2>2 DEF Succeeded
<1>. QED  BY <1>2, <1>3, <1>4 DEF TasksAccounted

-----------------------------------------------------------------------------
\* However many tasks there are and however often one may fail, whatever containers come, fail
\* to start, exit or are reported in whatever lists, and wherever in a list handleFailure or
\* onContainersCompleted aborts the job: every task is in exactly one of pendingTasks,
\* runningTasks, finishedTasks and killedTasks, every process that may still work is the known
\* one of its task or was told to stop, and run reports success only if all tasks succeeded.
THEOREM LaunchAccounts == ASSUME LaunchOK PROVE Spec => []TasksAccounted
<1>1. LaunchInit => MasterInv
  BY MasterInit
<1>2. MasterInv /\ [LaunchNext]_amVars => MasterInv'
  BY MasterStep
<1>. QED  BY <1>1, <1>2, MasterSafe, PTL DEF Spec
=============================================================================
