--------------------------- MODULE KVServerProofs ---------------------------
(***************************************************************************)
(* A worker pulls the numbers of its keys and pushes gradients that fit,   *)
(* the servers count their entries rightly, and a saved model is served    *)
(* again: for any number of workers, servers and threads, any ranges and   *)
(* any minibatches.                                                        *)
(***************************************************************************)
EXTENDS KVServer, FiniteSetTheorems, SequenceTheorems, WellFoundedInduction, TLAPS

Spec == KVInit /\ [][KVNext]_kvVars

-----------------------------------------------------------------------------
(***************************************************************************)
(* Induction, on the least number a set has.                               *)
(***************************************************************************)
LEMMA LeastElement == \A T \in SUBSET Nat : T # {} => \E m \in T : \A y \in T : m <= y
<1>1. TAKE T \in SUBSET Nat
<1>2. HAVE T # {}
<1>3. PICK m \in T : \A y \in T : ~(<<y, m>> \in OpToRel(<, Nat))
  BY <1>2, WFMin, NatLessThanWellFounded, Zenon
<1>4. m \in Nat /\ \A y \in T : y \in Nat /\ ~(y < m)
  BY <1>3 DEF OpToRel
<1>5. \A y \in T : m <= y
  BY <1>4
<1>. QED  BY <1>3, <1>5

LEMMA Induction ==
    ASSUME NEW T, 0 \in T, \A n \in Nat : n \in T => n + 1 \in T
    PROVE  Nat \subseteq T
<1>1. SUFFICES ASSUME Nat \ T # {} PROVE FALSE
  OBVIOUS
<1>2. PICK m \in Nat \ T : \A y \in Nat \ T : m <= y
  BY <1>1, LeastElement
<1>3. m # 0 /\ m - 1 \in Nat /\ m - 1 \in T
  BY <1>2
<1>. QED  BY <1>2, <1>3

-----------------------------------------------------------------------------
(***************************************************************************)
(* Sums and concatenations, from the first element on.                     *)
(***************************************************************************)
Cat(x, y) == x \o y
None(k) == IF k = "sum" THEN 0 ELSE << >>
Join(k, x, y) == IF k = "sum" THEN x + y ELSE Cat(x, y)
IsRun(f, k, s, n) == f = [i \in 0 .. n |-> IF i = 0 THEN None(k) ELSE Join(k, f[i - 1], s[i])]

LEMMA RunExists == \A k, s : \A n \in Nat : \E f : IsRun(f, k, s, n)
<1>1. SUFFICES ASSUME NEW k, NEW s PROVE \A n \in Nat : \E f : IsRun(f, k, s, n)
  OBVIOUS
<1>. DEFINE T == {n \in Nat : \E f : IsRun(f, k, s, n)}
<1>2. 0 \in T
  <2>. DEFINE f == [i \in 0 .. 0 |-> None(k)]
  <2>1. f = [i \in 0 .. 0 |-> IF i = 0 THEN None(k) ELSE Join(k, f[i - 1], s[i])]
    OBVIOUS
  <2>. QED  BY <2>1 DEF IsRun
<1>3. ASSUME NEW n \in Nat, n \in T PROVE n + 1 \in T
  <2>1. PICK f : IsRun(f, k, s, n)
    BY <1>3
  <2>. DEFINE g == [i \in 0 .. n + 1 |-> IF i = n + 1 THEN Join(k, f[n], s[n + 1]) ELSE f[i]]
              h == [i \in 0 .. n + 1 |-> IF i = 0 THEN None(k) ELSE Join(k, g[i - 1], s[i])]
  <2>2. ASSUME NEW i \in 0 .. n + 1 PROVE g[i] = h[i]
    <3>1. CASE i = 0
      BY <2>1, <3>1 DEF IsRun
    <3>2. CASE i = n + 1
      BY <3>2
    <3>3. CASE i # 0 /\ i # n + 1
      <4>1. i \in 0 .. n /\ i - 1 \in 0 .. n /\ i - 1 # n + 1 /\ i - 1 \in 0 .. n + 1
        BY <3>3
      <4>2. f[i] = Join(k, f[i - 1], s[i]) /\ g[i] = f[i] /\ g[i - 1] = f[i - 1]
        BY <2>1, <3>3, <4>1 DEF IsRun
      <4>. QED  BY <3>3, <4>2
    <3>. QED  BY <3>1, <3>2, <3>3
  <2>3. g = h
    BY <2>2
  <2>4. IsRun(g, k, s, n + 1)
    BY <2>3 DEF IsRun
  <2>. QED  BY <2>4
<1>4. Nat \subseteq T
  <2>. HIDE DEF T
  <2>. QED  BY <1>2, <1>3, Induction
<1>. QED  BY <1>4

\* Run(k, s)[i]: the first i elements of s together
Run(k, s) == CHOOSE f : IsRun(f, k, s, Len(s))

LEMMA Runs ==
    ASSUME NEW k, NEW s, Len(s) \in Nat
    PROVE  /\ Run(k, s)[0] = None(k)
           /\ \A i \in 1 .. Len(s) : Run(k, s)[i] = Join(k, Run(k, s)[i - 1], s[i])
<1>1. PICK f : f = Run(k, s)
  OBVIOUS
<1>2. IsRun(f, k, s, Len(s))
  BY <1>1, RunExists DEF Run
<1>. QED  BY <1>1, <1>2 DEF IsRun

LEMMA SumRuns == \A s : Sum(s) = Run("sum", s)[Len(s)]
  BY DEF Sum, Run, IsRun, None, Join

IsInts(s, n) == s \in Seq(Int) /\ Len(s) = n

LEMMA SumSteps ==
    ASSUME NEW n \in Nat, NEW s, IsInts(s, n)
    PROVE  /\ Run("sum", s)[0] = 0 /\ Run("sum", s)[n] = Sum(s)
           /\ \A i \in 1 .. n : Run("sum", s)[i] = Run("sum", s)[i - 1] + s[i] /\ s[i] \in Int
  BY Runs, SumRuns DEF None, Join, IsInts

LEMMA SumTypes == ASSUME NEW n \in Nat, NEW s, IsInts(s, n) PROVE Sum(s) \in Int
<1>1. PICK f : f = Run("sum", s)
  OBVIOUS
<1>2. f[0] = 0 /\ \A i \in 1 .. n : f[i] = f[i - 1] + s[i] /\ s[i] \in Int
  BY <1>1, SumSteps
<1>. DEFINE T == {i \in Nat : i <= n => f[i] \in Int}
<1>3. 0 \in T
  BY <1>2
<1>4. ASSUME NEW i \in Nat, i \in T PROVE i + 1 \in T
  <2>1. CASE i + 1 <= n
    <3>1. i + 1 \in 1 .. n /\ (i + 1) - 1 = i /\ i <= n
      BY <2>1
    <3>2. f[i + 1] = f[i] + s[i + 1] /\ s[i + 1] \in Int
      BY <1>2, <3>1
    <3>. QED  BY <1>4, <3>1, <3>2
  <2>. QED  BY <2>1
<1>5. Nat \subseteq T
  <2>. HIDE DEF T
  <2>. QED  BY <1>3, <1>4, Induction
<1>. QED  BY <1>1, <1>5, SumSteps

LEMMA SumAdds ==
    ASSUME NEW n \in Nat, NEW a, NEW b, NEW c, IsInts(a, n), IsInts(b, n), IsInts(c, n), \A i \in 1 .. n : c[i] = a[i] + b[i]
    PROVE  Sum(c) = Sum(a) + Sum(b)
<1>1. PICK f, g, h : f = Run("sum", a) /\ g = Run("sum", b) /\ h = Run("sum", c)
  OBVIOUS
<1>2. /\ f[0] = 0 /\ \A i \in 1 .. n : f[i] = f[i - 1] + a[i] /\ a[i] \in Int
      /\ g[0] = 0 /\ \A i \in 1 .. n : g[i] = g[i - 1] + b[i] /\ b[i] \in Int
      /\ h[0] = 0 /\ \A i \in 1 .. n : h[i] = h[i - 1] + c[i] /\ c[i] \in Int
  BY <1>1, SumSteps
<1>. DEFINE T == {i \in Nat : i <= n => f[i] \in Int /\ g[i] \in Int /\ h[i] = f[i] + g[i]}
<1>3. 0 \in T
  BY <1>2
<1>4. ASSUME NEW i \in Nat, i \in T PROVE i + 1 \in T
  <2>1. CASE i + 1 <= n
    <3>1. i + 1 \in 1 .. n /\ (i + 1) - 1 = i /\ i <= n
      BY <2>1
    <3>2. /\ f[i + 1] = f[i] + a[i + 1] /\ a[i + 1] \in Int
          /\ g[i + 1] = g[i] + b[i + 1] /\ b[i + 1] \in Int
          /\ h[i + 1] = h[i] + c[i + 1] /\ c[i + 1] = a[i + 1] + b[i + 1]
      BY <1>2, <3>1
    <3>. QED  BY <1>4, <3>1, <3>2
  <2>. QED  BY <2>1
<1>5. Nat \subseteq T
  <2>. HIDE DEF T
  <2>. QED  BY <1>3, <1>4, Induction
<1>6. h[n] = f[n] + g[n]
  BY <1>5
<1>7. Sum(a) = f[n] /\ Sum(b) = g[n] /\ Sum(c) = h[n]
  BY <1>1, SumSteps
<1>. QED  BY <1>6, <1>7

\* The sum of a list in which only the element at j may be different from 0.
LEMMA SumOne ==
    ASSUME NEW n \in Nat, NEW a, IsInts(a, n), NEW j \in 1 .. n, \A i \in 1 .. n : i # j => a[i] = 0
    PROVE  Sum(a) = a[j]
<1>1. PICK f : f = Run("sum", a)
  OBVIOUS
<1>2. f[0] = 0 /\ \A i \in 1 .. n : f[i] = f[i - 1] + a[i] /\ a[i] \in Int
  BY <1>1, SumSteps
<1>. DEFINE T == {i \in Nat : i <= n => f[i] = IF i < j THEN 0 ELSE a[j]}
<1>3. 0 \in T
  BY <1>2
<1>4. ASSUME NEW i \in Nat, i \in T PROVE i + 1 \in T
  <2>1. CASE i + 1 <= n
    <3>1. i + 1 \in 1 .. n /\ (i + 1) - 1 = i /\ i <= n /\ a[j] \in Int
      BY <1>2, <2>1
    <3>2. f[i + 1] = f[i] + a[i + 1] /\ a[i + 1] \in Int /\ (i + 1 # j => a[i + 1] = 0)
      BY <1>2, <3>1
    <3>3. f[i] = IF i < j THEN 0 ELSE a[j]
      BY <1>4, <3>1
    <3>4. f[i + 1] = IF i + 1 < j THEN 0 ELSE a[j]
      BY <3>1, <3>2, <3>3
    <3>. QED  BY <3>4
  <2>. QED  BY <2>1
<1>5. Nat \subseteq T
  <2>. HIDE DEF T
  <2>. QED  BY <1>3, <1>4, Induction
<1>6. f[n] = a[j]
  BY <1>5
<1>. QED  BY <1>1, <1>6, SumSteps

-----------------------------------------------------------------------------
(***************************************************************************)
(* The server and the bucket of a key.                                     *)
(***************************************************************************)
LEMMA Ranges ==
    ASSUME KVOK
    PROVE  /\ Len(KeyRanges) \in Nat \ {0} /\ Servers = 1 .. Len(KeyRanges)
           /\ \A s \in Servers : KeyRanges[s][1] \in Int /\ KeyRanges[s][2] \in Int
           /\ Keys \subseteq Int
<1>1. KeyRanges \in Seq(Int \X Int) /\ KeyRanges # << >>
  BY DEF KVOK
<1>2. Len(KeyRanges) \in Nat \ {0} /\ DOMAIN KeyRanges = 1 .. Len(KeyRanges)
  BY <1>1
<1>3. \A s \in Servers : KeyRanges[s] \in Int \X Int
  BY <1>1, <1>2 DEF Servers
<1>. QED  BY <1>2, <1>3 DEF Servers, Keys

InServer(s, k) == KeyRanges[s][1] <= k /\ k < KeyRanges[s][2]

LEMMA ServerIs ==
    ASSUME KVOK, NEW k \in Keys
    PROVE  /\ ServerOf(k) \in Servers /\ InServer(ServerOf(k), k)
           /\ \A s \in Servers : InServer(s, k) => s = ServerOf(k)
<1>1. \E s \in Servers : InServer(s, k)
  BY DEF KVOK, InServer
<1>2. ServerOf(k) \in Servers /\ InServer(ServerOf(k), k)
  BY <1>1 DEF ServerOf, InServer
<1>3. ASSUME NEW s \in Servers, NEW t \in Servers, s < t, InServer(s, k), InServer(t, k) PROVE FALSE
  <2>1. KeyRanges[s][2] <= KeyRanges[t][1]
    BY <1>3 DEF KVOK
  <2>2. KeyRanges[s][2] \in Int /\ KeyRanges[t][1] \in Int /\ k \in Int
    BY Ranges
  <2>. QED  BY <1>3, <2>1, <2>2 DEF InServer
<1>4. \A s \in Servers : InServer(s, k) => s = ServerOf(k)
  <2>1. ASSUME NEW s \in Servers, InServer(s, k), s # ServerOf(k) PROVE FALSE
    <3>1. s \in Int /\ ServerOf(k) \in Int
      BY <1>2, Ranges
    <3>2. s < ServerOf(k) \/ ServerOf(k) < s
      BY <2>1, <3>1
    <3>. QED  BY <1>2, <1>3, <2>1, <3>2
  <2>. QED  BY <2>1
<1>. QED  BY <1>2, <1>4

\* The bucket of a position x among the len positions of a server with n buckets of b positions.
LEMMA Division ==
    ASSUME NEW len \in Nat, NEW x \in Nat, x < len, NEW n \in Nat \ {0}, NEW b \in Int, b = (len - 1) \div n + 1
    PROVE  /\ b >= 1 /\ x \div b \in 0 .. n - 1
           /\ b * (x \div b) <= x /\ x < b * (x \div b + 1)
<1>1. PICK q : q = (len - 1) \div n
  OBVIOUS
<1>2. q \in Nat /\ n * q <= len - 1 /\ len - 1 < n * (q + 1) /\ b = q + 1
  BY <1>1
<1>3. PICK d : d = x \div b
  OBVIOUS
<1>4. d \in Nat /\ b * d <= x /\ x < b * (d + 1)
  BY <1>2, <1>3
<1>5. d < n
  <2>1. SUFFICES ASSUME n <= d PROVE FALSE
    BY <1>4
  <2>2. n * b <= d * b
    BY <1>2, <1>4, <2>1
  <2>. QED  BY <1>2, <1>4, <2>2
<1>. QED  BY <1>2, <1>3, <1>4, <1>5

LEMMA BucketsAgree ==
    ASSUME KVOK, NEW k \in Keys, nt \in Nat \ {0}, Dynamic => nt = 1
    PROVE  BucketOf(k) \in Buckets /\ GetValue(ServerOf(k), k) = BucketOf(k)
<1>1. PICK s, b, len, x : /\ s = ServerOf(k) /\ b = BucketSize(s)
                          /\ len = KeyRanges[s][2] - KeyRanges[s][1] /\ x = k - KeyRanges[s][1]
  OBVIOUS
<1>2. s \in Servers /\ InServer(s, k) /\ KeyRanges[s][1] \in Int /\ KeyRanges[s][2] \in Int /\ k \in Int
  BY <1>1, ServerIs, Ranges
<1>3. len \in Nat /\ x \in Nat /\ x < len
  BY <1>1, <1>2 DEF InServer
<1>4. b = (len - 1) \div nt + 1 /\ b \in Int
  BY <1>1, <1>2, <1>3 DEF BucketSize
<1>5. PICK d : d = x \div b
  OBVIOUS
<1>6. b >= 1 /\ d \in 0 .. nt - 1 /\ b * d <= x /\ x < b * (d + 1)
  BY <1>3, <1>4, <1>5, Division
<1>7. GetValue(s, k) = d
  BY <1>1, <1>5 DEF GetValue
<1>8. CASE Dynamic
  BY <1>1, <1>6, <1>7, <1>8 DEF BucketOf, Buckets
<1>9. CASE ~Dynamic
  <2>. DEFINE P(i) == /\ i > 0 => k >= KeyRanges[s][1] + b * i
                      /\ i < nt - 1 => k < KeyRanges[s][1] + b * (i + 1)
  <2>1. P(d)
    BY <1>1, <1>2, <1>3, <1>4, <1>6
  <2>2. ASSUME NEW i \in 0 .. nt - 1, P(i) PROVE i = d
    <3>0. b \in Int /\ i \in Int /\ d \in Int /\ x = k - KeyRanges[s][1] /\ i < nt /\ d < nt /\ i >= 0 /\ d >= 0
      BY <1>1, <1>4, <1>6, <2>2
    <3>1. ASSUME i < d PROVE FALSE
      <4>1. i < nt - 1
        BY <3>0, <3>1
      <4>2. x < b * (i + 1)
        BY <1>2, <2>2, <3>0, <4>1
      <4>3. b * (i + 1) <= b * d
        BY <1>6, <3>0, <3>1
      <4>. QED  BY <1>3, <1>6, <3>0, <4>2, <4>3
    <3>2. ASSUME d < i PROVE FALSE
      <4>1. x >= b * i
        BY <1>2, <2>2, <3>0, <3>2
      <4>2. b * (d + 1) <= b * i
        BY <1>6, <3>0, <3>2
      <4>. QED  BY <1>3, <1>6, <3>0, <4>1, <4>2
    <3>. QED  BY <3>0, <3>1, <3>2
  <2>3. SliceKey(s, k) = CHOOSE i \in 0 .. nt - 1 : P(i)
    BY <1>1 DEF SliceKey, Buckets
  <2>4. SliceKey(s, k) = d
    <3>. HIDE DEF P
    <3>. QED  BY <1>6, <2>1, <2>2, <2>3
  <2>. QED  BY <1>1, <1>6, <1>7, <1>9, <2>4 DEF BucketOf, Buckets
<1>. QED  BY <1>8, <1>9

-----------------------------------------------------------------------------
(***************************************************************************)
(* Sums over all keys and over all servers.                                *)
(***************************************************************************)
LEMMA SumChange ==
    ASSUME NEW n \in Nat, NEW a, NEW b, IsInts(a, n), IsInts(b, n), NEW j \in 1 .. n, \A i \in 1 .. n : i # j => b[i] = a[i]
    PROVE  Sum(b) = Sum(a) + (b[j] - a[j])
<1>. DEFINE d == [i \in 1 .. n |-> b[i] - a[i]]
<1>0. \A i \in 1 .. n : a[i] \in Int /\ b[i] \in Int
  BY DEF IsInts
<1>1. \A i \in 1 .. n : d[i] = b[i] - a[i] /\ d[i] \in Int /\ b[i] = a[i] + d[i] /\ (i # j => d[i] = 0)
  BY <1>0
<1>2. IsInts(d, n)
  BY <1>0 DEF IsInts
<1>. HIDE DEF d
<1>3. Sum(d) = d[j]
  BY <1>1, <1>2, SumOne
<1>4. Sum(b) = Sum(a) + Sum(d)
  BY <1>1, <1>2, SumAdds
<1>. QED  BY <1>1, <1>3, <1>4

LEMMA KeyPositions ==
    ASSUME KVOK
    PROVE  Cardinality(Keys) \in Nat /\ \A i \in 1 .. Cardinality(Keys) : KeyRanges[1][1] + i - 1 \in Keys
<1>1. PICK lo, hi \in Int : lo = KeyRanges[1][1] /\ hi = KeyRanges[Len(KeyRanges)][2] /\ Keys = lo .. hi - 1
  BY Ranges DEF Keys
<1>2. Cardinality(Keys) = IF lo > hi - 1 THEN 0 ELSE (hi - 1) - lo + 1
  <2>1. \A a, b \in Int : Cardinality(a .. b) = IF a > b THEN 0 ELSE b - a + 1
    BY FS_Interval
  <2>2. lo \in Int /\ hi - 1 \in Int
    BY <1>1
  <2>. QED  BY <1>1, <2>1, <2>2
<1>3. PICK n : n = Cardinality(Keys)
  OBVIOUS
<1>4. n = IF lo > hi - 1 THEN 0 ELSE (hi - 1) - lo + 1
  BY <1>2, <1>3
<1>5. n \in Nat /\ \A i \in 1 .. n : lo + i - 1 \in lo .. hi - 1
  BY <1>4
<1>. QED  BY <1>1, <1>3, <1>5

LEMMA KeyList ==
    ASSUME KVOK, NEW f \in [Keys -> Int]
    PROVE  IsInts([i \in 1 .. Cardinality(Keys) |-> f[KeyRanges[1][1] + i - 1]], Cardinality(Keys))
  BY KeyPositions DEF IsInts

LEMMA SumKeysAdds ==
    ASSUME KVOK, NEW f \in [Keys -> Int], NEW g \in [Keys -> Int], NEW h \in [Keys -> Int], \A k \in Keys : h[k] = f[k] + g[k]
    PROVE  SumKeys(f) \in Int /\ SumKeys(g) \in Int /\ SumKeys(h) = SumKeys(f) + SumKeys(g)
<1>1. PICK n, lo : n = Cardinality(Keys) /\ lo = KeyRanges[1][1]
  OBVIOUS
<1>2. PICK a, b, c : /\ a = [i \in 1 .. n |-> f[lo + i - 1]] /\ b = [i \in 1 .. n |-> g[lo + i - 1]]
                     /\ c = [i \in 1 .. n |-> h[lo + i - 1]]
  OBVIOUS
<1>3. n \in Nat /\ \A i \in 1 .. n : lo + i - 1 \in Keys
  BY <1>1, KeyPositions
<1>4. IsInts(a, n) /\ IsInts(b, n) /\ IsInts(c, n)
  BY <1>1, <1>2, KeyList
<1>5. \A i \in 1 .. n : c[i] = a[i] + b[i]
  BY <1>2, <1>3
<1>6. Sum(c) = Sum(a) + Sum(b) /\ Sum(a) \in Int /\ Sum(b) \in Int
  BY <1>3, <1>4, <1>5, SumAdds, SumTypes
<1>7. SumKeys(f) = Sum(a) /\ SumKeys(g) = Sum(b) /\ SumKeys(h) = Sum(c)
  BY <1>1, <1>2 DEF SumKeys
<1>. QED  BY <1>6, <1>7

LEMMA SumKeysInt == ASSUME KVOK, NEW f \in [Keys -> Int] PROVE SumKeys(f) \in Int
<1>. DEFINE ff == [k \in Keys |-> f[k] + f[k]]
<1>1. ff \in [Keys -> Int] /\ \A k \in Keys : ff[k] = f[k] + f[k]
  OBVIOUS
<1>. HIDE DEF ff
<1>. QED  BY <1>1, SumKeysAdds

LEMMA ZeroSum == \A x \in Int : x = x + x => x = 0
  OBVIOUS

\* A sum of zeros: adding it to itself does not change it.
LEMMA SumKeysZero ==
    ASSUME KVOK, NEW f \in [Keys -> Int], \A k \in Keys : f[k] = 0
    PROVE  SumKeys(f) = 0
<1>1. \A k \in Keys : f[k] = f[k] + f[k]
  OBVIOUS
<1>2. SumKeys(f) \in Int /\ SumKeys(f) = SumKeys(f) + SumKeys(f)
  BY <1>1, SumKeysAdds
<1>. QED  BY <1>2, ZeroSum

LEMMA SumZero ==
    ASSUME NEW n \in Nat, NEW a, IsInts(a, n), \A i \in 1 .. n : a[i] = 0
    PROVE  Sum(a) = 0
<1>1. PICK x : x = Sum(a)
  OBVIOUS
<1>2. x \in Int /\ x = x + x
  BY <1>1, SumAdds, SumTypes
<1>3. x = 0
  BY <1>2
<1>. QED  BY <1>1, <1>3

-----------------------------------------------------------------------------
(***************************************************************************)
(* What the servers have counted.                                          *)
(***************************************************************************)
Stat == [w : Int, v : Int, ct : Int]
Total == [w : Int, v : Int]

Counted == [w |-> reported.w + Sum([s \in Servers |-> stats[s].w]), v |-> reported.v + Sum([s \in Servers |-> stats[s].v])]

LEMMA ServerList ==
    ASSUME KVOK, stats \in [Servers -> Stat]
    PROVE  IsInts([s \in Servers |-> stats[s].w], Len(KeyRanges)) /\ IsInts([s \in Servers |-> stats[s].v], Len(KeyRanges))
  BY Ranges DEF IsInts, Stat

LEMMA FinishCounts ==
    ASSUME KVOK, stats \in [Servers -> Stat], reported \in Total, NEW s \in Servers, NEW gain \in Total, Finish(s, gain)
    PROVE  /\ stats' \in [Servers -> Stat] /\ reported' \in Total
           /\ Counted'.w = Counted.w + gain.w /\ Counted'.v = Counted.v + gain.v
<1>1. PICK now : now = [w |-> stats[s].w + gain.w, v |-> stats[s].v + gain.v, ct |-> stats[s].ct + 1]
  OBVIOUS
<1>2. PICK n : n = Len(KeyRanges)
  OBVIOUS
<1>3. now \in Stat /\ now.w = stats[s].w + gain.w /\ now.v = stats[s].v + gain.v /\ stats[s] \in Stat
  BY <1>1 DEF Stat, Total
<1>4. n \in Nat /\ Servers = 1 .. n
  BY <1>2, Ranges
<1>5. PICK new \in Stat, rep \in Total :
         /\ stats' = [stats EXCEPT ![s] = new] /\ reported' = rep
         /\ rep.w + new.w = reported.w + now.w /\ rep.v + new.v = reported.v + now.v
  <2>0. NoStats \in Stat /\ NoStats.w = 0 /\ NoStats.v = 0
    BY DEF NoStats, Stat
  <2>1. CASE now.ct >= Len(KeyRanges)
    <3>1. PICK rep : rep = [w |-> reported.w + now.w, v |-> reported.v + now.v]
      OBVIOUS
    <3>2. rep \in Total /\ rep.w + 0 = reported.w + now.w /\ rep.v + 0 = reported.v + now.v
      BY <1>3, <3>1 DEF Total, Stat
    <3>3. stats' = [stats EXCEPT ![s] = NoStats] /\ reported' = rep
      BY <1>1, <2>1, <3>1 DEF Finish
    <3>. QED  BY <2>0, <3>2, <3>3
  <2>2. CASE ~(now.ct >= Len(KeyRanges))
    <3>1. stats' = [stats EXCEPT ![s] = now] /\ reported' = reported
      BY <1>1, <2>2 DEF Finish
    <3>. QED  BY <1>3, <3>1
  <2>. QED  BY <2>1, <2>2
<1>6. stats' \in [Servers -> Stat] /\ reported' \in Total
  BY <1>5
<1>7. PICK aw, av, bw, bv : /\ aw = [x \in Servers |-> stats[x].w] /\ av = [x \in Servers |-> stats[x].v]
                            /\ bw = [x \in Servers |-> stats'[x].w] /\ bv = [x \in Servers |-> stats'[x].v]
  OBVIOUS
<1>8. IsInts(aw, n) /\ IsInts(av, n) /\ IsInts(bw, n) /\ IsInts(bv, n)
  BY <1>4, <1>6, <1>7 DEF IsInts, Stat
<1>9. /\ aw[s] = stats[s].w /\ av[s] = stats[s].v /\ bw[s] = new.w /\ bv[s] = new.v
      /\ \A i \in 1 .. n : i # s => bw[i] = aw[i] /\ bv[i] = av[i]
  BY <1>4, <1>5, <1>7
<1>10. Sum(bw) = Sum(aw) + (bw[s] - aw[s]) /\ Sum(bv) = Sum(av) + (bv[s] - av[s]) /\ Sum(aw) \in Int /\ Sum(av) \in Int
  BY <1>4, <1>8, <1>9, SumChange, SumTypes
<1>11. Counted.w = reported.w + Sum(aw) /\ Counted.v = reported.v + Sum(av)
  BY <1>7 DEF Counted
<1>12. Counted'.w = rep.w + Sum(bw) /\ Counted'.v = rep.v + Sum(bv)
  BY <1>5, <1>7 DEF Counted
<1>13. /\ reported.w \in Int /\ reported.v \in Int /\ rep.w \in Int /\ rep.v \in Int /\ new.w \in Int /\ new.v \in Int
       /\ gain.w \in Int /\ gain.v \in Int /\ stats[s].w \in Int /\ stats[s].v \in Int
  BY <1>3, <1>5 DEF Total, Stat
<1>14. Counted'.w = Counted.w + gain.w
  BY <1>3, <1>5, <1>9, <1>10, <1>11, <1>12, <1>13
<1>15. Counted'.v = Counted.v + gain.v
  BY <1>3, <1>5, <1>9, <1>10, <1>11, <1>12, <1>13
<1>. QED  BY <1>6, <1>14, <1>15

-----------------------------------------------------------------------------
(***************************************************************************)
(* The entries of the servers.  A key has one in its bucket only.          *)
(***************************************************************************)
EntryT == [cnt : Int, size : Nat \ {0}, w : Int]

Tables(d) ==
    /\ d \in [Buckets -> [Keys -> EntryT]]
    /\ \A b \in Buckets, k \in Keys : b # BucketOf(k) => d[b][k] = NoEntry

StoreInv ==
    /\ nt \in Nat \ {0} /\ (Dynamic => nt = 1)
    /\ Tables(data) /\ (file = NoModel \/ Tables(file))
    /\ stats \in [Servers -> Stat] /\ reported \in Total
    /\ CountsRight

SameStore == app' = app /\ nt' = nt /\ shrink' = shrink

LEMMA BucketsSame ==
    ASSUME SameStore
    PROVE  /\ Buckets' = Buckets /\ (Dynamic' <=> Dynamic) /\ \A k : BucketOf(k)' = BucketOf(k)
           /\ \A d : Tables(d)' <=> Tables(d)
<1>1. Buckets' = Buckets /\ (Dynamic' <=> Dynamic)
  BY DEF SameStore, Buckets, Dynamic
<1>2. \A k : BucketOf(k)' = BucketOf(k)
  BY <1>1 DEF SameStore, BucketOf, SliceKey, BucketSize
<1>3. \A d : Tables(d)' <=> Tables(d)
  BY <1>1, <1>2 DEF Tables
<1>. QED  BY <1>1, <1>2, <1>3

LEMMA EntryTypes == ASSUME KVOK, StoreInv, NEW k \in Keys PROVE Entry(k) \in EntryT /\ BucketOf(k) \in Buckets
  BY BucketsAgree DEF StoreInv, Tables, Entry

\* Requests leave entries that are as long as before, or longer.
LEMMA Grows ==
    ASSUME KVOK, NEW e \in EntryT, NEW w \in Int
    PROVE  /\ PushCount(e) \in EntryT /\ e.size <= PushCount(e).size
           /\ PushGrad(e, w) \in EntryT /\ e.size <= PushGrad(e, w).size
<1>1. ASSUME NEW x \in EntryT PROVE Resize(x) \in EntryT /\ x.size <= Resize(x).size
  <2>0. Dim + 1 \in Nat \ {0} /\ x.size \in Nat \ {0} /\ x.size <= x.size
    BY DEF KVOK, EntryT
  <2>1. CASE Resize(x) = x
    BY <2>0, <2>1
  <2>2. CASE Resize(x) # x
    <3>1. Resize(x) = [x EXCEPT !.size = Dim + 1] /\ x.size < Dim + 1
      BY <2>2 DEF Resize
    <3>2. [x EXCEPT !.size = Dim + 1] \in EntryT /\ [x EXCEPT !.size = Dim + 1].size = Dim + 1
      BY <2>0 DEF EntryT
    <3>. QED  BY <2>0, <3>1, <3>2
  <2>. QED  BY <2>1, <2>2
<1>2. ASSUME NEW c \in Int PROVE [e EXCEPT !.cnt = c] \in EntryT /\ [e EXCEPT !.cnt = c].size = e.size
  BY DEF EntryT
<1>3. PushCount(e) \in EntryT /\ e.size <= PushCount(e).size
  <2>1. PICK c \in Int : PushCount(e) = Resize([e EXCEPT !.cnt = c])
    <3>1. e.cnt \in Int /\ e.cnt + 1 \in Int
      BY DEF EntryT
    <3>. QED  BY <3>1 DEF PushCount
  <2>2. PICK x \in EntryT : PushCount(e) = Resize(x) /\ x.size = e.size
    BY <1>2, <2>1
  <2>. QED  BY <1>1, <2>2
<1>4. PICK n : n = [e EXCEPT !.w = w]
  OBVIOUS
<1>5. n \in EntryT /\ n.size = e.size /\ (PushGrad(e, w) = n \/ PushGrad(e, w) = Resize(n))
  BY <1>4 DEF EntryT, PushGrad
<1>6. e.size <= e.size
  BY DEF EntryT
<1>. QED  BY <1>1, <1>3, <1>5, <1>6

\* The entries of a request get new values, and what they gain is counted.
LEMMA UpdateStores ==
    ASSUME KVOK, StoreInv, SameStore, file' = file, NEW s \in Servers, NEW m, NEW new,
           \A k \in Keys : k \in ToSet(m.keys) => new[k] \in EntryT, Update(s, m, new)
    PROVE  /\ StoreInv'
           /\ \A k \in Keys : Entry(k)' = IF k \in ToSet(m.keys) THEN new[k] ELSE Entry(k)
<1>1. PICK now : now = [k \in Keys |-> IF k \in ToSet(m.keys) THEN new[k] ELSE Entry(k)]
  OBVIOUS
<1>2. PICK all : all = [k \in Keys |-> Gain(Entry(k), now[k])]
  OBVIOUS
<1>3. PICK changed, counted, cw, gain :
         /\ changed = {k \in Keys : all[k].w # 0} /\ counted \in Counts(changed)
         /\ cw = [k \in Keys |-> IF k \in counted THEN all[k].w ELSE 0]
         /\ gain = [w |-> SumKeys(cw), v |-> SumKeys([k \in Keys |-> all[k].v])]
         /\ data' = [b \in Buckets |-> [k \in Keys |-> IF BucketOf(k) = b THEN now[k] ELSE data[b][k]]]
         /\ raced' = (raced \/ \E x, y \in changed : BucketOf(x) # BucketOf(y))
         /\ Finish(s, gain)
  <2>1. PICK changed, counted : /\ changed = {k \in Keys : all[k].w # 0} /\ counted \in Counts(changed)
          /\ Finish(s, [w |-> SumKeys([k \in Keys |-> IF k \in counted THEN all[k].w ELSE 0]),
                        v |-> SumKeys([k \in Keys |-> all[k].v])])
          /\ data' = [b \in Buckets |-> [k \in Keys |-> IF BucketOf(k) = b THEN now[k] ELSE data[b][k]]]
          /\ raced' = (raced \/ \E x, y \in changed : BucketOf(x) # BucketOf(y))
    BY <1>1, <1>2 DEF Update
  <2>. QED  BY <2>1
<1>4. \A k \in Keys : Entry(k) \in EntryT /\ BucketOf(k) \in Buckets /\ now[k] \in EntryT
  BY <1>1, EntryTypes
<1>5. Tables(data')
  <2>1. data \in [Buckets -> [Keys -> EntryT]] /\ \A b \in Buckets, k \in Keys : b # BucketOf(k) => data[b][k] = NoEntry
    BY DEF StoreInv, Tables
  <2>2. data' \in [Buckets -> [Keys -> EntryT]]
    BY <1>3, <1>4, <2>1
  <2>3. ASSUME NEW b \in Buckets, NEW k \in Keys, b # BucketOf(k) PROVE data'[b][k] = NoEntry
    BY <1>3, <2>1, <2>3
  <2>. QED  BY <2>2, <2>3 DEF Tables
<1>6. \A k \in Keys : Entry(k)' = now[k]
  <2>1. ASSUME NEW k \in Keys PROVE data'[BucketOf(k)][k] = now[k]
    BY <1>3, <1>4
  <2>. QED  BY <2>1, BucketsSame DEF Entry
<1>7. PICK ow, ov, gw, gv, nw, nv :
         /\ ow = [k \in Keys |-> Nonzero(Entry(k))] /\ ov = [k \in Keys |-> Entry(k).size - 1]
         /\ gw = [k \in Keys |-> all[k].w] /\ gv = [k \in Keys |-> all[k].v]
         /\ nw = [k \in Keys |-> Nonzero(now[k])] /\ nv = [k \in Keys |-> now[k].size - 1]
  OBVIOUS
<1>8. /\ ow \in [Keys -> Int] /\ gw \in [Keys -> Int] /\ nw \in [Keys -> Int] /\ \A k \in Keys : nw[k] = ow[k] + gw[k]
  <2>1. \A e : Nonzero(e) \in Int
    BY DEF Nonzero
  <2>2. \A k \in Keys : Gain(Entry(k), now[k]).w = Nonzero(now[k]) - Nonzero(Entry(k))
    BY DEF Gain
  <2>. QED  BY <1>2, <1>7, <2>1, <2>2
<1>9. ov \in [Keys -> Int] /\ gv \in [Keys -> Int] /\ nv \in [Keys -> Int] /\ \A k \in Keys : nv[k] = ov[k] + gv[k]
  <2>1. \A k \in Keys : Entry(k).size \in Int /\ now[k].size \in Int
    BY <1>4 DEF EntryT
  <2>2. \A k \in Keys : Gain(Entry(k), now[k]).v = now[k].size - Entry(k).size
    BY DEF Gain
  <2>3. \A k \in Keys : ov[k] = Entry(k).size - 1 /\ gv[k] = now[k].size - Entry(k).size /\ nv[k] = now[k].size - 1
    BY <1>2, <1>7, <2>2
  <2>4. \A k \in Keys : ov[k] \in Int /\ gv[k] \in Int /\ nv[k] \in Int /\ nv[k] = ov[k] + gv[k]
    BY <2>1, <2>3
  <2>5. ov \in [Keys -> Int]
    BY <1>7, <2>4
  <2>6. gv \in [Keys -> Int]
    BY <1>7, <2>4
  <2>7. nv \in [Keys -> Int]
    BY <1>7, <2>4
  <2>. QED  BY <2>4, <2>5, <2>6, <2>7
<1>10. /\ SumKeys(nw) = SumKeys(ow) + SumKeys(gw) /\ SumKeys(nv) = SumKeys(ov) + SumKeys(gv)
       /\ SumKeys(gw) \in Int /\ SumKeys(gv) \in Int
  BY <1>8, <1>9, SumKeysAdds
<1>11. gain.v = SumKeys(gv) /\ gain \in Total /\ (~raced' => gain.w = SumKeys(gw))
  <2>1. cw \in [Keys -> Int]
    BY <1>3, <1>7, <1>8
  <2>2. SumKeys(cw) \in Int
    BY <2>1, SumKeysInt
  <2>3. ASSUME ~raced' PROVE cw = gw
    <3>1. counted = changed
      BY <1>3, <2>3 DEF Counts
    <3>2. \A k \in Keys : cw[k] = gw[k]
      BY <1>3, <1>7, <3>1
    <3>. QED  BY <1>8, <2>1, <3>2
  <2>. QED  BY <1>3, <1>7, <1>10, <2>2, <2>3 DEF Total
<1>12. /\ stats' \in [Servers -> Stat] /\ reported' \in Total
       /\ Counted'.w = Counted.w + gain.w /\ Counted'.v = Counted.v + gain.v
  BY <1>3, <1>11, FinishCounts DEF StoreInv
<1>13. (~raced => Counted.w = SumKeys(ow)) /\ Counted.v = SumKeys(ov)
  BY <1>7 DEF StoreInv, CountsRight, Counted
<1>14. CountsRight'
  <2>1. SumKeys(nw) = SumKeys([k \in Keys |-> Nonzero(Entry(k)')]) /\ SumKeys(nv) = SumKeys([k \in Keys |-> Entry(k)'.size - 1])
    <3>1. nw = [k \in Keys |-> Nonzero(Entry(k)')] /\ nv = [k \in Keys |-> Entry(k)'.size - 1]
      BY <1>6, <1>7
    <3>. QED  BY <3>1
  <2>2. (~raced' => Counted'.w = SumKeys(nw)) /\ Counted'.v = SumKeys(nv)
    BY <1>3, <1>10, <1>11, <1>12, <1>13
  <2>. QED  BY <2>1, <2>2 DEF CountsRight, Counted, Nonzero
<1>15. Tables(data)' /\ (file = NoModel \/ Tables(file))'
  BY <1>5, BucketsSame DEF StoreInv
<1>16. StoreInv'
  BY <1>12, <1>14, <1>15, BucketsSame DEF StoreInv, SameStore
<1>. QED  BY <1>1, <1>6, <1>16

LEMMA NoEntryType == NoEntry \in EntryT /\ NoEntry.w = 0 /\ NoEntry.size = 1
  BY DEF NoEntry, EntryT

LEMMA NoStatsSum ==
    ASSUME KVOK, NEW st, st = [s \in Servers |-> NoStats]
    PROVE  /\ st \in [Servers -> Stat]
           /\ Sum([s \in Servers |-> st[s].w]) = 0 /\ Sum([s \in Servers |-> st[s].v]) = 0
<1>1. NoStats \in Stat /\ NoStats.w = 0 /\ NoStats.v = 0
  BY DEF NoStats, Stat
<1>2. PICK n : n = Len(KeyRanges)
  OBVIOUS
<1>3. n \in Nat /\ Servers = 1 .. n
  BY <1>2, Ranges
<1>4. PICK a, b : a = [s \in Servers |-> st[s].w] /\ b = [s \in Servers |-> st[s].v]
  OBVIOUS
<1>5. \A i \in 1 .. n : a[i] = 0 /\ b[i] = 0
  BY <1>1, <1>3, <1>4
<1>6. IsInts(a, n) /\ IsInts(b, n)
  BY <1>1, <1>3, <1>4 DEF IsInts
<1>7. Sum(a) = 0 /\ Sum(b) = 0
  BY <1>3, <1>5, <1>6, SumZero
<1>. QED  BY <1>1, <1>4, <1>7

LEMMA StoreInit == ASSUME KVOK, KVInit PROVE StoreInv
<1>1. nt \in Nat \ {0} /\ (Dynamic => nt = 1)
  BY DEF KVInit, KVOK, Dynamic
<1>2. /\ data = [b \in Buckets |-> [k \in Keys |-> NoEntry]] /\ file = NoModel
      /\ stats = [s \in Servers |-> NoStats] /\ reported = [w |-> 0, v |-> 0]
  BY DEF KVInit
<1>3. Tables(data)
  BY <1>2, NoEntryType DEF Tables
<1>4. \A k \in Keys : Entry(k) = NoEntry
  BY <1>1, <1>2, BucketsAgree DEF Entry
<1>5. reported \in Total /\ reported.w = 0 /\ reported.v = 0
  BY <1>2 DEF Total
<1>6. /\ stats \in [Servers -> Stat]
      /\ Sum([s \in Servers |-> stats[s].w]) = 0 /\ Sum([s \in Servers |-> stats[s].v]) = 0
  BY <1>2, NoStatsSum
<1>7. PICK f, g : f = [k \in Keys |-> Nonzero(Entry(k))] /\ g = [k \in Keys |-> Entry(k).size - 1]
  OBVIOUS
<1>8. f \in [Keys -> Int] /\ g \in [Keys -> Int] /\ \A k \in Keys : f[k] = 0 /\ g[k] = 0
  BY <1>4, <1>7, NoEntryType DEF Nonzero
<1>9. SumKeys(f) = 0 /\ SumKeys(g) = 0
  BY <1>8, SumKeysZero
<1>10. CountsRight
  BY <1>5, <1>6, <1>7, <1>9 DEF CountsRight
<1>. QED  BY <1>1, <1>2, <1>3, <1>5, <1>6, <1>10 DEF StoreInv

\* What is loaded of a key is what its own bucket had, but for the count.
LEMMA LoadedIs ==
    ASSUME KVOK, StoreInv, file # NoModel, NEW k \in Keys
    PROVE  /\ Loaded(k) \in EntryT
           /\ Loaded(k).w = file[BucketOf(k)][k].w /\ Loaded(k).size = file[BucketOf(k)][k].size
<1>1. PICK B : B = BucketOf(k)
  OBVIOUS
<1>2. B \in Buckets /\ file[B][k] \in EntryT /\ \A b \in Buckets : b # B => file[b][k] = NoEntry
  BY <1>1, EntryTypes DEF StoreInv, Tables
<1>3. PICK there : there = {b \in Buckets : ~Empty(file[b][k])}
  OBVIOUS
<1>4. \A b \in there : b = B
  BY <1>2, <1>3, NoEntryType DEF Empty
<1>5. CASE there = {}
  <2>1. Loaded(k) = NoEntry /\ file[B][k].w = 0 /\ file[B][k].size = 1
    BY <1>2, <1>3, <1>5 DEF Loaded, Empty
  <2>. QED  BY <1>1, <2>1, NoEntryType
<1>6. CASE there # {}
  <2>1. (CHOOSE b \in there : TRUE) = B
    BY <1>4, <1>6
  <2>2. Loaded(k) = [file[B][k] EXCEPT !.cnt = 0]
    BY <1>3, <1>6, <2>1 DEF Loaded
  <2>. QED  BY <1>1, <1>2, <2>2 DEF EntryT
<1>. QED  BY <1>5, <1>6

LEMMA RestartStores ==
    ASSUME KVOK, StoreInv, Restart
    PROVE  /\ StoreInv'
           /\ \A k \in Keys : Entry(k)'.w = file[BucketOf(k)][k].w /\ Entry(k)'.size = file[BucketOf(k)][k].size
<1>1. /\ file # NoModel /\ SameStore /\ file' = file
      /\ data' = [b \in Buckets |-> [k \in Keys |-> IF GetValue(ServerOf(k), k) = b THEN Loaded(k) ELSE NoEntry]]
      /\ reported' = [w |-> SumKeys([k \in Keys |-> Nonzero(Loaded(k))]), v |-> SumKeys([k \in Keys |-> Loaded(k).size - 1])]
      /\ stats' = [s \in Servers |-> NoStats]
  BY DEF Restart, SameStore
<1>2. \A k \in Keys : /\ BucketOf(k) \in Buckets /\ GetValue(ServerOf(k), k) = BucketOf(k) /\ Loaded(k) \in EntryT
                      /\ Loaded(k).w = file[BucketOf(k)][k].w /\ Loaded(k).size = file[BucketOf(k)][k].size
  BY <1>1, LoadedIs, BucketsAgree DEF StoreInv
<1>3. data' = [b \in Buckets |-> [k \in Keys |-> IF BucketOf(k) = b THEN Loaded(k) ELSE NoEntry]]
  BY <1>1, <1>2
<1>4. Tables(data')
  BY <1>2, <1>3, NoEntryType DEF Tables
<1>5. \A k \in Keys : Entry(k)' = Loaded(k)
  <2>1. \A k \in Keys : data'[BucketOf(k)][k] = Loaded(k)
    BY <1>2, <1>3
  <2>. QED  BY <1>1, <2>1, BucketsSame DEF Entry
<1>6. /\ stats' \in [Servers -> Stat]
      /\ Sum([s \in Servers |-> stats'[s].w]) = 0 /\ Sum([s \in Servers |-> stats'[s].v]) = 0
  <2>1. PICK st : st = stats'
    OBVIOUS
  <2>2. st = [s \in Servers |-> NoStats]
    BY <1>1, <2>1
  <2>3. st \in [Servers -> Stat] /\ Sum([s \in Servers |-> st[s].w]) = 0 /\ Sum([s \in Servers |-> st[s].v]) = 0
    BY <2>2, NoStatsSum
  <2>. QED  BY <2>1, <2>3
<1>7. PICK f, g : f = [k \in Keys |-> Nonzero(Loaded(k))] /\ g = [k \in Keys |-> Loaded(k).size - 1]
  OBVIOUS
<1>8. f \in [Keys -> Int] /\ g \in [Keys -> Int]
  <2>1. \A k \in Keys : Nonzero(Loaded(k)) \in Int
    BY DEF Nonzero
  <2>2. \A k \in Keys : Loaded(k).size - 1 \in Int
    BY <1>2 DEF EntryT
  <2>. QED  BY <1>7, <2>1, <2>2
<1>9. SumKeys(f) \in Int /\ SumKeys(g) \in Int
  BY <1>8, SumKeysInt
<1>10. reported' \in Total /\ reported'.w = SumKeys(f) /\ reported'.v = SumKeys(g)
  BY <1>1, <1>7, <1>9 DEF Total
<1>11. CountsRight'
  <2>1. f = [k \in Keys |-> Nonzero(Entry(k)')] /\ g = [k \in Keys |-> Entry(k)'.size - 1]
    BY <1>5, <1>7
  <2>2. reported'.w + 0 = SumKeys(f) /\ reported'.v + 0 = SumKeys(g)
    BY <1>9, <1>10
  <2>. QED  BY <1>6, <2>1, <2>2 DEF CountsRight, Nonzero
<1>12. Tables(data)' /\ (file = NoModel \/ Tables(file))'
  BY <1>1, <1>4, BucketsSame DEF StoreInv
<1>13. StoreInv'
  BY <1>1, <1>6, <1>10, <1>11, <1>12, BucketsSame DEF StoreInv, SameStore
<1>. QED  BY <1>2, <1>5, <1>13

LEMMA SaveStores == ASSUME KVOK, StoreInv, Save PROVE StoreInv'
<1>1. /\ SameStore /\ data' = data /\ stats' = stats /\ reported' = reported /\ raced' = raced
      /\ file' = [b \in Buckets |-> [k \in Keys |-> data[b][k]]]
  BY DEF Save, SameStore
<1>2. Tables(file')
  BY <1>1 DEF StoreInv, Tables
<1>3. Tables(data)' /\ Tables(file)'
  BY <1>1, <1>2, BucketsSame DEF StoreInv
<1>4. \A k : Entry(k)' = Entry(k)
  BY <1>1, BucketsSame DEF Entry
<1>5. CountsRight'
  BY <1>1, <1>4 DEF StoreInv, CountsRight, Nonzero
<1>. QED  BY <1>1, <1>3, <1>5, BucketsSame DEF StoreInv, SameStore

\* The steps that leave the stores as they are.
LEMMA StoresKept ==
    ASSUME StoreInv, SameStore, data' = data, file' = file, stats' = stats, reported' = reported, raced' = raced
    PROVE  StoreInv' /\ \A k : Entry(k)' = Entry(k)
<1>1. Tables(data)' /\ (file = NoModel \/ Tables(file))'
  BY BucketsSame DEF StoreInv
<1>2. \A k : Entry(k)' = Entry(k)
  BY BucketsSame DEF Entry
<1>3. CountsRight'
  BY <1>2 DEF StoreInv, CountsRight, Nonzero
<1>. QED  BY <1>1, <1>2, <1>3, BucketsSame DEF StoreInv, SameStore

LEMMA PullStores ==
    ASSUME KVOK, StoreInv, NEW w, NEW s \in Servers, HandlePull(w, s)
    PROVE  StoreInv' /\ \A k : Entry(k)' = Entry(k)
<1>1. PICK gain : gain = [w |-> 0, v |-> 0]
  OBVIOUS
<1>2. SameStore /\ data' = data /\ file' = file /\ raced' = raced /\ Finish(s, gain) /\ gain \in Total /\ gain.w = 0 /\ gain.v = 0
  BY <1>1 DEF HandlePull, SameStore, Total
<1>3. /\ stats' \in [Servers -> Stat] /\ reported' \in Total
      /\ Counted'.w = Counted.w + 0 /\ Counted'.v = Counted.v + 0
  BY <1>2, FinishCounts DEF StoreInv
<1>4. Tables(data)' /\ (file = NoModel \/ Tables(file))'
  BY <1>2, BucketsSame DEF StoreInv
<1>5. \A k : Entry(k)' = Entry(k)
  BY <1>2, BucketsSame DEF Entry
<1>6. Counted.w \in Int /\ Counted.v \in Int
  <2>1. PICK a, b, n : a = [x \in Servers |-> stats[x].w] /\ b = [x \in Servers |-> stats[x].v] /\ n = Len(KeyRanges)
    OBVIOUS
  <2>2. n \in Nat /\ IsInts(a, n) /\ IsInts(b, n)
    BY <2>1, ServerList, Ranges DEF StoreInv
  <2>3. Sum(a) \in Int /\ Sum(b) \in Int /\ reported.w \in Int /\ reported.v \in Int
    BY <2>2, SumTypes DEF StoreInv, Total
  <2>. QED  BY <2>1, <2>3 DEF Counted
<1>7. Counted'.w = Counted.w /\ Counted'.v = Counted.v
  BY <1>3, <1>6
<1>8. CountsRight'
  BY <1>2, <1>5, <1>7 DEF StoreInv, CountsRight, Counted, Nonzero
<1>. QED  BY <1>2, <1>3, <1>4, <1>5, <1>8, BucketsSame DEF StoreInv, SameStore

LEMMA CountStores ==
    ASSUME KVOK, StoreInv, NEW w, NEW s \in Servers, HandleCount(w, s)
    PROVE  StoreInv' /\ \A k \in Keys : Entry(k)'.size \in Nat /\ Entry(k).size \in Nat /\ Entry(k).size <= Entry(k)'.size
<1>1. PICK m, new : m = Head(chan[w][s]) /\ new = [k \in ToSet(m.keys) |-> PushCount(Entry(k))]
  OBVIOUS
<1>2. SameStore /\ file' = file /\ Update(s, m, new)
  BY <1>1 DEF HandleCount, SameStore
<1>3. \A k \in Keys : k \in ToSet(m.keys) => new[k] \in EntryT /\ Entry(k).size <= new[k].size
  <2>1. 0 \in Int
    OBVIOUS
  <2>. QED  BY <1>1, <2>1, EntryTypes, Grows
<1>4. StoreInv' /\ \A k \in Keys : Entry(k)' = IF k \in ToSet(m.keys) THEN new[k] ELSE Entry(k)
  BY <1>2, <1>3, UpdateStores
<1>5. \A k \in Keys : Entry(k).size \in Nat /\ Entry(k).size <= Entry(k).size /\ (k \in ToSet(m.keys) => new[k].size \in Nat)
  BY <1>3, EntryTypes DEF EntryT
<1>. QED  BY <1>3, <1>4, <1>5

LEMMA PushStores ==
    ASSUME KVOK, StoreInv, NEW w, NEW s \in Servers, HandlePush(w, s)
    PROVE  StoreInv' /\ \A k \in Keys : Entry(k)'.size \in Nat /\ Entry(k).size \in Nat /\ Entry(k).size <= Entry(k)'.size
<1>1. PICK m : m = Head(chan[w][s])
  OBVIOUS
<1>2. PICK nw \in [ToSet(m.keys) -> NewWeights] : Update(s, m, [k \in DOMAIN nw |-> PushGrad(Entry(k), nw[k])])
  BY <1>1 DEF HandlePush
<1>3. PICK new : new = [k \in DOMAIN nw |-> PushGrad(Entry(k), nw[k])]
  OBVIOUS
<1>4. SameStore /\ file' = file /\ Update(s, m, new)
  BY <1>2, <1>3 DEF HandlePush, SameStore
<1>5. \A k \in Keys : k \in ToSet(m.keys) => new[k] \in EntryT /\ Entry(k).size <= new[k].size
  <2>1. \A k \in ToSet(m.keys) : nw[k] \in Int
    BY <1>2 DEF NewWeights
  <2>. QED  BY <1>2, <1>3, <2>1, EntryTypes, Grows
<1>6. StoreInv' /\ \A k \in Keys : Entry(k)' = IF k \in ToSet(m.keys) THEN new[k] ELSE Entry(k)
  BY <1>4, <1>5, UpdateStores
<1>7. \A k \in Keys : Entry(k).size \in Nat /\ Entry(k).size <= Entry(k).size /\ (k \in ToSet(m.keys) => new[k].size \in Nat)
  BY <1>5, EntryTypes DEF EntryT
<1>. QED  BY <1>5, <1>6, <1>7

LEMMA StoreStep == ASSUME KVOK, StoreInv, [KVNext]_kvVars PROVE StoreInv'
<1>1. ASSUME NEW w \in Workers, NEW ks \in Batches, StartMinibatch(w, ks) PROVE StoreInv'
  BY <1>1, StoresKept DEF StartMinibatch, SameStore
<1>2. ASSUME NEW w \in Workers, PushGradients(w) PROVE StoreInv'
  BY <1>2, StoresKept DEF PushGradients, SameStore
<1>3. ASSUME NEW w \in Workers, NEW s \in Servers, HandleCount(w, s) \/ HandlePush(w, s) \/ HandlePull(w, s) PROVE StoreInv'
  BY <1>3, CountStores, PushStores, PullStores
<1>4. ASSUME NEW r \in resps, ProcessResponse(r) PROVE StoreInv'
  BY <1>4, StoresKept DEF ProcessResponse, SameStore
<1>5. CASE Save
  BY <1>5, SaveStores
<1>6. CASE Restart
  BY <1>6, RestartStores
<1>7. CASE UNCHANGED kvVars
  BY <1>7, StoresKept DEF kvVars, SameStore
<1>. QED  BY <1>1, <1>2, <1>3, <1>4, <1>5, <1>6, <1>7 DEF KVNext

-----------------------------------------------------------------------------
\* The sizes of vectors that the servers have reported, with those still kept in their handles, are
\* always those of their entries, and so are the numbers of weights as long as no request changed
\* new_w in two threads of a store (with one thread: always): for any number of servers and threads,
\* any ranges, whatever is pushed, and also after a model was loaded.
THEOREM ServersCount == ASSUME KVOK PROVE Spec => []CountsRight
<1>1. KVInit => StoreInv
  BY StoreInit
<1>2. StoreInv /\ [KVNext]_kvVars => StoreInv'
  BY StoreStep
<1>3. StoreInv => CountsRight
  BY DEF StoreInv
<1>. QED  BY <1>1, <1>2, <1>3, PTL DEF Spec

\* A restarted job serves every weight and vector of the saved model where HandlePush and
\* HandlePull look for it: GetValue, which Load uses, and SliceKey, which cuts the requests for
\* the threads, give a key the same bucket, for any range and number of threads.
THEOREM ServersServeModel == ASSUME KVOK PROVE Spec => ModelServed
<1>1. KVInit => StoreInv
  BY StoreInit
<1>2. StoreInv /\ [KVNext]_kvVars => StoreInv'
  BY StoreStep
<1>3. StoreInv /\ [KVNext]_kvVars =>
         [Restart => \A k \in Keys : /\ Entry(k)'.w = file[BucketOf(k)][k].w
                                     /\ Entry(k)'.size = file[BucketOf(k)][k].size]_kvVars
  BY RestartStores
<1>. QED  BY <1>1, <1>2, <1>3, PTL DEF Spec, ModelServed

-----------------------------------------------------------------------------
(***************************************************************************)
(* Lists that are put together from lists.                                 *)
(***************************************************************************)
LEMMA CatLists ==
    ASSUME NEW S, NEW x \in Seq(S), NEW y \in Seq(S)
    PROVE  Cat(x, y) \in Seq(S)
  BY DEF Cat

LEMMA CatEmpty == ASSUME NEW S, NEW x \in Seq(S) PROVE Cat(x, << >>) = x /\ Cat(<< >>, x) = x
  BY ConcatEmptySeq DEF Cat

LEMMA CatAssociative ==
    ASSUME NEW S, NEW x \in Seq(S), NEW y \in Seq(S), NEW z \in Seq(S)
    PROVE  Cat(Cat(x, y), z) = Cat(x, Cat(y, z))
  BY ConcatAssociative DEF Cat

\* A list of n lists
AreLists(q, S, n) == n \in Nat /\ Len(q) = n /\ \A i \in 1 .. n : q[i] \in Seq(S)

LEMMA CatSteps ==
    ASSUME NEW S, NEW q, NEW n, AreLists(q, S, n)
    PROVE  /\ Run("cat", q)[0] = << >> /\ \A i \in 0 .. n : Run("cat", q)[i] \in Seq(S)
           /\ \A i \in 1 .. n : Run("cat", q)[i] = Cat(Run("cat", q)[i - 1], q[i])
<1>1. PICK f : f = Run("cat", q)
  OBVIOUS
<1>2. n \in Nat /\ n = Len(q) /\ \A i \in 1 .. n : q[i] \in Seq(S)
  BY DEF AreLists
<1>3. f[0] = << >> /\ \A i \in 1 .. n : f[i] = Cat(f[i - 1], q[i])
  BY <1>1, <1>2, Runs DEF None, Join
<1>. DEFINE T == {i \in Nat : i <= n => f[i] \in Seq(S)}
<1>4. 0 \in T
  <2>1. << >> \in Seq(S)
    OBVIOUS
  <2>. QED  BY <1>3, <2>1
<1>5. ASSUME NEW i \in Nat, i \in T PROVE i + 1 \in T
  <2>1. CASE i + 1 <= n
    <3>1. i + 1 \in 1 .. n /\ (i + 1) - 1 = i /\ i <= n
      BY <1>2, <2>1
    <3>2. f[i + 1] = Cat(f[i], q[i + 1]) /\ q[i + 1] \in Seq(S) /\ f[i] \in Seq(S)
      BY <1>2, <1>3, <1>5, <3>1
    <3>3. f[i + 1] \in Seq(S)
      BY <3>2, CatLists
    <3>. QED  BY <3>3
  <2>. QED  BY <2>1
<1>6. Nat \subseteq T
  <2>. HIDE DEF T
  <2>. QED  BY <1>4, <1>5, Induction
<1>7. \A i \in 0 .. n : f[i] \in Seq(S)
  BY <1>6
<1>. QED  BY <1>1, <1>3, <1>7

LEMMA FlattenRuns ==
    ASSUME NEW S, NEW q, NEW n, AreLists(q, S, n), n # 0
    PROVE  FlattenSeq(q) = Run("cat", q)[n]
<1>1. PICK f : f = Run("cat", q)
  OBVIOUS
<1>2. n \in Nat /\ Len(q) = n /\ \A i \in 1 .. n : q[i] \in Seq(S)
  BY DEF AreLists
<1>3. f[0] = << >> /\ \A i \in 1 .. n : f[i] = Cat(f[i - 1], q[i])
  BY <1>1, CatSteps
<1>4. 1 \in 1 .. n /\ 1 - 1 = 0
  BY <1>2
<1>5. f[1] = q[1]
  <2>1. f[1] = Cat(<< >>, q[1])
    BY <1>3, <1>4
  <2>. QED  BY <1>2, <1>4, <2>1, CatEmpty
<1>. DEFINE IsFlat(g) == g = [i \in 1 .. n |-> IF i = 1 THEN q[i] ELSE Cat(g[i - 1], q[i])]
            h == [i \in 1 .. n |-> f[i]]
<1>6. IsFlat(h)
  <2>1. ASSUME NEW i \in 1 .. n PROVE f[i] = IF i = 1 THEN q[i] ELSE Cat(h[i - 1], q[i])
    <3>1. CASE i = 1
      BY <1>5, <3>1
    <3>2. CASE i # 1
      <4>1. i - 1 \in 1 .. n
        BY <1>2, <3>2
      <4>. QED  BY <1>3, <3>2, <4>1
    <3>. QED  BY <3>1, <3>2
  <2>. QED  BY <2>1
<1>7. ASSUME NEW g, IsFlat(g) PROVE g[n] = f[n]
  <2>1. \A i \in 1 .. n : g[i] = IF i = 1 THEN q[i] ELSE Cat(g[i - 1], q[i])
    BY <1>7
  <2>. DEFINE T == {i \in Nat : i + 1 <= n => g[i + 1] = f[i + 1]}
  <2>2. 0 \in T
    BY <1>4, <1>5, <2>1
  <2>3. ASSUME NEW i \in Nat, i \in T PROVE i + 1 \in T
    <3>1. CASE (i + 1) + 1 <= n
      <4>1. (i + 1) + 1 \in 1 .. n /\ (i + 1) + 1 # 1 /\ ((i + 1) + 1) - 1 = i + 1 /\ i + 1 <= n
        BY <1>2, <3>1
      <4>2. g[(i + 1) + 1] = Cat(g[i + 1], q[(i + 1) + 1]) /\ f[(i + 1) + 1] = Cat(f[i + 1], q[(i + 1) + 1])
        BY <1>3, <2>1, <4>1
      <4>3. g[(i + 1) + 1] = f[(i + 1) + 1]
        BY <2>3, <4>1, <4>2
      <4>. QED  BY <4>3
    <3>. QED  BY <3>1
  <2>4. Nat \subseteq T
    <3>. HIDE DEF T
    <3>. QED  BY <2>2, <2>3, Induction
  <2>5. n - 1 \in Nat /\ (n - 1) + 1 = n
    BY <1>2
  <2>. QED  BY <2>4, <2>5
<1>8. FlattenSeq(q) = (CHOOSE g : IsFlat(g))[n]
  BY <1>2 DEF FlattenSeq, Cat
<1>9. \E g : IsFlat(g)
  BY <1>6
<1>. HIDE DEF IsFlat
<1>10. IsFlat(CHOOSE g : IsFlat(g))
  BY <1>9
<1>. QED  BY <1>1, <1>7, <1>8, <1>10

\* The concatenation up to the end of a part is the one up to its beginning with the one of the part.
LEMMA CatParts ==
    ASSUME NEW S, NEW q, NEW n, AreLists(q, S, n), NEW p, NEW m, AreLists(p, S, m), NEW a \in Nat, a + m <= n,
           \A j \in 1 .. m : p[j] = q[a + j]
    PROVE  Run("cat", q)[a + m] = Cat(Run("cat", q)[a], Run("cat", p)[m])
<1>1. PICK f, g : f = Run("cat", q) /\ g = Run("cat", p)
  OBVIOUS
<1>2. n \in Nat /\ m \in Nat /\ a \in 0 .. n /\ \A j \in 1 .. m : p[j] \in Seq(S)
  BY DEF AreLists
<1>3. f[a] \in Seq(S) /\ \A i \in 1 .. n : f[i] = Cat(f[i - 1], q[i])
  BY <1>1, <1>2, CatSteps
<1>4. g[0] = << >> /\ (\A i \in 0 .. m : g[i] \in Seq(S)) /\ \A i \in 1 .. m : g[i] = Cat(g[i - 1], p[i])
  BY <1>1, CatSteps
<1>. DEFINE T == {j \in Nat : j <= m => f[a + j] = Cat(f[a], g[j])}
<1>5. 0 \in T
  <2>1. Cat(f[a], << >>) = f[a] /\ a + 0 = a
    BY <1>3, CatEmpty
  <2>. QED  BY <1>4, <2>1
<1>6. ASSUME NEW j \in Nat, j \in T PROVE j + 1 \in T
  <2>1. CASE j + 1 <= m
    <3>1. /\ j + 1 \in 1 .. m /\ (j + 1) - 1 = j /\ j <= m /\ j \in 0 .. m
          /\ a + (j + 1) \in 1 .. n /\ (a + (j + 1)) - 1 = a + j
      BY <1>2, <2>1
    <3>2. p[j + 1] = q[a + (j + 1)] /\ p[j + 1] \in Seq(S) /\ g[j] \in Seq(S) /\ g[j + 1] = Cat(g[j], p[j + 1])
      BY <1>2, <1>4, <3>1
    <3>3. f[a + (j + 1)] = Cat(f[a + j], p[j + 1]) /\ f[a + j] = Cat(f[a], g[j])
      BY <1>3, <1>6, <3>1, <3>2
    <3>4. Cat(Cat(f[a], g[j]), p[j + 1]) = Cat(f[a], Cat(g[j], p[j + 1]))
      BY <1>3, <3>2, CatAssociative
    <3>5. f[a + (j + 1)] = Cat(f[a], g[j + 1])
      BY <3>2, <3>3, <3>4
    <3>. QED  BY <3>5
  <2>. QED  BY <2>1
<1>7. Nat \subseteq T
  <2>. HIDE DEF T
  <2>. QED  BY <1>5, <1>6, Induction
<1>8. f[a + m] = Cat(f[a], g[m])
  BY <1>2, <1>7
<1>. QED  BY <1>1, <1>8

-----------------------------------------------------------------------------
(***************************************************************************)
(* The keys of a server in a list: those from the position From + 1 to To. *)
(***************************************************************************)
IsKeys(keys) == keys \in Seq(Keys) /\ Ascending(keys)
From(keys, s) == LowerBound(keys, KeyRanges[s][1])
To(keys, s) == LowerBound(keys, KeyRanges[s][2])
Part(keys, s) == SubSeq(keys, From(keys, s) + 1, To(keys, s))

LEMMA Below ==
    ASSUME KVOK, NEW keys, IsKeys(keys), NEW v \in Int
    PROVE  /\ LowerBound(keys, v) \in 0 .. Len(keys)
           /\ \A i \in 1 .. Len(keys) : keys[i] < v <=> i <= LowerBound(keys, v)
<1>1. PICK n : n = Len(keys)
  OBVIOUS
<1>2. n \in Nat /\ DOMAIN keys = 1 .. n /\ \A i \in 1 .. n : keys[i] \in Int
  <2>1. keys \in Seq(Keys)
    BY DEF IsKeys
  <2>2. Len(keys) \in Nat /\ DOMAIN keys = 1 .. Len(keys) /\ \A i \in 1 .. Len(keys) : keys[i] \in Keys
    BY <2>1
  <2>. QED  BY <1>1, <2>2, Ranges
<1>3. \A i, j \in 1 .. n : i < j => keys[i] < keys[j]
  BY <1>2 DEF IsKeys, Ascending
<1>. DEFINE T == {m \in Nat : m <= n /\ (m = n \/ ~(keys[m + 1] < v))}
<1>4. n \in T
  BY <1>2
<1>5. PICK m \in T : \A y \in T : m <= y
  <2>1. T \in SUBSET Nat /\ T # {}
    BY <1>4
  <2>. HIDE DEF T
  <2>. QED  BY <2>1, LeastElement
<1>6. m \in Nat /\ m <= n /\ (m = n \/ ~(keys[m + 1] < v))
  BY <1>5
<1>7. ASSUME NEW i \in 1 .. n, i <= m PROVE keys[i] < v
  <2>1. i - 1 \in Nat /\ i - 1 <= n /\ ~(m <= i - 1) /\ (i - 1) + 1 = i /\ i - 1 # n
    BY <1>2, <1>6, <1>7
  <2>2. i - 1 \notin T
    <3>. HIDE DEF T
    <3>. QED  BY <1>5, <2>1
  <2>. QED  BY <2>1, <2>2
<1>8. ASSUME NEW i \in 1 .. n, keys[i] < v PROVE i <= m
  <2>1. SUFFICES ASSUME m < i PROVE FALSE
    BY <1>6
  <2>2. m # n /\ m + 1 \in 1 .. n /\ (m + 1 = i \/ m + 1 < i)
    BY <1>2, <1>6, <2>1
  <2>3. keys[m + 1] \in Int /\ keys[i] \in Int /\ ~(keys[m + 1] < v) /\ (keys[m + 1] = keys[i] \/ keys[m + 1] < keys[i])
    BY <1>2, <1>3, <1>6, <2>2
  <2>. QED  BY <1>8, <2>3
<1>9. {i \in DOMAIN keys : keys[i] < v} = 1 .. m
  <2>1. \A i \in 1 .. m : i \in 1 .. n /\ i <= m
    BY <1>2, <1>6
  <2>2. \A i \in 1 .. n : i <= m => i \in 1 .. m
    BY <1>6
  <2>. QED  BY <1>2, <1>7, <1>8, <2>1, <2>2
<1>10. LowerBound(keys, v) = m
  <2>1. Cardinality(1 .. m) = IF 1 > m THEN 0 ELSE m - 1 + 1
    BY <1>6, FS_Interval
  <2>2. Cardinality(1 .. m) = m
    BY <1>6, <2>1
  <2>. QED  BY <1>9, <2>2 DEF LowerBound
<1>. QED  BY <1>1, <1>2, <1>6, <1>7, <1>8, <1>10

LEMMA KeysDiffer ==
    ASSUME KVOK, NEW keys, IsKeys(keys)
    PROVE  /\ Len(keys) \in Nat /\ DOMAIN keys = 1 .. Len(keys)
           /\ \A i \in 1 .. Len(keys) : keys[i] \in Keys /\ keys[i] \in Int
           /\ \A i, j \in 1 .. Len(keys) : keys[i] = keys[j] => i = j
<1>1. PICK n : n = Len(keys)
  OBVIOUS
<1>2. n \in Nat /\ DOMAIN keys = 1 .. n /\ \A i \in 1 .. n : keys[i] \in Keys
  <2>1. keys \in Seq(Keys)
    BY DEF IsKeys
  <2>. QED  BY <1>1, <2>1
<1>3. \A i \in 1 .. n : keys[i] \in Int
  BY <1>2, Ranges
<1>4. \A i, j \in 1 .. n : i < j => keys[i] < keys[j]
  BY <1>2 DEF IsKeys, Ascending
<1>5. ASSUME NEW i \in 1 .. n, NEW j \in 1 .. n, keys[i] = keys[j] PROVE i = j
  BY <1>3, <1>4, <1>5
<1>. QED  BY <1>1, <1>2, <1>3, <1>5

LEMMA Positions ==
    ASSUME KVOK, NEW keys, IsKeys(keys), NEW s \in Servers
    PROVE  /\ From(keys, s) \in 0 .. Len(keys) /\ To(keys, s) \in 0 .. Len(keys)
           /\ \A i \in 1 .. Len(keys) : ServerOf(keys[i]) = s <=> From(keys, s) < i /\ i <= To(keys, s)
<1>1. PICK lo, hi \in Int : lo = KeyRanges[s][1] /\ hi = KeyRanges[s][2]
  BY Ranges
<1>2. PICK a, b, n : a = From(keys, s) /\ b = To(keys, s) /\ n = Len(keys)
  OBVIOUS
<1>3. /\ a \in 0 .. n /\ b \in 0 .. n
      /\ \A i \in 1 .. n : (keys[i] < lo <=> i <= a) /\ (keys[i] < hi <=> i <= b)
  BY <1>1, <1>2, Below DEF From, To
<1>4. ASSUME NEW i \in 1 .. n PROVE ServerOf(keys[i]) = s <=> a < i /\ i <= b
  <2>1. keys[i] \in Keys /\ keys[i] \in Int
    BY <1>2, KeysDiffer
  <2>2. ServerOf(keys[i]) = s <=> InServer(s, keys[i])
    BY <2>1, ServerIs
  <2>3. InServer(s, keys[i]) <=> ~(keys[i] < lo) /\ keys[i] < hi
    BY <1>1, <2>1 DEF InServer
  <2>4. ~(i <= a) <=> a < i
    BY <1>3
  <2>. QED  BY <1>3, <2>2, <2>3, <2>4
<1>. QED  BY <1>2, <1>3, <1>4

LEMMA PartIs ==
    ASSUME KVOK, NEW keys, IsKeys(keys), NEW s \in Servers
    PROVE  /\ \A sz : Slice(keys, sz, s).keys = Part(keys, s)
           /\ Part(keys, s) \in Seq(Keys) /\ Len(Part(keys, s)) \in Nat
           /\ Part(keys, s) # << >> <=> From(keys, s) < To(keys, s)
           /\ From(keys, s) < To(keys, s) => Len(Part(keys, s)) = To(keys, s) - From(keys, s)
           /\ DOMAIN Part(keys, s) = 1 .. Len(Part(keys, s))
           /\ \A j \in 1 .. Len(Part(keys, s)) : /\ From(keys, s) + j \in 1 .. Len(keys)
                                                 /\ Part(keys, s)[j] = keys[From(keys, s) + j]
                                                 /\ ServerOf(keys[From(keys, s) + j]) = s
<1>1. PICK a, b, n, p : a = From(keys, s) /\ b = To(keys, s) /\ n = Len(keys) /\ p = SubSeq(keys, a + 1, b)
  OBVIOUS
<1>2. /\ a \in 0 .. n /\ b \in 0 .. n /\ n \in Nat
      /\ \A i \in 1 .. n : ServerOf(keys[i]) = s <=> a < i /\ i <= b
  BY <1>1, Positions, KeysDiffer
<1>3. p = Part(keys, s) /\ \A sz : Slice(keys, sz, s).keys = p
  BY <1>1 DEF Part, From, To, Slice
<1>4. keys \in Seq(Keys) /\ a + 1 \in Nat /\ b \in Nat /\ a + 1 >= 1 /\ b <= Len(keys)
  BY <1>1, <1>2 DEF IsKeys
<1>5. /\ p \in Seq(Keys) /\ Len(p) = (IF a + 1 <= b THEN b - (a + 1) + 1 ELSE 0)
      /\ \A j \in 1 .. Len(p) : p[j] = keys[(a + 1) + j - 1]
  <2>1. a + 1 \in Int /\ b \in Int /\ \A i \in (a + 1) .. b : keys[i] \in Keys
    BY <1>1, <1>2, KeysDiffer
  <2>. QED  BY <1>1, <1>4, <2>1
<1>6. Len(p) \in Nat /\ (a < b => Len(p) = b - a) /\ (~(a < b) => Len(p) = 0)
  BY <1>2, <1>5
<1>7. p # << >> <=> a < b
  BY <1>2, <1>5, <1>6
<1>8. DOMAIN p = 1 .. Len(p)
  BY <1>5
<1>9. ASSUME NEW j \in 1 .. Len(p) PROVE a + j \in 1 .. n /\ a < a + j /\ a + j <= b /\ p[j] = keys[a + j]
  <2>1. (a + 1) + j - 1 = a + j
    BY <1>2
  <2>2. p[j] = keys[a + j]
    BY <1>5, <2>1
  <2>. QED  BY <1>2, <1>6, <2>2
<1>. QED  BY <1>1, <1>2, <1>3, <1>5, <1>6, <1>7, <1>8, <1>9

-----------------------------------------------------------------------------
(***************************************************************************)
(* What a worker has of its pull: the parts of the servers in Got.         *)
(***************************************************************************)
PartSizes(keys, sizes, s) == SubSeq(sizes, From(keys, s) + 1, To(keys, s))
AreSizes(sizes, keys) == sizes \in Seq(Nat) /\ Len(sizes) = Len(keys)

Got(k) == {s \in Servers : Part(k.keys, s) # << >> /\ Part(k.keys, s)[1] \in DOMAIN k.recv}
Matched(k) == {i \in 1 .. Len(k.keys) : ServerOf(k.keys[i]) \in Got(k)}
Parts(k) == [i \in DOMAIN k.keys |-> IF k.keys[i] \in DOMAIN k.recv THEN k.recv[k.keys[i]] ELSE << >>]

PullOK(k) ==
    /\ IsKeys(k.keys) /\ AreSizes(k.sizes, k.keys)
    /\ \A f \in DOMAIN k.recv : \E s \in Servers : Part(k.keys, s) # << >> /\ f = Part(k.keys, s)[1]
    /\ \A s \in Got(k) : k.recv[Part(k.keys, s)[1]] = Values(Part(k.keys, s), PartSizes(k.keys, k.sizes, s))
    /\ k.matched = Cardinality(Matched(k))

ValList(keys, sizes) == [i \in DOMAIN keys |-> [j \in 1 .. sizes[i] |-> <<keys[i], j>>]]
Numbers == Keys \X Nat

LEMMA SizesAre ==
    ASSUME NEW keys, NEW sizes, AreSizes(sizes, keys), Len(keys) \in Nat
    PROVE  DOMAIN sizes = 1 .. Len(keys) /\ \A i \in 1 .. Len(keys) : sizes[i] \in Nat
  BY DEF AreSizes

LEMMA ValListIs ==
    ASSUME NEW n \in Nat, NEW keys, DOMAIN keys = 1 .. n, \A i \in 1 .. n : keys[i] \in Keys,
           NEW sizes, \A i \in 1 .. n : sizes[i] \in Nat
    PROVE  /\ AreLists(ValList(keys, sizes), Numbers, n)
           /\ n # 0 => Values(keys, sizes) = Run("cat", ValList(keys, sizes))[n]
<1>1. PICK q : q = ValList(keys, sizes)
  OBVIOUS
<1>2. q = [i \in 1 .. n |-> [j \in 1 .. sizes[i] |-> <<keys[i], j>>]]
  BY <1>1 DEF ValList
<1>3. Len(q) = n
  BY <1>2
<1>4. ASSUME NEW i \in 1 .. n PROVE q[i] \in Seq(Numbers)
  <2>1. q[i] = [j \in 1 .. sizes[i] |-> <<keys[i], j>>]
    BY <1>2
  <2>2. \A j \in 1 .. sizes[i] : <<keys[i], j>> \in Numbers
    BY DEF Numbers
  <2>3. sizes[i] \in Nat
    OBVIOUS
  <2>. QED  BY <2>1, <2>2, <2>3
<1>5. AreLists(q, Numbers, n)
  BY <1>3, <1>4 DEF AreLists
<1>6. n # 0 => FlattenSeq(q) = Run("cat", q)[n]
  BY <1>5, FlattenRuns
<1>7. Values(keys, sizes) = FlattenSeq(q)
  BY <1>1 DEF Values, ValList
<1>. QED  BY <1>1, <1>5, <1>6, <1>7

\* The part of a list for one server: its keys, its sizes, its numbers.
LEMMA PartLists ==
    ASSUME KVOK, NEW keys, IsKeys(keys), NEW sizes, AreSizes(sizes, keys), NEW s \in Servers, NEW a, a = From(keys, s),
           NEW m, m = Len(Part(keys, s)), m # 0
    PROVE  /\ m \in Nat /\ a \in Nat /\ a + m <= Len(keys)
           /\ AreSizes(PartSizes(keys, sizes, s), Part(keys, s))
           /\ \A j \in 1 .. m : PartSizes(keys, sizes, s)[j] = sizes[a + j] /\ PartSizes(keys, sizes, s)[j] \in Nat
           /\ AreLists(ValList(Part(keys, s), PartSizes(keys, sizes, s)), Numbers, m)
           /\ \A j \in 1 .. m : ValList(Part(keys, s), PartSizes(keys, sizes, s))[j] = ValList(keys, sizes)[a + j]
           /\ Values(Part(keys, s), PartSizes(keys, sizes, s)) = Run("cat", ValList(Part(keys, s), PartSizes(keys, sizes, s)))[m]
<1>1. PICK b, n, p, z : b = To(keys, s) /\ n = Len(keys) /\ p = Part(keys, s) /\ z = PartSizes(keys, sizes, s)
  OBVIOUS
<1>2. /\ n \in Nat /\ DOMAIN keys = 1 .. n /\ \A i \in 1 .. n : keys[i] \in Keys
  BY <1>1, KeysDiffer
<1>3. a \in 0 .. n /\ b \in 0 .. n
  BY <1>1, Positions
<1>4. /\ p \in Seq(Keys) /\ m \in Nat /\ (p # << >> <=> a < b) /\ (a < b => m = b - a) /\ DOMAIN p = 1 .. m
      /\ \A j \in 1 .. m : a + j \in 1 .. n /\ p[j] = keys[a + j]
  BY <1>1, PartIs
<1>5. a < b /\ m = b - a
  BY <1>1, <1>4
<1>6. sizes \in Seq(Nat) /\ Len(sizes) = n /\ DOMAIN sizes = 1 .. n /\ \A i \in 1 .. n : sizes[i] \in Nat
  BY <1>1, <1>2, SizesAre DEF AreSizes
<1>7. z \in Seq(Nat) /\ Len(z) = m /\ \A j \in 1 .. m : z[j] = sizes[a + j]
  <2>1. z = SubSeq(sizes, a + 1, b)
    BY <1>1 DEF PartSizes
  <2>2. a + 1 \in Int /\ b \in Int /\ b <= n /\ 1 <= a + 1
    BY <1>3
  <2>3. \A i \in (a + 1) .. b : sizes[i] \in Nat
    BY <1>3, <1>6
  <2>4. z \in Seq(Nat) /\ Len(z) = (IF a + 1 <= b THEN b - (a + 1) + 1 ELSE 0) /\ \A j \in 1 .. Len(z) : z[j] = sizes[(a + 1) + j - 1]
    BY <1>6, <2>1, <2>2, <2>3
  <2>5. Len(z) = m /\ \A j \in 1 .. m : (a + 1) + j - 1 = a + j
    BY <1>3, <1>5, <2>4
  <2>. QED  BY <2>4, <2>5
<1>8. AreSizes(z, p)
  BY <1>1, <1>7 DEF AreSizes
<1>9. \A j \in 1 .. m : p[j] \in Keys /\ z[j] \in Nat
  BY <1>2, <1>4, <1>6, <1>7
<1>10. AreLists(ValList(p, z), Numbers, m) /\ Values(p, z) = Run("cat", ValList(p, z))[m]
  BY <1>4, <1>9, ValListIs
<1>11. ASSUME NEW j \in 1 .. m PROVE ValList(p, z)[j] = ValList(keys, sizes)[a + j]
  <2>1. p[j] = keys[a + j] /\ z[j] = sizes[a + j] /\ a + j \in DOMAIN keys /\ j \in DOMAIN p
    BY <1>2, <1>4, <1>7
  <2>. QED  BY <2>1 DEF ValList
<1>12. a \in Nat /\ a + m <= n
  BY <1>2, <1>3, <1>5
<1>. QED  BY <1>1, <1>4, <1>7, <1>8, <1>9, <1>10, <1>11, <1>12

\* A part has the keys of its server, so that its first key tells whose part it is.
LEMMA FirstKey ==
    ASSUME KVOK, NEW keys, IsKeys(keys), NEW s \in Servers, Part(keys, s) # << >>
    PROVE  /\ From(keys, s) + 1 \in 1 .. Len(keys) /\ Part(keys, s)[1] = keys[From(keys, s) + 1]
           /\ ServerOf(Part(keys, s)[1]) = s /\ Len(Part(keys, s)) \in Nat \ {0}
<1>1. PICK p, m, a : p = Part(keys, s) /\ m = Len(p) /\ a = From(keys, s)
  OBVIOUS
<1>2. m \in Nat /\ p \in Seq(Keys) /\ \A j \in 1 .. m : a + j \in 1 .. Len(keys) /\ p[j] = keys[a + j] /\ ServerOf(keys[a + j]) = s
  BY <1>1, PartIs
<1>3. m # 0
  BY <1>1, <1>2
<1>4. 1 \in 1 .. m
  BY <1>2, <1>3
<1>. QED  BY <1>1, <1>2, <1>3, <1>4

\* When as many keys were matched as there are, every server has answered, and what came, put
\* together in the order of the first keys, is the numbers of all keys.
LEMMA Assemble ==
    ASSUME KVOK, NEW k, PullOK(k), k.matched = Len(k.keys), Len(k.keys) # 0
    PROVE  /\ \A s \in Servers : Part(k.keys, s) # << >> => s \in Got(k)
           /\ FlattenSeq(Parts(k)) = Values(k.keys, k.sizes)
<1>1. PICK keys, sizes, recv, n : keys = k.keys /\ sizes = k.sizes /\ recv = k.recv /\ n = Len(keys)
  OBVIOUS
<1>2. /\ IsKeys(keys) /\ AreSizes(sizes, keys)
      /\ \A f \in DOMAIN recv : \E s \in Servers : Part(keys, s) # << >> /\ f = Part(keys, s)[1]
      /\ \A s \in Got(k) : recv[Part(keys, s)[1]] = Values(Part(keys, s), PartSizes(keys, sizes, s))
      /\ n = Cardinality(Matched(k))
  BY <1>1 DEF PullOK
<1>3. IsKeys(keys) /\ AreSizes(sizes, keys)
  BY <1>2
<1>4. /\ n \in Nat /\ n # 0 /\ DOMAIN keys = 1 .. n /\ \A i \in 1 .. n : keys[i] \in Keys
      /\ \A i, j \in 1 .. n : keys[i] = keys[j] => i = j
  <2>1. n # 0
    BY <1>1
  <2>2. IsKeys(keys)
    BY <1>2
  <2>. QED  BY <1>1, <2>1, <2>2, KeysDiffer
<1>5. Matched(k) = 1 .. n
  <2>1. Matched(k) \subseteq 1 .. n
    BY <1>1 DEF Matched
  <2>2. IsFiniteSet(1 .. n) /\ Cardinality(1 .. n) = IF 1 > n THEN 0 ELSE n - 1 + 1
    BY <1>4, FS_Interval
  <2>3. Cardinality(1 .. n) = n
    BY <1>4, <2>2
  <2>. QED  BY <1>2, <2>1, <2>2, <2>3, FS_Subset
<1>6. \A i \in 1 .. n : ServerOf(keys[i]) \in Got(k)
  BY <1>1, <1>5 DEF Matched
<1>7. \A s \in Servers : Part(keys, s) # << >> => s \in Got(k)
  <2>1. ASSUME NEW s \in Servers, Part(keys, s) # << >> PROVE s \in Got(k)
    <3>1. IsKeys(keys)
      BY <1>2
    <3>2. PICK i : i = From(keys, s) + 1
      OBVIOUS
    <3>3. i \in 1 .. Len(keys) /\ ServerOf(keys[i]) = s
      BY <2>1, <3>1, <3>2, FirstKey
    <3>. QED  BY <1>1, <1>6, <3>3
  <2>. QED  BY <2>1
<1>8. ASSUME NEW s \in Got(k)
      PROVE  /\ s \in Servers /\ Part(keys, s) # << >> /\ Part(keys, s)[1] \in DOMAIN recv
             /\ recv[Part(keys, s)[1]] \in Seq(Numbers)
  <2>1. s \in Servers /\ Part(keys, s) # << >> /\ Part(keys, s)[1] \in DOMAIN recv
    BY <1>1 DEF Got
  <2>2. PICK p, m, a : p = ValList(Part(keys, s), PartSizes(keys, sizes, s)) /\ m = Len(Part(keys, s)) /\ a = From(keys, s)
    OBVIOUS
  <2>3. m \in Nat /\ m # 0
    BY <1>3, <2>1, <2>2, FirstKey
  <2>4. AreLists(p, Numbers, m) /\ Values(Part(keys, s), PartSizes(keys, sizes, s)) = Run("cat", p)[m]
    BY <1>3, <2>1, <2>2, <2>3, PartLists
  <2>5. Run("cat", p)[m] \in Seq(Numbers)
    <3>1. \A i \in 0 .. m : Run("cat", p)[i] \in Seq(Numbers)
      BY <2>4, CatSteps
    <3>. QED  BY <2>3, <3>1
  <2>. QED  BY <1>2, <2>1, <2>4, <2>5
<1>9. PICK q, v : q = Parts(k) /\ v = ValList(keys, sizes)
  OBVIOUS
<1>10. q = [i \in 1 .. n |-> IF keys[i] \in DOMAIN recv THEN recv[keys[i]] ELSE << >>]
  BY <1>1, <1>4, <1>9 DEF Parts
<1>11. AreLists(q, Numbers, n)
  <2>1. ASSUME NEW i \in 1 .. n PROVE q[i] \in Seq(Numbers)
    <3>1. CASE keys[i] \in DOMAIN recv
      <4>1. PICK s \in Servers : Part(keys, s) # << >> /\ keys[i] = Part(keys, s)[1]
        BY <1>2, <3>1
      <4>2. recv[keys[i]] \in Seq(Numbers)
        BY <1>7, <1>8, <4>1
      <4>. QED  BY <1>10, <3>1, <4>2
    <3>2. CASE keys[i] \notin DOMAIN recv
      <4>1. << >> \in Seq(Numbers)
        OBVIOUS
      <4>. QED  BY <1>10, <3>2, <4>1
    <3>. QED  BY <3>1, <3>2
  <2>2. Len(q) = n
    BY <1>4, <1>10
  <2>. QED  BY <1>4, <2>1, <2>2 DEF AreLists
<1>12. AreLists(v, Numbers, n) /\ Values(keys, sizes) = Run("cat", v)[n]
  <2>1. \A i \in 1 .. n : sizes[i] \in Nat
    BY <1>1, <1>3, <1>4, SizesAre
  <2>. QED  BY <1>4, <1>9, <2>1, ValListIs
<1>13. FlattenSeq(q) = Run("cat", q)[n]
  BY <1>4, <1>11, FlattenRuns
<1>14. PICK F, G : F = Run("cat", q) /\ G = Run("cat", v)
  OBVIOUS
<1>15. F[0] = << >> /\ (\A i \in 0 .. n : F[i] \in Seq(Numbers)) /\ \A i \in 1 .. n : F[i] = Cat(F[i - 1], q[i])
  BY <1>11, <1>14, CatSteps
<1>16. G[0] = << >>
  BY <1>12, <1>14, CatSteps
<1>17. ASSUME NEW i \in 1 .. n
       PROVE  /\ ServerOf(keys[i]) \in Servers
              /\ From(keys, ServerOf(keys[i])) \in Nat /\ To(keys, ServerOf(keys[i])) \in 0 .. n
              /\ From(keys, ServerOf(keys[i])) < i /\ i <= To(keys, ServerOf(keys[i]))
  <2>1. ServerOf(keys[i]) \in Servers
    BY <1>6, <1>8
  <2>2. PICK s \in Servers : s = ServerOf(keys[i])
    BY <2>1
  <2>3. From(keys, s) \in 0 .. n /\ To(keys, s) \in 0 .. n /\ From(keys, s) < i /\ i <= To(keys, s)
    BY <1>1, <1>3, <2>2, Positions
  <2>. QED  BY <2>2, <2>3
<1>18. ASSUME NEW i \in 1 .. n, NEW s \in Servers, s = ServerOf(keys[i])
       PROVE  /\ i = From(keys, s) + 1 => Part(keys, s) # << >> /\ q[i] = Values(Part(keys, s), PartSizes(keys, sizes, s))
              /\ i # From(keys, s) + 1 => q[i] = << >>
  <2>1. s \in Got(k) /\ Part(keys, s) # << >> /\ Part(keys, s)[1] \in DOMAIN recv /\ Part(keys, s)[1] = keys[From(keys, s) + 1]
    BY <1>3, <1>6, <1>8, <1>18, FirstKey
  <2>2. i = From(keys, s) + 1 => q[i] = Values(Part(keys, s), PartSizes(keys, sizes, s))
    BY <1>2, <1>10, <2>1
  <2>3. i # From(keys, s) + 1 => keys[i] \notin DOMAIN recv
    <3>1. SUFFICES ASSUME keys[i] \in DOMAIN recv PROVE i = From(keys, s) + 1
      OBVIOUS
    <3>2. PICK t \in Servers : Part(keys, t) # << >> /\ keys[i] = Part(keys, t)[1]
      BY <1>2, <3>1
    <3>3. From(keys, t) + 1 \in 1 .. n /\ keys[i] = keys[From(keys, t) + 1] /\ ServerOf(keys[i]) = t
      BY <1>1, <1>3, <3>2, FirstKey
    <3>. QED  BY <1>4, <1>18, <3>3
  <2>. QED  BY <1>10, <2>1, <2>2, <2>3
<1>. DEFINE e(i) == IF i = 0 THEN 0 ELSE To(keys, ServerOf(keys[i]))
            T == {i \in Nat : i <= n => F[i] = G[e(i)]}
<1>19. 0 \in T
  BY <1>15, <1>16
<1>20. ASSUME NEW i \in Nat, i \in T PROVE i + 1 \in T
  <2>1. SUFFICES ASSUME i + 1 <= n PROVE F[i + 1] = G[e(i + 1)]
    OBVIOUS
  <2>2. i + 1 \in 1 .. n /\ (i + 1) - 1 = i /\ i <= n /\ i + 1 # 0 /\ i \in 0 .. n
    BY <1>4, <2>1
  <2>3. PICK s \in Servers, a \in Nat, b \in 0 .. n : s = ServerOf(keys[i + 1]) /\ a = From(keys, s) /\ b = To(keys, s)
    BY <1>17, <2>2
  <2>4. a < i + 1 /\ i + 1 <= b /\ e(i + 1) = b
    BY <1>17, <2>2, <2>3
  <2>5. F[i] = G[e(i)] /\ F[i] \in Seq(Numbers) /\ F[i + 1] = Cat(F[i], q[i + 1])
    BY <1>15, <1>20, <2>2
  <2>. HIDE DEF T, e
  <2>6. CASE a = i
    <3>1. e(i) = i
      <4>1. CASE i = 0
        BY <4>1 DEF e
      <4>2. CASE i # 0
        <5>1. i \in 1 .. n
          BY <1>4, <2>2, <4>2
        <5>2. PICK t \in Servers, c \in Nat, d \in 0 .. n : t = ServerOf(keys[i]) /\ c = From(keys, t) /\ d = To(keys, t)
          BY <1>17, <5>1
        <5>3. c < i /\ i <= d /\ e(i) = d
          BY <1>17, <4>2, <5>1, <5>2 DEF e
        <5>4. ~(i + 1 <= d)
          <6>1. SUFFICES ASSUME i + 1 <= d PROVE FALSE
            OBVIOUS
          <6>2. c < i + 1
            BY <5>3
          <6>3. ServerOf(keys[i + 1]) = t
            BY <1>1, <1>3, <2>2, <5>2, <6>1, <6>2, Positions
          <6>4. c = a
            BY <2>3, <5>2, <6>3
          <6>. QED  BY <2>6, <5>3, <6>4
        <5>. QED  BY <5>3, <5>4
      <4>. QED  BY <4>1, <4>2
    <3>2. PICK p, m : p = ValList(Part(keys, s), PartSizes(keys, sizes, s)) /\ m = Len(Part(keys, s))
      OBVIOUS
    <3>3. i + 1 = From(keys, s) + 1
      BY <2>3, <2>6
    <3>4. Part(keys, s) # << >> /\ q[i + 1] = Values(Part(keys, s), PartSizes(keys, sizes, s))
      BY <1>18, <2>2, <2>3, <3>3
    <3>5. m \in Nat /\ m # 0 /\ a < b /\ m = b - a
      <4>1. m \in Nat /\ m # 0
        BY <1>3, <3>2, <3>4, FirstKey
      <4>2. a < b /\ m = b - a
        BY <1>3, <2>3, <3>2, <3>4, PartIs
      <4>. QED  BY <4>1, <4>2
    <3>6. AreLists(p, Numbers, m) /\ (\A j \in 1 .. m : p[j] = v[a + j]) /\ q[i + 1] = Run("cat", p)[m] /\ a + m <= n
      <4>1. /\ AreLists(p, Numbers, m) /\ (\A j \in 1 .. m : p[j] = ValList(keys, sizes)[a + j])
            /\ Values(Part(keys, s), PartSizes(keys, sizes, s)) = Run("cat", p)[m] /\ a + m <= Len(keys)
        <5>1. IsKeys(keys) /\ AreSizes(sizes, keys)
          BY <1>2
        <5>2. s \in Servers /\ a = From(keys, s) /\ m = Len(Part(keys, s)) /\ m # 0
          BY <2>3, <3>2, <3>5
        <5>. QED  BY <3>2, <5>1, <5>2, PartLists
      <4>. QED  BY <1>1, <1>9, <3>4, <4>1
    <3>7. G[a + m] = Cat(G[a], Run("cat", p)[m])
      BY <1>12, <1>14, <3>6, CatParts
    <3>8. a + m = b
      BY <3>5
    <3>. QED  BY <2>4, <2>5, <2>6, <3>1, <3>6, <3>7, <3>8
  <2>7. CASE a # i
    <3>1. a < i /\ i \in 1 .. n /\ i <= b /\ i + 1 # a + 1 /\ i # 0
      BY <1>4, <2>2, <2>4, <2>7
    <3>2. ServerOf(keys[i]) = s
      BY <1>1, <1>3, <2>3, <3>1, Positions
    <3>3. e(i) = b
      BY <2>3, <3>1, <3>2 DEF e
    <3>4. q[i + 1] = << >>
      BY <1>18, <2>2, <2>3, <3>1
    <3>5. Cat(F[i], << >>) = F[i]
      BY <2>5, CatEmpty
    <3>. QED  BY <2>4, <2>5, <3>3, <3>4, <3>5
  <2>. QED  BY <2>6, <2>7
<1>21. Nat \subseteq T
  <2>. HIDE DEF T
  <2>. QED  BY <1>19, <1>20, Induction
<1>22. F[n] = G[e(n)]
  BY <1>4, <1>21
<1>23. e(n) = n
  <2>1. n \in 1 .. n
    BY <1>4
  <2>2. To(keys, ServerOf(keys[n])) \in 0 .. n /\ n <= To(keys, ServerOf(keys[n]))
    BY <1>17, <2>1
  <2>. QED  BY <1>4, <2>2
<1>. QED  BY <1>1, <1>7, <1>9, <1>12, <1>13, <1>14, <1>22, <1>23

\* The sizes of a response, matched by key, are those of its part; the others stay as they are.
MatchSizes(keys, sizes, p, rs) ==
    [i \in DOMAIN keys |-> IF \E j \in DOMAIN p : p[j] = keys[i] THEN rs[CHOOSE j \in DOMAIN p : p[j] = keys[i]] ELSE sizes[i]]

LEMMA MatchedSizes ==
    ASSUME KVOK, NEW keys, IsKeys(keys), NEW sizes, AreSizes(sizes, keys), NEW s \in Servers, Part(keys, s) # << >>,
           NEW rs, AreSizes(rs, Part(keys, s)), NEW new, new = MatchSizes(keys, sizes, Part(keys, s), rs)
    PROVE  /\ AreSizes(new, keys) /\ PartSizes(keys, new, s) = rs
           /\ \A j \in 1 .. Len(Part(keys, s)) : new[From(keys, s) + j] = rs[j]
           /\ \A i \in 1 .. Len(keys) : ServerOf(keys[i]) # s => new[i] = sizes[i]
           /\ \A t \in Servers : t # s /\ Part(keys, t) # << >> => PartSizes(keys, new, t) = PartSizes(keys, sizes, t)
<1>1. PICK p, a, b, m, n : p = Part(keys, s) /\ a = From(keys, s) /\ b = To(keys, s) /\ m = Len(p) /\ n = Len(keys)
  OBVIOUS
<1>2. /\ n \in Nat /\ DOMAIN keys = 1 .. n /\ \A i \in 1 .. n : keys[i] \in Keys
      /\ \A i, j \in 1 .. n : keys[i] = keys[j] => i = j
  BY <1>1, KeysDiffer
<1>3. /\ m \in Nat /\ a \in 0 .. n /\ b \in 0 .. n /\ a < b /\ m = b - a /\ DOMAIN p = 1 .. m
      /\ \A j \in 1 .. m : a + j \in 1 .. n /\ p[j] = keys[a + j] /\ ServerOf(keys[a + j]) = s
  BY <1>1, PartIs, Positions
<1>4. DOMAIN rs = 1 .. m /\ (\A j \in 1 .. m : rs[j] \in Nat) /\ rs \in Seq(Nat) /\ Len(rs) = m
  <2>1. Len(p) \in Nat /\ AreSizes(rs, p)
    BY <1>1, <1>3
  <2>. QED  BY <1>1, <2>1, SizesAre DEF AreSizes
<1>5. DOMAIN sizes = 1 .. n /\ \A i \in 1 .. n : sizes[i] \in Nat
  <2>1. Len(keys) \in Nat
    BY <1>1, <1>2
  <2>. QED  BY <1>1, <2>1, SizesAre
<1>6. new = [i \in 1 .. n |-> IF \E j \in 1 .. m : p[j] = keys[i] THEN rs[CHOOSE j \in 1 .. m : p[j] = keys[i]] ELSE sizes[i]]
  BY <1>1, <1>2, <1>3 DEF MatchSizes
<1>7. ASSUME NEW j \in 1 .. m PROVE new[a + j] = rs[j] /\ new[a + j] \in Nat
  <2>1. a + j \in 1 .. n /\ p[j] = keys[a + j]
    BY <1>3
  <2>2. \A h \in 1 .. m : p[h] = keys[a + j] => h = j
    <3>1. ASSUME NEW h \in 1 .. m, p[h] = keys[a + j] PROVE h = j
      <4>1. a + h \in 1 .. n /\ keys[a + h] = keys[a + j]
        BY <1>3, <3>1
      <4>2. a + h = a + j
        BY <1>2, <2>1, <4>1
      <4>. QED  BY <1>3, <4>2
    <3>. QED  BY <3>1
  <2>3. (CHOOSE h \in 1 .. m : p[h] = keys[a + j]) = j
    BY <2>1, <2>2
  <2>. QED  BY <1>4, <1>6, <2>1, <2>3
<1>8. ASSUME NEW i \in 1 .. n, ServerOf(keys[i]) # s PROVE new[i] = sizes[i] /\ new[i] \in Nat
  <2>1. ~ \E j \in 1 .. m : p[j] = keys[i]
    BY <1>3, <1>8
  <2>. QED  BY <1>5, <1>6, <2>1
<1>9. \A i \in 1 .. n : new[i] \in Nat
  <2>1. ASSUME NEW i \in 1 .. n, ServerOf(keys[i]) = s PROVE new[i] \in Nat
    <3>1. a < i /\ i <= b
      BY <1>1, <2>1, Positions
    <3>2. i - a \in 1 .. m /\ a + (i - a) = i
      BY <1>3, <3>1
    <3>3. new[a + (i - a)] \in Nat
      BY <1>7, <3>2
    <3>. QED  BY <3>2, <3>3
  <2>. QED  BY <1>8, <2>1
<1>10. AreSizes(new, keys)
  <2>1. DOMAIN new = 1 .. n
    BY <1>6
  <2>2. new \in Seq(Nat) /\ Len(new) = n
    BY <1>2, <1>6, <1>9
  <2>. QED  BY <1>1, <2>2 DEF AreSizes
<1>11. m # 0
  BY <1>3
<1>12. PartSizes(keys, new, s) = rs
  <2>1. PICK z : z = PartSizes(keys, new, s)
    OBVIOUS
  <2>2. AreSizes(z, p) /\ \A j \in 1 .. m : z[j] = new[a + j]
    BY <1>1, <1>10, <1>11, <2>1, PartLists
  <2>3. z \in Seq(Nat) /\ Len(z) = m
    BY <1>1, <2>2 DEF AreSizes
  <2>4. \A j \in 1 .. m : z[j] = rs[j]
    BY <1>7, <2>2
  <2>5. z = rs
    BY <1>4, <2>3, <2>4, SeqEqual
  <2>. QED  BY <2>1, <2>5
<1>13. ASSUME NEW t \in Servers, t # s, Part(keys, t) # << >> PROVE PartSizes(keys, new, t) = PartSizes(keys, sizes, t)
  <2>1. PICK y, z, c, l : y = PartSizes(keys, sizes, t) /\ z = PartSizes(keys, new, t) /\ c = From(keys, t) /\ l = Len(Part(keys, t))
    OBVIOUS
  <2>2. l \in Nat /\ l # 0
    BY <1>13, <2>1, FirstKey
  <2>3. AreSizes(z, Part(keys, t)) /\ \A j \in 1 .. l : z[j] = new[c + j]
    BY <1>10, <2>1, <2>2, PartLists
  <2>4. AreSizes(y, Part(keys, t)) /\ \A j \in 1 .. l : y[j] = sizes[c + j]
    BY <2>1, <2>2, PartLists
  <2>5. \A j \in 1 .. l : c + j \in 1 .. n /\ ServerOf(keys[c + j]) = t
    BY <1>1, <2>1, PartIs
  <2>6. \A j \in 1 .. l : y[j] = z[j]
    BY <1>8, <1>13, <2>3, <2>4, <2>5
  <2>7. y \in Seq(Nat) /\ z \in Seq(Nat) /\ Len(y) = l /\ Len(z) = l
    BY <2>1, <2>3, <2>4 DEF AreSizes
  <2>8. y = z
    BY <2>6, <2>7, SeqEqual
  <2>. QED  BY <2>1, <2>8
<1>. QED  BY <1>1, <1>7, <1>8, <1>10, <1>12, <1>13

\* The response of a server that is not in Got adds its part.
LEMMA Merge ==
    ASSUME KVOK, NEW k, PullOK(k), NEW s \in Servers, Part(k.keys, s) # << >>, s \notin Got(k),
           NEW rs, AreSizes(rs, Part(k.keys, s)), NEW l, l.keys = k.keys,
           l.sizes = MatchSizes(k.keys, k.sizes, Part(k.keys, s), rs), l.matched = k.matched + Len(Part(k.keys, s)),
           l.recv = [f \in DOMAIN k.recv \cup {Part(k.keys, s)[1]} |->
                       IF f = Part(k.keys, s)[1] THEN Values(Part(k.keys, s), rs) ELSE k.recv[f]]
    PROVE  PullOK(l) /\ Got(l) = Got(k) \cup {s}
<1>1. PICK keys, sizes, new, p, a, b, m, n : /\ keys = k.keys /\ sizes = k.sizes /\ new = l.sizes /\ p = Part(keys, s)
                                             /\ a = From(keys, s) /\ b = To(keys, s) /\ m = Len(p) /\ n = Len(keys)
  OBVIOUS
<1>2. /\ IsKeys(keys) /\ AreSizes(sizes, keys) /\ p # << >> /\ AreSizes(rs, p) /\ new = MatchSizes(keys, sizes, p, rs)
      /\ l.keys = keys /\ l.matched = k.matched + m
  BY <1>1 DEF PullOK
<1>3. /\ \A f \in DOMAIN k.recv : \E t \in Servers : Part(keys, t) # << >> /\ f = Part(keys, t)[1]
      /\ \A t \in Got(k) : k.recv[Part(keys, t)[1]] = Values(Part(keys, t), PartSizes(keys, sizes, t))
      /\ k.matched = Cardinality(Matched(k))
  BY <1>1 DEF PullOK
<1>4. /\ AreSizes(new, keys) /\ PartSizes(keys, new, s) = rs
      /\ \A t \in Servers : t # s /\ Part(keys, t) # << >> => PartSizes(keys, new, t) = PartSizes(keys, sizes, t)
  BY <1>1, <1>2, MatchedSizes
<1>5. \A t \in Servers : Part(keys, t) # << >> => (Part(keys, t)[1] = p[1] <=> t = s)
  <2>1. \A t \in Servers : Part(keys, t) # << >> => ServerOf(Part(keys, t)[1]) = t
    BY <1>2, FirstKey
  <2>. QED  BY <1>1, <1>2, <2>1
<1>6. l.recv = [f \in DOMAIN k.recv \cup {p[1]} |-> IF f = p[1] THEN Values(p, rs) ELSE k.recv[f]]
  BY <1>1
<1>7. DOMAIN l.recv = DOMAIN k.recv \cup {p[1]}
  BY <1>6
<1>8. Got(k) = {t \in Servers : Part(keys, t) # << >> /\ Part(keys, t)[1] \in DOMAIN k.recv}
  BY <1>1 DEF Got
<1>9. Got(l) = {t \in Servers : Part(keys, t) # << >> /\ Part(keys, t)[1] \in DOMAIN l.recv}
  BY <1>2 DEF Got
<1>10. Got(l) = Got(k) \cup {s}
  BY <1>1, <1>2, <1>5, <1>7, <1>8, <1>9
<1>11. \A f \in DOMAIN l.recv : \E t \in Servers : Part(keys, t) # << >> /\ f = Part(keys, t)[1]
  BY <1>1, <1>2, <1>3, <1>7
<1>12. ASSUME NEW t \in Got(l) PROVE l.recv[Part(keys, t)[1]] = Values(Part(keys, t), PartSizes(keys, new, t))
  <2>1. CASE t = s
    BY <1>1, <1>4, <1>6, <2>1
  <2>2. CASE t # s
    <3>1. t \in Servers /\ t \in Got(k) /\ Part(keys, t) # << >> /\ Part(keys, t)[1] \in DOMAIN k.recv
      BY <1>8, <1>10, <1>12, <2>2
    <3>2. Part(keys, t)[1] # p[1]
      BY <1>5, <2>2, <3>1
    <3>3. l.recv[Part(keys, t)[1]] = k.recv[Part(keys, t)[1]]
      BY <1>6, <3>1, <3>2
    <3>. QED  BY <1>3, <1>4, <2>2, <3>1, <3>3
  <2>. QED  BY <2>1, <2>2
<1>13. /\ n \in Nat /\ a \in 0 .. n /\ b \in 0 .. n /\ a < b /\ m = b - a /\ m \in Nat
       /\ \A i \in 1 .. n : ServerOf(keys[i]) = s <=> a < i /\ i <= b
  BY <1>1, <1>2, KeysDiffer, PartIs, Positions
<1>14. PICK I : I = (a + 1) .. b
  OBVIOUS
<1>15. Matched(l) = Matched(k) \cup I
  <2>1. Matched(k) = {i \in 1 .. n : ServerOf(keys[i]) \in Got(k)}
    BY <1>1 DEF Matched
  <2>2. Matched(l) = {i \in 1 .. n : ServerOf(keys[i]) \in Got(l)}
    BY <1>1, <1>2 DEF Matched
  <2>3. I = {i \in 1 .. n : ServerOf(keys[i]) = s}
    <3>1. \A i \in I : i \in 1 .. n /\ a < i /\ i <= b
      BY <1>13, <1>14
    <3>2. \A i \in 1 .. n : a < i /\ i <= b => i \in I
      BY <1>13, <1>14
    <3>. QED  BY <1>13, <3>1, <3>2
  <2>. QED  BY <1>10, <2>1, <2>2, <2>3
<1>16. Matched(k) \cap I = {}
  <2>1. \A i \in I : i \in 1 .. n /\ a < i /\ i <= b
    BY <1>13, <1>14
  <2>2. \A i \in I : ServerOf(keys[i]) = s
    BY <1>13, <2>1
  <2>. QED  BY <1>1, <2>2 DEF Matched
<1>17. IsFiniteSet(I) /\ Cardinality(I) = m
  <2>1. a + 1 \in Int /\ b \in Int
    BY <1>13
  <2>2. IsFiniteSet(I) /\ Cardinality(I) = IF a + 1 > b THEN 0 ELSE b - (a + 1) + 1
    BY <1>14, <2>1, FS_Interval
  <2>. QED  BY <1>13, <2>2
<1>18. IsFiniteSet(Matched(k)) /\ Cardinality(Matched(k)) \in Nat
  <2>1. Matched(k) \subseteq 1 .. n
    BY <1>1 DEF Matched
  <2>2. IsFiniteSet(1 .. n)
    BY <1>13, FS_Interval
  <2>. QED  BY <2>1, <2>2, FS_Subset, FS_CardinalityType
<1>19. l.matched = Cardinality(Matched(l))
  <2>1. Cardinality(Matched(k) \cup I) = Cardinality(Matched(k)) + Cardinality(I) - Cardinality(Matched(k) \cap I)
    BY <1>17, <1>18, FS_Union
  <2>2. Cardinality(Matched(k) \cap I) = 0
    BY <1>16, FS_EmptySet
  <2>. QED  BY <1>2, <1>3, <1>13, <1>15, <1>17, <1>18, <2>1, <2>2
<1>20. PullOK(l)
  <2>1. IsKeys(l.keys) /\ AreSizes(l.sizes, l.keys)
    BY <1>1, <1>2, <1>4
  <2>2. \A f \in DOMAIN l.recv : \E t \in Servers : Part(l.keys, t) # << >> /\ f = Part(l.keys, t)[1]
    BY <1>2, <1>11
  <2>3. \A t \in Got(l) : l.recv[Part(l.keys, t)[1]] = Values(Part(l.keys, t), PartSizes(l.keys, l.sizes, t))
    BY <1>1, <1>2, <1>12
  <2>. QED  BY <1>19, <2>1, <2>2, <2>3, Zenon DEF PullOK
<1>. QED  BY <1>10, <1>20

-----------------------------------------------------------------------------
(***************************************************************************)
(* Requests, responses and workers.                                        *)
(***************************************************************************)
\* sizes that the entries of the keys have at least
Sized(keys, sizes) == AreSizes(sizes, keys) /\ \A i \in 1 .. Len(keys) : sizes[i] <= Entry(keys[i]).size

Asks(kind, keys, sizes, s) == Request(kind, Slice(keys, sizes, s))

ChanOK(q, k, s) ==
    q # << >> =>
        /\ Part(k.keys, s) # << >>
        /\ \/ /\ k.pc = "pull" /\ s \notin Got(k)
              /\ \/ q = <<Asks("pull", k.keys, << >>, s)>>
                 \/ q = <<Asks("count", k.keys, << >>, s), Asks("pull", k.keys, << >>, s)>>
           \/ k.pc = "push" /\ q = <<Asks("push", k.keys, k.sizes, s)>>

Waiting(c) == {s \in Servers : c[s] # << >>}

WorkerOK(k, c) ==
    /\ k = [pc |-> k.pc, keys |-> k.keys, sizes |-> k.sizes, matched |-> k.matched, recv |-> k.recv, vals |-> k.vals,
            acks |-> k.acks, round |-> k.round]
    /\ k.pc \in {"idle", "pull", "pulled", "push"}
    /\ k.pc # "idle" => IsKeys(k.keys) /\ Sized(k.keys, k.sizes)
    /\ k.pc = "pull" => PullOK(k)
    /\ k.pc = "pulled" => k.keys # << >> /\ k.vals = Values(k.keys, k.sizes)
    /\ k.pc = "push" => k.keys # << >> /\ k.acks = Cardinality(Waiting(c))

\* r answers server s for worker record k, whose requests to s are in q
AnswerOK(r, k, q, s) ==
    /\ k.pc = "pull" /\ Part(k.keys, s) # << >> /\ r.keys = Part(k.keys, s) /\ s \notin Got(k) /\ q = << >>
    /\ Sized(r.keys, r.sizes) /\ r.vals = Values(r.keys, r.sizes)

IsAnswer(r) == r = [worker |-> r.worker, keys |-> r.keys, sizes |-> r.sizes, vals |-> r.vals]

PullInv ==
    /\ kv = [w \in Workers |-> kv[w]] /\ chan = [w \in Workers |-> [s \in Servers |-> chan[w][s]]]
    /\ \A w \in Workers : WorkerOK(kv[w], chan[w]) /\ \A s \in Servers : ChanOK(chan[w][s], kv[w], s)
    /\ \A r \in resps : /\ IsAnswer(r)
                        /\ r.worker \in Workers /\ \E s \in Servers : AnswerOK(r, kv[r.worker], chan[r.worker][s], s)
    /\ \A r, q \in resps : r.worker = q.worker /\ r.keys = q.keys => r = q

Growing == \A k \in Keys : Entry(k)'.size \in Nat /\ Entry(k).size \in Nat /\ Entry(k).size <= Entry(k)'.size

LEMMA SizedKept ==
    ASSUME Growing, NEW keys, \A i \in 1 .. Len(keys) : keys[i] \in Keys, Len(keys) \in Nat, NEW sizes, Sized(keys, sizes)
    PROVE  Sized(keys, sizes)'
<1>1. AreSizes(sizes, keys) /\ \A i \in 1 .. Len(keys) : sizes[i] <= Entry(keys[i]).size
  BY DEF Sized
<1>2. ASSUME NEW i \in 1 .. Len(keys) PROVE sizes[i] <= Entry(keys[i])'.size
  <2>1. sizes[i] \in Nat /\ sizes[i] <= Entry(keys[i]).size
    BY <1>1, SizesAre
  <2>2. PICK x, y \in Nat : x = Entry(keys[i]).size /\ y = Entry(keys[i])'.size /\ x <= y
    BY DEF Growing
  <2>. QED  BY <2>1, <2>2
<1>. QED  BY <1>1, <1>2 DEF Sized

LEMMA WorkerKept == ASSUME KVOK, Growing, NEW k, NEW c, WorkerOK(k, c) PROVE WorkerOK(k, c)'
<1>1. k.pc # "idle" => IsKeys(k.keys) /\ Sized(k.keys, k.sizes)'
  <2>1. SUFFICES ASSUME k.pc # "idle" PROVE IsKeys(k.keys) /\ Sized(k.keys, k.sizes)'
    OBVIOUS
  <2>2. IsKeys(k.keys) /\ Sized(k.keys, k.sizes)
    BY <2>1 DEF WorkerOK
  <2>3. Len(k.keys) \in Nat /\ \A i \in 1 .. Len(k.keys) : k.keys[i] \in Keys
    BY <2>2, KeysDiffer
  <2>. QED  BY <2>2, <2>3, SizedKept
<1>. QED  BY <1>1 DEF WorkerOK

LEMMA AnswerKept ==
    ASSUME KVOK, Growing, NEW r, NEW k, NEW q, NEW s \in Servers, IsKeys(k.keys), AnswerOK(r, k, q, s)
    PROVE  AnswerOK(r, k, q, s)'
<1>1. Sized(r.keys, r.sizes) /\ r.keys = Part(k.keys, s)
  BY DEF AnswerOK
<1>2. r.keys \in Seq(Keys)
  BY <1>1, PartIs
<1>3. Len(r.keys) \in Nat /\ \A i \in 1 .. Len(r.keys) : r.keys[i] \in Keys
  BY <1>2
<1>4. Sized(r.keys, r.sizes)'
  BY <1>1, <1>3, SizedKept
<1>. QED  BY <1>4 DEF AnswerOK

\* A step that changes one worker, its requests and its responses.
LEMMA WorkerStep ==
    ASSUME KVOK, PullInv, Growing, NEW w \in Workers, NEW l, NEW c, kv' = [kv EXCEPT ![w] = l], chan' = [chan EXCEPT ![w] = c],
           c = [s \in Servers |-> c[s]], WorkerOK(l, c)', \A s \in Servers : ChanOK(c[s], l, s), NEW R, resps' = R,
           \A r \in R : \/ r \in resps /\ r.worker # w
                        \/ IsAnswer(r) /\ r.worker = w /\ \E s \in Servers : AnswerOK(r, l, c[s], s)',
           \A r, q \in R : r.worker = w /\ q.worker = w /\ r.keys = q.keys => r = q
    PROVE  PullInv'
<1>1. PICK kv2, chan2 : kv2 = kv' /\ chan2 = chan'
  OBVIOUS
<1>2. /\ kv = [v \in Workers |-> kv[v]] /\ chan = [v \in Workers |-> [s \in Servers |-> chan[v][s]]]
      /\ \A v \in Workers : WorkerOK(kv[v], chan[v]) /\ \A s \in Servers : ChanOK(chan[v][s], kv[v], s)
      /\ \A r \in resps : IsAnswer(r) /\ r.worker \in Workers /\ \E s \in Servers : AnswerOK(r, kv[r.worker], chan[r.worker][s], s)
      /\ \A r, q \in resps : r.worker = q.worker /\ r.keys = q.keys => r = q
  BY DEF PullInv
<1>3. /\ kv2[w] = l /\ chan2[w] = c /\ DOMAIN kv2 = Workers /\ DOMAIN chan2 = Workers
      /\ kv2 = [kv EXCEPT ![w] = l] /\ chan2 = [chan EXCEPT ![w] = c]
      /\ \A v \in Workers : v # w => kv2[v] = kv[v] /\ chan2[v] = chan[v]
  BY <1>1, <1>2
<1>4. kv2 = [v \in Workers |-> kv2[v]]
  BY <1>2, <1>3
<1>5. chan2 = [v \in Workers |-> [s \in Servers |-> chan2[v][s]]]
  <2>1. \A v \in Workers : chan[v] = [s \in Servers |-> chan[v][s]]
    BY <1>2
  <2>2. \A v \in Workers : chan2[v] = [s \in Servers |-> chan2[v][s]]
    BY <1>3, <2>1
  <2>3. chan2 = [v \in Workers |-> chan2[v]]
    BY <1>2, <1>3
  <2>. QED  BY <2>2, <2>3
<1>6. ASSUME NEW v \in Workers PROVE WorkerOK(kv2[v], chan2[v])' /\ \A s \in Servers : ChanOK(chan2[v][s], kv2[v], s)
  <2>1. CASE v = w
    BY <1>3, <2>1
  <2>2. CASE v # w
    <3>1. PICK k, d : k = kv[v] /\ d = chan[v]
      OBVIOUS
    <3>2. kv2[v] = k /\ chan2[v] = d /\ WorkerOK(k, d) /\ \A s \in Servers : ChanOK(d[s], k, s)
      BY <1>2, <1>3, <2>2, <3>1
    <3>3. WorkerOK(k, d)'
      BY <3>2, WorkerKept
    <3>. QED  BY <3>2, <3>3
  <2>. QED  BY <2>1, <2>2
<1>7. ASSUME NEW r \in R
      PROVE  IsAnswer(r) /\ r.worker \in Workers /\ \E s \in Servers : AnswerOK(r, kv2[r.worker], chan2[r.worker][s], s)'
  <2>1. CASE r \in resps /\ r.worker # w
    <3>1. IsAnswer(r) /\ r.worker \in Workers
      BY <1>2, <2>1
    <3>2. PICK v, k, d : v = r.worker /\ k = kv[v] /\ d = chan[v]
      OBVIOUS
    <3>3. PICK s \in Servers : AnswerOK(r, k, d[s], s)
      BY <1>2, <2>1, <3>2
    <3>4. WorkerOK(k, d) /\ k.pc = "pull" /\ kv2[v] = k /\ chan2[v] = d
      BY <1>2, <1>3, <2>1, <3>1, <3>2, <3>3 DEF AnswerOK
    <3>5. IsKeys(k.keys)
      BY <3>4 DEF WorkerOK
    <3>6. AnswerOK(r, k, d[s], s)'
      BY <3>3, <3>5, AnswerKept
    <3>. QED  BY <3>1, <3>2, <3>4, <3>6
  <2>2. CASE IsAnswer(r) /\ r.worker = w /\ \E s \in Servers : AnswerOK(r, l, c[s], s)'
    BY <1>3, <2>2
  <2>. QED  BY <2>1, <2>2
<1>8. \A r, q \in R : r.worker = q.worker /\ r.keys = q.keys => r = q
  BY <1>2
<1>9. \A v \in Workers : WorkerOK(kv[v], chan[v])' /\ (\A s \in Servers : ChanOK(chan[v][s], kv[v], s))'
  BY <1>1, <1>6
<1>10. (\A r \in resps : IsAnswer(r) /\ r.worker \in Workers /\ \E s \in Servers : AnswerOK(r, kv[r.worker], chan[r.worker][s], s))'
  BY <1>1, <1>7
<1>11. (\A r, q \in resps : r.worker = q.worker /\ r.keys = q.keys => r = q)'
  BY <1>8
<1>12. (kv = [v \in Workers |-> kv[v]] /\ chan = [v \in Workers |-> [s \in Servers |-> chan[v][s]]])'
  BY <1>1, <1>4, <1>5
<1>. QED  BY <1>9, <1>10, <1>11, <1>12 DEF PullInv

LEMMA Sends ==
    ASSUME KVOK, PullInv, NEW w \in Workers, NEW keys, IsKeys(keys), NEW sizes, NEW kinds,
           NEW n \in Nat, DOMAIN kinds = 1 .. n, \A s \in Servers : chan[w][s] = << >>, SendTo(w, keys, sizes, kinds)
    PROVE  \E c : /\ chan' = [chan EXCEPT ![w] = c] /\ c = [s \in Servers |-> c[s]]
                  /\ \A s \in Servers : c[s] = IF Part(keys, s) = << >> THEN << >>
                                               ELSE [i \in DOMAIN kinds |-> Asks(kinds[i], keys, sizes, s)]
<1>. DEFINE c == [s \in Servers |-> LET sl == Slice(keys, sizes, s)
                                    IN  IF sl.keys = << >> THEN chan[w][s]
                                        ELSE chan[w][s] \o [i \in DOMAIN kinds |-> Request(kinds[i], sl)]]
<1>1. DOMAIN chan = Workers
  BY DEF PullInv
<1>2. chan' = [chan EXCEPT ![w] = c]
  BY <1>1 DEF SendTo
<1>3. ASSUME NEW s \in Servers
      PROVE  c[s] = IF Part(keys, s) = << >> THEN << >> ELSE [i \in DOMAIN kinds |-> Asks(kinds[i], keys, sizes, s)]
  <2>1. PICK sl, f : sl = Slice(keys, sizes, s) /\ f = [i \in DOMAIN kinds |-> Request(kinds[i], sl)]
    OBVIOUS
  <2>2. sl.keys = Part(keys, s)
    BY <2>1, PartIs
  <2>4. << >> \o f = f
    <3>1. f \in Seq({f[i] : i \in DOMAIN kinds})
      BY <2>1
    <3>. QED  BY <3>1, ConcatEmptySeq
  <2>5. c[s] = IF sl.keys = << >> THEN << >> ELSE << >> \o f
    BY <2>1
  <2>. QED  BY <2>1, <2>2, <2>4, <2>5 DEF Asks
<1>. QED  BY <1>2, <1>3

LEMMA GrowingSame == ASSUME KVOK, StoreInv, \A k : Entry(k)' = Entry(k) PROVE Growing
  BY EntryTypes DEF Growing, EntryT

LEMMA StartPulls == ASSUME KVOK, StoreInv, PullInv, NEW w \in Workers, NEW ks \in Batches, StartMinibatch(w, ks) PROVE PullInv'
<1>1. \A k : Entry(k)' = Entry(k)
  BY StoresKept DEF StartMinibatch, SameStore
<1>2. PICK kinds \in {<<"count", "pull">>, <<"pull">>} : SendTo(w, ks, << >>, kinds)
  BY DEF StartMinibatch
<1>3. PICK z, l : z = [i \in DOMAIN ks |-> 0] /\ l = [Idle(kv[w].round + 1) EXCEPT !.pc = "pull", !.keys = ks, !.sizes = z]
  OBVIOUS
<1>4. kv' = [kv EXCEPT ![w] = l] /\ resps' = resps /\ kv[w].pc = "idle"
  BY <1>3 DEF StartMinibatch
<1>5. \A s \in Servers : chan[w][s] = << >>
  <2>1. \A s \in Servers : ChanOK(chan[w][s], kv[w], s)
    BY DEF PullInv
  <2>. QED  BY <1>4, <2>1 DEF ChanOK
<1>6. IsKeys(ks)
  BY DEF KVOK, IsKeys
<1>7. PICK c : /\ chan' = [chan EXCEPT ![w] = c] /\ c = [s \in Servers |-> c[s]]
               /\ \A s \in Servers : c[s] = IF Part(ks, s) = << >> THEN << >>
                                            ELSE [i \in DOMAIN kinds |-> Asks(kinds[i], ks, << >>, s)]
  <2>1. PICK n \in Nat : DOMAIN kinds = 1 .. n
    <3>1. \A x, y : DOMAIN <<x, y>> = 1 .. 2
      OBVIOUS
    <3>2. \A x : DOMAIN <<x>> = 1 .. 1
      OBVIOUS
    <3>. QED  BY <1>2, <3>1, <3>2
  <2>. QED  BY <1>2, <1>5, <1>6, <2>1, Sends
<1>8. /\ l = [pc |-> l.pc, keys |-> l.keys, sizes |-> l.sizes, matched |-> l.matched, recv |-> l.recv, vals |-> l.vals,
              acks |-> l.acks, round |-> l.round]
      /\ l.pc = "pull" /\ l.keys = ks /\ l.sizes = z /\ l.recv = << >> /\ l.matched = 0
  BY <1>3 DEF Idle
<1>9. Got(l) = {}
  <2>1. DOMAIN l.recv = {}
    BY <1>8
  <2>. QED  BY <2>1 DEF Got
<1>10. AreSizes(z, ks) /\ Len(ks) \in Nat /\ \A i \in 1 .. Len(ks) : z[i] = 0 /\ ks[i] \in Keys
  <2>1. Len(ks) \in Nat /\ DOMAIN ks = 1 .. Len(ks) /\ \A i \in 1 .. Len(ks) : ks[i] \in Keys
    BY <1>6, KeysDiffer
  <2>. QED  BY <1>3, <2>1 DEF AreSizes
<1>11. PullOK(l)
  <2>1. Matched(l) = {}
    BY <1>9 DEF Matched
  <2>2. l.matched = Cardinality(Matched(l))
    BY <1>8, <2>1, FS_EmptySet
  <2>3. DOMAIN l.recv = {}
    BY <1>8
  <2>. QED  BY <1>6, <1>8, <1>9, <1>10, <2>2, <2>3 DEF PullOK
<1>12. Growing
  BY <1>1, GrowingSame
<1>13. Sized(ks, z)'
  <2>1. \A i \in 1 .. Len(ks) : z[i] <= Entry(ks[i])'.size
    BY <1>10, <1>12 DEF Growing
  <2>. QED  BY <1>10, <2>1 DEF Sized
<1>14. WorkerOK(l, c)'
  BY <1>6, <1>8, <1>11, <1>13 DEF WorkerOK
<1>15. ASSUME NEW s \in Servers PROVE ChanOK(c[s], l, s)
  <2>1. \A x, y : [i \in DOMAIN <<x, y>> |-> Asks(<<x, y>>[i], ks, << >>, s)] = <<Asks(x, ks, << >>, s), Asks(y, ks, << >>, s)>>
    OBVIOUS
  <2>2. \A x : [i \in DOMAIN <<x>> |-> Asks(<<x>>[i], ks, << >>, s)] = <<Asks(x, ks, << >>, s)>>
    OBVIOUS
  <2>3. \/ c[s] = << >>
        \/ Part(ks, s) # << >> /\ c[s] = <<Asks("pull", ks, << >>, s)>>
        \/ Part(ks, s) # << >> /\ c[s] = <<Asks("count", ks, << >>, s), Asks("pull", ks, << >>, s)>>
    BY <1>2, <1>7, <2>1, <2>2
  <2>. QED  BY <1>8, <1>9, <2>3 DEF ChanOK
<1>16. PICK R : R = resps
  OBVIOUS
<1>17. resps' = R /\ \A r \in R : r \in resps /\ r.worker # w
  BY <1>4, <1>16 DEF PullInv, AnswerOK
<1>18. \A r, q \in R : r.worker = w /\ q.worker = w /\ r.keys = q.keys => r = q
  BY <1>17
<1>. QED  BY <1>4, <1>7, <1>12, <1>14, <1>15, <1>17, <1>18, WorkerStep

\* A response is for a worker that pulls, from a server that it has no request to.
LEMMA AnswersOf ==
    ASSUME KVOK, PullInv, NEW r \in resps
    PROVE  /\ IsAnswer(r) /\ r.worker \in Workers /\ kv[r.worker].pc = "pull"
           /\ \E s \in Servers : AnswerOK(r, kv[r.worker], chan[r.worker][s], s)
  BY DEF PullInv, AnswerOK

LEMMA WorkerIs ==
    ASSUME PullInv, NEW w \in Workers
    PROVE  WorkerOK(kv[w], chan[w]) /\ \A s \in Servers : ChanOK(chan[w][s], kv[w], s)
  BY DEF PullInv

LEMMA PushPulls == ASSUME KVOK, StoreInv, PullInv, NEW w \in Workers, PushGradients(w) PROVE PullInv'
<1>1. \A x : Entry(x)' = Entry(x)
  BY StoresKept DEF PushGradients, SameStore
<1>2. PICK k, n, l : /\ k = kv[w] /\ n = Cardinality({s \in Servers : Slice(k.keys, << >>, s).keys # << >>})
                     /\ l = [k EXCEPT !.pc = "push", !.acks = n]
  OBVIOUS
<1>3. kv' = [kv EXCEPT ![w] = l] /\ resps' = resps /\ k.pc = "pulled" /\ SendTo(w, k.keys, k.sizes, <<"push">>)
  BY <1>2 DEF PushGradients
<1>4. WorkerOK(k, chan[w]) /\ \A s \in Servers : ChanOK(chan[w][s], k, s)
  BY <1>2, WorkerIs
<1>5. \A s \in Servers : chan[w][s] = << >>
  BY <1>3, <1>4 DEF ChanOK
<1>6. /\ IsKeys(k.keys) /\ Sized(k.keys, k.sizes) /\ k.keys # << >>
      /\ k = [pc |-> k.pc, keys |-> k.keys, sizes |-> k.sizes, matched |-> k.matched, recv |-> k.recv, vals |-> k.vals,
              acks |-> k.acks, round |-> k.round]
  BY <1>3, <1>4 DEF WorkerOK
<1>7. PICK kinds : kinds = <<"push">>
  OBVIOUS
<1>8. PICK c : /\ chan' = [chan EXCEPT ![w] = c] /\ c = [s \in Servers |-> c[s]]
               /\ \A s \in Servers : c[s] = IF Part(k.keys, s) = << >> THEN << >>
                                            ELSE [i \in DOMAIN kinds |-> Asks(kinds[i], k.keys, k.sizes, s)]
  <2>1. PICK m \in Nat : DOMAIN kinds = 1 .. m
    BY <1>7
  <2>2. SendTo(w, k.keys, k.sizes, kinds)
    BY <1>3, <1>7
  <2>. QED  BY <1>5, <1>6, <2>1, <2>2, Sends
<1>9. /\ l = [pc |-> l.pc, keys |-> l.keys, sizes |-> l.sizes, matched |-> l.matched, recv |-> l.recv, vals |-> l.vals,
              acks |-> l.acks, round |-> l.round]
      /\ l.pc = "push" /\ l.keys = k.keys /\ l.sizes = k.sizes /\ l.acks = n
  BY <1>2, <1>6
<1>10. \A s \in Servers : c[s] = IF Part(k.keys, s) = << >> THEN << >> ELSE <<Asks("push", k.keys, k.sizes, s)>>
  <2>1. \A x, s : [i \in DOMAIN <<x>> |-> Asks(<<x>>[i], k.keys, k.sizes, s)] = <<Asks(x, k.keys, k.sizes, s)>>
    OBVIOUS
  <2>. QED  BY <1>8, <1>7, <2>1
<1>11. l.acks = Cardinality(Waiting(c))
  <2>1. \A s \in Servers : Slice(k.keys, << >>, s).keys = Part(k.keys, s)
    BY <1>6, PartIs
  <2>2. \A x : <<x>> # << >>
    OBVIOUS
  <2>3. Waiting(c) = {s \in Servers : Slice(k.keys, << >>, s).keys # << >>}
    BY <1>10, <2>1, <2>2 DEF Waiting
  <2>. QED  BY <1>2, <1>9, <2>3
<1>12. Growing
  BY <1>1, GrowingSame
<1>13. Sized(k.keys, k.sizes)'
  <2>1. Len(k.keys) \in Nat /\ \A i \in 1 .. Len(k.keys) : k.keys[i] \in Keys
    BY <1>6, KeysDiffer
  <2>. QED  BY <1>6, <1>12, <2>1, SizedKept
<1>14. WorkerOK(l, c)'
  BY <1>6, <1>9, <1>11, <1>13 DEF WorkerOK
<1>15. \A s \in Servers : ChanOK(c[s], l, s)
  BY <1>9, <1>10 DEF ChanOK
<1>16. PICK R : R = resps
  OBVIOUS
<1>17. resps' = R /\ \A r \in R : r \in resps /\ r.worker # w
  BY <1>2, <1>3, <1>16, AnswersOf
<1>18. \A r, q \in R : r.worker = w /\ q.worker = w /\ r.keys = q.keys => r = q
  BY <1>17
<1>. QED  BY <1>3, <1>8, <1>12, <1>14, <1>15, <1>17, <1>18, WorkerStep

\* A server takes a request.
LEMMA Takes ==
    ASSUME KVOK, PullInv, NEW w \in Workers, NEW s \in Servers, Take(w, s)
    PROVE  \E c : /\ chan' = [chan EXCEPT ![w] = c] /\ c = [t \in Servers |-> c[t]] /\ c[s] = Tail(chan[w][s])
                  /\ \A t \in Servers : t # s => c[t] = chan[w][t]
<1>1. PICK c : c = [chan[w] EXCEPT ![s] = Tail(@)]
  OBVIOUS
<1>2. DOMAIN chan = Workers /\ chan[w] = [t \in Servers |-> chan[w][t]]
  BY DEF PullInv
<1>3. chan' = [chan EXCEPT ![w] = c]
  BY <1>1, <1>2 DEF Take
<1>4. c[s] = Tail(chan[w][s]) /\ DOMAIN c = Servers /\ \A t \in Servers : t # s => c[t] = chan[w][t]
  BY <1>1, <1>2
<1>5. c = [t \in Servers |-> c[t]]
  BY <1>1, <1>2, <1>4
<1>. QED  BY <1>3, <1>4, <1>5

LEMMA Kinds ==
    ASSUME NEW kind, NEW keys, NEW sizes, NEW s, NEW x
    PROVE  /\ Head(<<Asks(kind, keys, sizes, s)>>).kind = kind /\ Tail(<<Asks(kind, keys, sizes, s)>>) = << >>
           /\ Head(<<Asks(kind, keys, sizes, s), x>>).kind = kind /\ Tail(<<Asks(kind, keys, sizes, s), x>>) = <<x>>
           /\ Asks(kind, keys, sizes, s).keys = Slice(keys, sizes, s).keys
           /\ Asks(kind, keys, sizes, s).sizes = Slice(keys, sizes, s).sizes
  BY DEF Asks, Request

\* The first request to a server tells where the worker is.
LEMMA FirstRequest ==
    ASSUME NEW q, NEW k, NEW s, ChanOK(q, k, s), q # << >>
    PROVE  /\ Part(k.keys, s) # << >>
           /\ Head(q).kind = "count" => /\ k.pc = "pull" /\ s \notin Got(k)
                                        /\ q = <<Asks("count", k.keys, << >>, s), Asks("pull", k.keys, << >>, s)>>
           /\ Head(q).kind = "pull" => k.pc = "pull" /\ s \notin Got(k) /\ q = <<Asks("pull", k.keys, << >>, s)>>
           /\ Head(q).kind = "push" => k.pc = "push" /\ q = <<Asks("push", k.keys, k.sizes, s)>>
<1>1. PICK x, y, z : x = Asks("count", k.keys, << >>, s) /\ y = Asks("pull", k.keys, << >>, s) /\ z = Asks("push", k.keys, k.sizes, s)
  OBVIOUS
<1>2. x.kind = "count" /\ y.kind = "pull" /\ z.kind = "push"
  BY <1>1 DEF Asks, Request
<1>3. Head(<<x, y>>) = x /\ Head(<<y>>) = y /\ Head(<<z>>) = z
  OBVIOUS
<1>4. /\ Part(k.keys, s) # << >>
      /\ \/ k.pc = "pull" /\ s \notin Got(k) /\ (q = <<y>> \/ q = <<x, y>>)
         \/ k.pc = "push" /\ q = <<z>>
  BY <1>1 DEF ChanOK
<1>5. CASE q = <<y>> /\ k.pc = "pull" /\ s \notin Got(k)
  BY <1>1, <1>2, <1>3, <1>4, <1>5
<1>6. CASE q = <<x, y>> /\ k.pc = "pull" /\ s \notin Got(k)
  BY <1>1, <1>2, <1>3, <1>4, <1>6
<1>7. CASE q = <<z>> /\ k.pc = "push"
  BY <1>1, <1>2, <1>3, <1>4, <1>7
<1>. QED  BY <1>4, <1>5, <1>6, <1>7

LEMMA CountPulls == ASSUME KVOK, StoreInv, PullInv, NEW w \in Workers, NEW s \in Servers, HandleCount(w, s) PROVE PullInv'
<1>1. Growing
  BY CountStores DEF Growing
<1>2. PICK c : /\ chan' = [chan EXCEPT ![w] = c] /\ c = [t \in Servers |-> c[t]] /\ c[s] = Tail(chan[w][s])
               /\ \A t \in Servers : t # s => c[t] = chan[w][t]
  BY Takes DEF HandleCount
<1>3. PICK k, q, R : k = kv[w] /\ q = chan[w][s] /\ R = resps
  OBVIOUS
<1>4. WorkerOK(k, chan[w]) /\ \A t \in Servers : ChanOK(chan[w][t], k, t)
  BY <1>3, WorkerIs
<1>5. q # << >> /\ Head(q).kind = "count" /\ resps' = R /\ kv' = kv
  BY <1>3 DEF HandleCount
<1>6. Part(k.keys, s) # << >> /\ k.pc = "pull" /\ s \notin Got(k) /\ q = <<Asks("count", k.keys, << >>, s), Asks("pull", k.keys, << >>, s)>>
  <2>1. ChanOK(q, k, s)
    BY <1>3, <1>4
  <2>. QED  BY <1>5, <2>1, FirstRequest
<1>7. c[s] = <<Asks("pull", k.keys, << >>, s)>>
  BY <1>2, <1>3, <1>6, Kinds
<1>8. \A t \in Servers : ChanOK(c[t], k, t)
  <2>1. ChanOK(c[s], k, s)
    BY <1>6, <1>7 DEF ChanOK
  <2>. QED  BY <1>2, <1>4, <2>1
<1>9. WorkerOK(k, c)'
  <2>1. WorkerOK(k, c)
    BY <1>4, <1>6 DEF WorkerOK
  <2>. QED  BY <1>1, <2>1, WorkerKept
<1>10. kv' = [kv EXCEPT ![w] = k]
  BY <1>3, <1>5 DEF PullInv
<1>11. ASSUME NEW r \in R
       PROVE  \/ r \in resps /\ r.worker # w
              \/ IsAnswer(r) /\ r.worker = w /\ \E t \in Servers : AnswerOK(r, k, c[t], t)'
  <2>1. CASE r.worker = w
    <3>1. PICK t \in Servers : IsAnswer(r) /\ AnswerOK(r, k, chan[w][t], t)
      BY <1>3, <2>1, AnswersOf
    <3>2. c[t] = chan[w][t]
      BY <1>2, <1>3, <1>5, <3>1 DEF AnswerOK
    <3>3. IsKeys(k.keys)
      BY <1>4, <1>6 DEF WorkerOK
    <3>4. AnswerOK(r, k, c[t], t)
      BY <3>1, <3>2
    <3>5. AnswerOK(r, k, c[t], t)'
      BY <1>1, <3>3, <3>4, AnswerKept
    <3>. QED  BY <2>1, <3>1, <3>5
  <2>. QED  BY <1>3, <2>1
<1>12. \A r, x \in R : r.worker = w /\ x.worker = w /\ r.keys = x.keys => r = x
  BY <1>3 DEF PullInv
<1>13. chan' = [chan EXCEPT ![w] = c] /\ c = [t \in Servers |-> c[t]] /\ resps' = R
  BY <1>2, <1>5
<1>. QED  BY <1>1, <1>8, <1>9, <1>10, <1>11, <1>12, <1>13, WorkerStep

LEMMA PullPulls == ASSUME KVOK, StoreInv, PullInv, NEW w \in Workers, NEW s \in Servers, HandlePull(w, s) PROVE PullInv'
<1>1. (\A x : Entry(x)' = Entry(x)) /\ Growing
  BY PullStores, GrowingSame
<1>2. PICK c : /\ chan' = [chan EXCEPT ![w] = c] /\ c = [t \in Servers |-> c[t]] /\ c[s] = Tail(chan[w][s])
               /\ \A t \in Servers : t # s => c[t] = chan[w][t]
  BY Takes DEF HandlePull
<1>3. PICK k, q, p : k = kv[w] /\ q = chan[w][s] /\ p = Part(k.keys, s)
  OBVIOUS
<1>4. WorkerOK(k, chan[w]) /\ \A t \in Servers : ChanOK(chan[w][t], k, t)
  BY <1>3, WorkerIs
<1>5. q # << >> /\ Head(q).kind = "pull" /\ kv' = kv
  BY <1>3 DEF HandlePull
<1>6. p # << >> /\ k.pc = "pull" /\ s \notin Got(k) /\ q = <<Asks("pull", k.keys, << >>, s)>>
  <2>1. ChanOK(q, k, s)
    BY <1>3, <1>4
  <2>. QED  BY <1>3, <1>5, <2>1, FirstRequest
<1>7. IsKeys(k.keys)
  BY <1>4, <1>6 DEF WorkerOK
<1>8. Head(q).keys = p /\ c[s] = << >>
  <2>1. Head(q).keys = Slice(k.keys, << >>, s).keys
    BY <1>6, Kinds
  <2>2. Slice(k.keys, << >>, s).keys = p
    BY <1>3, <1>7, PartIs
  <2>. QED  BY <1>2, <1>3, <1>6, <2>1, <2>2, Kinds
<1>9. PICK z, a, R : /\ z = [i \in DOMAIN p |-> PullSize(Entry(p[i]))]
                     /\ a = [worker |-> w, keys |-> p, sizes |-> z, vals |-> Values(p, z)]
                     /\ R = resps \cup {a}
  OBVIOUS
<1>10. resps' = R
  BY <1>3, <1>8, <1>9 DEF HandlePull
<1>11. Sized(p, z)'
  <2>1. DOMAIN p = 1 .. Len(p) /\ Len(p) \in Nat /\ p \in Seq(Keys)
    BY <1>3, <1>7, PartIs
  <2>2. ASSUME NEW i \in 1 .. Len(p) PROVE z[i] \in Nat /\ z[i] <= Entry(p[i])'.size
    <3>1. p[i] \in Keys
      BY <2>1
    <3>2. PICK e \in EntryT : e = Entry(p[i]) /\ e = Entry(p[i])'
      BY <1>1, <3>1, EntryTypes
    <3>3. z[i] = PullSize(e)
      BY <1>9, <2>1, <3>2
    <3>4. e.size \in Nat \ {0}
      BY DEF EntryT
    <3>5. PullSize(e) = 1 \/ PullSize(e) = e.size
      BY DEF PullSize
    <3>. QED  BY <3>2, <3>3, <3>4, <3>5
  <2>3. z \in Seq(Nat) /\ Len(z) = Len(p)
    <3>1. z = [i \in 1 .. Len(p) |-> z[i]]
      BY <1>9, <2>1
    <3>. QED  BY <2>1, <2>2, <3>1
  <2>. QED  BY <2>2, <2>3 DEF Sized, AreSizes
<1>12. a.worker = w /\ a.keys = p /\ a.sizes = z /\ a.vals = Values(p, z) /\ IsAnswer(a)
  BY <1>9 DEF IsAnswer
<1>13. AnswerOK(a, k, c[s], s)'
  BY <1>3, <1>6, <1>8, <1>11, <1>12 DEF AnswerOK
<1>14. \A t \in Servers : ChanOK(c[t], k, t)
  <2>1. ChanOK(c[s], k, s)
    BY <1>8 DEF ChanOK
  <2>. QED  BY <1>2, <1>4, <2>1
<1>15. WorkerOK(k, c)'
  <2>1. WorkerOK(k, c)
    BY <1>4, <1>6 DEF WorkerOK
  <2>. QED  BY <1>1, <2>1, WorkerKept
<1>16. kv' = [kv EXCEPT ![w] = k]
  BY <1>3, <1>5 DEF PullInv
<1>17. ASSUME NEW r \in resps, r.worker = w
       PROVE  IsAnswer(r) /\ r.keys # p /\ \E t \in Servers : AnswerOK(r, k, c[t], t)'
  <2>1. PICK t \in Servers : IsAnswer(r) /\ AnswerOK(r, k, chan[w][t], t)
    BY <1>3, <1>17, AnswersOf
  <2>2. t # s /\ c[t] = chan[w][t]
    BY <1>2, <1>3, <1>5, <2>1 DEF AnswerOK
  <2>3. AnswerOK(r, k, c[t], t)
    BY <2>1, <2>2
  <2>4. AnswerOK(r, k, c[t], t)'
    BY <1>1, <1>7, <2>3, AnswerKept
  <2>5. r.keys = Part(k.keys, t) /\ Part(k.keys, t) # << >>
    BY <2>1 DEF AnswerOK
  <2>6. ServerOf(p[1]) = s /\ ServerOf(r.keys[1]) = t
    BY <1>3, <1>6, <1>7, <2>5, FirstKey
  <2>. QED  BY <2>1, <2>2, <2>4, <2>6
<1>18. \A r \in R : \/ r \in resps /\ r.worker # w
                    \/ IsAnswer(r) /\ r.worker = w /\ \E t \in Servers : AnswerOK(r, k, c[t], t)'
  BY <1>9, <1>12, <1>13, <1>17
<1>19. \A r, x \in R : r.worker = w /\ x.worker = w /\ r.keys = x.keys => r = x
  <2>1. \A r, x \in resps : r.worker = x.worker /\ r.keys = x.keys => r = x
    BY DEF PullInv
  <2>. QED  BY <1>9, <1>12, <1>17, <2>1
<1>20. chan' = [chan EXCEPT ![w] = c] /\ c = [t \in Servers |-> c[t]]
  BY <1>2
<1>. QED  BY <1>1, <1>10, <1>14, <1>15, <1>16, <1>18, <1>19, <1>20, WorkerStep

LEMMA GradPulls == ASSUME KVOK, StoreInv, PullInv, NEW w \in Workers, NEW s \in Servers, HandlePush(w, s) PROVE PullInv'
<1>1. Growing
  BY PushStores DEF Growing
<1>2. PICK c : /\ chan' = [chan EXCEPT ![w] = c] /\ c = [t \in Servers |-> c[t]] /\ c[s] = Tail(chan[w][s])
               /\ \A t \in Servers : t # s => c[t] = chan[w][t]
  BY Takes DEF HandlePush
<1>3. PICK k, q, R, l : /\ k = kv[w] /\ q = chan[w][s] /\ R = resps
                        /\ l = IF k.acks = 1 THEN Idle(k.round) ELSE [k EXCEPT !.acks = k.acks - 1]
  OBVIOUS
<1>4. WorkerOK(k, chan[w]) /\ \A t \in Servers : ChanOK(chan[w][t], k, t)
  BY <1>3, WorkerIs
<1>5. q # << >> /\ Head(q).kind = "push" /\ resps' = R /\ kv' = [kv EXCEPT ![w] = l]
  <2>1. q # << >> /\ Head(q).kind = "push" /\ resps' = R
    BY <1>3 DEF HandlePush
  <2>2. kv' = [kv EXCEPT ![w] = l]
    BY <1>3 DEF HandlePush
  <2>. QED  BY <2>1, <2>2
<1>6. k.pc = "push" /\ q = <<Asks("push", k.keys, k.sizes, s)>>
  <2>1. ChanOK(q, k, s)
    BY <1>3, <1>4
  <2>. QED  BY <1>3, <1>5, <2>1, FirstRequest
<1>7. c[s] = << >>
  BY <1>2, <1>3, <1>6, Kinds
<1>8. PICK n : n = Cardinality(Waiting(c))
  OBVIOUS
<1>9. k.acks = n + 1 /\ n \in Nat /\ IsFiniteSet(Waiting(c))
  <2>1. PICK W : W = Waiting(chan[w])
    OBVIOUS
  <2>2. k.acks = Cardinality(W)
    BY <1>4, <1>6, <2>1 DEF WorkerOK
  <2>3. s \in W /\ Waiting(c) = W \ {s}
    BY <1>2, <1>3, <1>5, <1>7, <2>1 DEF Waiting
  <2>4. IsFiniteSet(W)
    <3>1. Len(KeyRanges) \in Nat /\ Servers = 1 .. Len(KeyRanges) /\ W \subseteq Servers
      BY <2>1, Ranges DEF Waiting
    <3>2. IsFiniteSet(1 .. Len(KeyRanges))
      BY <3>1, FS_Interval
    <3>. QED  BY <3>1, <3>2, FS_Subset
  <2>5. IsFiniteSet(W \ {s}) /\ Cardinality(W \ {s}) = Cardinality(W) - 1
    BY <2>3, <2>4, FS_RemoveElement
  <2>6. Cardinality(W) \in Nat /\ Cardinality(W \ {s}) \in Nat
    BY <2>4, <2>5, FS_CardinalityType
  <2>. QED  BY <1>8, <2>2, <2>3, <2>5, <2>6
<1>10. WorkerOK(l, c)' /\ \A t \in Servers : ChanOK(c[t], l, t)
  <2>1. CASE k.acks = 1
    <3>1. l = Idle(k.round) /\ l.pc = "idle"
      BY <1>3, <2>1 DEF Idle
    <3>2. \A t \in Servers : c[t] = << >>
      <4>1. n = 0
        BY <1>9, <2>1
      <4>2. Waiting(c) = {}
        BY <1>8, <1>9, <4>1, FS_EmptySet
      <4>. QED  BY <4>2 DEF Waiting
    <3>3. WorkerOK(l, c)'
      BY <3>1 DEF WorkerOK, Idle
    <3>. QED  BY <3>2, <3>3 DEF ChanOK
  <2>2. CASE k.acks # 1
    <3>1. k = [pc |-> k.pc, keys |-> k.keys, sizes |-> k.sizes, matched |-> k.matched, recv |-> k.recv, vals |-> k.vals,
               acks |-> k.acks, round |-> k.round]
      BY <1>4 DEF WorkerOK
    <3>2. l = [k EXCEPT !.acks = n]
      BY <1>3, <1>9, <2>2
    <3>3. /\ l = [pc |-> l.pc, keys |-> l.keys, sizes |-> l.sizes, matched |-> l.matched, recv |-> l.recv, vals |-> l.vals,
                  acks |-> l.acks, round |-> l.round]
          /\ l.pc = "push" /\ l.keys = k.keys /\ l.sizes = k.sizes /\ l.acks = n
      BY <1>6, <3>1, <3>2
    <3>4. WorkerOK(l, c)
      BY <1>4, <1>6, <1>8, <3>3 DEF WorkerOK
    <3>5. WorkerOK(l, c)'
      BY <1>1, <3>4, WorkerKept
    <3>6. ASSUME NEW t \in Servers PROVE ChanOK(c[t], l, t)
      <4>1. CASE t = s
        BY <1>7, <4>1 DEF ChanOK
      <4>2. CASE t # s
        <5>1. ChanOK(c[t], k, t)
          BY <1>2, <1>4, <4>2
        <5>. QED  BY <1>6, <3>3, <5>1 DEF ChanOK
      <4>. QED  BY <4>1, <4>2
    <3>. QED  BY <3>5, <3>6
  <2>. QED  BY <2>1, <2>2
<1>11. \A r \in R : r \in resps /\ r.worker # w
  BY <1>3, <1>6, AnswersOf
<1>12. \A r, x \in R : r.worker = w /\ x.worker = w /\ r.keys = x.keys => r = x
  BY <1>11
<1>13. chan' = [chan EXCEPT ![w] = c] /\ c = [t \in Servers |-> c[t]]
  BY <1>2
<1>14. kv' = [kv EXCEPT ![w] = l] /\ resps' = R /\ WorkerOK(l, c)'
  BY <1>5, <1>10
<1>15. \A t \in Servers : ChanOK(c[t], l, t)
  BY <1>10
<1>16. \A r \in R : \/ r \in resps /\ r.worker # w
                    \/ IsAnswer(r) /\ r.worker = w /\ \E t \in Servers : AnswerOK(r, l, c[t], t)'
  BY <1>11
<1>. QED  BY <1>1, <1>12, <1>13, <1>14, <1>15, <1>16, WorkerStep

LEMMA MatchedFit ==
    ASSUME KVOK, NEW keys, IsKeys(keys), NEW sizes, Sized(keys, sizes), NEW s \in Servers, Part(keys, s) # << >>,
           NEW rs, Sized(Part(keys, s), rs), NEW new, new = MatchSizes(keys, sizes, Part(keys, s), rs)
    PROVE  Sized(keys, new)
<1>1. PICK p, a, b, m, n : p = Part(keys, s) /\ a = From(keys, s) /\ b = To(keys, s) /\ m = Len(p) /\ n = Len(keys)
  OBVIOUS
<1>2. /\ AreSizes(sizes, keys) /\ \A i \in 1 .. n : sizes[i] <= Entry(keys[i]).size
      /\ AreSizes(rs, p) /\ \A j \in 1 .. m : rs[j] <= Entry(p[j]).size
  BY <1>1 DEF Sized
<1>3. /\ AreSizes(new, keys) /\ \A j \in 1 .. m : new[a + j] = rs[j]
      /\ \A i \in 1 .. n : ServerOf(keys[i]) # s => new[i] = sizes[i]
  BY <1>1, <1>2, MatchedSizes
<1>4. /\ n \in Nat /\ a \in 0 .. n /\ b \in 0 .. n /\ a < b /\ m = b - a
      /\ \A i \in 1 .. n : ServerOf(keys[i]) = s <=> a < i /\ i <= b
      /\ \A j \in 1 .. m : p[j] = keys[a + j]
  <2>1. a < b /\ m = b - a /\ \A j \in 1 .. m : p[j] = keys[a + j]
    BY <1>1, PartIs
  <2>. QED  BY <1>1, <2>1, KeysDiffer, Positions
<1>5. ASSUME NEW i \in 1 .. n PROVE new[i] <= Entry(keys[i]).size
  <2>1. CASE ServerOf(keys[i]) = s
    <3>1. i - a \in 1 .. m /\ a + (i - a) = i
      BY <1>4, <2>1
    <3>2. PICK j \in 1 .. m : a + j = i
      BY <3>1
    <3>3. new[i] = rs[j] /\ p[j] = keys[i] /\ rs[j] <= Entry(p[j]).size
      BY <1>2, <1>3, <1>4, <3>2
    <3>. QED  BY <3>3
  <2>2. CASE ServerOf(keys[i]) # s
    BY <1>2, <1>3, <2>2
  <2>. QED  BY <2>1, <2>2
<1>. QED  BY <1>1, <1>3, <1>5 DEF Sized

LEMMA ResponsePulls == ASSUME KVOK, StoreInv, PullInv, NEW r \in resps, ProcessResponse(r) PROVE PullInv'
<1>1. (\A x : Entry(x)' = Entry(x)) /\ Growing
  BY StoresKept, GrowingSame DEF ProcessResponse, SameStore
<1>2. PICK w \in Workers : w = r.worker
  BY AnswersOf
<1>3. PICK k, c, R : k = kv[w] /\ c = chan[w] /\ R = resps \ {r}
  OBVIOUS
<1>4. PICK s \in Servers : AnswerOK(r, k, c[s], s)
  BY <1>2, <1>3, AnswersOf
<1>5. WorkerOK(k, c) /\ \A t \in Servers : ChanOK(c[t], k, t)
  BY <1>3, WorkerIs
<1>6. PICK p, rs : p = Part(k.keys, s) /\ rs = r.sizes
  OBVIOUS
<1>7. /\ k.pc = "pull" /\ p # << >> /\ r.keys = p /\ s \notin Got(k) /\ c[s] = << >> /\ Sized(p, rs) /\ r.vals = Values(p, rs)
  BY <1>4, <1>6 DEF AnswerOK
<1>8. /\ IsKeys(k.keys) /\ Sized(k.keys, k.sizes) /\ PullOK(k)
      /\ k = [pc |-> k.pc, keys |-> k.keys, sizes |-> k.sizes, matched |-> k.matched, recv |-> k.recv, vals |-> k.vals,
              acks |-> k.acks, round |-> k.round]
  BY <1>5, <1>7 DEF WorkerOK
<1>9. PICK new, n, recv : /\ new = MatchSizes(k.keys, k.sizes, p, rs) /\ n = k.matched + Len(p)
                          /\ recv = [f \in DOMAIN k.recv \cup {p[1]} |-> IF f = p[1] THEN Values(p, rs) ELSE k.recv[f]]
  OBVIOUS
<1>10. PICK m : m = [k EXCEPT !.sizes = new, !.matched = n, !.recv = recv]
  OBVIOUS
<1>11. PICK l : l = IF n # Len(k.keys) THEN m
                    ELSE [k EXCEPT !.sizes = new, !.matched = n, !.recv = << >>, !.pc = "pulled", !.vals = FlattenSeq(Parts(m))]
  OBVIOUS
<1>12. /\ m.keys = k.keys /\ m.sizes = new /\ m.matched = n /\ m.recv = recv /\ m.pc = "pull"
       /\ m = [pc |-> m.pc, keys |-> m.keys, sizes |-> m.sizes, matched |-> m.matched, recv |-> m.recv, vals |-> m.vals,
               acks |-> m.acks, round |-> m.round]
  BY <1>7, <1>8, <1>10
<1>13. kv' = [kv EXCEPT ![w] = l] /\ resps' = R /\ chan' = [chan EXCEPT ![w] = c]
  <2>1. resps' = R /\ chan' = [chan EXCEPT ![w] = c]
    BY <1>3 DEF ProcessResponse, PullInv
  <2>2. Parts(m) = [i \in DOMAIN k.keys |-> IF k.keys[i] \in DOMAIN recv THEN recv[k.keys[i]] ELSE << >>]
    BY <1>12 DEF Parts
  <2>3. kv' = [kv EXCEPT ![w] = l]
    <3>. DEFINE k0 == kv[r.worker]
                z0 == [i \in DOMAIN k0.keys |-> IF \E j \in DOMAIN r.keys : r.keys[j] = k0.keys[i]
                                               THEN r.sizes[CHOOSE j \in DOMAIN r.keys : r.keys[j] = k0.keys[i]]
                                               ELSE k0.sizes[i]]
                n0 == k0.matched + Len(r.keys)
                recv0 == [first \in DOMAIN k0.recv \cup {r.keys[1]} |-> IF first = r.keys[1] THEN r.vals ELSE k0.recv[first]]
                parts0 == [i \in DOMAIN k0.keys |-> IF k0.keys[i] \in DOMAIN recv0 THEN recv0[k0.keys[i]] ELSE << >>]
    <3>1. kv' = [kv EXCEPT ![r.worker] = IF n0 # Len(k0.keys) THEN [k0 EXCEPT !.sizes = z0, !.matched = n0, !.recv = recv0]
                                         ELSE [k0 EXCEPT !.sizes = z0, !.matched = n0, !.recv = << >>, !.pc = "pulled",
                                                         !.vals = FlattenSeq(parts0)]]
      BY DEF ProcessResponse
    <3>2. k0 = k
      BY <1>2, <1>3
    <3>3. z0 = new
      BY <1>6, <1>7, <1>9, <3>2 DEF MatchSizes
    <3>4. n0 = n /\ recv0 = recv
      BY <1>7, <1>9, <3>2
    <3>5. parts0 = Parts(m)
      BY <2>2, <3>2, <3>4
    <3>. HIDE DEF k0, z0, n0, recv0, parts0
    <3>. QED  BY <1>2, <1>10, <1>11, <3>1, <3>2, <3>3, <3>4, <3>5
  <2>. QED  BY <2>1, <2>3
<1>14. AreSizes(rs, p)
  BY <1>7 DEF Sized
<1>15. PullOK(m) /\ Got(m) = Got(k) \cup {s}
  <2>1. Part(k.keys, s) # << >> /\ s \notin Got(k) /\ AreSizes(rs, Part(k.keys, s)) /\ PullOK(k) /\ m.keys = k.keys
    BY <1>6, <1>7, <1>8, <1>12, <1>14
  <2>2. m.sizes = MatchSizes(k.keys, k.sizes, Part(k.keys, s), rs) /\ m.matched = k.matched + Len(Part(k.keys, s))
    BY <1>6, <1>9, <1>12
  <2>3. m.recv = [f \in DOMAIN k.recv \cup {Part(k.keys, s)[1]} |->
                    IF f = Part(k.keys, s)[1] THEN Values(Part(k.keys, s), rs) ELSE k.recv[f]]
    BY <1>6, <1>9, <1>12
  <2>. QED  BY <2>1, <2>2, <2>3, Merge
<1>16. Sized(k.keys, new)
  BY <1>6, <1>7, <1>8, <1>9, MatchedFit
<1>17. c = [t \in Servers |-> c[t]]
  BY <1>3 DEF PullInv
\* another response of the worker is of another server
<1>18. ASSUME NEW x \in R, x.worker = w PROVE IsAnswer(x) /\ \E t \in Servers : t # s /\ AnswerOK(x, k, c[t], t)
  <2>1. PICK t \in Servers : IsAnswer(x) /\ AnswerOK(x, k, c[t], t)
    BY <1>3, <1>18, AnswersOf
  <2>2. x.keys # r.keys
    BY <1>2, <1>3, <1>18 DEF PullInv
  <2>3. t # s
    BY <1>6, <1>7, <2>1, <2>2 DEF AnswerOK
  <2>. QED  BY <2>1, <2>3
<1>19. \A x, y \in R : x.worker = w /\ y.worker = w /\ x.keys = y.keys => x = y
  BY <1>3 DEF PullInv
<1>20. CASE n # Len(k.keys)
  <2>1. l = m
    BY <1>11, <1>20
  <2>2. WorkerOK(m, c)
    BY <1>8, <1>12, <1>15, <1>16 DEF WorkerOK
  <2>3. WorkerOK(l, c)'
    BY <1>1, <2>1, <2>2, WorkerKept
  <2>4. ASSUME NEW t \in Servers PROVE ChanOK(c[t], l, t)
    <3>1. CASE t = s
      BY <1>7, <3>1 DEF ChanOK
    <3>2. CASE t # s
      <4>1. ChanOK(c[t], k, t)
        BY <1>5
      <4>. QED  BY <1>7, <1>12, <1>15, <2>1, <3>2, <4>1 DEF ChanOK
    <3>. QED  BY <3>1, <3>2
  <2>5. ASSUME NEW x \in R
        PROVE  \/ x \in resps /\ x.worker # w
               \/ IsAnswer(x) /\ x.worker = w /\ \E t \in Servers : AnswerOK(x, l, c[t], t)'
    <3>1. CASE x.worker = w
      <4>1. PICK t \in Servers : IsAnswer(x) /\ t # s /\ AnswerOK(x, k, c[t], t)
        BY <1>18, <3>1
      <4>2. AnswerOK(x, l, c[t], t)
        BY <1>12, <1>15, <2>1, <4>1 DEF AnswerOK
      <4>3. IsKeys(l.keys)
        BY <1>8, <1>12, <2>1
      <4>4. AnswerOK(x, l, c[t], t)'
        BY <1>1, <4>2, <4>3, AnswerKept
      <4>. QED  BY <3>1, <4>1, <4>4
    <3>. QED  BY <1>3, <3>1
  <2>. QED  BY <1>1, <1>13, <1>17, <1>19, <2>3, <2>4, <2>5, WorkerStep
<1>21. CASE n = Len(k.keys)
  <2>1. l = [k EXCEPT !.sizes = new, !.matched = n, !.recv = << >>, !.pc = "pulled", !.vals = FlattenSeq(Parts(m))]
    BY <1>11, <1>21
  <2>2. /\ l = [pc |-> l.pc, keys |-> l.keys, sizes |-> l.sizes, matched |-> l.matched, recv |-> l.recv, vals |-> l.vals,
                acks |-> l.acks, round |-> l.round]
        /\ l.pc = "pulled" /\ l.keys = k.keys /\ l.sizes = new /\ l.vals = FlattenSeq(Parts(m))
    BY <1>8, <2>1
  <2>3. Len(k.keys) # 0 /\ k.keys # << >>
    <3>1. From(k.keys, s) + 1 \in 1 .. Len(k.keys) /\ Len(k.keys) \in Nat
      BY <1>6, <1>7, <1>8, FirstKey, KeysDiffer
    <3>. QED  BY <3>1
  <2>4. (\A t \in Servers : Part(k.keys, t) # << >> => t \in Got(m)) /\ FlattenSeq(Parts(m)) = Values(k.keys, new)
    <3>1. m.matched = Len(m.keys) /\ Len(m.keys) # 0
      BY <1>12, <1>21, <2>3
    <3>. QED  BY <1>12, <1>15, <3>1, Assemble
  <2>5. WorkerOK(l, c)
    BY <1>8, <1>16, <2>2, <2>3, <2>4 DEF WorkerOK
  <2>6. WorkerOK(l, c)'
    BY <1>1, <2>5, WorkerKept
  <2>7. ASSUME NEW t \in Servers PROVE ChanOK(c[t], l, t)
    <3>1. c[t] = << >>
      BY <1>5, <1>7, <1>15, <2>4 DEF ChanOK
    <3>. QED  BY <3>1 DEF ChanOK
  <2>8. ASSUME NEW x \in R PROVE x \in resps /\ x.worker # w
    <3>1. CASE x.worker = w
      <4>1. PICK t \in Servers : t # s /\ Part(k.keys, t) # << >> /\ t \notin Got(k)
        BY <1>18, <3>1 DEF AnswerOK
      <4>. QED  BY <1>15, <2>4, <4>1
    <3>. QED  BY <1>3, <3>1
  <2>9. \A x \in R : \/ x \in resps /\ x.worker # w
                     \/ IsAnswer(x) /\ x.worker = w /\ \E t \in Servers : AnswerOK(x, l, c[t], t)'
    BY <2>8
  <2>. QED  BY <1>1, <1>13, <1>17, <1>19, <2>6, <2>7, <2>9, WorkerStep
<1>. QED  BY <1>20, <1>21

\* Without minibatches there is nothing to be right.
NoMinibatches ==
    /\ \E r : kv = [w \in Workers |-> Idle(r)]
    /\ chan = [w \in Workers |-> [s \in Servers |-> << >>]] /\ resps = {}

LEMMA NoPulls == NoMinibatches => PullInv
<1>0. SUFFICES ASSUME NoMinibatches PROVE PullInv
  OBVIOUS
<1>1. PICK r, k : kv = [w \in Workers |-> Idle(r)] /\ k = Idle(r)
  BY <1>0 DEF NoMinibatches
<1>2. /\ k = [pc |-> k.pc, keys |-> k.keys, sizes |-> k.sizes, matched |-> k.matched, recv |-> k.recv, vals |-> k.vals,
              acks |-> k.acks, round |-> k.round]
      /\ k.pc = "idle"
  BY <1>1 DEF Idle
<1>3. \A c : WorkerOK(k, c)
  BY <1>2 DEF WorkerOK
<1>4. \A s : ChanOK(<< >>, k, s)
  BY DEF ChanOK
<1>5. resps = {} /\ \A w \in Workers : kv[w] = k /\ \A s \in Servers : chan[w][s] = << >>
  BY <1>0, <1>1 DEF NoMinibatches
<1>6. kv = [w \in Workers |-> kv[w]] /\ chan = [w \in Workers |-> [s \in Servers |-> chan[w][s]]]
  BY <1>0, <1>1 DEF NoMinibatches
<1>. QED  BY <1>3, <1>4, <1>5, <1>6 DEF PullInv

LEMMA PullsKept ==
    ASSUME KVOK, PullInv, Growing, kv' = kv, chan' = chan, resps' = resps
    PROVE  PullInv'
<1>1. ASSUME NEW w \in Workers PROVE WorkerOK(kv[w], chan[w])' /\ (\A s \in Servers : ChanOK(chan[w][s], kv[w], s))'
  <2>1. PICK k, c : k = kv[w] /\ c = chan[w]
    OBVIOUS
  <2>2. WorkerOK(k, c) /\ \A s \in Servers : ChanOK(c[s], k, s)
    BY <2>1, WorkerIs
  <2>3. WorkerOK(k, c)'
    BY <2>2, WorkerKept
  <2>. QED  BY <2>1, <2>2, <2>3
<1>2. ASSUME NEW r \in resps
      PROVE  IsAnswer(r) /\ r.worker \in Workers /\ (\E s \in Servers : AnswerOK(r, kv[r.worker], chan[r.worker][s], s))'
  <2>1. IsAnswer(r) /\ r.worker \in Workers
    BY AnswersOf
  <2>2. PICK k, c : k = kv[r.worker] /\ c = chan[r.worker]
    OBVIOUS
  <2>3. PICK s \in Servers : AnswerOK(r, k, c[s], s)
    BY <2>2, AnswersOf
  <2>4. WorkerOK(k, c) /\ k.pc = "pull"
    BY <2>1, <2>2, <2>3, WorkerIs DEF AnswerOK
  <2>5. IsKeys(k.keys)
    BY <2>4 DEF WorkerOK
  <2>6. AnswerOK(r, k, c[s], s)'
    BY <2>3, <2>5, AnswerKept
  <2>. QED  BY <2>1, <2>2, <2>6
<1>3. kv = [w \in Workers |-> kv[w]] /\ chan = [w \in Workers |-> [s \in Servers |-> chan[w][s]]]
  BY DEF PullInv
<1>4. \A r, q \in resps : r.worker = q.worker /\ r.keys = q.keys => r = q
  BY DEF PullInv
<1>. QED  BY <1>1, <1>2, <1>3, <1>4 DEF PullInv

LEMMA PullStep == ASSUME KVOK, StoreInv, PullInv, [KVNext]_kvVars PROVE PullInv'
<1>1. ASSUME NEW w \in Workers, NEW ks \in Batches, StartMinibatch(w, ks) PROVE PullInv'
  BY <1>1, StartPulls
<1>2. ASSUME NEW w \in Workers, PushGradients(w) PROVE PullInv'
  BY <1>2, PushPulls
<1>3. ASSUME NEW w \in Workers, NEW s \in Servers, HandleCount(w, s) \/ HandlePush(w, s) \/ HandlePull(w, s) PROVE PullInv'
  BY <1>3, CountPulls, GradPulls, PullPulls
<1>4. ASSUME NEW r \in resps, ProcessResponse(r) PROVE PullInv'
  BY <1>4, ResponsePulls
<1>5. CASE Save
  <2>1. SameStore /\ data' = data /\ kv' = kv /\ chan' = chan /\ resps' = resps
    BY <1>5 DEF Save, SameStore
  <2>2. \A x : Entry(x)' = Entry(x)
    BY <2>1, BucketsSame DEF Entry
  <2>. QED  BY <2>1, <2>2, GrowingSame, PullsKept
<1>6. CASE Restart
  <2>1. NoMinibatches'
    BY <1>6 DEF Restart, NoMinibatches
  <2>. QED  BY <2>1, NoPulls, PTL
<1>7. CASE UNCHANGED kvVars
  <2>1. SameStore /\ data' = data /\ kv' = kv /\ chan' = chan /\ resps' = resps
    BY <1>7 DEF kvVars, SameStore
  <2>2. \A x : Entry(x)' = Entry(x)
    BY <2>1, BucketsSame DEF Entry
  <2>. QED  BY <2>1, <2>2, GrowingSame, PullsKept
<1>. QED  BY <1>1, <1>2, <1>3, <1>4, <1>5, <1>6, <1>7 DEF KVNext

\* The gradients of a worker that pushes fit the entries of the server.
LEMMA GradientsFit ==
    ASSUME KVOK, PullInv, NEW w \in Workers, NEW s \in Servers, chan[w][s] # << >>, Head(chan[w][s]).kind = "push"
    PROVE  Fits(Head(chan[w][s]))
<1>1. PICK k, q, p, z : k = kv[w] /\ q = chan[w][s] /\ p = Part(k.keys, s) /\ z = PartSizes(k.keys, k.sizes, s)
  OBVIOUS
<1>2. WorkerOK(k, chan[w]) /\ ChanOK(q, k, s)
  BY <1>1, WorkerIs
<1>3. p # << >> /\ k.pc = "push" /\ q = <<Asks("push", k.keys, k.sizes, s)>>
  BY <1>1, <1>2, FirstRequest
<1>4. IsKeys(k.keys) /\ Sized(k.keys, k.sizes) /\ k.keys # << >>
  BY <1>2, <1>3 DEF WorkerOK
<1>5. PICK n, a, m : n = Len(k.keys) /\ a = From(k.keys, s) /\ m = Len(p)
  OBVIOUS
<1>6. AreSizes(k.sizes, k.keys) /\ \A i \in 1 .. n : k.sizes[i] <= Entry(k.keys[i]).size
  BY <1>4, <1>5 DEF Sized
<1>7. k.sizes # << >>
  <2>1. k.keys \in Seq(Keys) /\ k.sizes \in Seq(Nat) /\ Len(k.sizes) = Len(k.keys)
    BY <1>4, <1>6 DEF IsKeys, AreSizes
  <2>. QED  BY <1>4, <2>1
<1>8. Head(q).keys = p /\ Head(q).sizes = z
  <2>1. PICK sl : sl = Slice(k.keys, k.sizes, s)
    OBVIOUS
  <2>2. sl.keys = p
    BY <1>1, <1>4, <2>1, PartIs
  <2>3. sl.sizes = z
    BY <1>1, <1>7, <2>1 DEF Slice, PartSizes, From, To
  <2>4. Head(q).keys = sl.keys /\ Head(q).sizes = sl.sizes
    BY <1>3, <2>1, Kinds
  <2>. QED  BY <2>2, <2>3, <2>4
<1>9. /\ m \in Nat /\ m # 0 /\ DOMAIN p = 1 .. m
      /\ \A j \in 1 .. m : a + j \in 1 .. n /\ p[j] = k.keys[a + j]
  <2>1. m \in Nat /\ m # 0
    BY <1>1, <1>3, <1>4, <1>5, FirstKey
  <2>. QED  BY <1>1, <1>4, <1>5, <2>1, PartIs
<1>10. \A j \in 1 .. m : z[j] = k.sizes[a + j]
  BY <1>1, <1>4, <1>5, <1>6, <1>9, PartLists
<1>11. \A j \in DOMAIN p : z[j] <= Entry(p[j]).size
  BY <1>6, <1>9, <1>10
<1>. QED  BY <1>1, <1>8, <1>11 DEF Fits

-----------------------------------------------------------------------------
\* A worker has pulled the numbers of each of its keys, where the sizes say, in whatever order the
\* responses of the servers came and whoever changed the entries in between; and the gradients
\* that it pushes fit the entries they meet, since the entries of a job never get shorter: for any
\* number of workers and servers, any ranges of keys and any minibatches.
THEOREM WorkersPull == ASSUME KVOK PROVE Spec => []PullsRight
<1>1. KVInit => StoreInv /\ PullInv
  <2>1. KVInit => NoMinibatches
    BY DEF KVInit, NoMinibatches
  <2>. QED  BY <2>1, StoreInit, NoPulls
<1>2. StoreInv /\ PullInv /\ [KVNext]_kvVars => (StoreInv /\ PullInv)'
  BY StoreStep, PullStep
<1>3. PullInv => PullsRight
  <2>1. SUFFICES ASSUME PullInv PROVE PullsRight
    OBVIOUS
  <2>2. \A w \in Workers : kv[w].pc = "pulled" => kv[w].vals = Values(kv[w].keys, kv[w].sizes)
    BY <2>1, WorkerIs DEF WorkerOK
  <2>3. \A w \in Workers, s \in Servers :
          chan[w][s] # << >> /\ Head(chan[w][s]).kind = "push" => Fits(Head(chan[w][s]))
    BY <2>1, GradientsFit
  <2>. QED  BY <2>2, <2>3 DEF PullsRight
<1>. QED  BY <1>1, <1>2, <1>3, PTL DEF Spec
=============================================================================
