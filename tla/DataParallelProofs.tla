------------------------- MODULE DataParallelProofs -------------------------
(***************************************************************************)
(* The workload pool keeps its bookkeeping consistent; what                *)
(* DataParScheduler assigns is under way, and the pool is called the way   *)
(* it needs it: for every set of files and workers, every number of parts, *)
(* every straggler threshold and every job.                                *)
(***************************************************************************)
EXTENDS DataParallel, FiniteSetTheorems, SequenceTheorems, TLAPS

-----------------------------------------------------------------------------
(***************************************************************************)
(* The pool by itself.                                                     *)
(***************************************************************************)

(* The parts of a file are a finite set of NumParts elements.              *)
LEMMA PartsFinite ==
    /\ IsFiniteSet(Part)
    /\ Cardinality(Part) = NumParts
  <1>1. 0 \in Int /\ NumParts - 1 \in Int /\ ~(0 > NumParts - 1)
    BY NumPartsAssumption
  <1> QED
    BY <1>1, FS_Interval, NumPartsAssumption DEF Part

(* The number of done parts of a file after it was marked is what done     *)
(* says: a set of assigned parts has no part that was done before.         *)
LEMMA MarkTaskDone ==
    ASSUME NEW f \in DOMAIN task, PoolTypeOK, DoneCounts,
           NEW ps \in SUBSET Part, NEW mark \in {Available, Done},
           \A k \in ps : task[f].track[k] # Done
    PROVE  LET t == MarkTask(f, ps, mark)
               D == {k \in Part : t.track[k] = Done}
           IN  /\ t \in Task
               /\ t.done = Cardinality(D)
               /\ t.done = NumParts <=> D = Part
  <1> DEFINE t == MarkTask(f, ps, mark)
             D == {k \in Part : t.track[k] = Done}
             N == NewlyDone(f, ps, mark)
             O == DoneParts(f)
  <1>1. task[f] \in Task
    BY DEF PoolTypeOK
  <1>2. /\ t = [node |-> t.node, track |-> t.track, done |-> t.done]
        /\ t.node = task[f].node
        /\ t.track = [k \in Part |-> IF k \in ps THEN mark ELSE task[f].track[k]]
        /\ t.done = task[f].done + Cardinality(N)
    BY DEF MarkTask
  <1>3. N \in SUBSET Part /\ O \in SUBSET Part /\ D \in SUBSET Part
    BY DEF NewlyDone, DoneParts
  <1>4. /\ IsFiniteSet(N) /\ IsFiniteSet(O) /\ IsFiniteSet(D)
        /\ Cardinality(D) <= NumParts
        /\ Cardinality(D) = NumParts => D = Part
    BY <1>3, PartsFinite, FS_Subset
  <1>5. D = O \cup N /\ O \cap N = {}
    BY <1>1, <1>2 DEF NewlyDone, DoneParts, Task, Available, Done
  <1>6. Cardinality(D) = Cardinality(O) + Cardinality(N)
    <2>1. Cardinality(D) = Cardinality(O) + Cardinality(N) - Cardinality({})
      BY <1>4, <1>5, FS_Union
    <2>2. Cardinality(O) \in Nat /\ Cardinality(N) \in Nat
      BY <1>4, FS_CardinalityType
    <2> QED
      BY <2>1, <2>2, FS_EmptySet
  <1>7. t.done = Cardinality(D)
    BY <1>2, <1>6 DEF DoneCounts
  <1>8. t.done = NumParts <=> D = Part
    BY <1>4, <1>7, PartsFinite
  <1>9. t \in Task
    <2>1. t.done \in 0 .. NumParts
      BY <1>4, <1>7, FS_CardinalityType, NumPartsAssumption
    <2>2. t.track \in [Part -> {Available, Assigned, Done}]
      BY <1>1, <1>2 DEF Task
    <2>3. t.node \in SUBSET Node
      BY <1>1, <1>2 DEF Task
    <2> QED
      BY <1>2, <2>1, <2>2, <2>3 DEF Task
  <1> QED
    BY <1>7, <1>8, <1>9

(* What Mark makes of task_ when it is applied to elements of assigned_.   *)
LEMMA MarkEffect ==
    ASSUME PoolInv, NEW S \in SUBSET assigned, NEW mark \in {Available, Done}, Mark(S, mark)
    PROVE  /\ DOMAIN task' \subseteq DOMAIN task
           /\ task' \in [DOMAIN task' -> Task]
           /\ DoneCounts'
           /\ \A f \in DOMAIN task', k \in Part :
                  task'[f].track[k] = IF k \in PartsOf(S, f) THEN mark ELSE task[f].track[k]
           /\ \A f \in (DOMAIN task) \ (DOMAIN task'), k \in Part :
                  \/ task[f].track[k] = Done
                  \/ mark = Done /\ k \in PartsOf(S, f)
  <1> DEFINE ps(f) == PartsOf(S, f)
             marked == [f \in DOMAIN task |-> MarkTask(f, ps(f), mark)]
             left == {g \in DOMAIN task : marked[g].done # NumParts}
  <1>1. task' = [f \in left |-> marked[f]]
    BY DEF Mark
  <1>2. \A f \in DOMAIN task : ps(f) \in SUBSET Part /\ \A k \in ps(f) : task[f].track[k] # Done
    BY DEF PoolInv, PoolTypeOK, TrackMatchesAssigned, PartsOf, Assignment, Assigned, Done
  <1>3. \A f \in DOMAIN task :
            LET D == {k \in Part : MarkTask(f, ps(f), mark).track[k] = Done}
            IN  /\ MarkTask(f, ps(f), mark) \in Task
                /\ MarkTask(f, ps(f), mark).done = Cardinality(D)
                /\ MarkTask(f, ps(f), mark).done = NumParts <=> D = Part
    BY <1>2, MarkTaskDone DEF PoolInv
  <1>4. \A f \in DOMAIN task, k \in Part :
            MarkTask(f, ps(f), mark).track[k] = IF k \in ps(f) THEN mark ELSE task[f].track[k]
    BY DEF MarkTask
  <1>5. DOMAIN task' = left /\ left \subseteq DOMAIN task
    BY <1>1
  <1>6. \A f \in left : task'[f] = MarkTask(f, ps(f), mark)
    BY <1>1
  <1>7. task' \in [DOMAIN task' -> Task]
    BY <1>1, <1>3, <1>5
  <1>8. DoneCounts'
    <2> SUFFICES ASSUME NEW f \in left
                 PROVE  /\ task'[f].done = Cardinality(DoneParts(f)')
                        /\ task'[f].done # NumParts
      BY <1>5 DEF DoneCounts
    <2>1. DoneParts(f)' = {k \in Part : MarkTask(f, ps(f), mark).track[k] = Done}
      BY <1>6 DEF DoneParts, Part
    <2> QED
      BY <1>3, <1>5, <1>6, <2>1
  <1>9. ASSUME NEW f \in (DOMAIN task) \ left, NEW k \in Part
        PROVE  \/ task[f].track[k] = Done
               \/ mark = Done /\ k \in ps(f)
    BY <1>3, <1>4, <1>9
  <1> QED
    BY <1>4, <1>5, <1>6, <1>7, <1>8, <1>9

(* Marking elements of assigned_ and erasing them keeps the pool           *)
(* consistent: what Finish, Reset and RemoveStraggler have in common.      *)
LEMMA MarkAndErase ==
    ASSUME PoolInv, NEW S \in SUBSET assigned, NEW mark \in {Available, Done}, Mark(S, mark),
           assigned' = assigned \ S,
           UNCHANGED <<mayAdd, added>>,
           finished' = IF mark = Done THEN finished \cup {<<e.filename, e.k>> : e \in S}
                                      ELSE finished
    PROVE  /\ DOMAIN task' \subseteq File
           /\ task' \in [DOMAIN task' -> Task]
           /\ finished' \subseteq File \X Part
           /\ assigned' \subseteq Assignment
           /\ IsFiniteSet(assigned)'
           /\ TrackMatchesAssigned'
           /\ AssignedOnce'
           /\ DoneCounts'
           /\ AddIsSafe'
           /\ WantedOrFinished'
           /\ DoneWasFinished'
  <1>1. /\ DOMAIN task' \subseteq DOMAIN task
        /\ task' \in [DOMAIN task' -> Task]
        /\ DoneCounts'
        /\ \A f \in DOMAIN task', k \in Part :
               task'[f].track[k] = IF k \in PartsOf(S, f) THEN mark ELSE task[f].track[k]
        /\ \A f \in (DOMAIN task) \ (DOMAIN task'), k \in Part :
               \/ task[f].track[k] = Done
               \/ mark = Done /\ k \in PartsOf(S, f)
    BY MarkEffect
  <1>2. /\ assigned \subseteq Assignment
        /\ finished \subseteq File \X Part
        /\ DOMAIN task \subseteq File
    BY DEF PoolInv, PoolTypeOK
  <1>3. \A f, k : k \in PartsOf(S, f) <=> \E e \in S : e.filename = f /\ e.k = k
    BY DEF PartsOf
  <1>4. \A e \in assigned : e.filename \in File /\ e.k \in Part
    BY <1>2 DEF Assignment
  <1>5. IsFiniteSet(assigned)'
    <2>1. assigned \ S \in SUBSET assigned
      OBVIOUS
    <2> QED
      BY <2>1, FS_Subset DEF PoolInv
  <1>6. TrackMatchesAssigned'
    <2> SUFFICES ASSUME NEW f \in DOMAIN task', NEW k \in Part
                 PROVE  task'[f].track[k] = Assigned
                            <=> \E e \in assigned \ S : e.filename = f /\ e.k = k
      BY DEF TrackMatchesAssigned, Part
    <2>1. f \in DOMAIN task
      BY <1>1
    <2>2. task[f].track[k] = Assigned <=> \E e \in assigned : e.filename = f /\ e.k = k
      BY <2>1 DEF PoolInv, TrackMatchesAssigned
    <2>3. \A d, e \in assigned : d.filename = e.filename /\ d.k = e.k => d = e
      BY DEF PoolInv, AssignedOnce
    <2>4. CASE k \in PartsOf(S, f)
      <3>1. task'[f].track[k] # Assigned
        BY <1>1, <2>4 DEF Available, Assigned, Done
      <3>2. PICK d \in S : d.filename = f /\ d.k = k
        BY <1>3, <2>4
      <3> QED
        BY <2>3, <3>1, <3>2
    <2>5. CASE k \notin PartsOf(S, f)
      <3>1. task'[f].track[k] = task[f].track[k]
        BY <1>1, <2>5
      <3> QED
        BY <1>3, <2>2, <2>5, <3>1
    <2> QED
      BY <2>4, <2>5
  <1>7. AssignedOnce'
    BY DEF PoolInv, AssignedOnce
  <1>8. AddIsSafe'
    <2> SUFFICES ASSUME mayAdd # {}, NEW e \in assigned \ S, e.filename \notin DOMAIN task'
                 PROVE  FALSE
      BY DEF AddIsSafe
    <2>1. e.filename \in DOMAIN task /\ e.k \in Part
      BY <1>4 DEF PoolInv, AddIsSafe
    <2>2. task[e.filename].track[e.k] = Assigned
      BY <2>1 DEF PoolInv, TrackMatchesAssigned
    <2>3. e.k \in PartsOf(S, e.filename)
      BY <1>1, <2>1, <2>2 DEF Assigned, Done
    <2> QED
      BY <1>3, <2>3 DEF PoolInv, AssignedOnce
  <1>9. WantedOrFinished'
    <2> SUFFICES ASSUME NEW f \in added, f \notin DOMAIN task', NEW k \in Part
                 PROVE  <<f, k>> \in finished'
      BY DEF WantedOrFinished, Part
    <2>1. finished \subseteq finished'
      OBVIOUS
    <2>2. CASE f \notin DOMAIN task
      BY <2>1, <2>2 DEF PoolInv, WantedOrFinished
    <2>3. CASE f \in DOMAIN task
      <3>1. CASE task[f].track[k] = Done
        BY <2>1, <2>3, <3>1 DEF PoolInv, DoneWasFinished
      <3>2. CASE mark = Done /\ k \in PartsOf(S, f)
        BY <1>3, <3>2
      <3> QED
        BY <1>1, <2>3, <3>1, <3>2
    <2> QED
      BY <2>2, <2>3
  <1>10. DoneWasFinished'
    <2> SUFFICES ASSUME NEW f \in DOMAIN task', NEW k \in Part, task'[f].track[k] = Done
                 PROVE  <<f, k>> \in finished'
      BY DEF DoneWasFinished, Part
    <2>1. CASE k \in PartsOf(S, f)
      BY <1>1, <1>3, <2>1 DEF Available, Done
    <2>2. CASE k \notin PartsOf(S, f)
      BY <1>1, <2>2 DEF PoolInv, DoneWasFinished
    <2> QED
      BY <2>1, <2>2
  <1>11. finished' \subseteq File \X Part
    BY <1>2, <1>4
  <1> QED
    BY <1>1, <1>2, <1>5, <1>6, <1>7, <1>8, <1>9, <1>10, <1>11

(* Nothing is in the pool at first.                                        *)
LEMMA PoolInitInv == PoolInit => PoolInv
  <1> SUFFICES ASSUME PoolInit PROVE PoolInv
    OBVIOUS
  <1> USE DEF PoolInit, EmptyTask
  <1>1. PoolTypeOK
    <2>1. task \in [DOMAIN task -> Task] /\ DOMAIN task \subseteq File
      OBVIOUS
    <2>2. timeCount \in 0 .. StragglerMin /\ numFinished \in Nat
      BY StragglerMinAssumption
    <2>3. inited \in BOOLEAN
      OBVIOUS
    <2>4. /\ assigned \subseteq Assignment
          /\ mayAdd \subseteq Node \cup {AnyNode}
          /\ added \subseteq File
          /\ finished \subseteq File \X Part
      OBVIOUS
    <2> QED
      BY <2>1, <2>2, <2>3, <2>4 DEF PoolTypeOK
  <1>2. IsFiniteSet(assigned)
    BY FS_EmptySet
  <1> QED
    BY <1>1, <1>2 DEF PoolInv, TrackMatchesAssigned, AssignedOnce, DoneCounts, AddIsSafe,
                      WantedOrFinished, DoneWasFinished

(* Add keeps the pool consistent: a new file has no part done and, by      *)
(* AddIsSafe, none assigned.                                               *)
LEMMA AddInv ==
    ASSUME PoolInv, NEW files \in SUBSET File, NEW id \in Node \cup {AnyNode}, Add(files, id)
    PROVE  PoolInv'
  <1> DEFINE old(f) == IF f \in DOMAIN task THEN task[f] ELSE NewTask
             new(f) == IF f \in files /\ id # AnyNode
                       THEN [old(f) EXCEPT !.node = @ \cup {id}]
                       ELSE old(f)
  <1>1. task' = [f \in (DOMAIN task) \cup files |-> new(f)]
    BY DEF Add, AddFiles
  <1>2. DOMAIN task' = (DOMAIN task) \cup files
    BY <1>1
  <1>3. NewTask \in Task /\ \A k \in Part : NewTask.track[k] = Available
    BY NumPartsAssumption DEF NewTask, Task
  <1>4. \A f \in DOMAIN task' : old(f) \in Task
    BY <1>2, <1>3 DEF PoolInv, PoolTypeOK
  <1>5. ASSUME NEW f \in DOMAIN task'
        PROVE  /\ task'[f] \in Task
               /\ task'[f].track = old(f).track
               /\ task'[f].done = old(f).done
    <2>1. task'[f] = new(f) /\ old(f) \in Task
      BY <1>1, <1>2, <1>4
    <2> HIDE DEF old
    <2>2. CASE f \in files /\ id # AnyNode
      <3>1. id \in Node
        BY <2>2
      <3> QED
        BY <2>1, <2>2, <3>1 DEF Task
    <2>3. CASE ~(f \in files /\ id # AnyNode)
      BY <2>1, <2>3
    <2> QED
      BY <2>2, <2>3
  <1>6. \A f \in DOMAIN task, k \in Part : task'[f].track[k] = task[f].track[k]
    BY <1>2, <1>5
  <1>7. \A f \in (DOMAIN task') \ (DOMAIN task), k \in Part : task'[f].track[k] = Available
    BY <1>3, <1>5
  <1>8. PoolTypeOK'
    <2>1. task' \in [DOMAIN task' -> Task]
      BY <1>1, <1>2, <1>5
    <2> QED
      BY <1>2, <2>1 DEF PoolInv, PoolTypeOK, Add, AddFiles
  <1>9. IsFiniteSet(assigned)' /\ AssignedOnce'
    BY DEF PoolInv, AssignedOnce, Add, AddFiles
  <1>10. \A e \in assigned : e.filename \in DOMAIN task
    BY DEF PoolInv, AddIsSafe, Add, AddFiles
  <1>11. AddIsSafe'
    BY <1>2, <1>10 DEF AddIsSafe, Add, AddFiles
  <1>12. TrackMatchesAssigned'
    <2> SUFFICES ASSUME NEW f \in DOMAIN task', NEW k \in Part
                 PROVE  task'[f].track[k] = Assigned
                            <=> \E e \in assigned : e.filename = f /\ e.k = k
      BY DEF TrackMatchesAssigned, Part, Add, AddFiles
    <2>1. CASE f \in DOMAIN task
      BY <1>6, <2>1 DEF PoolInv, TrackMatchesAssigned
    <2>2. CASE f \notin DOMAIN task
      BY <1>7, <1>10, <2>2 DEF Available, Assigned
    <2> QED
      BY <2>1, <2>2
  <1>13. DoneWasFinished'
    <2> SUFFICES ASSUME NEW f \in DOMAIN task', NEW k \in Part, task'[f].track[k] = Done
                 PROVE  <<f, k>> \in finished
      BY DEF DoneWasFinished, Part, Add, AddFiles
    <2> QED
      BY <1>6, <1>7 DEF PoolInv, DoneWasFinished, Available, Done
  <1>14. WantedOrFinished'
    BY <1>2 DEF PoolInv, WantedOrFinished, Add, AddFiles, Part
  <1>15. DoneCounts'
    <2> SUFFICES ASSUME NEW f \in DOMAIN task'
                 PROVE  /\ task'[f].done = Cardinality(DoneParts(f)')
                        /\ task'[f].done # NumParts
      BY DEF DoneCounts
    <2>1. DoneParts(f)' = {k \in Part : task'[f].track[k] = Done}
      BY DEF DoneParts, Part
    <2>2. CASE f \in DOMAIN task
      <3>1. DoneParts(f)' = DoneParts(f)
        BY <1>6, <2>1, <2>2 DEF DoneParts
      <3> QED
        BY <1>5, <2>2, <3>1 DEF PoolInv, DoneCounts
    <2>3. CASE f \notin DOMAIN task
      <3>1. DoneParts(f)' = {}
        BY <1>7, <2>1, <2>3 DEF Available, Done
      <3>2. task'[f].done = 0
        BY <1>5, <2>3 DEF NewTask
      <3> QED
        BY <3>1, <3>2, FS_EmptySet, NumPartsAssumption
    <2> QED
      BY <2>2, <2>3
  <1> QED
    BY <1>8, <1>9, <1>11, <1>12, <1>13, <1>14, <1>15 DEF PoolInv

(* Clear and ClearRemain leave nothing that could be inconsistent.         *)
LEMMA ClearInv ==
    ASSUME PoolInv, Clear \/ ClearRemain
    PROVE  PoolInv'
  <1>1. DOMAIN task' = {} /\ task' \in [{} -> Task]
    BY DEF Clear, ClearRemain, EmptyTask
  <1>2. assigned' \in SUBSET assigned
    BY DEF Clear, ClearRemain
  <1>3. IsFiniteSet(assigned)'
    BY <1>2, FS_Subset DEF PoolInv
  <1>4. PoolTypeOK'
    <2>1. PoolTypeOK
      BY DEF PoolInv
    <2>2. timeCount' \in 0 .. StragglerMin /\ numFinished' \in Nat
      BY <2>1, StragglerMinAssumption DEF PoolTypeOK, Clear, ClearRemain
    <2>3. inited' \in BOOLEAN
      BY <2>1 DEF PoolTypeOK, Clear, ClearRemain
    <2>4. assigned' \subseteq Assignment /\ finished' \subseteq File \X Part
      BY <2>1 DEF PoolTypeOK, Clear, ClearRemain
    <2>5. mayAdd' \subseteq Node \cup {AnyNode} /\ added' \subseteq File
      BY DEF Clear, ClearRemain
    <2> QED
      BY <1>1, <2>2, <2>3, <2>4, <2>5 DEF PoolTypeOK, Part, Task, Assignment
  <1>5. AddIsSafe'
    BY DEF AddIsSafe, Clear, ClearRemain
  <1>6. AssignedOnce'
    BY <1>2 DEF PoolInv, AssignedOnce
  <1>7. WantedOrFinished'
    BY DEF WantedOrFinished, Clear, ClearRemain
  <1> QED
    BY <1>1, <1>3, <1>4, <1>5, <1>6, <1>7
       DEF PoolInv, TrackMatchesAssigned, DoneCounts, DoneWasFinished

(* Get hands out an available part, which has no element in assigned_.     *)
LEMMA GetInv ==
    ASSUME PoolInv, NEW id \in Node, NEW f \in File, NEW k \in Part, Get(id, f, k)
    PROVE  PoolInv'
  <1> DEFINE a == [filename |-> f, k |-> k, node |-> id]
  <1>1. f \in DOMAIN task /\ task[f].track[k] = Available
    BY DEF Get, Candidate
  <1>2. task \in [DOMAIN task -> Task] /\ task[f] \in Task
    BY <1>1 DEF PoolInv, PoolTypeOK
  <1>3. task' = [task EXCEPT ![f].track[k] = Assigned]
    BY DEF Get
  <1>4. DOMAIN task' = DOMAIN task /\ task' \in [DOMAIN task -> Task]
    BY <1>1, <1>2, <1>3 DEF Task
  <1>5. \A g \in DOMAIN task, j \in Part :
            /\ task'[g].track[j] = IF g = f /\ j = k THEN Assigned ELSE task[g].track[j]
            /\ task'[g].done = task[g].done
    BY <1>1, <1>2, <1>3 DEF Task
  <1>6. assigned' = assigned \cup {a} /\ a \in Assignment
    BY DEF Get, Assignment
  <1>7. \A e \in assigned : ~(e.filename = f /\ e.k = k)
    BY <1>1 DEF PoolInv, TrackMatchesAssigned, Available, Assigned
  <1>8. PoolTypeOK'
    <2>1. PoolTypeOK
      BY DEF PoolInv
    <2>2. /\ UNCHANGED <<inited, numFinished, timeCount, mayAdd, added, finished>>
      BY DEF Get, historyVars
    <2> QED
      BY <1>4, <1>6, <2>1, <2>2 DEF PoolTypeOK
  <1>9. IsFiniteSet(assigned)'
    BY <1>6, FS_AddElement DEF PoolInv
  <1>10. TrackMatchesAssigned'
    <2> SUFFICES ASSUME NEW g \in DOMAIN task, NEW j \in Part
                 PROVE  task'[g].track[j] = Assigned
                            <=> \E e \in assigned \cup {a} : e.filename = g /\ e.k = j
      BY <1>4, <1>6 DEF TrackMatchesAssigned, Part
    <2>1. task[g].track[j] = Assigned <=> \E e \in assigned : e.filename = g /\ e.k = j
      BY DEF PoolInv, TrackMatchesAssigned
    <2>2. a.filename = f /\ a.k = k
      OBVIOUS
    <2> HIDE DEF a
    <2>3. CASE g = f /\ j = k
      BY <1>5, <2>2, <2>3
    <2>4. CASE ~(g = f /\ j = k)
      <3>1. task'[g].track[j] = task[g].track[j]
        BY <1>5, <2>4
      <3>2. (\E e \in assigned \cup {a} : e.filename = g /\ e.k = j)
               <=> \E e \in assigned : e.filename = g /\ e.k = j
        BY <2>2, <2>4
      <3> QED
        BY <2>1, <3>1, <3>2
    <2> QED
      BY <2>3, <2>4
  <1>11. AssignedOnce'
    BY <1>6, <1>7 DEF PoolInv, AssignedOnce
  <1>12. DoneCounts'
    <2> SUFFICES ASSUME NEW g \in DOMAIN task
                 PROVE  /\ task'[g].done = Cardinality(DoneParts(g)')
                        /\ task'[g].done # NumParts
      BY <1>4 DEF DoneCounts
    <2>1. DoneParts(g)' = DoneParts(g)
      BY <1>1, <1>5 DEF DoneParts, Part, Available, Assigned, Done
    <2>2. 0 \in Part
      BY NumPartsAssumption DEF Part
    <2> QED
      BY <1>5, <2>1, <2>2 DEF PoolInv, DoneCounts
  <1>13. AddIsSafe'
    BY <1>1, <1>4, <1>6 DEF PoolInv, AddIsSafe, Get, historyVars
  <1>14. WantedOrFinished'
    BY <1>4 DEF PoolInv, WantedOrFinished, Get, historyVars, Part
  <1>15. DoneWasFinished'
    <2> SUFFICES ASSUME NEW g \in DOMAIN task, NEW j \in Part, task'[g].track[j] = Done
                 PROVE  <<g, j>> \in finished
      BY <1>4 DEF DoneWasFinished, Get, historyVars, Part
    <2> QED
      BY <1>5 DEF PoolInv, DoneWasFinished, Assigned, Done
  <1> QED
    BY <1>8, <1>9, <1>10, <1>11, <1>12, <1>13, <1>14, <1>15 DEF PoolInv

(* Reset and RemoveStraggler give parts back.                              *)
LEMMA GiveBackInv ==
    ASSUME PoolInv, NEW S \in SUBSET assigned, Mark(S, Available), assigned' = assigned \ S,
           UNCHANGED <<inited, numFinished, timeCount, historyVars>>
    PROVE  PoolInv'
  <1>1. finished' = IF Available = Done THEN finished \cup {<<e.filename, e.k>> : e \in S}
                                        ELSE finished
    BY DEF historyVars, Available, Done
  <1>2. UNCHANGED <<mayAdd, added, finished>>
    BY DEF historyVars
  <1>3. /\ DOMAIN task' \subseteq File
        /\ task' \in [DOMAIN task' -> Task]
        /\ finished' \subseteq File \X Part
        /\ assigned' \subseteq Assignment
        /\ IsFiniteSet(assigned)'
        /\ TrackMatchesAssigned'
        /\ AssignedOnce'
        /\ DoneCounts'
        /\ AddIsSafe'
        /\ WantedOrFinished'
        /\ DoneWasFinished'
    <2> Available \in {Available, Done}
      OBVIOUS
    <2> HIDE DEF Available, Done
    <2> QED
      BY <1>1, <1>2, MarkAndErase
  <1>4. PoolTypeOK'
    BY <1>2, <1>3 DEF PoolInv, PoolTypeOK
  <1> QED
    BY <1>3, <1>4 DEF PoolInv

(* Finish turns the parts of a worker into done ones.                      *)
LEMMA FinishInv ==
    ASSUME PoolInv, NEW id \in Node, Finish(id)
    PROVE  PoolInv'
  <1> DEFINE S == EntriesOf(id)
  <1>1. S \in SUBSET assigned
    BY DEF EntriesOf
  <1>2. /\ Mark(S, Done)
        /\ assigned' = assigned \ S
        /\ UNCHANGED <<mayAdd, added>>
        /\ finished' = IF Done = Done THEN finished \cup {<<e.filename, e.k>> : e \in S}
                                      ELSE finished
    BY DEF Finish
  <1>3. /\ DOMAIN task' \subseteq File
        /\ task' \in [DOMAIN task' -> Task]
        /\ finished' \subseteq File \X Part
        /\ assigned' \subseteq Assignment
        /\ IsFiniteSet(assigned)'
        /\ TrackMatchesAssigned'
        /\ AssignedOnce'
        /\ DoneCounts'
        /\ AddIsSafe'
        /\ WantedOrFinished'
        /\ DoneWasFinished'
    <2> HIDE DEF S
    <2> Done \in {Available, Done}
      OBVIOUS
    <2> QED
      BY <1>1, <1>2, MarkAndErase
  <1>4. numFinished' \in Nat /\ timeCount' \in 0 .. StragglerMin
    <2>1. FinishedBy(S) \in SUBSET assigned
      BY <1>1 DEF FinishedBy
    <2>2. Cardinality(S) \in Nat /\ Cardinality(FinishedBy(S)) \in Nat
      BY <1>1, <2>1, FS_Subset, FS_CardinalityType DEF PoolInv
    <2>3. numFinished \in Nat /\ timeCount \in 0 .. StragglerMin
      BY DEF PoolInv, PoolTypeOK
    <2> HIDE DEF S
    <2>4. /\ numFinished' = numFinished + Cardinality(FinishedBy(S))
          /\ timeCount' = Saturate(timeCount + Cardinality(S))
      BY DEF Finish, S
    <2> QED
      BY <2>2, <2>3, <2>4, StragglerMinAssumption DEF Saturate
  <1>5. PoolTypeOK'
    BY <1>2, <1>3, <1>4 DEF PoolInv, PoolTypeOK, Finish
  <1> QED
    BY <1>3, <1>5 DEF PoolInv

(* Every method keeps the pool consistent.                                 *)
LEMMA PoolStepInv == PoolInv /\ [PoolNext]_poolVars => PoolInv'
  <1> SUFFICES ASSUME PoolInv, [PoolNext]_poolVars
               PROVE  PoolInv'
    OBVIOUS
  <1>1. ASSUME NEW files \in SUBSET File, NEW id \in Node \cup {AnyNode}, Add(files, id)
        PROVE  PoolInv'
    BY <1>1, AddInv
  <1>2. CASE Clear
    BY <1>2, ClearInv
  <1>3. CASE ClearRemain
    BY <1>3, ClearInv
  <1>4. ASSUME NEW id \in Node, NEW f \in File, NEW k \in Part, Get(id, f, k)
        PROVE  PoolInv'
    BY <1>4, GetInv
  <1>5. ASSUME NEW id \in Node, Reset(id)
        PROVE  PoolInv'
    <2>1. EntriesOf(id) \in SUBSET assigned
      BY DEF EntriesOf
    <2> QED
      BY <1>5, <2>1, GiveBackInv DEF Reset
  <1>6. ASSUME NEW id \in Node, Finish(id)
        PROVE  PoolInv'
    BY <1>6, FinishInv
  <1>7. CASE RemoveStraggler
    BY <1>7, GiveBackInv DEF RemoveStraggler
  <1>8. CASE UNCHANGED poolVars
    BY <1>8 DEF poolVars, PoolInv, PoolTypeOK, TrackMatchesAssigned, AssignedOnce, DoneCounts,
                DoneParts, AddIsSafe, WantedOrFinished, DoneWasFinished
  <1> QED
    BY <1>1, <1>2, <1>3, <1>4, <1>5, <1>6, <1>7, <1>8 DEF PoolNext

(* Every reachable state of the pool is consistent, whatever legal         *)
(* sequence of calls of the scheduler, its failure handler and its         *)
(* straggler thread led there (all methods of WorkloadPool).               *)
THEOREM PoolInvariant == PoolSpec => []PoolInv
  BY PoolInitInv, PoolStepInv, PTL DEF PoolSpec

(* The fields of the pool always have their types.                         *)
THEOREM PoolTypeCorrect == PoolSpec => []PoolTypeOK
  <1>1. PoolInv => PoolTypeOK
    BY DEF PoolInv
  <1> QED
    BY <1>1, PoolInvariant, PTL

(* GetOne never hands out a part that somebody else is processing.         *)
THEOREM PoolAssignedOnce == PoolSpec => []AssignedOnce
  <1>1. PoolInv => AssignedOnce
    BY DEF PoolInv
  <1> QED
    BY <1>1, PoolInvariant, PTL

(* task_ and assigned_ never disagree: no part is lost and none is handed  *)
(* out while it is assigned.                                               *)
THEOREM PoolTrackMatchesAssigned == PoolSpec => []TrackMatchesAssigned
  <1>1. PoolInv => TrackMatchesAssigned
    BY DEF PoolInv
  <1> QED
    BY <1>1, PoolInvariant, PTL

(* IsFinished is true only when every part of every added file was         *)
(* finished, although Mark drops a file as soon as its counter is full.    *)
THEOREM PoolFinishedMeansAllParts == PoolSpec => []FinishedMeansAllParts
  <1>1. PoolInv => FinishedMeansAllParts
    BY DEF PoolInv, WantedOrFinished, FinishedMeansAllParts, IsFinished
  <1> QED
    BY <1>1, PoolInvariant, PTL

(* Marking elements of assigned_ leaves the done parts alone.              *)
LEMMA MarkKeepsDone ==
    ASSUME PoolInv, NEW S \in SUBSET assigned, NEW mark \in {Available, Done}, Mark(S, mark),
           NEW f \in (DOMAIN task) \cap (DOMAIN task'), NEW k \in Part,
           task[f].track[k] = Done
    PROVE  task'[f].track[k] = Done
  <1>1. task'[f].track[k] = IF k \in PartsOf(S, f) THEN mark ELSE task[f].track[k]
    BY MarkEffect
  <1>2. k \notin PartsOf(S, f)
    BY DEF PoolInv, TrackMatchesAssigned, PartsOf, Assigned, Done
  <1> QED
    BY <1>1, <1>2

(* A finished part of a file in task_ is never taken back by Reset or      *)
(* RemoveStraggler, nor handed out again by Get.                           *)
THEOREM PoolDoneStaysDone == PoolSpec => DoneStaysDone
  <1> DEFINE P == \A f \in (DOMAIN task) \cap (DOMAIN task'), k \in Part :
                     task[f].track[k] = Done => task'[f].track[k] = Done
  <1>1. PoolInv /\ [PoolNext]_poolVars => [P]_poolVars
    <2> SUFFICES ASSUME PoolInv, PoolNext,
                        NEW f \in (DOMAIN task) \cap (DOMAIN task'), NEW k \in Part,
                        task[f].track[k] = Done
                 PROVE  task'[f].track[k] = Done
      OBVIOUS
    <2>1. ASSUME NEW files \in SUBSET File, NEW id \in Node \cup {AnyNode}, Add(files, id)
          PROVE  task'[f].track[k] = Done
      <3>1. task[f] \in Task
        BY DEF PoolInv, PoolTypeOK
      <3>2. \/ task'[f] = task[f]
            \/ task'[f] = [task[f] EXCEPT !.node = @ \cup {id}]
        BY <2>1 DEF Add, AddFiles
      <3> QED
        BY <3>1, <3>2 DEF Task
    <2>2. CASE Clear \/ ClearRemain
      BY <2>2 DEF Clear, ClearRemain, EmptyTask
    <2>3. ASSUME NEW id \in Node, NEW g \in File, NEW j \in Part, Get(id, g, j)
          PROVE  task'[f].track[k] = Done
      <3>1. /\ task \in [DOMAIN task -> Task]
            /\ task' = [task EXCEPT ![g].track[j] = Assigned]
            /\ g \in DOMAIN task
            /\ task[g].track[j] = Available
        BY <2>3 DEF PoolInv, PoolTypeOK, Get, Candidate
      <3> QED
        BY <3>1 DEF Task, Available, Done
    <2>4. ASSUME NEW id \in Node, Reset(id) \/ Finish(id)
          PROVE  task'[f].track[k] = Done
      <3>1. EntriesOf(id) \in SUBSET assigned
        BY DEF EntriesOf
      <3> QED
        BY <2>4, <3>1, MarkKeepsDone DEF Reset, Finish
    <2>5. CASE RemoveStraggler
      BY <2>5, MarkKeepsDone DEF RemoveStraggler
    <2> QED
      BY <2>1, <2>2, <2>3, <2>4, <2>5 DEF PoolNext
  <1> QED
    BY <1>1, PoolInvariant, PTL DEF PoolSpec, DoneStaysDone

-----------------------------------------------------------------------------
(***************************************************************************)
(* The pool in the scheduler.                                              *)
(***************************************************************************)

(* A match request for worker w is on its way, answered, or being handled. *)
Has(q, kind) == \E i \in DOMAIN q : q[i].kind = kind
Single(q, kind) == \A i, j \in DOMAIN q : q[i].kind = kind /\ q[j].kind = kind => i = j

Asked(w) == Has(inbox[w], "match")
Answered(w) == Has(acks[w], "files")
Handled(w) == exec.at = "files" /\ exec.node = w

(* Workers are asked once per dispatch, if they match files themselves,    *)
(* and until all have answered the main thread waits.  (The executor may   *)
(* still handle the answer of a worker that was removed meanwhile.)        *)
MatchOf(w) ==
    /\ Single(inbox[w], "match") /\ Single(acks[w], "files")
    /\ ~(Asked(w) /\ Answered(w)) /\ ~(Asked(w) /\ Handled(w)) /\ ~(Answered(w) /\ Handled(w))
    /\ (Asked(w) \/ Answered(w) \/ Handled(w)) /\ status[w] # "removed" =>
            main = "wait" /\ w \notin matched /\ w \in mayAdd
    /\ Asked(w) \/ Answered(w) \/ Handled(w) => job.local.use
    /\ ~Up(w) => inbox[w] = <<>>

MatchInv == \A w \in Node : MatchOf(w)

ModeInv ==
    /\ main \in {"ask", "wait"} => job.local.use
    /\ main = "match" => ~job.local.use /\ AnyNode \in mayAdd
    /\ main = "ask" => \A w \in Node : status[w] # "removed" => w \in mayAdd

(* What the workers matched is only for those that matched it: nothing is  *)
(* given to a worker before its own files are added.                       *)
LocalInv ==
    job.local.use =>
        /\ \A f \in DOMAIN task : task[f].node # {} /\ task[f].node \cap mayAdd = {}
        /\ \A e \in assigned : e.node \notin mayAdd

(* The fields of the pool, without the numbers of done parts.              *)
LooseTask == [node : SUBSET Node, track : [Part -> {Available, Assigned, Done}], done : Int]
PoolShape == task \in [DOMAIN task -> LooseTask] /\ assigned \subseteq Assignment

DispatchInv == TypeOK /\ PoolShape /\ ModeInv /\ MatchInv /\ LocalInv /\ AssignedIsInFlight
-----------------------------------------------------------------------------
(* Queues of messages                                                      *)

LEMMA SeqAppend ==
    ASSUME NEW M, NEW q \in Seq(M), NEW m \in M
    PROVE  /\ Append(q, m) \in Seq(M) /\ Append(q, m) # <<>>
           /\ DOMAIN Append(q, m) = DOMAIN q \cup {Len(q) + 1} /\ Len(q) + 1 \notin DOMAIN q
           /\ Append(q, m)[Len(q) + 1] = m
           /\ \A i \in DOMAIN q : Append(q, m)[i] = q[i]
  <1> DEFINE r == Append(q, m)
  <1>1. /\ r \in Seq(M) /\ Len(r) = Len(q) + 1
        /\ \A i \in 1 .. Len(q) : r[i] = q[i]
        /\ r[Len(q) + 1] = m
    BY AppendProperties
  <1>2. DOMAIN q = 1 .. Len(q) /\ DOMAIN r = 1 .. Len(r) /\ Len(q) \in Nat
    BY <1>1, LenProperties
  <1> HIDE DEF r
  <1>3. DOMAIN r = DOMAIN q \cup {Len(q) + 1} /\ Len(q) + 1 \notin DOMAIN q
    BY <1>1, <1>2
  <1>4. r # <<>>
    BY <1>1, <1>2
  <1> QED
    BY <1>1, <1>2, <1>3, <1>4 DEF r

LEMMA SeqTail ==
    ASSUME NEW M, NEW q \in Seq(M), q # <<>>
    PROVE  /\ Tail(q) \in Seq(M) /\ Head(q) \in M /\ Len(q) \in Nat
           /\ DOMAIN Tail(q) = 1 .. Len(q) - 1 /\ DOMAIN q = 1 .. Len(q) /\ 1 \in DOMAIN q
           /\ Head(q) = q[1]
           /\ \A i \in DOMAIN Tail(q) : i + 1 \in DOMAIN q /\ Tail(q)[i] = q[i + 1]
  <1> DEFINE r == Tail(q)
  <1>1. /\ r \in Seq(M) /\ Len(r) = Len(q) - 1
        /\ \A i \in 1 .. Len(r) : r[i] = q[i + 1]
        /\ Head(q) = q[1] /\ Head(q) \in M
    BY HeadTailProperties
  <1>2. DOMAIN q = 1 .. Len(q) /\ DOMAIN r = 1 .. Len(r) /\ Len(q) \in Nat /\ Len(q) > 0
    BY <1>1, LenProperties, EmptySeq
  <1> HIDE DEF r
  <1>3. 1 \in DOMAIN q /\ \A i \in DOMAIN r : i + 1 \in DOMAIN q /\ r[i] = q[i + 1]
    BY <1>1, <1>2
  <1> QED
    BY <1>1, <1>2, <1>3 DEF r

LEMMA HasAppend ==
    ASSUME NEW M, NEW q \in Seq(M), NEW m \in M, NEW kind
    PROVE  /\ Has(Append(q, m), kind) <=> (Has(q, kind) \/ m.kind = kind)
           /\ Single(q, kind) /\ ~(Has(q, kind) /\ m.kind = kind) => Single(Append(q, m), kind)
  <1> DEFINE r == Append(q, m)
  <1>1. /\ DOMAIN r = DOMAIN q \cup {Len(q) + 1} /\ Len(q) + 1 \notin DOMAIN q
        /\ r[Len(q) + 1] = m
        /\ \A i \in DOMAIN q : r[i] = q[i]
    BY SeqAppend
  <1> HIDE DEF r
  <1>2. Has(r, kind) <=> (Has(q, kind) \/ m.kind = kind)
    BY <1>1 DEF Has
  <1>3. Single(q, kind) /\ ~(Has(q, kind) /\ m.kind = kind) => Single(r, kind)
    BY <1>1 DEF Has, Single
  <1> QED
    BY <1>2, <1>3 DEF r

LEMMA HasTail ==
    ASSUME NEW M, NEW q \in Seq(M), q # <<>>, NEW kind
    PROVE  /\ Has(Tail(q), kind) => Has(q, kind)
           /\ Head(q).kind = kind => Has(q, kind)
           /\ Single(q, kind) => Single(Tail(q), kind)
           /\ Single(q, kind) /\ Head(q).kind = kind => ~Has(Tail(q), kind)
  <1> DEFINE r == Tail(q)
  <1>1. /\ DOMAIN r = 1 .. Len(q) - 1 /\ 1 \in DOMAIN q /\ Len(q) \in Nat
        /\ Head(q) = q[1]
        /\ \A i \in DOMAIN r : i + 1 \in DOMAIN q /\ r[i] = q[i + 1]
    BY SeqTail
  <1> HIDE DEF r
  <1>2. /\ \A i \in DOMAIN r : i + 1 # 1
        /\ \A i, j \in DOMAIN r : i + 1 = j + 1 => i = j
    BY <1>1
  <1>3. Has(r, kind) => Has(q, kind)
    BY <1>1 DEF Has
  <1>4. Head(q).kind = kind => Has(q, kind)
    BY <1>1 DEF Has
  <1>5. Single(q, kind) => Single(r, kind)
    BY <1>1, <1>2 DEF Single
  <1>6. Single(q, kind) /\ Head(q).kind = kind => ~Has(r, kind)
    BY <1>1, <1>2 DEF Single, Has
  <1> QED
    BY <1>3, <1>4, <1>5, <1>6 DEF r

LEMMA HasPrefix ==
    ASSUME NEW M, NEW q \in Seq(M), NEW n \in 0 .. Len(q), NEW kind
    PROVE  /\ SubSeq(q, 1, n) \in Seq(M)
           /\ Has(SubSeq(q, 1, n), kind) => Has(q, kind)
           /\ Single(q, kind) => Single(SubSeq(q, 1, n), kind)
  <1> DEFINE r == SubSeq(q, 1, n)
  <1>1. DOMAIN q = 1 .. Len(q) /\ Len(q) \in Nat
    BY LenProperties
  <1>2. /\ r \in Seq(M)
        /\ DOMAIN r = 1 .. n
        /\ \A i \in 1 .. n : r[i] = q[i]
    <2>1. \A i \in 1 .. n : q[i] \in M
      BY <1>1, ElementOfSeq
    <2>2. r = [i \in 1 .. n |-> q[i]]
      BY <1>1
    <2> QED
      BY <1>1, <2>1, <2>2, SeqDef
  <1> HIDE DEF r
  <1>3. DOMAIN r \subseteq DOMAIN q
    BY <1>1, <1>2
  <1>4. Has(r, kind) => Has(q, kind)
    BY <1>2, <1>3 DEF Has
  <1>5. Single(q, kind) => Single(r, kind)
    BY <1>2, <1>3 DEF Single
  <1> QED
    BY <1>2, <1>4, <1>5 DEF r

LEMMA HasNone == \A kind : ~Has(<<>>, kind) /\ Single(<<>>, kind)
  BY DEF Has, Single
-----------------------------------------------------------------------------
(* Messages                                                                *)

LEMMA MessageKinds ==
    /\ \A m \in Message : m.kind \in {"empty", "match", "part"}
    /\ \A m \in Message : m.kind = "part" => m \in PartMessage
    /\ \A m \in PartMessage : /\ m \in Message /\ m.kind = "part"
                              /\ m.wl \in Workload /\ m.filename \in File /\ m.k \in Part
    /\ EmptyMsg \in Message /\ EmptyMsg.kind = "empty"
    /\ \A type \in {"TRAIN", "VAL", "PRED"} : MatchMsg(type) \in Message /\ MatchMsg(type).kind = "match"
    /\ \A m \in Message : m.kind = "match" => m.type \in {"TRAIN", "VAL", "PRED"}
    /\ \A r \in Reply : r.kind \in {"ack", "files"} /\ (r.kind = "files" => r.files \subseteq File)
  BY DEF Message, PartMessage, EmptyMsg, MatchMsg, PartMsg, Reply

LEMMA MessagesSame ==
    ASSUME job' = job
    PROVE  /\ Workload' = Workload /\ PartMessage' = PartMessage /\ Message' = Message
           /\ FirstWorkload' = FirstWorkload
  BY DEF Workload, PartMessage, Message, FirstWorkload

LEMMA ExecTypes ==
    ASSUME TypeOK
    PROVE  /\ exec.at \in {"idle", "files", "ack", "copy", "get", "send"}
           /\ exec = Idle <=> exec.at = "idle"
           /\ exec # Idle => exec.node \in Node
           /\ exec.at \in {"files", "ack", "copy"} => exec.msg \in Reply
           /\ exec.at = "files" => exec.msg.files \subseteq File
           /\ exec.at = "get" => exec.wl \in Workload
           /\ exec.at = "send" => exec.msg \in PartMessage
  <1>1. exec = Idle => exec.at = "idle"
    BY DEF Idle
  <1>2. CASE exec = Idle
    BY <1>2 DEF Idle
  <1>3. CASE exec \in [at : {"files", "ack", "copy"}, node : Node, msg : Reply]
    BY <1>1, <1>3, MessageKinds DEF TypeOK
  <1>4. CASE exec \in [at : {"get"}, node : Node, wl : Workload]
    BY <1>1, <1>4
  <1>5. CASE exec \in [at : {"send"}, node : Node, msg : PartMessage]
    BY <1>1, <1>5
  <1> QED
    BY <1>2, <1>3, <1>4, <1>5 DEF TypeOK

LEMMA ResponseTypes ==
    ASSUME TypeOK, NEW w \in Node, NEW m \in Message
    PROVE  /\ Response(w, m) \in Reply
           /\ Response(w, m).kind = "files" <=> m.kind = "match"
           /\ Response(w, m).kind = "ack" <=> m.kind # "match"
  <1>1. job \in Jobs /\ job.local.files[w] \subseteq File
    BY DataAssumption DEF TypeOK
  <1> QED
    BY <1>1 DEF Response, Reply
-----------------------------------------------------------------------------
(* What the methods of the pool do to the nodes of a file                  *)

LEMMA AddShape ==
    ASSUME PoolShape, NEW files, NEW id \in Node \cup {AnyNode}, AddFiles(files, id)
    PROVE  /\ PoolShape'
           /\ assigned' = assigned /\ mayAdd' = mayAdd \ {id}
           /\ \A f \in DOMAIN task' :
                 \/ f \in DOMAIN task /\ task'[f].node = task[f].node
                 \/ f \in DOMAIN task /\ id \in Node /\ task'[f].node = task[f].node \cup {id}
                 \/ id \in Node /\ task'[f].node = {id}
                 \/ id = AnyNode
  <1> DEFINE old(f) == IF f \in DOMAIN task THEN task[f] ELSE NewTask
             new(f) == IF f \in files /\ id # AnyNode
                       THEN [old(f) EXCEPT !.node = @ \cup {id}]
                       ELSE old(f)
  <1>1. /\ task' = [f \in (DOMAIN task) \cup files |-> new(f)]
        /\ assigned' = assigned /\ mayAdd' = mayAdd \ {id}
    BY DEF AddFiles
  <1>2. DOMAIN task' = (DOMAIN task) \cup files /\ \A f \in DOMAIN task' : task'[f] = new(f)
    BY <1>1
  <1>3. NewTask \in LooseTask /\ NewTask.node = {}
    BY DEF NewTask, LooseTask
  <1>4. ASSUME NEW f \in DOMAIN task'
        PROVE  /\ task'[f] \in LooseTask
               /\ task'[f].node = IF f \in files /\ id # AnyNode THEN old(f).node \cup {id} ELSE old(f).node
    <2>1. old(f) \in LooseTask
      BY <1>3 DEF PoolShape
    <2>2. task'[f] = new(f)
      BY <1>2
    <2> HIDE DEF old
    <2>3. CASE f \in files /\ id # AnyNode
      <3>1. id \in Node /\ old(f).node \cup {id} \in SUBSET Node
        BY <2>1, <2>3 DEF LooseTask
      <3> QED
        BY <2>1, <2>2, <2>3, <3>1 DEF LooseTask
    <2>4. CASE ~(f \in files /\ id # AnyNode)
      BY <2>1, <2>2, <2>4
    <2> QED
      BY <2>3, <2>4
  <1>5. PoolShape'
    <2>1. task' \in [DOMAIN task' -> LooseTask]
      BY <1>1, <1>2, <1>4
    <2> QED
      BY <1>1, <2>1 DEF PoolShape, LooseTask, Part, Assignment
  <1> QED
    BY <1>1, <1>2, <1>3, <1>4, <1>5

LEMMA MarkShape ==
    ASSUME PoolShape, NEW S \in SUBSET assigned, NEW mark \in {Available, Done}, Mark(S, mark),
           assigned' = assigned \ S
    PROVE  /\ PoolShape'
           /\ DOMAIN task' \subseteq DOMAIN task
           /\ \A f \in DOMAIN task' : task'[f].node = task[f].node
  <1> DEFINE ps(f) == PartsOf(S, f)
             marked == [f \in DOMAIN task |-> MarkTask(f, ps(f), mark)]
             left == {g \in DOMAIN task : marked[g].done # NumParts}
  <1>1. task' = [f \in left |-> marked[f]]
    BY DEF Mark
  <1>2. ASSUME NEW f \in DOMAIN task
        PROVE  marked[f] \in LooseTask /\ marked[f].node = task[f].node
    <2> DEFINE t == marked[f]
               N == NewlyDone(f, ps(f), mark)
    <2>1. task[f] \in LooseTask
      BY DEF PoolShape
    <2>2. t = [node  |-> task[f].node,
               track |-> [k \in Part |-> IF k \in ps(f) THEN mark ELSE task[f].track[k]],
               done  |-> task[f].done + Cardinality(N)]
      BY DEF MarkTask
    <2>3. N \in SUBSET Part
      <3>1. ps(f) \in SUBSET Part
        BY DEF PartsOf, PoolShape, Assignment
      <3> QED
        BY <3>1 DEF NewlyDone
    <2>4. Cardinality(N) \in Nat
      BY <2>3, PartsFinite, FS_Subset, FS_CardinalityType
    <2> HIDE DEF N, t
    <2>5. task[f].done + Cardinality(N) \in Int
      BY <2>1, <2>4 DEF LooseTask
    <2>6. [k \in Part |-> IF k \in ps(f) THEN mark ELSE task[f].track[k]] \in [Part -> {Available, Assigned, Done}]
      BY <2>1 DEF LooseTask
    <2>7. task[f].node \in SUBSET Node
      BY <2>1 DEF LooseTask
    <2>8. t \in LooseTask /\ t.node = task[f].node
      BY <2>2, <2>5, <2>6, <2>7 DEF LooseTask
    <2> QED
      BY <2>8 DEF t
  <1> HIDE DEF marked
  <1>3. DOMAIN task' = left /\ left \subseteq DOMAIN task /\ \A f \in left : task'[f] = marked[f]
    BY <1>1
  <1>4. task' \in [DOMAIN task' -> LooseTask]
    BY <1>1, <1>2, <1>3
  <1> QED
    BY <1>2, <1>3, <1>4 DEF PoolShape, LooseTask, Part, Assignment

LEMMA GetShape ==
    ASSUME PoolShape, NEW id \in Node, NEW f \in File, NEW k \in Part, Get(id, f, k)
    PROVE  /\ PoolShape'
           /\ DOMAIN task' = DOMAIN task
           /\ \A g \in DOMAIN task' : task'[g].node = task[g].node
           /\ task[f].node = {} \/ id \in task[f].node
           /\ f \in DOMAIN task
           /\ assigned' = assigned \cup {[filename |-> f, k |-> k, node |-> id]}
           /\ mayAdd' = mayAdd
  <1>1. /\ f \in DOMAIN task /\ (task[f].node = {} \/ id \in task[f].node)
        /\ task' = [task EXCEPT ![f].track[k] = Assigned]
        /\ assigned' = assigned \cup {[filename |-> f, k |-> k, node |-> id]}
        /\ mayAdd' = mayAdd
    BY DEF Get, Candidate, historyVars
  <1> DEFINE t == [task[f] EXCEPT !.track[k] = Assigned]
  <1>2. task[f] \in LooseTask /\ \A g \in DOMAIN task : task[g] \in LooseTask
    BY <1>1 DEF PoolShape
  <1>3. t \in LooseTask /\ t.node = task[f].node
    BY <1>2 DEF LooseTask
  <1>4. DOMAIN task' = DOMAIN task /\ task'[f] = t /\ \A g \in DOMAIN task \ {f} : task'[g] = task[g]
    BY <1>1
  <1> HIDE DEF t
  <1>5. task' \in [DOMAIN task' -> LooseTask]
    <2>1. task' = [g \in DOMAIN task |-> task'[g]]
      BY <1>1
    <2>2. \A g \in DOMAIN task : task'[g] \in LooseTask
      BY <1>2, <1>3, <1>4
    <2> QED
      BY <1>4, <2>1, <2>2
  <1>6. assigned' \subseteq Assignment
    BY <1>1 DEF PoolShape, Assignment
  <1> QED
    BY <1>1, <1>3, <1>4, <1>5, <1>6 DEF PoolShape, LooseTask, Part, Assignment

LEMMA EmptyShape ==
    ASSUME task' = EmptyTask, assigned' = {} \/ (PoolShape /\ assigned' = assigned)
    PROVE  PoolShape' /\ DOMAIN task' = {}
  BY DEF EmptyTask, PoolShape, LooseTask, Part, Assignment

(* Nothing new is assigned to a worker that has not added its files yet.   *)
LEMMA LocalShrinks ==
    ASSUME LocalInv, job' = job, DOMAIN task' \subseteq DOMAIN task,
           \A f \in DOMAIN task' : task'[f].node = task[f].node,
           assigned' \subseteq assigned, mayAdd' \subseteq mayAdd
    PROVE  LocalInv'
  BY DEF LocalInv
-----------------------------------------------------------------------------
(* Frames                                                                  *)

(* A worker whose queues stay as they are.                                 *)
LEMMA MatchFrame ==
    ASSUME NEW w \in Node, MatchOf(w), job' = job,
           inbox'[w] = inbox[w], acks'[w] = acks[w], exec' = exec \/ exec'.at # "files",
           status'[w] = status[w] \/ (inbox[w] = <<>> /\ status'[w] = "removed"),
           \/ main' = main /\ (w \in matched' => w \in matched) /\ (w \in mayAdd => w \in mayAdd')
           \/ main # "wait"
    PROVE  MatchOf(w)'
  <1>1. /\ Asked(w)' <=> Asked(w)
        /\ Answered(w)' <=> Answered(w)
        /\ Handled(w)' => Handled(w)
    BY DEF Asked, Answered, Handled
  <1>2. /\ (~(Asked(w) /\ Answered(w)) /\ ~(Asked(w) /\ Handled(w)) /\ ~(Answered(w) /\ Handled(w)))'
        /\ Single(inbox'[w], "match") /\ Single(acks'[w], "files")
    BY <1>1 DEF MatchOf
  <1>3. ASSUME (Asked(w) \/ Answered(w) \/ Handled(w))', status'[w] # "removed"
        PROVE  main' = "wait" /\ w \notin matched' /\ w \in mayAdd'
    BY <1>1, <1>3 DEF MatchOf
  <1>4. ~Up(w)' => inbox'[w] = <<>>
    BY DEF MatchOf, Up
  <1>5. (Asked(w) \/ Answered(w) \/ Handled(w) => job.local.use)'
    BY <1>1 DEF MatchOf
  <1> QED
    BY <1>2, <1>3, <1>4, <1>5 DEF MatchOf

(* An assigned part stays under way while the messages of its worker do    *)
(* and the executor does not turn to something else.                       *)
LEMMA FlightFrame ==
    ASSUME NEW e, InFlight(e), inbox'[e.node] = inbox[e.node], acks'[e.node] = acks[e.node],
           exec' = exec \/ exec = Idle
    PROVE  InFlight(e)'
  BY DEF InFlight, Idle

LEMMA FlightFrameAll ==
    ASSUME AssignedIsInFlight, assigned' \subseteq assigned, inbox' = inbox, acks' = acks,
           exec' = exec \/ exec = Idle,
           \A w \in Node : Up(w)' => Up(w), assigned \subseteq Assignment
    PROVE  AssignedIsInFlight'
  <1> SUFFICES ASSUME NEW e \in assigned', Up(e.node)' PROVE InFlight(e)'
    BY DEF AssignedIsInFlight
  <1>1. e \in assigned /\ e.node \in Node
    BY DEF Assignment
  <1>2. Up(e.node)
    BY <1>1
  <1> QED
    BY <1>1, <1>2, FlightFrame DEF AssignedIsInFlight
-----------------------------------------------------------------------------
(* The main thread                                                         *)

LEMMA DispatchInitInv == Init => DispatchInv
  <1> SUFFICES ASSUME Init PROVE DispatchInv
    OBVIOUS
  <1> USE DEF Init
  <1>1. TypeOK
    <2>1. workload \in Workload
      BY DataAssumption DEF FirstWorkload, Workload
    <2>2. inbox \in [Node -> Seq(Message)] /\ acks \in [Node -> Seq(Reply)]
      OBVIOUS
    <2>3. exec = Idle /\ exec.at # "files"
      BY DEF Idle
    <2> QED
      BY <2>1, <2>2, <2>3 DEF TypeOK
  <1>2. PoolShape /\ LocalInv
    BY DEF PoolInit, EmptyTask, PoolShape, LocalInv
  <1>3. ModeInv
    BY DEF ModeInv
  <1>4. MatchInv
    BY HasNone DEF MatchInv, MatchOf, Asked, Answered, Handled, Idle, Up
  <1>5. AssignedIsInFlight
    BY DEF PoolInit, AssignedIsInFlight
  <1> QED
    BY <1>1, <1>2, <1>3, <1>4, <1>5 DEF DispatchInv

(* A message to a set of workers.                                          *)
LEMMA SendEffect ==
    ASSUME TypeOK, NEW ws \in SUBSET Node, NEW msg \in Message, SendTo(ws, msg)
    PROVE  /\ inbox' \in [Node -> Seq(Message)]
           /\ \A w \in Node : IF w \in ws /\ Up(w) THEN inbox'[w] = Append(inbox[w], msg) ELSE inbox'[w] = inbox[w]
           /\ \A w \in Node : \A i \in DOMAIN inbox[w] : i \in DOMAIN inbox'[w] /\ inbox'[w][i] = inbox[w][i]
  <1>1. \A w \in Node : inbox[w] \in Seq(Message)
    BY DEF TypeOK
  <1>2. \A w \in Node : Append(inbox[w], msg) \in Seq(Message)
    BY <1>1, SeqAppend
  <1>3. /\ inbox' \in [Node -> Seq(Message)]
        /\ \A w \in Node : IF w \in ws /\ Up(w) THEN inbox'[w] = Append(inbox[w], msg) ELSE inbox'[w] = inbox[w]
    BY <1>1, <1>2 DEF SendTo
  <1>4. ASSUME NEW w \in Node, NEW i \in DOMAIN inbox[w]
        PROVE  i \in DOMAIN inbox'[w] /\ inbox'[w][i] = inbox[w][i]
    <2>1. i \in DOMAIN Append(inbox[w], msg) /\ Append(inbox[w], msg)[i] = inbox[w][i]
      BY <1>1, SeqAppend
    <2> QED
      BY <1>3, <2>1
  <1> QED
    BY <1>3, <1>4

LEMMA SendFlight ==
    ASSUME AssignedIsInFlight, assigned \subseteq Assignment, assigned' = assigned, acks' = acks,
           exec' = exec, status' = status,
           \A w \in Node : \A i \in DOMAIN inbox[w] : i \in DOMAIN inbox'[w] /\ inbox'[w][i] = inbox[w][i]
    PROVE  AssignedIsInFlight'
  <1> SUFFICES ASSUME NEW e \in assigned, Up(e.node) PROVE InFlight(e)'
    BY DEF AssignedIsInFlight, Up
  <1>1. InFlight(e) /\ e.node \in Node
    BY DEF AssignedIsInFlight, Assignment
  <1> QED
    BY <1>1 DEF InFlight

LEMMA StartDispatchInv ==
    ASSUME DispatchInv, StartDispatch
    PROVE  DispatchInv'
  <1>1. /\ main = "iterate" /\ main' = (IF job.local.use THEN "ask" ELSE "match")
        /\ Clear /\ UNCHANGED <<job, workload, stop, exec, inbox, acks, matched, status, processed>>
    BY DEF StartDispatch, netVars
  <1>2. TypeOK'
    BY <1>1, MessagesSame DEF DispatchInv, TypeOK
  <1>3. PoolShape' /\ DOMAIN task' = {} /\ assigned' = {} /\ mayAdd' = Node \cup {AnyNode}
    BY <1>1, EmptyShape DEF Clear
  <1>4. ModeInv'
    BY <1>1, <1>3 DEF ModeInv
  <1>5. MatchInv'
    BY <1>1, MatchFrame DEF DispatchInv, MatchInv
  <1>6. LocalInv' /\ AssignedIsInFlight'
    BY <1>3 DEF LocalInv, AssignedIsInFlight
  <1> QED
    BY <1>2, <1>3, <1>4, <1>5, <1>6 DEF DispatchInv

LEMMA MatchAndAddInv ==
    ASSUME DispatchInv, MatchAndAdd
    PROVE  DispatchInv'
  <1>1. /\ main = "match" /\ main' = "send"
        /\ AddFiles(DataFiles(workload.type), AnyNode)
        /\ UNCHANGED <<job, workload, stop, exec, inbox, acks, matched, status, processed>>
    BY DEF MatchAndAdd, netVars
  <1>2. TypeOK'
    BY <1>1, MessagesSame DEF DispatchInv, TypeOK
  <1>3. PoolShape' /\ assigned' = assigned /\ assigned \subseteq Assignment
    BY <1>1, AddShape DEF DispatchInv, PoolShape
  <1>4. ModeInv' /\ LocalInv'
    BY <1>1 DEF DispatchInv, ModeInv, LocalInv
  <1>5. MatchInv'
    BY <1>1, MatchFrame DEF DispatchInv, MatchInv
  <1>6. AssignedIsInFlight'
    BY <1>1, <1>3, FlightFrameAll DEF DispatchInv, Up
  <1> QED
    BY <1>2, <1>3, <1>4, <1>5, <1>6 DEF DispatchInv

LEMMA AskWorkersInv ==
    ASSUME DispatchInv, AskWorkers
    PROVE  DispatchInv'
  <1> DEFINE msg == MatchMsg(workload.type)
  <1>1. /\ main = "ask" /\ main' = "wait" /\ matched' = {}
        /\ SendTo(Group, msg)
        /\ UNCHANGED <<poolVars, job, workload, stop, exec, acks, status, processed>>
    BY DEF AskWorkers
  <1>2. TypeOK /\ Group \in SUBSET Node /\ msg \in Message /\ msg.kind = "match" /\ job.local.use
    <2>1. workload.type \in {"TRAIN", "VAL", "PRED"}
      BY DEF DispatchInv, TypeOK, Workload
    <2> QED
      BY <1>1, <2>1, MessageKinds DEF DispatchInv, Group, ModeInv
  <1> HIDE DEF msg
  <1>3. /\ inbox' \in [Node -> Seq(Message)]
        /\ \A w \in Node : IF w \in Group /\ Up(w) THEN inbox'[w] = Append(inbox[w], msg) ELSE inbox'[w] = inbox[w]
        /\ \A w \in Node : \A i \in DOMAIN inbox[w] : i \in DOMAIN inbox'[w] /\ inbox'[w][i] = inbox[w][i]
    BY <1>1, <1>2, SendEffect
  <1>4. TypeOK'
    BY <1>1, <1>3, MessagesSame DEF DispatchInv, TypeOK
  <1>5. PoolShape' /\ ModeInv' /\ LocalInv'
    BY <1>1, <1>2 DEF DispatchInv, ModeInv, LocalInv, PoolShape, LooseTask, Part, Assignment, poolVars
  <1>6. MatchInv'
    <2> SUFFICES ASSUME NEW w \in Node PROVE MatchOf(w)'
      BY DEF MatchInv
    <2>1. MatchOf(w)
      BY DEF DispatchInv, MatchInv
    <2>2. CASE w \in Group /\ Up(w)
      <3>1. ~Asked(w) /\ ~Answered(w) /\ ~Handled(w)
        BY <1>1, <2>1, <2>2 DEF MatchOf, Up
      <3>2. inbox[w] \in Seq(Message) /\ inbox'[w] = Append(inbox[w], msg)
        BY <1>2, <1>3, <2>2 DEF TypeOK
      <3>3. Single(inbox'[w], "match")
        BY <1>2, <2>1, <3>1, <3>2, HasAppend DEF MatchOf, Asked
      <3>4. ~Answered(w)' /\ ~Handled(w)' /\ Single(acks'[w], "files")
        BY <1>1, <2>1, <3>1 DEF Answered, Handled, MatchOf
      <3>5. w \in mayAdd' /\ w \notin matched' /\ Up(w)'
        <4>1. mayAdd' = mayAdd
          BY <1>1 DEF poolVars
        <4>2. w \in mayAdd
          BY <1>1, <2>2 DEF DispatchInv, ModeInv, Up
        <4> QED
          BY <1>1, <2>2, <4>1, <4>2 DEF Up
      <3> QED
        BY <1>1, <1>2, <3>3, <3>4, <3>5 DEF MatchOf
    <2>3. CASE ~(w \in Group /\ Up(w))
      <3>1. inbox'[w] = inbox[w]
        BY <1>3, <2>3
      <3> QED
        BY <1>1, <2>1, <3>1, MatchFrame
    <2> QED
      BY <2>2, <2>3
  <1>7. AssignedIsInFlight'
    BY <1>1, <1>3, SendFlight DEF DispatchInv, PoolShape, poolVars
  <1> QED
    BY <1>4, <1>5, <1>6, <1>7 DEF DispatchInv

LEMMA SendEmptyInv ==
    ASSUME DispatchInv, SendEmpty
    PROVE  DispatchInv'
  <1>1. /\ main = "send" /\ main' = "poll"
        /\ SendTo(Group, EmptyMsg)
        /\ UNCHANGED <<poolVars, job, workload, stop, exec, acks, matched, status, processed>>
    BY DEF SendEmpty
  <1>2. TypeOK /\ Group \in SUBSET Node /\ EmptyMsg \in Message /\ EmptyMsg.kind # "match"
    BY MessageKinds DEF DispatchInv, Group
  <1>3. /\ inbox' \in [Node -> Seq(Message)]
        /\ \A w \in Node : IF w \in Group /\ Up(w) THEN inbox'[w] = Append(inbox[w], EmptyMsg) ELSE inbox'[w] = inbox[w]
        /\ \A w \in Node : \A i \in DOMAIN inbox[w] : i \in DOMAIN inbox'[w] /\ inbox'[w][i] = inbox[w][i]
    BY <1>1, <1>2, SendEffect
  <1>4. TypeOK'
    BY <1>1, <1>3, MessagesSame DEF DispatchInv, TypeOK
  <1>5. PoolShape' /\ ModeInv' /\ LocalInv'
    BY <1>1, <1>2 DEF DispatchInv, ModeInv, LocalInv, PoolShape, LooseTask, Part, Assignment, poolVars
  <1>6. MatchInv'
    <2> SUFFICES ASSUME NEW w \in Node PROVE MatchOf(w)'
      BY DEF MatchInv
    <2>1. MatchOf(w)
      BY DEF DispatchInv, MatchInv
    <2>2. CASE w \in Group /\ Up(w)
      <3>1. ~Asked(w) /\ ~Answered(w) /\ ~Handled(w)
        BY <1>1, <2>1, <2>2 DEF MatchOf, Up
      <3>2. inbox[w] \in Seq(Message) /\ inbox'[w] = Append(inbox[w], EmptyMsg)
        BY <1>2, <1>3, <2>2 DEF TypeOK
      <3>3. Single(inbox'[w], "match") /\ ~Asked(w)'
        BY <1>2, <2>1, <3>1, <3>2, HasAppend DEF MatchOf, Asked
      <3>4. ~Answered(w)' /\ ~Handled(w)' /\ Single(acks'[w], "files") /\ Up(w)'
        BY <1>1, <2>1, <2>2, <3>1 DEF Answered, Handled, MatchOf, Up
      <3> QED
        BY <1>1, <3>3, <3>4 DEF MatchOf
    <2>3. CASE ~(w \in Group /\ Up(w))
      <3>1. inbox'[w] = inbox[w]
        BY <1>3, <2>3
      <3> QED
        BY <1>1, <2>1, <3>1, MatchFrame
    <2> QED
      BY <2>2, <2>3
  <1>7. AssignedIsInFlight'
    BY <1>1, <1>3, SendFlight DEF DispatchInv, PoolShape, poolVars
  <1> QED
    BY <1>4, <1>5, <1>6, <1>7 DEF DispatchInv

LEMMA WaitMatchedInv ==
    ASSUME DispatchInv, WaitMatched
    PROVE  DispatchInv'
  <1>1. /\ main = "wait" /\ main' = "send" /\ Group \subseteq matched
        /\ UNCHANGED <<poolVars, job, workload, stop, exec, inbox, acks, matched, status, processed>>
    BY DEF WaitMatched, netVars
  <1>2. TypeOK'
    BY <1>1, MessagesSame DEF DispatchInv, TypeOK
  <1>3. PoolShape' /\ ModeInv' /\ LocalInv'
    BY <1>1 DEF DispatchInv, ModeInv, LocalInv, PoolShape, LooseTask, Part, Assignment, poolVars
  <1>4. MatchInv'
    <2> SUFFICES ASSUME NEW w \in Node PROVE MatchOf(w)'
      BY DEF MatchInv
    <2>1. MatchOf(w) /\ (status[w] # "removed" => w \in matched)
      BY <1>1 DEF DispatchInv, MatchInv, Group
    <2> QED
      BY <1>1, <2>1 DEF MatchOf, Asked, Answered, Handled, Up
  <1>5. AssignedIsInFlight'
    BY <1>1, FlightFrameAll DEF DispatchInv, PoolShape, poolVars, Up
  <1> QED
    BY <1>2, <1>3, <1>4, <1>5 DEF DispatchInv

LEMMA AfterIterateTypes ==
    ASSUME TypeOK, NEW s \in BOOLEAN, AfterIterate(s), UNCHANGED <<job, exec, netVars>>
    PROVE  TypeOK' /\ main' \in {"done", "iterate"}
  <1>1. workload \in Workload /\ job \in Jobs /\ job.passes \in Nat
    BY DataAssumption DEF TypeOK
  <1>2. stop' \in BOOLEAN /\ main' \in {"done", "iterate"}
    BY DEF AfterIterate
  <1>3. workload' \in Workload
    <2>1. CASE workload' = workload
      BY <1>1, <2>1
    <2>2. CASE workload' = [workload EXCEPT !.type = "VAL"]
      BY <1>1, <2>2 DEF Workload
    <2>3. CASE workload' = [pass |-> workload.pass + 1, type |-> "TRAIN"] /\ ~LastPass
      <3>1. workload.pass \in Int /\ -1 <= workload.pass /\ workload.pass < job.passes - 1
        BY <1>1, <2>3 DEF Workload, LastPass
      <3>2. workload.pass + 1 \in -1 .. job.passes - 1
        BY <1>1, <3>1
      <3> QED
        BY <2>3, <3>2 DEF Workload
    <2> QED
      BY <2>1, <2>2, <2>3 DEF AfterIterate
  <1> QED
    BY <1>1, <1>2, <1>3, MessagesSame DEF TypeOK, netVars

LEMMA PollInv ==
    ASSUME DispatchInv, Poll \/ ShowProgress \/ EndIterate
    PROVE  DispatchInv'
  <1>1. /\ main \in {"poll", "sleep"} /\ main' \notin {"ask", "wait", "match"}
        /\ UNCHANGED <<job, exec, inbox, acks, matched, status, processed>>
        /\ UNCHANGED poolVars \/ ClearRemain
    <2>1. CASE Poll
      BY <2>1 DEF Poll, netVars
    <2>2. CASE ShowProgress
      BY <2>2 DEF ShowProgress, netVars
    <2>3. CASE EndIterate
      BY <2>3 DEF EndIterate, netVars, AfterIterate
    <2> QED
      BY <2>1, <2>2, <2>3
  <1>2. TypeOK'
    <2>1. CASE Poll
      BY <2>1, MessagesSame DEF DispatchInv, TypeOK, Poll, netVars
    <2>2. CASE ShowProgress
      BY <2>2, MessagesSame DEF DispatchInv, TypeOK, ShowProgress, netVars
    <2>3. CASE EndIterate
      <3>1. PICK s \in BOOLEAN : AfterIterate(s)
        BY <2>3 DEF EndIterate, DispatchInv, TypeOK
      <3> QED
        BY <2>3, <3>1, AfterIterateTypes DEF EndIterate, DispatchInv
    <2> QED
      BY <2>1, <2>2, <2>3
  <1>3. PoolShape' /\ LocalInv' /\ assigned' = assigned
    <2>1. CASE UNCHANGED poolVars
      BY <1>1, <2>1 DEF DispatchInv, PoolShape, LocalInv, LooseTask, Part, Assignment, poolVars
    <2>2. CASE ClearRemain
      <3>1. task' = EmptyTask /\ assigned' = assigned /\ mayAdd' = {}
        BY <2>2 DEF ClearRemain
      <3>2. PoolShape' /\ DOMAIN task' = {}
        BY <3>1, EmptyShape DEF DispatchInv
      <3> QED
        BY <1>1, <3>1, <3>2 DEF LocalInv
    <2> QED
      BY <1>1, <2>1, <2>2
  <1>4. ModeInv'
    BY <1>1 DEF ModeInv
  <1>5. MatchInv'
    BY <1>1, MatchFrame DEF DispatchInv, MatchInv
  <1>6. AssignedIsInFlight'
    BY <1>1, <1>3, FlightFrameAll DEF DispatchInv, PoolShape, Up
  <1> QED
    BY <1>2, <1>3, <1>4, <1>5, <1>6 DEF DispatchInv
-----------------------------------------------------------------------------
(* The executor thread                                                     *)

LEMMA DropResponseInv ==
    ASSUME DispatchInv, NEW w \in Node, DropResponse(w)
    PROVE  DispatchInv'
  <1>1. /\ exec = Idle /\ acks[w] # <<>> /\ status[w] = "removed"
        /\ acks' = [acks EXCEPT ![w] = Tail(@)]
        /\ UNCHANGED <<poolVars, job, main, workload, stop, exec, inbox, matched, status, processed>>
    BY DEF DropResponse, schedVars
  <1>2. TypeOK /\ acks[w] \in Seq(Reply)
    BY DEF DispatchInv, TypeOK
  <1>3. acks' \in [Node -> Seq(Reply)] /\ acks'[w] = Tail(acks[w]) /\ \A v \in Node \ {w} : acks'[v] = acks[v]
    BY <1>1, <1>2, SeqTail DEF TypeOK
  <1>4. TypeOK'
    BY <1>1, <1>2, <1>3, MessagesSame DEF TypeOK
  <1>5. PoolShape' /\ ModeInv' /\ LocalInv'
    BY <1>1 DEF DispatchInv, ModeInv, LocalInv, PoolShape, LooseTask, Part, Assignment, poolVars
  <1>6. MatchInv'
    <2> SUFFICES ASSUME NEW v \in Node PROVE MatchOf(v)'
      BY DEF MatchInv
    <2>1. MatchOf(v)
      BY DEF DispatchInv, MatchInv
    <2>2. CASE v = w
      <3>1. Single(acks'[w], "files") /\ (Answered(w)' => Answered(w))
        BY <1>1, <1>2, <1>3, <2>1, <2>2, HasTail DEF MatchOf, Answered
      <3> QED
        BY <1>1, <2>1, <2>2, <3>1 DEF MatchOf, Asked, Handled, Up
    <2>3. CASE v # w
      BY <1>1, <1>3, <2>1, <2>3, MatchFrame DEF poolVars
    <2> QED
      BY <2>2, <2>3
  <1>7. AssignedIsInFlight'
    <2> SUFFICES ASSUME NEW e \in assigned, Up(e.node) PROVE InFlight(e)'
      BY <1>1 DEF AssignedIsInFlight, Up, poolVars
    <2>1. InFlight(e) /\ e.node \in Node \ {w}
      BY <1>1 DEF DispatchInv, AssignedIsInFlight, PoolShape, Assignment, Up
    <2> QED
      BY <1>1, <1>3, <2>1, FlightFrame
  <1> QED
    BY <1>4, <1>5, <1>6, <1>7 DEF DispatchInv

LEMMA PickResponseInv ==
    ASSUME DispatchInv, NEW w \in Node, PickResponse(w)
    PROVE  DispatchInv'
  <1> DEFINE r == Head(acks[w])
  <1>1. /\ exec = Idle /\ acks[w] # <<>> /\ status[w] # "removed"
        /\ exec' = [at |-> r.kind, node |-> w, msg |-> r]
        /\ acks' = [acks EXCEPT ![w] = Tail(@)]
        /\ UNCHANGED <<poolVars, job, main, workload, stop, inbox, matched, status, processed>>
    BY DEF PickResponse, schedVars
  <1>2. TypeOK /\ acks[w] \in Seq(Reply)
    BY DEF DispatchInv, TypeOK
  <1>3. /\ acks' \in [Node -> Seq(Reply)] /\ acks'[w] = Tail(acks[w]) /\ \A v \in Node \ {w} : acks'[v] = acks[v]
        /\ r \in Reply /\ r.kind \in {"ack", "files"}
    BY <1>1, <1>2, SeqTail, MessageKinds DEF TypeOK
  <1> HIDE DEF r
  <1>4. exec'.at = r.kind /\ exec'.node = w /\ exec'.msg = r
    BY <1>1
  <1>5. TypeOK'
    <2>1. exec' \in [at : {"files", "ack", "copy"}, node : Node, msg : Reply]
      BY <1>1, <1>3
    <2> QED
      BY <1>1, <1>2, <1>3, <1>4, <2>1, MessagesSame DEF TypeOK
  <1>6. PoolShape' /\ ModeInv' /\ LocalInv'
    BY <1>1 DEF DispatchInv, ModeInv, LocalInv, PoolShape, LooseTask, Part, Assignment, poolVars
  <1>7. /\ Has(acks'[w], "files") => Has(acks[w], "files")
        /\ r.kind = "files" => Has(acks[w], "files") /\ ~Has(acks'[w], "files")
        /\ Single(acks'[w], "files")
    <2>1. Single(acks[w], "files")
      BY DEF DispatchInv, MatchInv, MatchOf
    <2> QED
      BY <1>1, <1>2, <1>3, <2>1, HasTail DEF r
  <1>8. MatchInv'
    <2> SUFFICES ASSUME NEW v \in Node PROVE MatchOf(v)'
      BY DEF MatchInv
    <2>1. MatchOf(v) /\ ~Handled(v)
      BY <1>1 DEF DispatchInv, MatchInv, Handled, Idle
    <2>2. CASE v = w
      <3>1. /\ Answered(w)' => Answered(w)
            /\ Handled(w)' => Answered(w) /\ ~Answered(w)'
            /\ Asked(w)' <=> Asked(w)
        BY <1>1, <1>4, <1>7 DEF Answered, Handled, Asked
      <3> QED
        BY <1>1, <1>7, <2>1, <2>2, <3>1 DEF MatchOf, Up, poolVars
    <2>3. CASE v # w
      <3>1. ~Handled(v)' /\ acks'[v] = acks[v] /\ inbox'[v] = inbox[v] /\ status'[v] = status[v]
        BY <1>1, <1>3, <1>4, <2>3 DEF Handled
      <3> QED
        BY <1>1, <2>1, <3>1 DEF MatchOf, Asked, Answered, Up, poolVars
    <2> QED
      BY <2>2, <2>3
  <1>9. AssignedIsInFlight'
    <2> SUFFICES ASSUME NEW e \in assigned, Up(e.node) PROVE InFlight(e)'
      BY <1>1 DEF AssignedIsInFlight, Up, poolVars
    <2>1. InFlight(e) /\ e.node \in Node
      BY DEF DispatchInv, AssignedIsInFlight, PoolShape, Assignment
    <2>2. CASE e.node = w /\ r.kind = "files"
      <3>1. MatchOf(w) /\ Answered(w)
        BY <1>7, <2>2 DEF DispatchInv, MatchInv, Answered
      <3>2. main = "wait" /\ w \in mayAdd
        BY <1>1, <3>1 DEF MatchOf
      <3> QED
        BY <2>2, <3>2 DEF DispatchInv, ModeInv, LocalInv
    <2>3. CASE e.node = w /\ r.kind = "ack"
      BY <1>4, <2>3 DEF InFlight
    <2>4. CASE e.node # w
      BY <1>1, <1>3, <2>1, <2>4, FlightFrame
    <2> QED
      BY <1>3, <2>2, <2>3, <2>4
  <1> QED
    BY <1>5, <1>6, <1>8, <1>9 DEF DispatchInv

LEMMA AddLocalFilesInv ==
    ASSUME DispatchInv, AddLocalFiles
    PROVE  DispatchInv'
  <1> DEFINE w == exec.node
  <1>1. /\ exec.at = "files" /\ exec' = Idle
        /\ AddFiles(exec.msg.files, w)
        /\ matched' = matched \cup {w}
        /\ UNCHANGED <<job, main, workload, stop, inbox, acks, status, processed>>
    BY DEF AddLocalFiles, schedVars
  <1>2. TypeOK /\ w \in Node /\ w # AnyNode /\ exec'.at = "idle" /\ Handled(w)
    BY <1>1, ExecTypes, AnyNodeAssumption DEF DispatchInv, Idle, Handled
  <1> HIDE DEF w
  <1>3. TypeOK'
    BY <1>1, <1>2, MessagesSame DEF TypeOK
  <1>4. /\ PoolShape' /\ assigned' = assigned /\ assigned \subseteq Assignment /\ mayAdd' = mayAdd \ {w}
        /\ \A f \in DOMAIN task' :
              \/ f \in DOMAIN task /\ task'[f].node = task[f].node
              \/ f \in DOMAIN task /\ task'[f].node = task[f].node \cup {w}
              \/ task'[f].node = {w}
    BY <1>1, <1>2, AddShape DEF DispatchInv, PoolShape
  <1>5. LocalInv'
    BY <1>1, <1>4 DEF DispatchInv, LocalInv
  <1>6. ModeInv'
    <2>1. main # "wait" => status[w] = "removed"
      BY <1>2 DEF DispatchInv, MatchInv, MatchOf
    <2> QED
      BY <1>1, <1>2, <1>4, <2>1 DEF DispatchInv, ModeInv
  <1>7. MatchInv'
    <2> SUFFICES ASSUME NEW v \in Node PROVE MatchOf(v)'
      BY DEF MatchInv
    <2>1. MatchOf(v) /\ ~Handled(v)' /\ (Asked(v)' <=> Asked(v)) /\ (Answered(v)' <=> Answered(v))
      BY <1>1, <1>2 DEF DispatchInv, MatchInv, Handled, Asked, Answered
    <2>2. CASE v = w
      <3>1. ~Asked(v)' /\ ~Answered(v)'
        BY <1>2, <2>1, <2>2 DEF MatchOf
      <3> QED
        BY <1>1, <2>1, <3>1 DEF MatchOf, Up
    <2>3. CASE v # w
      BY <1>1, <1>4, <2>1, <2>3 DEF MatchOf, Up
    <2> QED
      BY <2>2, <2>3
  <1>8. AssignedIsInFlight'
    <2> SUFFICES ASSUME NEW e \in assigned, Up(e.node) PROVE InFlight(e)'
      BY <1>1, <1>4 DEF AssignedIsInFlight, Up
    <2>1. InFlight(e)
      BY DEF DispatchInv, AssignedIsInFlight
    <2> QED
      BY <1>1, <2>1 DEF InFlight
  <1> QED
    BY <1>3, <1>4, <1>5, <1>6, <1>7, <1>8 DEF DispatchInv

LEMMA FinishWorkloadInv ==
    ASSUME DispatchInv, FinishWorkload
    PROVE  DispatchInv'
  <1> DEFINE w == exec.node
  <1>1. /\ exec.at = "ack" /\ exec' = [exec EXCEPT !.at = "copy"]
        /\ Mark(EntriesOf(w), Done) /\ assigned' = assigned \ EntriesOf(w) /\ mayAdd' = mayAdd
        /\ UNCHANGED <<job, main, workload, stop, inbox, acks, matched, status, processed>>
    BY DEF FinishWorkload, Finish, schedVars, netVars
  <1>2. TypeOK /\ w \in Node /\ exec \in [at : {"files", "ack", "copy"}, node : Node, msg : Reply]
    BY <1>1, ExecTypes DEF DispatchInv, TypeOK, Idle
  <1>3. exec' \in [at : {"files", "ack", "copy"}, node : Node, msg : Reply] /\ exec'.at = "copy" /\ exec'.node = w
    BY <1>1, <1>2
  <1>4. TypeOK'
    BY <1>1, <1>2, <1>3, MessagesSame DEF TypeOK
  <1>5. /\ PoolShape' /\ DOMAIN task' \subseteq DOMAIN task
        /\ \A f \in DOMAIN task' : task'[f].node = task[f].node
    <2>1. EntriesOf(w) \in SUBSET assigned
      BY DEF EntriesOf
    <2> QED
      BY <1>1, <2>1, MarkShape DEF DispatchInv
  <1>6. LocalInv'
    BY <1>1, <1>5, LocalShrinks DEF DispatchInv
  <1>7. ModeInv'
    BY <1>1 DEF DispatchInv, ModeInv
  <1>8. MatchInv'
    BY <1>1, <1>3, MatchFrame DEF DispatchInv, MatchInv
  <1>9. AssignedIsInFlight'
    <2> SUFFICES ASSUME NEW e \in assigned, e.node # w, Up(e.node) PROVE InFlight(e)'
      BY <1>1 DEF AssignedIsInFlight, Up, EntriesOf
    <2>1. InFlight(e)
      BY DEF DispatchInv, AssignedIsInFlight
    <2> QED
      BY <1>1, <2>1 DEF InFlight
  <1> QED
    BY <1>4, <1>5, <1>6, <1>7, <1>8, <1>9 DEF DispatchInv

LEMMA CopyWorkloadInv ==
    ASSUME DispatchInv, CopyWorkload
    PROVE  DispatchInv'
  <1>1. /\ exec.at = "copy" /\ exec' = [at |-> "get", node |-> exec.node, wl |-> workload]
        /\ UNCHANGED <<poolVars, job, main, workload, stop, inbox, acks, matched, status, processed>>
    BY DEF CopyWorkload, schedVars, netVars
  <1>2. TypeOK /\ exec.node \in Node
    BY <1>1, ExecTypes DEF DispatchInv, Idle
  <1>3. exec' \in [at : {"get"}, node : Node, wl : Workload] /\ exec'.at = "get"
    BY <1>1, <1>2 DEF TypeOK
  <1>4. TypeOK'
    BY <1>1, <1>2, <1>3, MessagesSame DEF TypeOK
  <1>5. PoolShape' /\ ModeInv' /\ LocalInv'
    BY <1>1 DEF DispatchInv, ModeInv, LocalInv, PoolShape, LooseTask, Part, Assignment, poolVars
  <1>6. MatchInv'
    BY <1>1, <1>3, MatchFrame DEF DispatchInv, MatchInv, poolVars
  <1>7. AssignedIsInFlight'
    BY <1>1 DEF DispatchInv, AssignedIsInFlight, InFlight, Up, poolVars
  <1> QED
    BY <1>4, <1>5, <1>6, <1>7 DEF DispatchInv

LEMMA GetWorkloadInv ==
    ASSUME DispatchInv, GetWorkload
    PROVE  DispatchInv'
  <1> DEFINE w == exec.node
  <1>1. exec.at = "get" /\ UNCHANGED <<job, main, workload, stop, inbox, acks, matched, status, processed>>
    BY DEF GetWorkload, schedVars, netVars
  <1>2. TypeOK /\ w \in Node /\ exec.wl \in Workload
    BY <1>1, ExecTypes DEF DispatchInv, Idle
  <1>3. ASSUME NEW f \in File, NEW k \in Part, Get(w, f, k),
               exec' = [at |-> "send", node |-> w, msg |-> PartMsg(exec.wl, f, k)]
        PROVE  DispatchInv'
    <2>1. exec' \in [at : {"send"}, node : Node, msg : PartMessage] /\ exec'.at = "send"
      BY <1>2, <1>3 DEF PartMessage
    <2>2. TypeOK'
      BY <1>1, <1>2, <2>1, MessagesSame DEF TypeOK
    <2>3. /\ PoolShape' /\ DOMAIN task' = DOMAIN task /\ f \in DOMAIN task /\ mayAdd' = mayAdd
          /\ \A g \in DOMAIN task' : task'[g].node = task[g].node
          /\ task[f].node = {} \/ w \in task[f].node
          /\ assigned' = assigned \cup {[filename |-> f, k |-> k, node |-> w]}
      BY <1>2, <1>3, GetShape DEF DispatchInv
    <2>4. LocalInv'
      BY <1>1, <2>3 DEF DispatchInv, LocalInv
    <2>5. ModeInv'
      BY <1>1, <2>3 DEF DispatchInv, ModeInv
    <2>6. MatchInv'
      BY <1>1, <2>1, <2>3, MatchFrame DEF DispatchInv, MatchInv
    <2>7. AssignedIsInFlight'
      <3> SUFFICES ASSUME NEW e \in assigned', Up(e.node) PROVE InFlight(e)'
        BY <1>1 DEF AssignedIsInFlight, Up
      <3>1. CASE e = [filename |-> f, k |-> k, node |-> w]
        BY <1>3, <3>1 DEF InFlight, PartMsg
      <3>2. CASE e \in assigned
        BY <1>1, <1>3, <3>2 DEF DispatchInv, AssignedIsInFlight, InFlight
      <3> QED
        BY <2>3, <3>1, <3>2
    <2> QED
      BY <2>2, <2>3, <2>4, <2>5, <2>6, <2>7 DEF DispatchInv
  <1>4. ASSUME GetNothing(w), exec' = Idle
        PROVE  DispatchInv'
    <2>1. UNCHANGED poolVars /\ exec'.at = "idle"
      BY <1>4 DEF GetNothing, Idle
    <2>2. TypeOK'
      BY <1>1, <1>2, <1>4, <2>1, MessagesSame DEF TypeOK
    <2>3. PoolShape' /\ ModeInv' /\ LocalInv'
      BY <1>1, <2>1 DEF DispatchInv, ModeInv, LocalInv, PoolShape, LooseTask, Part, Assignment, poolVars
    <2>4. MatchInv'
      BY <1>1, <2>1, MatchFrame DEF DispatchInv, MatchInv, poolVars
    <2>5. AssignedIsInFlight'
      BY <1>1, <2>1 DEF DispatchInv, AssignedIsInFlight, InFlight, Up, poolVars
    <2> QED
      BY <2>2, <2>3, <2>4, <2>5 DEF DispatchInv
  <1> QED
    BY <1>3, <1>4 DEF GetWorkload

LEMMA SendWorkloadInv ==
    ASSUME DispatchInv, SendWorkload
    PROVE  DispatchInv'
  <1> DEFINE w == exec.node
             m == exec.msg
  <1>1. /\ exec.at = "send" /\ exec' = Idle /\ SendTo({w}, m)
        /\ UNCHANGED <<poolVars, job, main, workload, stop, acks, matched, status, processed>>
    BY DEF SendWorkload, schedVars
  <1>2. TypeOK /\ w \in Node /\ m \in Message /\ m.kind = "part" /\ exec'.at = "idle"
    BY <1>1, ExecTypes, MessageKinds DEF DispatchInv, Idle
  <1> HIDE DEF w, m
  <1>3. /\ inbox' \in [Node -> Seq(Message)]
        /\ \A v \in Node : IF v = w /\ Up(v) THEN inbox'[v] = Append(inbox[v], m) ELSE inbox'[v] = inbox[v]
        /\ \A v \in Node : \A i \in DOMAIN inbox[v] : i \in DOMAIN inbox'[v] /\ inbox'[v][i] = inbox[v][i]
    <2>1. {w} \in SUBSET Node /\ \A v : v \in {w} <=> v = w
      BY <1>2
    <2> QED
      BY <1>1, <1>2, <2>1, SendEffect
  <1>4. TypeOK'
    BY <1>1, <1>2, <1>3, MessagesSame DEF TypeOK
  <1>5. PoolShape' /\ ModeInv' /\ LocalInv'
    BY <1>1 DEF DispatchInv, ModeInv, LocalInv, PoolShape, LooseTask, Part, Assignment, poolVars
  <1>6. MatchInv'
    <2> SUFFICES ASSUME NEW v \in Node PROVE MatchOf(v)'
      BY DEF MatchInv
    <2>1. MatchOf(v) /\ inbox[v] \in Seq(Message)
      BY <1>2 DEF DispatchInv, MatchInv, TypeOK
    <2>2. CASE v = w /\ Up(v)
      <3>1. inbox'[v] = Append(inbox[v], m)
        BY <1>3, <2>2
      <3>2. Single(inbox'[v], "match") /\ (Asked(v)' => Asked(v)) /\ (Answered(v)' <=> Answered(v)) /\ ~Handled(v)'
        BY <1>1, <1>2, <2>1, <3>1, HasAppend DEF MatchOf, Asked, Answered, Handled
      <3> QED
        BY <1>1, <2>1, <2>2, <3>2 DEF MatchOf, Up, poolVars
    <2>3. CASE ~(v = w /\ Up(v))
      <3>1. inbox'[v] = inbox[v]
        BY <1>3, <2>3
      <3> QED
        BY <1>1, <1>2, <2>1, <3>1, MatchFrame DEF poolVars
    <2> QED
      BY <2>2, <2>3
  <1>7. AssignedIsInFlight'
    <2> SUFFICES ASSUME NEW e \in assigned, Up(e.node) PROVE InFlight(e)'
      BY <1>1 DEF AssignedIsInFlight, Up, poolVars
    <2>1. InFlight(e) /\ e.node \in Node
      BY DEF DispatchInv, AssignedIsInFlight, PoolShape, Assignment
    <2>2. CASE e.node = w /\ m.filename = e.filename /\ m.k = e.k
      <3>1. inbox[w] \in Seq(Message) /\ inbox'[w] = Append(inbox[w], m)
        BY <1>2, <1>3, <2>2 DEF TypeOK
      <3>2. Len(inbox[w]) + 1 \in DOMAIN inbox'[w] /\ inbox'[w][Len(inbox[w]) + 1] = m
        BY <1>2, <3>1, SeqAppend
      <3> QED
        BY <1>2, <2>2, <3>2 DEF InFlight
    <2>3. CASE ~(e.node = w /\ m.filename = e.filename /\ m.k = e.k)
      BY <1>1, <1>3, <2>1, <2>3 DEF InFlight, w, m
    <2> QED
      BY <2>2, <2>3
  <1> QED
    BY <1>4, <1>5, <1>6, <1>7 DEF DispatchInv
-----------------------------------------------------------------------------
(* The workers and the other threads                                       *)

LEMMA ProcessRequestInv ==
    ASSUME DispatchInv, NEW w \in Node, ProcessRequest(w)
    PROVE  DispatchInv'
  <1> DEFINE m == Head(inbox[w])
             r == Response(w, m)
  <1>1. /\ Up(w) /\ inbox[w] # <<>>
        /\ acks' = [acks EXCEPT ![w] = Append(@, r)]
        /\ processed' = IF m.kind = "part"
                        THEN processed \cup {[wl |-> m.wl, filename |-> m.filename, k |-> m.k]}
                        ELSE processed
        /\ inbox' = [inbox EXCEPT ![w] = Tail(@)]
        /\ UNCHANGED <<poolVars, job, main, workload, stop, exec, matched, status>>
    BY DEF ProcessRequest, schedVars
  <1>2. TypeOK /\ inbox[w] \in Seq(Message) /\ acks[w] \in Seq(Reply)
    BY DEF DispatchInv, TypeOK
  <1>3. m \in Message /\ Tail(inbox[w]) \in Seq(Message)
    BY <1>1, <1>2, SeqTail
  <1>4. r \in Reply /\ (r.kind = "files" <=> m.kind = "match")
    BY <1>2, <1>3, ResponseTypes
  <1>5. m.kind = "part" => m.wl \in Workload /\ m.filename \in File /\ m.k \in Part
    BY <1>3, MessageKinds
  <1> HIDE DEF r
  <1>6. Append(acks[w], r) \in Seq(Reply) /\ Append(acks[w], r) # <<>>
    BY <1>2, <1>4, SeqAppend
  <1>7. /\ inbox' \in [Node -> Seq(Message)] /\ inbox'[w] = Tail(inbox[w])
        /\ acks' \in [Node -> Seq(Reply)] /\ acks'[w] = Append(acks[w], r)
        /\ \A v \in Node \ {w} : inbox'[v] = inbox[v] /\ acks'[v] = acks[v]
    BY <1>1, <1>2, <1>3, <1>6 DEF TypeOK
  <1>8. processed' \subseteq [wl : Workload, filename : File, k : Part]
    BY <1>1, <1>2, <1>5 DEF TypeOK
  <1>9. TypeOK'
    BY <1>1, <1>2, <1>7, <1>8, MessagesSame DEF TypeOK
  <1>10. PoolShape' /\ ModeInv' /\ LocalInv'
    BY <1>1 DEF DispatchInv, ModeInv, LocalInv, PoolShape, LooseTask, Part, Assignment, poolVars
  <1>11. MatchInv'
    <2> SUFFICES ASSUME NEW v \in Node PROVE MatchOf(v)'
      BY DEF MatchInv
    <2>1. MatchOf(v)
      BY DEF DispatchInv, MatchInv
    <2>2. CASE v = w
      <3>1. /\ Single(inbox'[w], "match") /\ (Asked(w)' => Asked(w))
            /\ m.kind = "match" => Asked(w) /\ ~Asked(w)'
        BY <1>1, <1>2, <1>7, <2>1, <2>2, HasTail DEF MatchOf, Asked
      <3>2. /\ Answered(w)' <=> (Answered(w) \/ r.kind = "files")
            /\ ~(Answered(w) /\ r.kind = "files") => Single(acks'[w], "files")
        BY <1>2, <1>4, <1>7, <2>1, <2>2, HasAppend DEF MatchOf, Answered
      <3>3. (Handled(w)' <=> Handled(w)) /\ Up(w)'
        BY <1>1 DEF Handled, Up
      <3> QED
        BY <1>1, <1>4, <2>1, <2>2, <3>1, <3>2, <3>3 DEF MatchOf, poolVars
    <2>3. CASE v # w
      BY <1>1, <1>7, <2>1, <2>3, MatchFrame DEF poolVars
    <2> QED
      BY <2>2, <2>3
  <1>12. AssignedIsInFlight'
    <2> SUFFICES ASSUME NEW e \in assigned, Up(e.node) PROVE InFlight(e)'
      BY <1>1 DEF AssignedIsInFlight, Up, poolVars
    <2>1. InFlight(e) /\ e.node \in Node
      BY DEF DispatchInv, AssignedIsInFlight, PoolShape, Assignment
    <2>2. CASE e.node = w
      BY <1>6, <1>7, <2>2 DEF InFlight
    <2>3. CASE e.node # w
      BY <1>1, <1>7, <2>1, <2>3, FlightFrame
    <2> QED
      BY <2>2, <2>3
  <1> QED
    BY <1>9, <1>10, <1>11, <1>12 DEF DispatchInv

LEMMA FailInv ==
    ASSUME DispatchInv, NEW w \in Node, Fail(w)
    PROVE  DispatchInv'
  <1>1. PICK n \in 0 .. Len(acks[w]) : acks' = [acks EXCEPT ![w] = SubSeq(@, 1, n)]
    BY DEF Fail
  <1>2. /\ Up(w)
        /\ status' = [status EXCEPT ![w] = "dead"]
        /\ inbox' = [inbox EXCEPT ![w] = <<>>]
        /\ UNCHANGED <<poolVars, job, main, workload, stop, exec, matched, processed>>
    BY DEF Fail, schedVars
  <1>3. TypeOK /\ acks[w] \in Seq(Reply)
    BY DEF DispatchInv, TypeOK
  <1>4. /\ SubSeq(acks[w], 1, n) \in Seq(Reply)
        /\ Has(SubSeq(acks[w], 1, n), "files") => Has(acks[w], "files")
        /\ Single(acks[w], "files") => Single(SubSeq(acks[w], 1, n), "files")
    BY <1>3, HasPrefix
  <1>5. /\ inbox' \in [Node -> Seq(Message)] /\ inbox'[w] = <<>>
        /\ acks' \in [Node -> Seq(Reply)] /\ acks'[w] = SubSeq(acks[w], 1, n)
        /\ status' \in [Node -> {"up", "dead", "reset", "removed"}] /\ status'[w] = "dead"
        /\ \A v \in Node \ {w} : inbox'[v] = inbox[v] /\ acks'[v] = acks[v] /\ status'[v] = status[v]
    BY <1>1, <1>2, <1>3, <1>4 DEF TypeOK
  <1>6. TypeOK'
    BY <1>2, <1>3, <1>5, MessagesSame DEF TypeOK
  <1>7. PoolShape' /\ LocalInv'
    BY <1>2 DEF DispatchInv, LocalInv, PoolShape, LooseTask, Part, Assignment, poolVars
  <1>8. ModeInv'
    BY <1>2, <1>5 DEF DispatchInv, ModeInv, poolVars, Up
  <1>9. MatchInv'
    <2> SUFFICES ASSUME NEW v \in Node PROVE MatchOf(v)'
      BY DEF MatchInv
    <2>1. MatchOf(v)
      BY DEF DispatchInv, MatchInv
    <2>2. CASE v = w
      <3>1. Single(inbox'[w], "match") /\ ~Asked(w)' /\ inbox'[w] = <<>>
        BY <1>5, HasNone DEF Asked
      <3>2. Single(acks'[w], "files") /\ (Answered(w)' => Answered(w)) /\ (Handled(w)' <=> Handled(w))
        BY <1>2, <1>4, <1>5, <2>1, <2>2 DEF MatchOf, Answered, Handled
      <3>3. status[w] # "removed"
        BY <1>2 DEF Up
      <3> QED
        BY <1>2, <2>1, <2>2, <3>1, <3>2, <3>3 DEF MatchOf, poolVars
    <2>3. CASE v # w
      BY <1>2, <1>5, <2>1, <2>3, MatchFrame DEF poolVars
    <2> QED
      BY <2>2, <2>3
  <1>10. AssignedIsInFlight'
    <2> SUFFICES ASSUME NEW e \in assigned, Up(e.node)' PROVE InFlight(e)'
      BY <1>2 DEF AssignedIsInFlight, poolVars
    <2>1. e.node \in Node \ {w} /\ Up(e.node)
      <3>1. e.node \in Node
        BY DEF DispatchInv, PoolShape, Assignment
      <3> QED
        BY <1>5, <3>1 DEF Up
    <2>2. InFlight(e)
      BY <2>1 DEF DispatchInv, AssignedIsInFlight
    <2> QED
      BY <1>2, <1>5, <2>1, <2>2, FlightFrame
  <1> QED
    BY <1>6, <1>7, <1>8, <1>9, <1>10 DEF DispatchInv

LEMMA HandleFailureInv ==
    ASSUME DispatchInv, NEW w \in Node, HandleFailure(w) \/ RemoveNode(w)
    PROVE  DispatchInv'
  <1>1. /\ \/ status[w] = "dead" /\ status' = [status EXCEPT ![w] = "reset"]
           \/ status[w] = "reset" /\ status' = [status EXCEPT ![w] = "removed"]
        /\ \/ Mark(EntriesOf(w), Available) /\ assigned' = assigned \ EntriesOf(w) /\ mayAdd' = mayAdd
           \/ UNCHANGED poolVars
        /\ UNCHANGED <<job, main, workload, stop, exec, inbox, acks, matched, processed>>
    BY DEF HandleFailure, RemoveNode, Reset, schedVars, historyVars
  <1>2. TypeOK
    BY DEF DispatchInv
  <1>3. /\ status' \in [Node -> {"up", "dead", "reset", "removed"}]
        /\ status[w] \notin {"up", "removed"} /\ status'[w] \in {"reset", "removed"}
        /\ \A v \in Node \ {w} : status'[v] = status[v]
    BY <1>1, <1>2 DEF TypeOK
  <1>4. TypeOK'
    BY <1>1, <1>2, <1>3, MessagesSame DEF TypeOK
  <1>5. PoolShape' /\ LocalInv' /\ assigned' \subseteq assigned /\ mayAdd' = mayAdd
    <2>1. CASE UNCHANGED poolVars
      BY <1>1, <2>1 DEF DispatchInv, LocalInv, PoolShape, LooseTask, Part, Assignment, poolVars
    <2>2. CASE Mark(EntriesOf(w), Available) /\ assigned' = assigned \ EntriesOf(w) /\ mayAdd' = mayAdd
      <3>1. EntriesOf(w) \in SUBSET assigned
        BY DEF EntriesOf
      <3>2. /\ PoolShape' /\ DOMAIN task' \subseteq DOMAIN task
            /\ \A f \in DOMAIN task' : task'[f].node = task[f].node
        BY <2>2, <3>1, MarkShape DEF DispatchInv
      <3> QED
        BY <1>1, <2>2, <3>2, LocalShrinks DEF DispatchInv
    <2> QED
      BY <1>1, <2>1, <2>2
  <1>6. ModeInv'
    BY <1>1, <1>3, <1>5 DEF DispatchInv, ModeInv
  <1>7. MatchInv'
    <2> SUFFICES ASSUME NEW v \in Node PROVE MatchOf(v)'
      BY DEF MatchInv
    <2>1. MatchOf(v) /\ (Asked(v)' <=> Asked(v)) /\ (Answered(v)' <=> Answered(v)) /\ (Handled(v)' <=> Handled(v))
      BY <1>1 DEF DispatchInv, MatchInv, Asked, Answered, Handled
    <2>2. (Up(v)' <=> Up(v)) /\ (status[v] = "removed" => status'[v] = "removed")
      BY <1>3 DEF Up
    <2> QED
      BY <1>1, <1>5, <2>1, <2>2 DEF MatchOf
  <1>8. AssignedIsInFlight'
    BY <1>1, <1>3, <1>5, FlightFrameAll DEF DispatchInv, PoolShape, Up
  <1> QED
    BY <1>4, <1>5, <1>6, <1>7, <1>8 DEF DispatchInv

LEMMA KillStragglerInv ==
    ASSUME DispatchInv, KillStraggler
    PROVE  DispatchInv'
  <1>1. PICK late \in SUBSET assigned : Mark(late, Available) /\ assigned' = assigned \ late
    BY DEF KillStraggler, RemoveStraggler
  <1>2. mayAdd' = mayAdd /\ UNCHANGED <<job, main, workload, stop, exec, inbox, acks, matched, status, processed>>
    BY DEF KillStraggler, RemoveStraggler, historyVars, schedVars, netVars
  <1>3. TypeOK'
    BY <1>2, MessagesSame DEF DispatchInv, TypeOK
  <1>4. /\ PoolShape' /\ DOMAIN task' \subseteq DOMAIN task
        /\ \A f \in DOMAIN task' : task'[f].node = task[f].node
    BY <1>1, MarkShape DEF DispatchInv
  <1>5. LocalInv'
    BY <1>1, <1>2, <1>4, LocalShrinks DEF DispatchInv
  <1>6. ModeInv'
    BY <1>2 DEF DispatchInv, ModeInv
  <1>7. MatchInv'
    BY <1>2, MatchFrame DEF DispatchInv, MatchInv
  <1>8. AssignedIsInFlight'
    BY <1>1, <1>2, FlightFrameAll DEF DispatchInv, PoolShape, Up
  <1> QED
    BY <1>3, <1>4, <1>5, <1>6, <1>7, <1>8 DEF DispatchInv

LEMMA DispatchStepInv == DispatchInv /\ [Next]_vars => DispatchInv'
  <1> SUFFICES ASSUME DispatchInv, [Next]_vars PROVE DispatchInv'
    OBVIOUS
  <1>1. CASE UNCHANGED vars
    <2>1. UNCHANGED <<poolVars, job, main, workload, stop, exec, inbox, acks, matched, status, processed>>
      BY <1>1 DEF vars, schedVars, netVars
    <2>2. TypeOK'
      BY <2>1, MessagesSame DEF DispatchInv, TypeOK
    <2>3. PoolShape' /\ ModeInv' /\ LocalInv'
      BY <2>1 DEF DispatchInv, ModeInv, LocalInv, PoolShape, LooseTask, Part, Assignment, poolVars
    <2>4. MatchInv'
      BY <2>1, MatchFrame DEF DispatchInv, MatchInv, poolVars
    <2>5. AssignedIsInFlight'
      BY <2>1, FlightFrameAll DEF DispatchInv, PoolShape, Up, poolVars
    <2> QED
      BY <2>2, <2>3, <2>4, <2>5 DEF DispatchInv
  <1>2. CASE MainThread
    BY <1>2, StartDispatchInv, MatchAndAddInv, AskWorkersInv, WaitMatchedInv, SendEmptyInv, PollInv DEF MainThread
  <1>3. CASE ExecThread
    BY <1>3, DropResponseInv, PickResponseInv, AddLocalFilesInv, FinishWorkloadInv, CopyWorkloadInv,
       GetWorkloadInv, SendWorkloadInv DEF ExecThread
  <1>4. CASE KillStraggler
    BY <1>4, KillStragglerInv
  <1>5. CASE \E w \in Node : ProcessRequest(w) \/ Fail(w) \/ HandleFailure(w) \/ RemoveNode(w)
    BY <1>5, ProcessRequestInv, FailInv, HandleFailureInv
  <1> QED
    BY <1>1, <1>2, <1>3, <1>4, <1>5 DEF Next
-----------------------------------------------------------------------------
(* The inductive invariant of the dispatch.                                *)
THEOREM DispatchInvariant == Spec => []DispatchInv
  BY DispatchInitInv, DispatchStepInv, PTL DEF Spec

(* The state of the scheduler's threads and the messages between it and    *)
(* its workers have their types.                                           *)
THEOREM DispatchTypes == Spec => []TypeOK
  <1>1. DispatchInv => TypeOK
    BY DEF DispatchInv
  <1> QED
    BY DispatchInvariant, <1>1, PTL

(* A part that is assigned to a living worker is on its way, being         *)
(* processed or about to be reported, for every job and any number of      *)
(* deaths: no element of assigned_ is left behind.                         *)
THEOREM DispatchInFlight == Spec => []AssignedIsInFlight
  <1>1. DispatchInv => AssignedIsInFlight
    BY DEF DispatchInv
  <1> QED
    BY DispatchInvariant, <1>1, PTL

-----------------------------------------------------------------------------
(* If workers match files themselves none of them dies: the answer of a    *)
(* worker that was removed while it was being handled could be added after *)
(* StopDispatch, which the pool does not allow.                            *)
LocalWorkersLive == \A j \in Jobs : j.local.use => j.fail = 0

AllUp == job.local.use => \A w \in Node : Up(w)

LEMMA AllUpStep == LocalWorkersLive /\ DispatchInv /\ AllUp /\ [Next]_vars => AllUp'
  <1> SUFFICES ASSUME LocalWorkersLive, DispatchInv, AllUp, [Next]_vars, job'.local.use, NEW v \in Node
               PROVE  Up(v)'
    BY DEF AllUp
  <1>1. job' = job
    BY DEF Next, vars, schedVars, MainThread, ExecThread, StartDispatch, MatchAndAdd, AskWorkers, WaitMatched, SendEmpty,
           Poll, ShowProgress, EndIterate, DropResponse, PickResponse, AddLocalFiles, FinishWorkload, CopyWorkload,
           GetWorkload, SendWorkload, KillStraggler, ProcessRequest, Fail, HandleFailure, RemoveNode
  <1>2. \A w \in Node : Up(w)
    BY <1>1 DEF AllUp
  <1>3. job.fail = 0
    BY <1>1 DEF LocalWorkersLive, DispatchInv, TypeOK
  <1>4. ASSUME NEW w \in Node PROVE ~Fail(w) /\ ~HandleFailure(w) /\ ~RemoveNode(w)
    <2>1. {u \in Node : ~Up(u)} = {}
      BY <1>2
    <2>2. Cardinality({u \in Node : ~Up(u)}) = 0
      BY <2>1, FS_EmptySet
    <2> QED
      BY <1>2, <1>3, <2>2 DEF Fail, HandleFailure, RemoveNode, Up
  <1>5. status' = status
    BY <1>4 DEF Next, vars, netVars, MainThread, ExecThread, StartDispatch, MatchAndAdd, AskWorkers, WaitMatched, SendEmpty,
           Poll, ShowProgress, EndIterate, DropResponse, PickResponse, AddLocalFiles, FinishWorkload, CopyWorkload,
           GetWorkload, SendWorkload, KillStraggler, ProcessRequest
  <1> QED
    BY <1>2, <1>5 DEF Up

LEMMA PoolStep == DispatchInv /\ AllUp /\ [Next]_vars => [PoolNext]_poolVars
  <1> SUFFICES ASSUME DispatchInv, AllUp, [Next]_vars PROVE [PoolNext]_poolVars
    OBVIOUS
  <1>1. TypeOK
    BY DEF DispatchInv
  <1>2. CASE StartDispatch
    BY <1>2 DEF StartDispatch, PoolNext
  <1>3. CASE MatchAndAdd
    <2>1. DataFiles(workload.type) \in SUBSET File
      BY <1>1, DataAssumption DEF TypeOK, DataFiles
    <2>2. Add(DataFiles(workload.type), AnyNode)
      BY <1>3 DEF MatchAndAdd, Add, DispatchInv, ModeInv
    <2> QED
      BY <2>1, <2>2 DEF PoolNext
  <1>4. CASE ShowProgress
    BY <1>4 DEF ShowProgress, PoolNext
  <1>5. CASE AddLocalFiles
    <2>1. exec.at = "files" /\ exec.node \in Node /\ exec.msg.files \in SUBSET File
      BY <1>1, <1>5, ExecTypes DEF AddLocalFiles, Idle
    <2>2. MatchOf(exec.node) /\ Handled(exec.node)
      BY <2>1 DEF DispatchInv, MatchInv, Handled
    <2>3. exec.node \in mayAdd
      <3>1. CASE status[exec.node] # "removed"
        BY <2>2, <3>1 DEF MatchOf
      <3>2. job.local.use
        BY <2>2 DEF MatchOf
      <3> QED
        BY <2>1, <3>1, <3>2 DEF AllUp, Up
    <2> QED
      BY <1>5, <2>1, <2>3 DEF AddLocalFiles, Add, PoolNext
  <1>6. CASE FinishWorkload
    <2>1. exec.node \in Node
      BY <1>1, <1>6, ExecTypes DEF FinishWorkload, Idle
    <2> QED
      BY <1>6, <2>1 DEF FinishWorkload, PoolNext
  <1>7. CASE GetWorkload
    <2>1. exec.node \in Node
      BY <1>1, <1>7, ExecTypes DEF GetWorkload, Idle
    <2> QED
      BY <1>7, <2>1 DEF GetWorkload, GetNothing, PoolNext
  <1>8. CASE KillStraggler
    BY <1>8 DEF KillStraggler, PoolNext
  <1>9. CASE \E w \in Node : HandleFailure(w)
    BY <1>9 DEF HandleFailure, PoolNext
  <1>10. CASE UNCHANGED poolVars
    BY <1>10
  <1>11. CASE \/ AskWorkers \/ WaitMatched \/ SendEmpty \/ Poll \/ EndIterate
              \/ CopyWorkload \/ SendWorkload
              \/ \E w \in Node : DropResponse(w) \/ PickResponse(w) \/ ProcessRequest(w) \/ Fail(w) \/ RemoveNode(w)
              \/ UNCHANGED vars
    <2>1. UNCHANGED poolVars
      BY <1>11 DEF AskWorkers, WaitMatched, SendEmpty, Poll, EndIterate, CopyWorkload, SendWorkload, DropResponse,
                   PickResponse, ProcessRequest, Fail, RemoveNode, vars
    <2> QED
      BY <2>1
  <1> QED
    BY <1>2, <1>3, <1>4, <1>5, <1>6, <1>7, <1>8, <1>9, <1>11 DEF Next, MainThread, ExecThread

(* DataParScheduler calls the pool the way the pool needs it: every step   *)
(* of its threads, of its workers and of the network is a step of PoolSpec *)
(* or leaves the pool alone.                                               *)
THEOREM DispatchUsesPool == LocalWorkersLive /\ Spec => UsesPoolLegally
  <1>1. Init => PoolInit /\ AllUp
    BY DEF Init, AllUp, Up
  <1>2. ASSUME LocalWorkersLive PROVE DispatchInv /\ AllUp /\ [Next]_vars => AllUp'
    BY <1>2, AllUpStep
  <1>3. ASSUME LocalWorkersLive PROVE Spec => UsesPoolLegally
    BY <1>1, <1>2, <1>3, DispatchInvariant, PoolStep, PTL DEF Spec, UsesPoolLegally, PoolSpec
  <1> QED
    BY <1>3

(* So the bookkeeping of the pool is consistent in the running scheduler.  *)
THEOREM DispatchPool == LocalWorkersLive /\ Spec => []PoolInv
  BY DispatchUsesPool, PoolInvariant, PTL DEF UsesPoolLegally
-----------------------------------------------------------------------------
(***************************************************************************)
(* What a finished dispatch has done: in every pass whose acknowledgements *)
(* cannot come from an earlier pass, all parts were really processed, and  *)
(* no worker still has one.                                                *)
(***************************************************************************)
(* The passes ProcessedUnlessLateAck is about.                             *)
Fresh == workload = FirstWorkload \/ (job.local.use /\ ~job.straggler)

(* Only a prediction runs as pass -1, so no later pass is the first one.   *)
PassInv == ~job.predict => workload.pass >= 0

(* In such a pass a worker holds one token: a request on its way, its      *)
(* acknowledgement, or the executor's attention.                           *)
Holds(w) == exec # Idle /\ exec.node = w

Silent(w) == inbox[w] = <<>> /\ acks[w] = <<>> /\ ~Holds(w)

OneMessage(w) ==
    /\ Len(inbox[w]) + Len(acks[w]) <= 1
    /\ Holds(w) => inbox[w] = <<>> /\ acks[w] = <<>>

(* Nothing is sent to a worker after the match request: once its answer is *)
(* handled its queues are empty.                                           *)
OnlyLast(q, kind) == \A i \in DOMAIN q : q[i].kind = kind => i = Len(q)

MatchLast(w) ==
    /\ OnlyLast(inbox[w], "match") /\ OnlyLast(acks[w], "files")
    /\ Answered(w) => inbox[w] = <<>>
    /\ Handled(w) => inbox[w] = <<>> /\ acks[w] = <<>>

Asking == main \in {"iterate", "ask", "wait"}
Quiet == main \in {"match", "send"} \/ (Asking /\ ~job.local.use)
Passing == main \in {"poll", "sleep"}

TokenOf(w) ==
    /\ Quiet => Silent(w)
    /\ Passing => OneMessage(w)
    /\ Asking /\ job.local.use => MatchLast(w)
    /\ main = "wait" => IF w \in matched THEN Silent(w) ELSE w \in mayAdd

TokenInv ==
    Fresh => /\ \A w \in Node : TokenOf(w)
             /\ Asking /\ job.local.use => exec.at # "send"

(* Before the parts are handed out nothing is assigned.                    *)
EmptyInv ==
    /\ main \in {"iterate", "ask", "match"} => DOMAIN task = {} /\ assigned = {}
    /\ Fresh /\ main \in {"wait", "send"} => assigned = {}

(* The token of a worker with an element of assigned_ is about this part   *)
(* of this pass, and it was processed when the acknowledgement is out.     *)
Did(f, k) == [wl |-> workload, filename |-> f, k |-> k] \in processed

Carries(e) ==
    \/ exec.at = "ack" /\ Did(e.filename, e.k)
    \/ exec.at = "send" /\ exec.msg = PartMsg(workload, e.filename, e.k)

EntryOf(e) ==
    /\ \A i \in DOMAIN inbox[e.node] : inbox[e.node][i] = PartMsg(workload, e.filename, e.k)
    /\ acks[e.node] # <<>> => Did(e.filename, e.k)
    /\ Holds(e.node) => Carries(e)

EntryInv ==
    Fresh /\ Passing => /\ \A e \in assigned : EntryOf(e)
                        /\ exec.at = "get" => exec.wl = workload

(* What the pool counts as finished was processed in this pass.            *)
FinishedInv ==
    Fresh /\ main \notin {"iterate", "done"} => \A p \in finished : Did(p[1], p[2])

(* If nothing is taken from stragglers, every part on its way is assigned. *)
HasEntry(w, m) == \E e \in assigned : e.node = w /\ e.filename = m.filename /\ e.k = m.k

PartInv ==
    Fresh /\ ~job.straggler /\ Passing =>
        /\ \A w \in Node : \A i \in DOMAIN inbox[w] : inbox[w][i].kind = "part" => HasEntry(w, inbox[w][i])
        /\ exec.at = "send" /\ Up(exec.node) => HasEntry(exec.node, exec.msg)

RunInv == PassInv /\ TokenInv /\ EmptyInv /\ EntryInv /\ FinishedInv /\ PartInv
-----------------------------------------------------------------------------
LEMMA QueueLength ==
    ASSUME NEW M, NEW q \in Seq(M)
    PROVE  /\ Len(q) \in Nat /\ DOMAIN q = 1 .. Len(q) /\ (q = <<>> <=> Len(q) = 0)
           /\ \A m \in M : Len(Append(q, m)) = Len(q) + 1
           /\ q # <<>> => Len(Tail(q)) = Len(q) - 1
  BY LenProperties, EmptySeq, AppendProperties, HeadTailProperties

(* The only message of two queues is taken out of one of them.             *)
LEMMA OnlyMessage ==
    ASSUME NEW M, NEW q \in Seq(M), NEW R, NEW r \in Seq(R), q # <<>>,
           Len(q) + Len(r) <= 1 \/ Len(r) + Len(q) <= 1
    PROVE  r = <<>> /\ Tail(q) = <<>>
  <1>1. /\ Len(q) \in Nat /\ Len(r) \in Nat /\ Len(q) # 0 /\ (r = <<>> <=> Len(r) = 0)
        /\ Len(Tail(q)) = Len(q) - 1
    BY QueueLength
  <1>2. Len(r) = 0 /\ Len(Tail(q)) = 0
    BY <1>1
  <1>3. Tail(q) \in Seq(M)
    BY SeqTail
  <1> QED
    BY <1>1, <1>2, <1>3, EmptySeq

LEMMA OnlyLastTail ==
    ASSUME NEW M, NEW q \in Seq(M), q # <<>>, NEW kind, OnlyLast(q, kind)
    PROVE  OnlyLast(Tail(q), kind) /\ (Head(q).kind = kind => Tail(q) = <<>>)
  <1> DEFINE r == Tail(q)
  <1>1. /\ DOMAIN r = 1 .. Len(q) - 1 /\ 1 \in DOMAIN q /\ Len(q) \in Nat /\ Len(r) = Len(q) - 1
        /\ Head(q) = q[1] /\ r \in Seq(M)
        /\ \A i \in DOMAIN r : i + 1 \in DOMAIN q /\ r[i] = q[i + 1]
    BY SeqTail, QueueLength
  <1> HIDE DEF r
  <1>2. OnlyLast(r, kind)
    BY <1>1 DEF OnlyLast
  <1>3. Head(q).kind = kind => Len(r) = 0
    BY <1>1 DEF OnlyLast
  <1>4. Head(q).kind = kind => r = <<>>
    BY <1>1, <1>3, EmptySeq
  <1> QED
    BY <1>2, <1>4 DEF r

LEMMA OnlyLastAppend ==
    ASSUME NEW M, NEW q \in Seq(M), NEW m \in M, NEW kind, ~Has(q, kind)
    PROVE  OnlyLast(Append(q, m), kind)
  <1> DEFINE r == Append(q, m)
  <1>1. /\ Len(r) = Len(q) + 1
        /\ DOMAIN r = DOMAIN q \cup {Len(q) + 1}
        /\ \A i \in DOMAIN q : r[i] = q[i]
    BY SeqAppend, QueueLength
  <1> HIDE DEF r
  <1>2. OnlyLast(r, kind)
    BY <1>1 DEF OnlyLast, Has
  <1> QED
    BY <1>2 DEF r

LEMMA OnlyLastNone == \A q, kind : ~Has(q, kind) => OnlyLast(q, kind)
  BY DEF OnlyLast, Has

LEMMA NoMessages == Len(<<>>) = 0 /\ Len(<<>>) + Len(<<>>) <= 1
  OBVIOUS

LEMMA PrefixLength ==
    ASSUME NEW M, NEW q \in Seq(M), NEW R, NEW r \in Seq(R), NEW n \in 0 .. Len(q), Len(r) + Len(q) <= 1
    PROVE  Len(<<>>) + Len(SubSeq(q, 1, n)) <= 1
  <1>1. Len(q) \in Nat /\ Len(r) \in Nat /\ DOMAIN q = 1 .. Len(q)
    BY QueueLength
  <1>2. Len(SubSeq(q, 1, n)) = n
    BY <1>1
  <1>3. n <= 1 /\ n \in Nat
    BY <1>1
  <1> QED
    BY <1>2, <1>3, NoMessages

(* A worker whose queues stay as they are.                                 *)
LEMMA TokenFrame ==
    ASSUME NEW w \in Node, TokenOf(w), inbox'[w] = inbox[w], acks'[w] = acks[w],
           Holds(w)' => Holds(w), Handled(w)' => Handled(w), UNCHANGED <<job, main>>,
           main = "wait" => /\ w \in matched' <=> w \in matched
                            /\ w \in mayAdd => w \in mayAdd'
    PROVE  TokenOf(w)'
  BY DEF TokenOf, Quiet, Asking, Passing, Silent, OneMessage, MatchLast, Answered

(* Nobody holds the executor in a quiet phase.                             *)
LEMMA QuietIdle ==
    ASSUME TypeOK, \A w \in Node : Silent(w)
    PROVE  exec = Idle
  BY ExecTypes DEF Silent, Holds

(* Only the end of a pass changes the workload.                            *)
LEMMA FreshSame ==
    ASSUME job' = job, workload' = workload
    PROVE  (Fresh' <=> Fresh) /\ (PassInv => PassInv')
  BY MessagesSame DEF Fresh, PassInv

LEMMA DidMore ==
    ASSUME workload' = workload, processed \subseteq processed', NEW f, NEW k, Did(f, k)
    PROVE  Did(f, k)'
  BY DEF Did
-----------------------------------------------------------------------------
(* The main thread                                                         *)

LEMMA RunInit == Init => RunInv
  <1> SUFFICES ASSUME Init PROVE RunInv
    OBVIOUS
  <1> USE DEF Init
  <1>1. PassInv
    BY DEF PassInv, FirstWorkload
  <1>2. EmptyInv
    BY DEF EmptyInv, PoolInit, EmptyTask
  <1>3. TokenInv
    BY DEF TokenInv, TokenOf, Quiet, Asking, Passing, Silent, MatchLast, OnlyLast, Answered, Has, Holds, Handled, Idle
  <1>4. EntryInv /\ FinishedInv /\ PartInv
    BY DEF EntryInv, FinishedInv, PartInv, Passing
  <1> QED
    BY <1>1, <1>2, <1>3, <1>4 DEF RunInv

LEMMA StartDispatchRun ==
    ASSUME DispatchInv, RunInv, StartDispatch
    PROVE  RunInv'
  <1>1. /\ main = "iterate" /\ main' = (IF job.local.use THEN "ask" ELSE "match")
        /\ Clear /\ UNCHANGED <<job, workload, stop, exec, inbox, acks, matched, status, processed>>
    BY DEF StartDispatch, netVars
  <1>2. PassInv' /\ (Fresh' <=> Fresh)
    BY <1>1, FreshSame DEF RunInv
  <1>3. EmptyInv' /\ FinishedInv'
    BY <1>1 DEF EmptyInv, FinishedInv, Clear, EmptyTask
  <1>4. EntryInv' /\ PartInv'
    BY <1>1 DEF EntryInv, PartInv, Passing
  <1>5. TokenInv'
    BY <1>1, <1>2 DEF RunInv, TokenInv, TokenOf, Quiet, Asking, Passing, Silent, MatchLast,
                          Answered, Holds, Handled
  <1> QED
    BY <1>2, <1>3, <1>4, <1>5 DEF RunInv

LEMMA MatchAndAddRun ==
    ASSUME DispatchInv, RunInv, MatchAndAdd
    PROVE  RunInv'
  <1>1. /\ main = "match" /\ main' = "send"
        /\ AddFiles(DataFiles(workload.type), AnyNode)
        /\ UNCHANGED <<job, workload, stop, exec, inbox, acks, matched, status, processed>>
    BY DEF MatchAndAdd, netVars
  <1>2. PassInv' /\ (Fresh' <=> Fresh)
    BY <1>1, FreshSame DEF RunInv
  <1>3. EmptyInv' /\ FinishedInv'
    BY <1>1, <1>2 DEF RunInv, EmptyInv, FinishedInv, AddFiles, Did
  <1>4. EntryInv' /\ PartInv'
    BY <1>1 DEF EntryInv, PartInv, Passing
  <1>5. TokenInv'
    BY <1>1, <1>2 DEF RunInv, TokenInv, TokenOf, Quiet, Asking, Passing, Silent, Holds
  <1> QED
    BY <1>2, <1>3, <1>4, <1>5 DEF RunInv

LEMMA AskWorkersRun ==
    ASSUME DispatchInv, AllUp, RunInv, AskWorkers
    PROVE  RunInv'
  <1> DEFINE msg == MatchMsg(workload.type)
  <1>1. /\ main = "ask" /\ main' = "wait" /\ matched' = {}
        /\ SendTo(Group, msg)
        /\ UNCHANGED <<poolVars, job, workload, stop, exec, acks, status, processed>>
    BY DEF AskWorkers
  <1>2. TypeOK /\ Group \in SUBSET Node /\ msg \in Message /\ job.local.use
    <2>1. workload.type \in {"TRAIN", "VAL", "PRED"}
      BY DEF DispatchInv, TypeOK, Workload
    <2> QED
      BY <1>1, <2>1, MessageKinds DEF DispatchInv, Group, ModeInv
  <1> HIDE DEF msg
  <1>3. \A w \in Node : Up(w) /\ w \in Group
    BY <1>2 DEF AllUp, Up, Group
  <1>4. PassInv' /\ (Fresh' <=> Fresh)
    BY <1>1, FreshSame DEF RunInv
  <1>5. EmptyInv' /\ FinishedInv'
    BY <1>1, <1>4 DEF RunInv, EmptyInv, FinishedInv, Did, poolVars
  <1>6. EntryInv' /\ PartInv'
    BY <1>1 DEF EntryInv, PartInv, Passing
  <1>7. ASSUME NEW w \in Node PROVE MatchLast(w)' /\ w \in mayAdd'
    <2>1. ~Asked(w) /\ ~Answered(w) /\ ~Handled(w) /\ w \in mayAdd
      BY <1>1, <1>3 DEF DispatchInv, MatchInv, MatchOf, ModeInv, Up
    <2>2. inbox[w] \in Seq(Message) /\ inbox'[w] = Append(inbox[w], msg)
      BY <1>1, <1>2, <1>3, SendEffect DEF TypeOK
    <2>3. OnlyLast(inbox'[w], "match")
      BY <1>2, <2>1, <2>2, OnlyLastAppend DEF Asked
    <2>4. ~Has(acks'[w], "files")
      BY <1>1, <2>1 DEF Answered
    <2>5. ~Answered(w)' /\ ~Handled(w)' /\ mayAdd' = mayAdd
      BY <1>1, <2>1 DEF Answered, Handled, poolVars
    <2> QED
      BY <2>1, <2>3, <2>4, <2>5, OnlyLastNone DEF MatchLast
  <1>8. TokenInv'
    BY <1>1, <1>2, <1>4, <1>7 DEF RunInv, TokenInv, TokenOf, Quiet, Asking, Passing
  <1> QED
    BY <1>4, <1>5, <1>6, <1>8 DEF RunInv

LEMMA WaitMatchedRun ==
    ASSUME DispatchInv, AllUp, RunInv, WaitMatched
    PROVE  RunInv'
  <1>1. /\ main = "wait" /\ main' = "send" /\ Group \subseteq matched
        /\ UNCHANGED <<poolVars, job, workload, stop, exec, inbox, acks, matched, status, processed>>
    BY DEF WaitMatched, netVars
  <1>2. PassInv' /\ (Fresh' <=> Fresh)
    BY <1>1, FreshSame DEF RunInv
  <1>3. EmptyInv' /\ FinishedInv'
    BY <1>1, <1>2 DEF RunInv, EmptyInv, FinishedInv, Did, poolVars
  <1>4. EntryInv' /\ PartInv'
    BY <1>1 DEF EntryInv, PartInv, Passing
  <1>5. \A w \in Node : w \in matched
    BY <1>1 DEF DispatchInv, ModeInv, AllUp, Up, Group
  <1>6. TokenInv'
    BY <1>1, <1>2, <1>5 DEF RunInv, TokenInv, TokenOf, Quiet, Asking, Passing, Silent, Holds
  <1> QED
    BY <1>2, <1>3, <1>4, <1>6 DEF RunInv

LEMMA SendEmptyRun ==
    ASSUME DispatchInv, RunInv, SendEmpty
    PROVE  RunInv'
  <1>1. /\ main = "send" /\ main' = "poll"
        /\ SendTo(Group, EmptyMsg)
        /\ UNCHANGED <<poolVars, job, workload, stop, exec, acks, matched, status, processed>>
    BY DEF SendEmpty
  <1>2. TypeOK /\ Group \in SUBSET Node /\ EmptyMsg \in Message /\ EmptyMsg.kind = "empty"
    BY MessageKinds DEF DispatchInv, Group
  <1>3. PassInv' /\ (Fresh' <=> Fresh)
    BY <1>1, FreshSame DEF RunInv
  <1>4. Fresh => (\A w \in Node : Silent(w)) /\ exec = Idle
    BY <1>1, <1>2, QuietIdle DEF RunInv, TokenInv, TokenOf, Quiet
  <1>5. ASSUME Fresh, NEW w \in Node
        PROVE  OneMessage(w)' /\ \A i \in DOMAIN inbox'[w] : inbox'[w][i].kind = "empty"
    <2>1. inbox[w] = <<>> /\ acks[w] = <<>> /\ inbox[w] \in Seq(Message)
      BY <1>2, <1>4, <1>5 DEF Silent, TypeOK
    <2>2. inbox'[w] = inbox[w] \/ inbox'[w] = Append(inbox[w], EmptyMsg)
      BY <1>1, <1>2, SendEffect
    <2>3. Len(<<>>) = 0 /\ ~Holds(w)'
      BY <1>1, <1>4, <1>5 DEF Holds
    <2>4. CASE inbox'[w] = <<>>
      BY <1>1, <2>1, <2>3, <2>4 DEF OneMessage
    <2>5. CASE inbox'[w] = Append(inbox[w], EmptyMsg)
      <3>1. /\ Len(inbox'[w]) = 1 /\ DOMAIN inbox'[w] = {1} /\ inbox'[w][1] = EmptyMsg
        BY <1>2, <2>1, <2>5, SeqAppend, QueueLength
      <3> QED
        BY <1>1, <1>2, <2>1, <2>3, <3>1 DEF OneMessage
    <2> QED
      BY <2>1, <2>2, <2>4, <2>5
  <1>6. TokenInv'
    BY <1>1, <1>3, <1>5 DEF TokenInv, TokenOf, Quiet, Asking
  <1>7. EmptyInv' /\ FinishedInv'
    BY <1>1, <1>3 DEF RunInv, EmptyInv, FinishedInv, Did, poolVars
  <1>8. Fresh => assigned' = {} /\ exec'.at = "idle"
    BY <1>1, <1>4 DEF RunInv, EmptyInv, poolVars, Idle
  <1>9. EntryInv' /\ PartInv'
    BY <1>3, <1>5, <1>8 DEF EntryInv, PartInv
  <1> QED
    BY <1>3, <1>6, <1>7, <1>9 DEF RunInv

LEMMA PollRun ==
    ASSUME DispatchInv, RunInv, Poll \/ ShowProgress
    PROVE  RunInv'
  <1>1. /\ main \in {"poll", "sleep"} /\ main' \in {"poll", "sleep"}
        /\ assigned' = assigned /\ finished' = finished
        /\ UNCHANGED <<job, workload, exec, inbox, acks, matched, status, processed>>
    BY DEF Poll, ShowProgress, ClearRemain, netVars, poolVars
  <1>2. PassInv' /\ (Fresh' <=> Fresh)
    BY <1>1, FreshSame DEF RunInv
  <1>3. EmptyInv' /\ FinishedInv'
    BY <1>1, <1>2 DEF RunInv, EmptyInv, FinishedInv, Did
  <1>4. TokenInv'
    BY <1>1, <1>2 DEF RunInv, TokenInv, TokenOf, Quiet, Asking, Passing, OneMessage, Holds
  <1>5. EntryInv'
    BY <1>1, <1>2 DEF RunInv, EntryInv, EntryOf, Passing, Holds, Carries, Did
  <1>6. PartInv'
    BY <1>1, <1>2 DEF RunInv, PartInv, Passing, HasEntry, Up
  <1> QED
    BY <1>2, <1>3, <1>4, <1>5, <1>6 DEF RunInv

LEMMA EndIterateRun ==
    ASSUME DispatchInv, AllUp, RunInv, EndIterate
    PROVE  RunInv'
  <1>1. /\ main = "poll" /\ DOMAIN task = {} /\ assigned = {}
        /\ UNCHANGED <<poolVars, job, exec, inbox, acks, matched, status, processed>>
    BY DEF EndIterate, IsFinished, netVars
  <1>2. TypeOK /\ workload \in Workload /\ workload.pass \in Int
    BY DEF DispatchInv, TypeOK, Workload
  <1>3. \/ main' = "done" /\ workload' = workload
        \/ /\ main' = "iterate" /\ ~job.predict
           /\ \/ workload.type = "TRAIN" /\ workload' = [workload EXCEPT !.type = "VAL"]
              \/ workload' = [pass |-> workload.pass + 1, type |-> "TRAIN"]
    BY DEF EndIterate, AfterIterate
  <1>4. PassInv'
    <2>1. CASE workload' = workload
      BY <1>1, <2>1 DEF RunInv, PassInv
    <2>2. CASE workload' = [workload EXCEPT !.type = "VAL"]
      <3>1. workload'.pass = workload.pass
        BY <1>2, <2>2 DEF Workload
      <3> QED
        BY <1>1, <3>1 DEF RunInv, PassInv
    <2>3. CASE workload' = [pass |-> workload.pass + 1, type |-> "TRAIN"]
      BY <1>1, <1>2, <2>3 DEF RunInv, PassInv
    <2> QED
      BY <1>3, <2>1, <2>2, <2>3
  <1>5. main' = "iterate" => workload' # FirstWorkload
    <2> SUFFICES ASSUME main' = "iterate" PROVE workload' # FirstWorkload
      OBVIOUS
    <2>1. ~job.predict /\ workload.pass >= 0 /\ FirstWorkload = [pass |-> 0, type |-> "TRAIN"]
      BY <1>3 DEF RunInv, PassInv, FirstWorkload
    <2>2. CASE workload' = [workload EXCEPT !.type = "VAL"]
      <3>1. workload'.type = "VAL"
        BY <1>2, <2>2 DEF Workload
      <3> QED
        BY <2>1, <3>1
    <2>3. CASE workload' = [pass |-> workload.pass + 1, type |-> "TRAIN"]
      <3>1. workload'.pass = workload.pass + 1
        BY <2>3
      <3> QED
        BY <1>2, <2>1, <3>1
    <2> QED
      BY <1>3, <2>2, <2>3
  <1>6. main' = "iterate" /\ Fresh' => Fresh /\ job.local.use /\ ~job.straggler
    BY <1>1, <1>5, MessagesSame DEF Fresh
  <1>7. EmptyInv' /\ FinishedInv' /\ EntryInv' /\ PartInv'
    BY <1>1, <1>3 DEF EmptyInv, FinishedInv, EntryInv, PartInv, Passing, poolVars
  <1>8. TokenInv'
    <2> SUFFICES ASSUME Fresh', main' = "iterate" PROVE TokenInv'
      BY <1>3 DEF TokenInv, TokenOf, Quiet, Asking, Passing
    <2>1. Fresh /\ job.local.use /\ ~job.straggler /\ \A w \in Node : Up(w)
      BY <1>6 DEF AllUp
    <2>2. exec'.at # "send"
      <3>1. exec.at = "send" => exec.node \in Node
        BY <1>2, ExecTypes DEF Idle
      <3> QED
        BY <1>1, <2>1, <3>1 DEF RunInv, PartInv, Passing, HasEntry
    <2>3. ASSUME NEW w \in Node PROVE MatchLast(w)'
      <3>1. ~Asked(w) /\ ~Answered(w) /\ ~Handled(w)
        BY <1>1, <2>1 DEF DispatchInv, MatchInv, MatchOf, Up
      <3>2. ~Asked(w)' /\ ~Answered(w)' /\ ~Handled(w)'
        BY <1>1, <3>1 DEF Asked, Answered, Handled
      <3> QED
        BY <3>2, OnlyLastNone DEF MatchLast, Asked, Answered
    <2> QED
      BY <1>1, <2>1, <2>2, <2>3 DEF TokenInv, TokenOf, Quiet, Asking, Passing
  <1> QED
    BY <1>4, <1>7, <1>8 DEF RunInv
-----------------------------------------------------------------------------
(* The executor thread                                                     *)

(* What a worker that holds the executor can be in the midst of.           *)
LEMMA HolderPhase ==
    ASSUME RunInv, Fresh, NEW w \in Node, Holds(w)
    PROVE  ~Quiet /\ (main = "wait" => w \notin matched /\ w \in mayAdd)
  BY DEF RunInv, TokenInv, TokenOf, Silent

LEMMA DropResponseRun ==
    ASSUME DispatchInv, AllUp, RunInv, NEW w \in Node, DropResponse(w)
    PROVE  RunInv'
  <1>1. /\ exec = Idle /\ acks[w] # <<>> /\ status[w] = "removed"
        /\ acks' = [acks EXCEPT ![w] = Tail(@)]
        /\ UNCHANGED <<poolVars, job, main, workload, stop, exec, inbox, matched, status, processed>>
    BY DEF DropResponse, schedVars
  <1>2. TypeOK /\ acks[w] \in Seq(Reply) /\ inbox[w] \in Seq(Message) /\ ~job.local.use
    BY <1>1 DEF DispatchInv, TypeOK, AllUp, Up
  <1>3. acks'[w] = Tail(acks[w]) /\ \A v \in Node \ {w} : acks'[v] = acks[v]
    BY <1>1, <1>2 DEF TypeOK
  <1>4. PassInv' /\ (Fresh' <=> Fresh)
    BY <1>1, FreshSame DEF RunInv
  <1>5. EmptyInv' /\ FinishedInv'
    BY <1>1, <1>4 DEF RunInv, EmptyInv, FinishedInv, Did, poolVars
  <1>6. ASSUME Fresh, NEW v \in Node PROVE TokenOf(v)'
    <2>1. TokenOf(v) /\ ~Holds(v)' /\ ~Handled(v)'
      BY <1>1, <1>6 DEF RunInv, TokenInv, Holds, Handled, Idle
    <2>2. CASE v = w
      <3>1. ~Quiet
        BY <1>1, <2>1, <2>2 DEF TokenOf, Silent
      <3>2. Passing => OneMessage(w)'
        <4>1. Passing => inbox[w] = <<>> /\ acks'[w] = <<>>
          BY <1>1, <1>2, <1>3, <2>1, <2>2, OnlyMessage DEF TokenOf, OneMessage
        <4> QED
          BY <1>1, <2>1, <2>2, <4>1, NoMessages DEF OneMessage
      <3> QED
        BY <1>1, <1>2, <2>2, <3>1, <3>2 DEF TokenOf, Quiet, Asking, Passing, DispatchInv, ModeInv
    <2>3. CASE v # w
      BY <1>1, <1>3, <2>1, <2>3, TokenFrame DEF poolVars
    <2> QED
      BY <2>2, <2>3
  <1>7. TokenInv'
    BY <1>1, <1>4, <1>6 DEF RunInv, TokenInv, Asking
  <1>8. EntryInv'
    <2> SUFFICES ASSUME Fresh, Passing, NEW e \in assigned PROVE EntryOf(e)'
      BY <1>1, <1>4 DEF RunInv, EntryInv, Passing, poolVars, Idle
    <2>1. EntryOf(e) /\ e.node \in Node
      BY DEF RunInv, EntryInv, DispatchInv, PoolShape, Assignment
    <2>2. acks'[e.node] # <<>> => acks[e.node] # <<>>
      BY <1>1, <1>3, <2>1
    <2> QED
      BY <1>1, <2>1, <2>2 DEF EntryOf, Holds, Did
  <1>9. PartInv'
    BY <1>1, <1>4 DEF RunInv, PartInv, Passing, HasEntry, Up, poolVars
  <1> QED
    BY <1>4, <1>5, <1>7, <1>8, <1>9 DEF RunInv

LEMMA PickResponseRun ==
    ASSUME DispatchInv, RunInv, NEW w \in Node, PickResponse(w)
    PROVE  RunInv'
  <1> DEFINE r == Head(acks[w])
  <1>1. /\ exec = Idle /\ acks[w] # <<>> /\ status[w] # "removed"
        /\ exec' = [at |-> r.kind, node |-> w, msg |-> r]
        /\ acks' = [acks EXCEPT ![w] = Tail(@)]
        /\ UNCHANGED <<poolVars, job, main, workload, stop, inbox, matched, status, processed>>
    BY DEF PickResponse, schedVars
  <1>2. TypeOK /\ acks[w] \in Seq(Reply) /\ inbox[w] \in Seq(Message)
    BY DEF DispatchInv, TypeOK
  <1>3. /\ acks'[w] = Tail(acks[w]) /\ \A v \in Node \ {w} : acks'[v] = acks[v]
        /\ r \in Reply /\ r.kind \in {"ack", "files"}
    BY <1>1, <1>2, SeqTail, MessageKinds DEF TypeOK
  <1>4. 1 \in DOMAIN acks[w] /\ acks[w][1] = r
    BY <1>1, <1>2, SeqTail
  <1> HIDE DEF r
  <1>5. exec'.at = r.kind /\ exec'.node = w /\ exec'.msg = r /\ exec' # Idle
    <2>1. exec'.at = r.kind /\ exec'.node = w /\ exec'.msg = r
      BY <1>1
    <2> QED
      BY <1>3, <2>1 DEF Idle
  <1>6. PassInv' /\ (Fresh' <=> Fresh)
    BY <1>1, FreshSame DEF RunInv
  <1>7. EmptyInv' /\ FinishedInv'
    BY <1>1, <1>6 DEF RunInv, EmptyInv, FinishedInv, Did, poolVars
  <1>8. ASSUME Fresh, NEW v \in Node PROVE TokenOf(v)'
    <2>1. TokenOf(v)
      BY <1>8 DEF RunInv, TokenInv
    <2>2. CASE v = w
      <3>1. ~Quiet /\ (main = "wait" => w \notin matched /\ w \in mayAdd)
        BY <1>1, <2>1, <2>2 DEF TokenOf, Silent
      <3>2. Passing => OneMessage(w)'
        <4>1. Passing => inbox[w] = <<>> /\ acks'[w] = <<>>
          BY <1>1, <1>2, <1>3, <2>1, <2>2, OnlyMessage DEF TokenOf, OneMessage
        <4> QED
          BY <1>1, <4>1, NoMessages DEF OneMessage
      <3>3. Asking /\ job.local.use => MatchLast(w)'
        <4> SUFFICES ASSUME MatchLast(w) PROVE MatchLast(w)'
          BY <2>1, <2>2 DEF TokenOf
        <4>1. OnlyLast(acks'[w], "files") /\ (r.kind = "files" => acks'[w] = <<>>)
          BY <1>1, <1>2, <1>3, OnlyLastTail DEF MatchLast, r
        <4>2. Answered(w)' \/ Handled(w)' => Answered(w)
          BY <1>1, <1>2, <1>3, <1>5, HasTail DEF Answered, Handled, r
        <4> QED
          BY <1>1, <1>5, <4>1, <4>2 DEF MatchLast, Handled
      <3> QED
        BY <1>1, <2>2, <3>1, <3>2, <3>3 DEF TokenOf, Quiet, Asking, Passing, poolVars
    <2>3. CASE v # w
      <3>1. ~Holds(v)' /\ ~Handled(v)'
        BY <1>5, <2>3 DEF Holds, Handled
      <3> QED
        BY <1>1, <1>3, <2>1, <2>3, <3>1, TokenFrame DEF poolVars
    <2> QED
      BY <2>2, <2>3
  <1>9. TokenInv'
    BY <1>3, <1>5, <1>6, <1>8 DEF TokenInv
  <1>10. EntryInv'
    <2> SUFFICES ASSUME Fresh, Passing, NEW e \in assigned PROVE EntryOf(e)'
      BY <1>1, <1>3, <1>5, <1>6 DEF EntryInv, Passing, poolVars
    <2>1. EntryOf(e) /\ e.node \in Node
      BY DEF RunInv, EntryInv, DispatchInv, PoolShape, Assignment
    <2>2. CASE e.node = w
      <3>1. ~Answered(w)
        BY <1>1 DEF DispatchInv, MatchInv, MatchOf, Passing
      <3>2. r.kind = "ack"
        BY <1>3, <1>4, <3>1 DEF Answered, Has
      <3>3. Did(e.filename, e.k)'
        BY <1>1, <2>1, <2>2 DEF EntryOf, Did
      <3> QED
        BY <1>1, <1>5, <2>1, <2>2, <3>2, <3>3 DEF EntryOf, Carries
    <2>3. CASE e.node # w
      <3>1. ~Holds(e.node)' /\ acks'[e.node] = acks[e.node]
        BY <1>3, <1>5, <2>1, <2>3 DEF Holds
      <3> QED
        BY <1>1, <2>1, <3>1 DEF EntryOf, Did
    <2> QED
      BY <2>2, <2>3
  <1>11. PartInv'
    BY <1>1, <1>3, <1>5, <1>6 DEF RunInv, PartInv, Passing, HasEntry, poolVars
  <1> QED
    BY <1>6, <1>7, <1>9, <1>10, <1>11 DEF RunInv

LEMMA AddLocalFilesRun ==
    ASSUME DispatchInv, AllUp, RunInv, AddLocalFiles
    PROVE  RunInv'
  <1> DEFINE w == exec.node
  <1>1. /\ exec.at = "files" /\ exec' = Idle
        /\ AddFiles(exec.msg.files, w)
        /\ matched' = matched \cup {w}
        /\ UNCHANGED <<job, main, workload, stop, inbox, acks, status, processed>>
    BY DEF AddLocalFiles, schedVars
  <1>2. w \in Node /\ exec # Idle /\ Handled(w) /\ exec'.at = "idle"
    BY <1>1, ExecTypes DEF DispatchInv, Idle, Handled
  <1> HIDE DEF w
  <1>3. main = "wait" /\ job.local.use
    BY <1>2 DEF DispatchInv, MatchInv, MatchOf, AllUp, Up
  <1>4. assigned' = assigned /\ finished' = finished /\ mayAdd' = mayAdd \ {w}
    BY <1>1 DEF AddFiles
  <1>5. PassInv' /\ (Fresh' <=> Fresh)
    BY <1>1, FreshSame DEF RunInv
  <1>6. EmptyInv' /\ FinishedInv'
    BY <1>1, <1>3, <1>4, <1>5 DEF RunInv, EmptyInv, FinishedInv, Did
  <1>7. EntryInv' /\ PartInv'
    BY <1>1, <1>3 DEF EntryInv, PartInv, Passing
  <1>8. ASSUME Fresh, NEW v \in Node PROVE TokenOf(v)'
    <2>1. TokenOf(v) /\ MatchLast(v) /\ ~Holds(v)' /\ ~Handled(v)'
      BY <1>1, <1>2, <1>3, <1>8 DEF RunInv, TokenInv, TokenOf, Asking, Holds, Handled
    <2>2. CASE v = w
      <3>1. inbox[w] = <<>> /\ acks[w] = <<>>
        BY <1>2, <2>1, <2>2 DEF MatchLast
      <3> QED
        BY <1>1, <1>3, <2>1, <2>2, <3>1 DEF TokenOf, Quiet, Asking, Passing, Silent, MatchLast
    <2>3. CASE v # w
      BY <1>1, <1>4, <2>1, <2>3, TokenFrame
    <2> QED
      BY <2>2, <2>3
  <1>9. TokenInv'
    BY <1>2, <1>5, <1>8 DEF TokenInv
  <1> QED
    BY <1>5, <1>6, <1>7, <1>9 DEF RunInv

LEMMA FinishWorkloadRun ==
    ASSUME DispatchInv, RunInv, FinishWorkload
    PROVE  RunInv'
  <1> DEFINE w == exec.node
             S == EntriesOf(w)
  <1>1. /\ exec.at = "ack" /\ exec' = [exec EXCEPT !.at = "copy"]
        /\ Mark(S, Done) /\ assigned' = assigned \ S /\ mayAdd' = mayAdd
        /\ finished' = finished \cup {<<e.filename, e.k>> : e \in S}
        /\ UNCHANGED <<job, main, workload, stop, inbox, acks, matched, status, processed>>
    BY DEF FinishWorkload, Finish, schedVars, netVars
  <1>2. /\ TypeOK /\ w \in Node /\ Holds(w)
        /\ exec \in [at : {"files", "ack", "copy"}, node : Node, msg : Reply]
    BY <1>1, ExecTypes DEF DispatchInv, TypeOK, Idle, Holds
  <1>3. exec'.at = "copy" /\ exec'.node = w
    BY <1>1, <1>2
  <1>4. \A e : e \in S <=> e \in assigned /\ e.node = w
    BY DEF EntriesOf
  <1>5. DOMAIN task' \subseteq DOMAIN task
    <2>1. S \in SUBSET assigned
      BY <1>4
    <2> QED
      BY <1>1, <2>1, MarkShape DEF DispatchInv
  <1> HIDE DEF w, S
  <1>6. PassInv' /\ (Fresh' <=> Fresh)
    BY <1>1, FreshSame DEF RunInv
  <1>7. EmptyInv'
    BY <1>1, <1>5, <1>6 DEF RunInv, EmptyInv
  <1>8. \A v : (Holds(v)' => Holds(v)) /\ ~Handled(v)'
    BY <1>2, <1>3 DEF Holds, Handled
  <1>9. TokenInv'
    BY <1>1, <1>3, <1>6, <1>8, TokenFrame DEF RunInv, TokenInv
  <1>10. FinishedInv'
    <2> SUFFICES ASSUME Fresh, main \notin {"iterate", "done"}, NEW e \in S PROVE Did(e.filename, e.k)
      BY <1>1, <1>6 DEF RunInv, FinishedInv, Did
    <2>1. e \in assigned /\ e.node = w
      BY <1>4
    <2>2. Passing
      BY <1>2, <2>1, HolderPhase DEF RunInv, EmptyInv, Passing, DispatchInv, TypeOK, Quiet, Asking
    <2>3. EntryOf(e)
      BY <2>1, <2>2 DEF RunInv, EntryInv
    <2> QED
      BY <1>1, <1>2, <2>1, <2>3 DEF EntryOf, Carries
  <1>11. EntryInv'
    <2> SUFFICES ASSUME Fresh, Passing, NEW e \in assigned, e \notin S PROVE EntryOf(e)'
      BY <1>1, <1>3, <1>6 DEF EntryInv, Passing
    <2>1. EntryOf(e) /\ ~Holds(e.node)'
      BY <1>3, <1>4 DEF RunInv, EntryInv, Holds
    <2> QED
      BY <1>1, <2>1 DEF EntryOf, Did
  <1>12. PartInv'
    <2> SUFFICES ASSUME Fresh, Passing, ~job.straggler,
                        NEW v \in Node, NEW i \in DOMAIN inbox[v], inbox[v][i].kind = "part"
                 PROVE  HasEntry(v, inbox[v][i])'
      BY <1>1, <1>3, <1>6 DEF PartInv, Passing, HasEntry
    <2>1. v # w
      <3>1. inbox[w] = <<>>
        BY <1>2 DEF RunInv, TokenInv, TokenOf, OneMessage
      <3> QED
        BY <3>1
    <2>2. PICK e \in assigned : e.node = v /\ e.filename = inbox[v][i].filename /\ e.k = inbox[v][i].k
      BY DEF RunInv, PartInv, HasEntry
    <2>3. e \in assigned'
      BY <1>1, <1>4, <2>1, <2>2
    <2> QED
      BY <1>1, <2>2, <2>3 DEF HasEntry
  <1> QED
    BY <1>6, <1>7, <1>9, <1>10, <1>11, <1>12 DEF RunInv

LEMMA CopyWorkloadRun ==
    ASSUME DispatchInv, RunInv, CopyWorkload
    PROVE  RunInv'
  <1>1. /\ exec.at = "copy" /\ exec' = [at |-> "get", node |-> exec.node, wl |-> workload]
        /\ UNCHANGED <<poolVars, job, main, workload, stop, inbox, acks, matched, status, processed>>
    BY DEF CopyWorkload, schedVars, netVars
  <1>2. exec'.at = "get" /\ exec'.node = exec.node /\ exec'.wl = workload /\ exec # Idle
    BY <1>1 DEF Idle
  <1>3. PassInv' /\ (Fresh' <=> Fresh)
    BY <1>1, FreshSame DEF RunInv
  <1>4. EmptyInv' /\ FinishedInv'
    BY <1>1, <1>3 DEF RunInv, EmptyInv, FinishedInv, Did, poolVars
  <1>5. \A v : (Holds(v)' => Holds(v)) /\ ~Handled(v)'
    BY <1>2 DEF Holds, Handled
  <1>6. TokenInv'
    BY <1>1, <1>2, <1>3, <1>5, TokenFrame DEF RunInv, TokenInv, poolVars
  <1>7. EntryInv'
    <2> SUFFICES ASSUME Fresh, Passing, NEW e \in assigned PROVE EntryOf(e)'
      BY <1>1, <1>2, <1>3 DEF EntryInv, Passing, poolVars
    <2>1. EntryOf(e)
      BY DEF RunInv, EntryInv
    <2>2. ~Holds(e.node)
      BY <1>1, <2>1 DEF EntryOf, Carries
    <2> QED
      BY <1>1, <1>5, <2>1, <2>2 DEF EntryOf, Did
  <1>8. PartInv'
    BY <1>1, <1>2, <1>3 DEF RunInv, PartInv, Passing, HasEntry, poolVars
  <1> QED
    BY <1>3, <1>4, <1>6, <1>7, <1>8 DEF RunInv

(* A part is only handed out while the parts of this pass are.             *)
LEMMA GetWhilePassing ==
    ASSUME DispatchInv, RunInv, Fresh, exec.at = "get", NEW f \in File, NEW k \in Part, Candidate(exec.node, f, k)
    PROVE  Passing \/ main = "done"
  <1> DEFINE w == exec.node
  <1>1. w \in Node /\ Holds(w)
    BY ExecTypes DEF DispatchInv, Idle, Holds
  <1>2. ~Quiet /\ (main = "wait" => w \in mayAdd)
    BY <1>1, HolderPhase
  <1>3. f \in DOMAIN task /\ (task[f].node = {} \/ w \in task[f].node)
    BY DEF Candidate
  <1>4. main # "wait"
    BY <1>2, <1>3 DEF DispatchInv, ModeInv, LocalInv
  <1>5. main \notin {"iterate", "ask", "match"}
    BY <1>3 DEF RunInv, EmptyInv
  <1> QED
    BY <1>2, <1>4, <1>5 DEF DispatchInv, TypeOK, Quiet, Passing

LEMMA GetWorkloadRun ==
    ASSUME DispatchInv, RunInv, GetWorkload
    PROVE  RunInv'
  <1> DEFINE w == exec.node
  <1>1. exec.at = "get" /\ UNCHANGED <<job, main, workload, stop, inbox, acks, matched, status, processed>>
    BY DEF GetWorkload, schedVars, netVars
  <1>2. TypeOK /\ w \in Node /\ Holds(w)
    BY <1>1, ExecTypes DEF DispatchInv, Idle, Holds
  <1>3. PassInv' /\ (Fresh' <=> Fresh)
    BY <1>1, FreshSame DEF RunInv
  <1>4. ASSUME NEW f \in File, NEW k \in Part, Get(w, f, k),
               exec' = [at |-> "send", node |-> w, msg |-> PartMsg(exec.wl, f, k)]
        PROVE  RunInv'
    <2> DEFINE a == [filename |-> f, k |-> k, node |-> w]
    <2>1. /\ Candidate(w, f, k) /\ assigned' = assigned \cup {a}
          /\ mayAdd' = mayAdd /\ finished' = finished /\ DOMAIN task' = DOMAIN task
      BY <1>2, <1>4, GetShape DEF Get, historyVars, DispatchInv
    <2>2. a.filename = f /\ a.k = k /\ a.node = w
      OBVIOUS
    <2>3. /\ exec'.at = "send" /\ exec'.node = w /\ exec'.msg = PartMsg(exec.wl, f, k)
          /\ exec'.msg.filename = f /\ exec'.msg.k = k
      BY <1>4 DEF PartMsg
    <2> HIDE DEF a, w
    <2>4. Fresh => Passing \/ main = "done"
      BY <1>1, <2>1, GetWhilePassing DEF w
    <2>5. main \notin {"iterate", "ask", "match"}
      BY <2>1 DEF RunInv, EmptyInv, Candidate
    <2>6. EmptyInv' /\ FinishedInv'
      BY <1>1, <1>3, <2>1, <2>4, <2>5 DEF RunInv, EmptyInv, FinishedInv, Did, Passing
    <2>7. \A v : (Holds(v)' => Holds(v)) /\ ~Handled(v)'
      BY <1>2, <2>3 DEF Holds, Handled, w
    <2>8. TokenInv'
      BY <1>1, <1>3, <2>1, <2>4, <2>7, TokenFrame DEF RunInv, TokenInv, Asking, Passing
    <2>9. EntryInv'
      <3> SUFFICES ASSUME Fresh, Passing, NEW e \in assigned' PROVE EntryOf(e)'
        BY <1>1, <1>3, <2>3 DEF EntryInv, Passing
      <3>1. CASE e = a
        <4>1. inbox[w] = <<>> /\ acks[w] = <<>> /\ exec.wl = workload
          BY <1>1, <1>2 DEF RunInv, TokenInv, TokenOf, OneMessage, EntryInv
        <4> QED
          BY <1>1, <2>2, <2>3, <3>1, <4>1 DEF EntryOf, Carries
      <3>2. CASE e \in assigned
        <4>1. EntryOf(e)
          BY <3>2 DEF RunInv, EntryInv
        <4>2. ~Holds(e.node)
          BY <1>1, <4>1 DEF EntryOf, Carries
        <4> QED
          BY <1>1, <2>7, <4>1, <4>2 DEF EntryOf, Did
      <3> QED
        BY <2>1, <3>1, <3>2
    <2>10. PartInv'
      <3> SUFFICES ASSUME Fresh, Passing, ~job.straggler PROVE PartInv'
        BY <1>1, <1>3 DEF PartInv, Passing
      <3>1. \A v \in Node : \A i \in DOMAIN inbox[v] : inbox[v][i].kind = "part" => HasEntry(v, inbox[v][i])
        BY DEF RunInv, PartInv
      <3>2. \A v \in Node : \A i \in DOMAIN inbox'[v] : inbox'[v][i].kind = "part" => HasEntry(v, inbox[v][i])'
        BY <1>1, <2>1, <3>1 DEF HasEntry
      <3>3. \E e \in assigned' : e.node = exec'.node /\ e.filename = exec'.msg.filename /\ e.k = exec'.msg.k
        BY <2>1, <2>2, <2>3
      <3> QED
        BY <1>1, <3>2, <3>3 DEF PartInv, HasEntry
    <2> QED
      BY <1>3, <2>6, <2>8, <2>9, <2>10 DEF RunInv
  <1>5. ASSUME GetNothing(w), exec' = Idle
        PROVE  RunInv'
    <2>1. UNCHANGED poolVars /\ exec'.at = "idle"
      BY <1>5 DEF GetNothing, Idle
    <2>2. EmptyInv' /\ FinishedInv'
      BY <1>1, <1>3, <2>1 DEF RunInv, EmptyInv, FinishedInv, Did, poolVars
    <2>3. \A v : ~Holds(v)' /\ ~Handled(v)'
      BY <1>5, <2>1 DEF Holds, Handled
    <2>4. TokenInv'
      BY <1>1, <1>3, <2>1, <2>3, TokenFrame DEF RunInv, TokenInv, poolVars
    <2>5. EntryInv'
      BY <1>1, <1>3, <2>1, <2>3 DEF RunInv, EntryInv, EntryOf, Did, Passing, poolVars
    <2>6. PartInv'
      BY <1>1, <1>3, <2>1 DEF RunInv, PartInv, Passing, HasEntry, poolVars
    <2> QED
      BY <1>3, <2>2, <2>4, <2>5, <2>6 DEF RunInv
  <1> QED
    BY <1>4, <1>5 DEF GetWorkload

LEMMA SendWorkloadRun ==
    ASSUME DispatchInv, RunInv, SendWorkload
    PROVE  RunInv'
  <1> DEFINE w == exec.node
             m == exec.msg
  <1>1. /\ exec.at = "send" /\ exec' = Idle /\ SendTo({w}, m)
        /\ UNCHANGED <<poolVars, job, main, workload, stop, acks, matched, status, processed>>
    BY DEF SendWorkload, schedVars
  <1>2. TypeOK /\ w \in Node /\ m \in Message /\ m.kind = "part" /\ exec'.at = "idle" /\ Holds(w)
    BY <1>1, ExecTypes, MessageKinds DEF DispatchInv, Idle, Holds
  <1> HIDE DEF w, m
  <1>3. \A v \in Node : IF v = w /\ Up(v) THEN inbox'[v] = Append(inbox[v], m) ELSE inbox'[v] = inbox[v]
    <2>1. {w} \in SUBSET Node /\ \A v : v \in {w} <=> v = w
      BY <1>2
    <2> QED
      BY <1>1, <1>2, <2>1, SendEffect
  <1>4. PassInv' /\ (Fresh' <=> Fresh)
    BY <1>1, FreshSame DEF RunInv
  <1>5. EmptyInv' /\ FinishedInv'
    BY <1>1, <1>4 DEF RunInv, EmptyInv, FinishedInv, Did, poolVars
  <1>6. \A v : ~Holds(v)' /\ ~Handled(v)'
    BY <1>1, <1>2 DEF Holds, Handled
  <1>7. Fresh => Passing \/ main = "done"
    BY <1>1, <1>2, HolderPhase DEF RunInv, TokenInv, Quiet, Asking, Passing, DispatchInv, TypeOK
  <1>8. Fresh /\ Passing => inbox[w] = <<>> /\ acks[w] = <<>>
    BY <1>2 DEF RunInv, TokenInv, TokenOf, OneMessage
  <1>9. Fresh /\ Passing /\ Up(w) => Len(inbox'[w]) = 1 /\ DOMAIN inbox'[w] = {1} /\ inbox'[w][1] = m
    <2> SUFFICES ASSUME inbox[w] = <<>> PROVE /\ Len(Append(inbox[w], m)) = 1 /\ DOMAIN Append(inbox[w], m) = {1}
                                              /\ Append(inbox[w], m)[1] = m
      BY <1>2, <1>3, <1>8
    <2>1. inbox[w] \in Seq(Message)
      BY <1>2 DEF TypeOK
    <2> QED
      BY <1>2, <2>1, SeqAppend, QueueLength
  <1>10. TokenInv'
    <2> SUFFICES ASSUME Fresh, Passing, NEW v \in Node PROVE OneMessage(v)'
      BY <1>1, <1>2, <1>4, <1>7 DEF TokenInv, TokenOf, Quiet, Asking, Passing
    <2>1. OneMessage(v)
      BY DEF RunInv, TokenInv, TokenOf
    <2>2. CASE v = w /\ Up(v)
      <3>1. Len(inbox'[v]) = 1 /\ acks'[v] = <<>> /\ Len(acks'[v]) = 0
        BY <1>1, <1>8, <1>9, <2>2, NoMessages
      <3> QED
        BY <1>6, <3>1 DEF OneMessage
    <2>3. CASE ~(v = w /\ Up(v))
      BY <1>1, <1>3, <1>6, <2>1, <2>3 DEF OneMessage
    <2> QED
      BY <2>2, <2>3
  <1>11. EntryInv'
    <2> SUFFICES ASSUME Fresh, Passing, NEW e \in assigned PROVE EntryOf(e)'
      BY <1>1, <1>2, <1>4 DEF EntryInv, Passing, poolVars
    <2>1. EntryOf(e) /\ e.node \in Node
      BY DEF RunInv, EntryInv, DispatchInv, PoolShape, Assignment
    <2>2. CASE e.node = w /\ Up(w)
      <3>1. m = PartMsg(workload, e.filename, e.k)
        BY <1>1, <1>2, <2>1, <2>2 DEF EntryOf, Carries, m
      <3> QED
        BY <1>1, <1>6, <1>8, <1>9, <2>2, <3>1 DEF EntryOf
    <2>3. CASE ~(e.node = w /\ Up(w))
      <3>1. inbox'[e.node] = inbox[e.node]
        BY <1>3, <2>1, <2>3
      <3> QED
        BY <1>1, <1>6, <2>1, <3>1 DEF EntryOf, Did
    <2> QED
      BY <2>2, <2>3
  <1>12. PartInv'
    <2> SUFFICES ASSUME Fresh, Passing, ~job.straggler, NEW v \in Node,
                        NEW i \in DOMAIN inbox'[v], inbox'[v][i].kind = "part"
                 PROVE  \E e \in assigned : e.node = v /\ e.filename = inbox'[v][i].filename /\ e.k = inbox'[v][i].k
      BY <1>1, <1>2, <1>4 DEF PartInv, Passing, HasEntry, poolVars
    <2>1. CASE v = w /\ Up(w)
      BY <1>1, <1>9, <2>1 DEF RunInv, PartInv, HasEntry, w, m
    <2>2. CASE ~(v = w /\ Up(w))
      <3>1. inbox'[v] = inbox[v]
        BY <1>3, <2>2
      <3> QED
        BY <3>1 DEF RunInv, PartInv, HasEntry
    <2> QED
      BY <2>1, <2>2
  <1> QED
    BY <1>4, <1>5, <1>10, <1>11, <1>12 DEF RunInv
-----------------------------------------------------------------------------
(* The workers and the other threads                                       *)

LEMMA ProcessRequestRun ==
    ASSUME DispatchInv, RunInv, NEW w \in Node, ProcessRequest(w)
    PROVE  RunInv'
  <1> DEFINE m == Head(inbox[w])
             r == Response(w, m)
  <1>1. /\ Up(w) /\ inbox[w] # <<>>
        /\ acks' = [acks EXCEPT ![w] = Append(@, r)]
        /\ processed' = IF m.kind = "part"
                        THEN processed \cup {[wl |-> m.wl, filename |-> m.filename, k |-> m.k]}
                        ELSE processed
        /\ inbox' = [inbox EXCEPT ![w] = Tail(@)]
        /\ UNCHANGED <<poolVars, job, main, workload, stop, exec, matched, status>>
    BY DEF ProcessRequest, schedVars
  <1>2. TypeOK /\ inbox[w] \in Seq(Message) /\ acks[w] \in Seq(Reply)
    BY DEF DispatchInv, TypeOK
  <1>3. /\ m \in Message /\ 1 \in DOMAIN inbox[w] /\ m = inbox[w][1]
        /\ DOMAIN Tail(inbox[w]) = 1 .. Len(inbox[w]) - 1
        /\ \A i \in DOMAIN Tail(inbox[w]) : i + 1 \in DOMAIN inbox[w] /\ Tail(inbox[w])[i] = inbox[w][i + 1]
    BY <1>1, <1>2, SeqTail
  <1>4. r \in Reply /\ (r.kind = "files" <=> m.kind = "match")
    BY <1>2, <1>3, ResponseTypes
  <1> HIDE DEF r
  <1>5. /\ inbox'[w] = Tail(inbox[w]) /\ acks'[w] = Append(acks[w], r)
        /\ \A v \in Node \ {w} : inbox'[v] = inbox[v] /\ acks'[v] = acks[v]
    BY <1>1, <1>2 DEF TypeOK
  <1>6. PassInv' /\ (Fresh' <=> Fresh)
    BY <1>1, FreshSame DEF RunInv
  <1>7. processed \subseteq processed'
    BY <1>1
  <1>8. EmptyInv' /\ FinishedInv'
    BY <1>1, <1>6, <1>7 DEF RunInv, EmptyInv, FinishedInv, Did, poolVars
  <1>9. Fresh /\ Passing => acks[w] = <<>> /\ inbox'[w] = <<>> /\ ~Holds(w)
    <2> SUFFICES ASSUME Fresh, Passing PROVE acks[w] = <<>> /\ inbox'[w] = <<>> /\ ~Holds(w)
      OBVIOUS
    <2>1. Len(inbox[w]) + Len(acks[w]) <= 1 /\ ~Holds(w)
      BY <1>1 DEF RunInv, TokenInv, TokenOf, OneMessage
    <2>2. acks[w] = <<>> /\ Tail(inbox[w]) = <<>>
      BY <1>1, <1>2, <2>1, OnlyMessage
    <2> QED
      BY <1>5, <2>1, <2>2
  <1>10. ASSUME Fresh, NEW v \in Node PROVE TokenOf(v)'
    <2>1. TokenOf(v) /\ (Holds(v)' <=> Holds(v)) /\ (Handled(v)' <=> Handled(v))
      BY <1>1, <1>10 DEF RunInv, TokenInv, Holds, Handled
    <2>2. CASE v = w
      <3>1. ~Quiet /\ (main = "wait" => w \notin matched /\ w \in mayAdd)
        BY <1>1, <2>1, <2>2 DEF TokenOf, Silent
      <3>2. Passing => OneMessage(w)'
        <4> SUFFICES ASSUME Passing PROVE OneMessage(w)'
          OBVIOUS
        <4>1. Len(Append(acks[w], r)) = 1
          BY <1>2, <1>4, <1>9, <1>10, NoMessages, QueueLength
        <4>2. Len(acks'[w]) = 1 /\ Len(inbox'[w]) = 0
          BY <1>5, <1>9, <1>10, <4>1, NoMessages
        <4> QED
          BY <1>9, <1>10, <2>1, <2>2, <4>2 DEF OneMessage
      <3>3. Asking /\ job.local.use => MatchLast(w)'
        <4> SUFFICES ASSUME MatchLast(w) PROVE MatchLast(w)'
          BY <2>1, <2>2 DEF TokenOf
        <4>1. ~Answered(w) /\ ~Handled(w)
          BY <1>1 DEF MatchLast
        <4>2. OnlyLast(inbox'[w], "match") /\ (m.kind = "match" => inbox'[w] = <<>>)
          BY <1>1, <1>2, <1>5, OnlyLastTail DEF MatchLast
        <4>3. OnlyLast(acks'[w], "files") /\ (Answered(w)' => m.kind = "match")
          BY <1>2, <1>4, <1>5, <4>1, OnlyLastAppend, HasAppend DEF Answered
        <4> QED
          BY <2>1, <2>2, <4>1, <4>2, <4>3 DEF MatchLast
      <3> QED
        BY <1>1, <2>2, <3>1, <3>2, <3>3 DEF TokenOf, Quiet, Asking, Passing, poolVars
    <2>3. CASE v # w
      BY <1>1, <1>5, <2>1, <2>3, TokenFrame DEF poolVars
    <2> QED
      BY <2>2, <2>3
  <1>11. TokenInv'
    BY <1>1, <1>6, <1>10 DEF RunInv, TokenInv, Asking
  <1>12. EntryInv'
    <2> SUFFICES ASSUME Fresh, Passing, NEW e \in assigned PROVE EntryOf(e)'
      BY <1>1, <1>6 DEF RunInv, EntryInv, Passing, poolVars
    <2>1. EntryOf(e) /\ e.node \in Node
      BY DEF RunInv, EntryInv, DispatchInv, PoolShape, Assignment
    <2>2. CASE e.node = w
      <3>1. m = PartMsg(workload, e.filename, e.k)
        BY <1>3, <2>1, <2>2 DEF EntryOf
      <3>2. m.kind = "part" /\ m.wl = workload /\ m.filename = e.filename /\ m.k = e.k
        BY <3>1 DEF PartMsg
      <3> HIDE DEF m
      <3>3. Did(e.filename, e.k)'
        BY <1>1, <3>2 DEF Did
      <3>4. DOMAIN inbox'[w] = {} /\ ~Holds(w)'
        BY <1>1, <1>9 DEF Holds
      <3> QED
        BY <2>2, <3>3, <3>4 DEF EntryOf
    <2>3. CASE e.node # w
      <3>1. /\ inbox'[e.node] = inbox[e.node] /\ acks'[e.node] = acks[e.node]
            /\ Did(e.filename, e.k) => Did(e.filename, e.k)'
        BY <1>1, <1>5, <1>7, <2>1, <2>3, DidMore
      <3> QED
        BY <1>1, <2>1, <3>1 DEF EntryOf, Carries, Holds
    <2> QED
      BY <2>2, <2>3
  <1>13. PartInv'
    <2> SUFFICES ASSUME Fresh, Passing, ~job.straggler PROVE PartInv'
      BY <1>1, <1>6 DEF PartInv, Passing
    <2>1. DOMAIN inbox'[w] = {}
      BY <1>9
    <2>2. ASSUME NEW v \in Node, NEW i \in DOMAIN inbox'[v]
          PROVE  v # w /\ inbox'[v] = inbox[v]
      BY <1>5, <2>1, <2>2
    <2> QED
      BY <1>1, <2>2 DEF RunInv, PartInv, HasEntry, Up, poolVars
  <1> QED
    BY <1>6, <1>8, <1>11, <1>12, <1>13 DEF RunInv

LEMMA FailRun ==
    ASSUME DispatchInv, AllUp', RunInv, NEW w \in Node, Fail(w)
    PROVE  RunInv'
  <1>1. PICK n \in 0 .. Len(acks[w]) : acks' = [acks EXCEPT ![w] = SubSeq(@, 1, n)]
    BY DEF Fail
  <1>2. /\ Up(w)
        /\ status' = [status EXCEPT ![w] = "dead"]
        /\ inbox' = [inbox EXCEPT ![w] = <<>>]
        /\ UNCHANGED <<poolVars, job, main, workload, stop, exec, matched, processed>>
    BY DEF Fail, schedVars
  <1>3. TypeOK /\ acks[w] \in Seq(Reply) /\ inbox[w] \in Seq(Message) /\ status'[w] = "dead"
    BY <1>2 DEF DispatchInv, TypeOK
  <1>4. ~job.local.use
    BY <1>2, <1>3 DEF AllUp, Up
  <1>5. /\ inbox'[w] = <<>> /\ acks'[w] = SubSeq(acks[w], 1, n)
        /\ \A v \in Node \ {w} : inbox'[v] = inbox[v] /\ acks'[v] = acks[v] /\ status'[v] = status[v]
    BY <1>1, <1>2, <1>3 DEF TypeOK
  <1>6. /\ Len(SubSeq(acks[w], 1, n)) = n /\ Len(acks[w]) \in Nat /\ Len(inbox[w]) \in Nat /\ n <= Len(acks[w])
        /\ acks[w] = <<>> => SubSeq(acks[w], 1, n) = <<>>
    BY <1>1, <1>3, QueueLength
  <1>7. PassInv' /\ (Fresh' <=> Fresh)
    BY <1>2, FreshSame DEF RunInv
  <1>8. EmptyInv' /\ FinishedInv'
    BY <1>2, <1>7 DEF RunInv, EmptyInv, FinishedInv, Did, poolVars
  <1>9. ASSUME Fresh, NEW v \in Node PROVE TokenOf(v)'
    <2>1. TokenOf(v) /\ (Holds(v)' <=> Holds(v)) /\ (Handled(v)' <=> Handled(v))
      BY <1>2, <1>9 DEF RunInv, TokenInv, Holds, Handled
    <2>2. CASE v = w
      <3>1. Quiet => Silent(w)'
        BY <1>5, <1>6, <2>1, <2>2 DEF TokenOf, Silent
      <3>2. Passing => OneMessage(w)'
        <4>1. Passing => Len(inbox[w]) + Len(acks[w]) <= 1 /\ (Holds(w) => acks[w] = <<>>)
          BY <2>1, <2>2 DEF TokenOf, OneMessage
        <4>2. Passing => Len(<<>>) + Len(SubSeq(acks[w], 1, n)) <= 1
          BY <1>3, <4>1, PrefixLength
        <4> QED
          BY <1>5, <1>6, <2>1, <2>2, <4>1, <4>2 DEF OneMessage
      <3> QED
        BY <1>2, <1>4, <2>2, <3>1, <3>2 DEF TokenOf, Quiet, Asking, Passing, DispatchInv, ModeInv
    <2>3. CASE v # w
      BY <1>2, <1>5, <2>1, <2>3, TokenFrame DEF poolVars
    <2> QED
      BY <2>2, <2>3
  <1>10. TokenInv'
    BY <1>2, <1>4, <1>7, <1>9 DEF TokenInv
  <1>11. EntryInv'
    <2> SUFFICES ASSUME Fresh, Passing, NEW e \in assigned PROVE EntryOf(e)'
      BY <1>2, <1>7 DEF RunInv, EntryInv, Passing, poolVars
    <2>1. EntryOf(e) /\ e.node \in Node
      BY DEF RunInv, EntryInv, DispatchInv, PoolShape, Assignment
    <2>2. acks'[e.node] # <<>> => acks[e.node] # <<>>
      BY <1>5, <1>6, <2>1
    <2>3. inbox'[e.node] = inbox[e.node] \/ DOMAIN inbox'[e.node] = {}
      BY <1>5, <2>1
    <2> QED
      BY <1>2, <2>1, <2>2, <2>3 DEF EntryOf, Carries, Did, Holds
  <1>12. PartInv'
    <2>1. \A v \in Node : inbox'[v] = inbox[v] \/ DOMAIN inbox'[v] = {}
      BY <1>5
    <2>2. exec.at = "send" /\ Up(exec.node)' => Up(exec.node)
      <3>1. exec.at = "send" => exec.node \in Node
        BY <1>3, ExecTypes DEF Idle
      <3> QED
        BY <1>2, <1>5, <3>1 DEF Up
    <2> QED
      BY <1>2, <1>7, <2>1, <2>2 DEF RunInv, PartInv, Passing, HasEntry, poolVars, Up
  <1> QED
    BY <1>7, <1>8, <1>10, <1>11, <1>12 DEF RunInv

(* Elements of assigned_ are taken back.                                   *)
LEMMA TakeBackRun ==
    ASSUME DispatchInv, RunInv, NEW S \in SUBSET assigned, Mark(S, Available), assigned' = assigned \ S,
           mayAdd' = mayAdd, finished' = finished,
           UNCHANGED <<job, main, workload, stop, exec, inbox, acks, matched, processed>>,
           job.straggler \/ (\E w \in Node : ~Up(w) /\ ~Up(w)' /\ S = EntriesOf(w)),
           \A v \in Node : Up(v)' => Up(v)
    PROVE  RunInv'
  <1>1. PassInv' /\ (Fresh' <=> Fresh)
    BY FreshSame DEF RunInv
  <1>2. DOMAIN task' \subseteq DOMAIN task
    BY MarkShape DEF DispatchInv
  <1>3. EmptyInv' /\ FinishedInv'
    BY <1>1, <1>2 DEF RunInv, EmptyInv, FinishedInv, Did
  <1>4. \A v : (Holds(v)' <=> Holds(v)) /\ (Handled(v)' <=> Handled(v))
    BY DEF Holds, Handled
  <1>5. TokenInv'
    BY <1>1, <1>4, TokenFrame DEF RunInv, TokenInv, Asking
  <1>6. EntryInv'
    BY <1>1 DEF RunInv, EntryInv, EntryOf, Holds, Carries, Did, Passing
  <1>7. PartInv'
    <2> SUFFICES ASSUME Fresh, Passing, ~job.straggler PROVE PartInv'
      BY <1>1 DEF PartInv, Passing
    <2>1. PICK w \in Node : ~Up(w) /\ ~Up(w)' /\ S = EntriesOf(w)
      OBVIOUS
    <2>2. DOMAIN inbox[w] = {}
      BY <2>1 DEF DispatchInv, MatchInv, MatchOf
    <2>3. ASSUME NEW v, v # w, NEW m, HasEntry(v, m) PROVE HasEntry(v, m)'
      BY <2>1, <2>3 DEF HasEntry, EntriesOf
    <2>4. ASSUME NEW v \in Node, NEW i \in DOMAIN inbox[v], inbox[v][i].kind = "part"
          PROVE  HasEntry(v, inbox[v][i])'
      <3>1. v # w /\ HasEntry(v, inbox[v][i])
        BY <2>2, <2>4 DEF RunInv, PartInv
      <3>2. \A m : HasEntry(v, m) => HasEntry(v, m)'
        BY <2>3, <3>1
      <3> QED
        BY <3>1, <3>2 DEF HasEntry
    <2>5. ASSUME exec.at = "send", Up(exec.node)' PROVE HasEntry(exec.node, exec.msg)'
      <3>1. exec.node \in Node
        BY <2>5, ExecTypes DEF DispatchInv, Idle
      <3>2. exec.node # w /\ HasEntry(exec.node, exec.msg)
        BY <2>1, <2>5, <3>1 DEF RunInv, PartInv, Up
      <3>3. \A v, m : v # w /\ HasEntry(v, m) => HasEntry(v, m)'
        BY <2>3
      <3> QED
        BY <3>2, <3>3 DEF HasEntry
    <2> QED
      BY <2>4, <2>5 DEF PartInv
  <1> QED
    BY <1>1, <1>3, <1>5, <1>6, <1>7 DEF RunInv

LEMMA RunStep == DispatchInv /\ AllUp /\ AllUp' /\ RunInv /\ [Next]_vars => RunInv'
  <1> SUFFICES ASSUME DispatchInv, AllUp, AllUp', RunInv, [Next]_vars PROVE RunInv'
    OBVIOUS
  <1>1. ASSUME UNCHANGED <<poolVars, job, main, workload, stop, exec, inbox, acks, matched, processed>>,
               \A v \in Node : Up(v)' => Up(v)
        PROVE  RunInv'
    <2>1. PassInv' /\ (Fresh' <=> Fresh)
      BY <1>1, FreshSame DEF RunInv
    <2>2. EmptyInv' /\ FinishedInv'
      BY <1>1, <2>1 DEF RunInv, EmptyInv, FinishedInv, Did, poolVars
    <2>3. \A v : (Holds(v)' <=> Holds(v)) /\ (Handled(v)' <=> Handled(v))
      BY <1>1 DEF Holds, Handled
    <2>4. TokenInv'
      BY <1>1, <2>1, <2>3, TokenFrame DEF RunInv, TokenInv, Asking, poolVars
    <2>5. EntryInv'
      BY <1>1, <2>1 DEF RunInv, EntryInv, EntryOf, Holds, Carries, Did, Passing, poolVars
    <2>6. PartInv'
      <3>1. exec.at = "send" => exec.node \in Node
        BY ExecTypes DEF DispatchInv, Idle
      <3> QED
        BY <1>1, <2>1, <3>1 DEF RunInv, PartInv, Passing, HasEntry, poolVars
    <2> QED
      BY <2>1, <2>2, <2>4, <2>5, <2>6 DEF RunInv
  <1>2. CASE UNCHANGED vars
    BY <1>1, <1>2 DEF vars, schedVars, netVars, Up
  <1>3. CASE MainThread
    BY <1>3, StartDispatchRun, MatchAndAddRun, AskWorkersRun, WaitMatchedRun, SendEmptyRun, PollRun,
       EndIterateRun DEF MainThread
  <1>4. CASE ExecThread
    BY <1>4, DropResponseRun, PickResponseRun, AddLocalFilesRun, FinishWorkloadRun, CopyWorkloadRun,
       GetWorkloadRun, SendWorkloadRun DEF ExecThread
  <1>5. CASE KillStraggler
    <2>1. PICK late \in SUBSET assigned : Mark(late, Available) /\ assigned' = assigned \ late
      BY <1>5 DEF KillStraggler, RemoveStraggler
    <2>2. /\ mayAdd' = mayAdd /\ finished' = finished /\ job.straggler
          /\ UNCHANGED <<job, main, workload, stop, exec, inbox, acks, matched, status, processed>>
      BY <1>5 DEF KillStraggler, RemoveStraggler, historyVars, schedVars, netVars
    <2>3. \A v \in Node : Up(v)' => Up(v)
      BY <2>2 DEF Up
    <2> QED
      BY <2>1, <2>2, <2>3, TakeBackRun
  <1>6. ASSUME NEW w \in Node, HandleFailure(w) PROVE RunInv'
    <2>1. /\ status[w] = "dead" /\ status' = [status EXCEPT ![w] = "reset"]
          /\ Mark(EntriesOf(w), Available) /\ assigned' = assigned \ EntriesOf(w)
          /\ mayAdd' = mayAdd /\ finished' = finished
          /\ UNCHANGED <<job, main, workload, stop, exec, inbox, acks, matched, processed>>
      BY <1>6 DEF HandleFailure, Reset, schedVars, historyVars
    <2>2. EntriesOf(w) \in SUBSET assigned
      BY DEF EntriesOf
    <2>3. ~Up(w) /\ ~Up(w)' /\ \A v \in Node : Up(v)' => Up(v)
      BY <2>1 DEF DispatchInv, TypeOK, Up
    <2>4. \E v \in Node : ~Up(v) /\ ~Up(v)' /\ EntriesOf(w) = EntriesOf(v)
      BY <2>3
    <2> QED
      BY <2>1, <2>2, <2>3, <2>4, TakeBackRun
  <1>7. ASSUME NEW w \in Node, RemoveNode(w) PROVE RunInv'
    <2>1. /\ status' = [status EXCEPT ![w] = "removed"]
          /\ UNCHANGED <<poolVars, job, main, workload, stop, exec, inbox, acks, matched, processed>>
      BY <1>7 DEF RemoveNode, schedVars
    <2>2. \A v \in Node : Up(v)' => Up(v)
      BY <2>1 DEF DispatchInv, TypeOK, Up
    <2> QED
      BY <1>1, <2>1, <2>2
  <1> QED
    BY <1>2, <1>3, <1>4, <1>5, <1>6, <1>7, ProcessRequestRun, FailRun DEF Next
-----------------------------------------------------------------------------
(* The invariant of a run over the data, for every set of files and        *)
(* workers and every job.                                                  *)
THEOREM RunInvariant == LocalWorkersLive /\ Spec => []RunInv
  <1>1. Init => AllUp
    BY DEF Init, AllUp, Up
  <1>2. ASSUME LocalWorkersLive PROVE DispatchInv /\ AllUp /\ [Next]_vars => AllUp'
    BY <1>2, AllUpStep
  <1>3. ASSUME LocalWorkersLive PROVE Spec => []RunInv
    BY <1>1, <1>2, <1>3, DispatchInvariant, RunInit, RunStep, PTL DEF Spec
  <1> QED
    BY <1>3

(* When the main thread sees the dispatch finished, the workers have       *)
(* processed every part of every file of the pass, in the first pass and   *)
(* in all passes over files the workers match themselves: deaths, stops    *)
(* and interleavings of the scheduler's threads lose nothing.              *)
THEOREM RunProcessed == LocalWorkersLive /\ Spec => []ProcessedUnlessLateAck
  <1>1. PoolInv /\ RunInv => ProcessedUnlessLateAck
    <2> SUFFICES ASSUME PoolInv, RunInv, Fresh, main = "poll", IsFinished, NEW f \in added, NEW k \in Part
                 PROVE  Did(f, k)
      BY DEF ProcessedUnlessLateAck, FinishedMeansProcessed, Fresh, Did
    <2>1. <<f, k>> \in finished
      BY DEF PoolInv, WantedOrFinished, IsFinished
    <2> QED
      BY <2>1 DEF RunInv, FinishedInv
  <1> QED
    BY <1>1, DispatchPool, RunInvariant, PTL

(* And then no worker has, or gets, a part to process any more, if nothing *)
(* was taken from a straggler.                                             *)
THEOREM RunQuiet == LocalWorkersLive /\ Spec => []QuietWhenFinished
  <1>1. RunInv => QuietWhenFinished
    BY DEF RunInv, PartInv, HasEntry, QuietWhenFinished, IsFinished, Fresh, Passing
  <1> QED
    BY <1>1, RunInvariant, PTL
=============================================================================
