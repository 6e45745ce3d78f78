------------------------- MODULE TrainingRunProofs -------------------------
(***************************************************************************)
(* A job that goes on from a saved model neither skips nor repeats a data  *)
(* pass, and has all parts of one model, whichever jobs ran before it,     *)
(* with how many servers, and wherever they were killed, unless one was    *)
(* killed while it saved.                                                  *)
(***************************************************************************)
EXTENDS TrainingRun, TLAPS

Spec == JobsInit /\ [][JobsNext]_runVars

Part == [of : Nat, passes : Seq(Int), whole : BOOLEAN]
EndsWith(passes, i) == passes # << >> /\ Last(passes) = i

RunTypeOK ==
    /\ conf \in Confs /\ iter \in Int /\ iter >= -1
    /\ pc \in {"start", "load", "predict", "train", "save", "final", "done", "dead"}
    /\ todo \subseteq Ranks /\ writing \subseteq todo
    /\ model \in [Ranks -> Part]
    /\ files = [f \in DOMAIN files |-> files[f]]
    /\ \A f \in DOMAIN files : f = <<f[1], f[2]>> /\ files[f] \in Part

\* The command is that of the place where Run is, and when Run does not wait all have answered.
CmdInv ==
    /\ pc = "load" => cmd = LoadCmd(iter) /\ writing = {}
    /\ pc = "save" => cmd = SaveCmd(iter) /\ iter >= 0
    /\ pc = "final" => cmd = SaveCmd(-1)
    /\ pc = "train" => iter >= 0
    /\ pc \in {"start", "train", "predict", "done"} => todo = {}

\* What is saved for an iteration ends with the data pass of that iteration, and so does a model
\* that is trained on.
PassInv ==
    /\ \A f \in DOMAIN files : f[1] >= 0 => EndsWith(files[f].passes, f[1])
    /\ pc = "train" /\ iter > 0 => \A s \in Ranks : EndsWith(model[s].passes, iter - 1)
    /\ pc = "save" => \A s \in Ranks : EndsWith(model[s].passes, iter)

\* The servers that have answered a load have the part that was saved.
LoadInv ==
    pc = "load" =>
        \A s \in Ranks \ todo : /\ <<iter, s>> \in DOMAIN files /\ model[s] = files[<<iter, s>>]
                                /\ torn \/ model[s].of = conf.servers

\* All servers have their part of one model.
OneModel ==
    \A s \in Ranks : model[s].of = conf.servers /\ model[s].passes = model[0].passes /\ model[s].whole

\* The files that the save under way has created.
Saving == IF pc = "save" THEN iter ELSE -1
Touched == IF pc \in {"save", "final"} THEN {<<Saving, s>> : s \in Ranks \ (todo \ writing)} ELSE {}

\* All other files are whole, and those of one iteration and one number of servers are parts of one
\* model; the new ones are parts of the model that is saved.
FilesInv ==
    /\ \A f \in DOMAIN files : f[2] \in 0 .. files[f].of - 1
    /\ \A f \in DOMAIN files \ Touched : files[f].whole
    /\ \A f, g \in DOMAIN files \ Touched :
          f[1] = g[1] /\ files[f].of = files[g].of => files[f].passes = files[g].passes
    /\ \A f \in Touched : /\ f \in DOMAIN files /\ files[f].of = conf.servers
                          /\ files[f].passes = model[0].passes
                          /\ f[2] \notin writing => files[f].whole

RunInv ==
    /\ RunTypeOK /\ CmdInv /\ PassInv /\ LoadInv
    /\ ~torn => FilesInv /\ (pc \in {"start", "train", "predict", "save", "final"} => OneModel)
-----------------------------------------------------------------------------
LEMMA Commands ==
    ASSUME NEW i \in Int, i >= -1
    PROVE  /\ IsLoad(LoadCmd(i)) /\ ~IsSave(LoadCmd(i)) /\ IterOf(LoadCmd(i)) = i
           /\ ~IsLoad(SaveCmd(i)) /\ IsSave(SaveCmd(i)) /\ IterOf(SaveCmd(i)) = i
<1>. DEFINE k == i + 1
<1>1. k \in Nat /\ LoadCmd(i) = 2 + k * 65536 /\ SaveCmd(i) = 4 + k * 65536
  BY DEF LoadCmd, SaveCmd, Bit16
<1>2. i = k - 1
  OBVIOUS
<1>. HIDE DEF k
<1>3. /\ (2 + k * 65536) \div 2 = 1 + k * 32768 /\ (2 + k * 65536) \div 4 = k * 16384
      /\ (4 + k * 65536) \div 2 = 2 + k * 32768 /\ (4 + k * 65536) \div 4 = 1 + k * 16384
  BY <1>1
<1>4. /\ (1 + k * 32768) % 2 = 1 /\ (k * 16384) % 2 = 0
      /\ (2 + k * 32768) % 2 = 0 /\ (1 + k * 16384) % 2 = 1
  BY <1>1
<1>5. (2 + k * 65536) \div 65536 = k /\ (4 + k * 65536) \div 65536 = k
  BY <1>1
<1>6. IsLoad(LoadCmd(i)) /\ ~IsSave(LoadCmd(i)) /\ ~IsLoad(SaveCmd(i)) /\ IsSave(SaveCmd(i))
  BY <1>1, <1>3, <1>4 DEF IsLoad, IsSave
<1>. QED  BY <1>1, <1>2, <1>5, <1>6 DEF IterOf, Bit16

LEMMA AppendEnds == \A p \in Seq(Int), i \in Int : EndsWith(Append(p, i), i) /\ Append(p, i) \in Seq(Int)
  BY DEF EndsWith, Last

LEMMA ConfTypes ==
    ASSUME ConfsOK, NEW c \in Confs
    PROVE  /\ c.servers \in Nat /\ 0 \in 0 .. c.servers - 1
           /\ c.load_iter \in Int /\ c.max_data_pass \in Int /\ c.max_data_pass >= 0
<1>1. c.servers \in Nat /\ c.servers > 0 /\ c.load_iter \in Int /\ c.max_data_pass \in Nat
  BY DEF ConfsOK
<1>. QED  BY <1>1

LEMMA RanksNat == ASSUME ConfsOK, conf \in Confs PROVE conf.servers \in Nat /\ 0 \in Ranks /\ Ranks \subseteq Nat
  BY DEF ConfsOK, Ranks

\* Outside of a save, and when all servers have answered it, all files are whole and agree.
Settled ==
    /\ \A f \in DOMAIN files : f[2] \in 0 .. files[f].of - 1
    /\ \A f \in DOMAIN files : files[f].whole
    /\ \A f, g \in DOMAIN files : f[1] = g[1] /\ files[f].of = files[g].of => files[f].passes = files[g].passes

LEMMA FilesSettle ==
    ASSUME ConfsOK, RunTypeOK, FilesInv, pc \in {"save", "final"} => todo = {}
    PROVE  Settled
<1>1. CASE pc \notin {"save", "final"}
  BY <1>1 DEF FilesInv, Settled, Touched
<1>2. CASE pc \in {"save", "final"}
  <2>1. todo = {} /\ writing = {} /\ conf.servers \in Nat /\ Ranks = 0 .. conf.servers - 1
    BY <1>2, RanksNat DEF RunTypeOK, Ranks
  <2>2. Touched = {<<Saving, s>> : s \in Ranks}
    BY <1>2, <2>1 DEF Touched
  <2>3. \A f \in DOMAIN files : files[f].whole
    BY <2>1 DEF FilesInv
  <2>4. ASSUME NEW f \in DOMAIN files, NEW g \in DOMAIN files, f[1] = g[1], files[f].of = files[g].of
        PROVE  files[f].passes = files[g].passes
    <3>1. CASE f \in Touched /\ g \in Touched
      BY <3>1 DEF FilesInv
    <3>2. CASE f \notin Touched /\ g \notin Touched
      BY <2>4, <3>2 DEF FilesInv
    <3>3. \A h \in DOMAIN files \ Touched : h[1] = Saving => files[h].of # conf.servers
      <4>1. SUFFICES ASSUME NEW h \in DOMAIN files \ Touched, h[1] = Saving, files[h].of = conf.servers
                     PROVE  FALSE
        OBVIOUS
      <4>2. h = <<h[1], h[2]>> /\ h[2] \in Ranks
        BY <2>1, <4>1 DEF RunTypeOK, FilesInv
      <4>. QED  BY <2>2, <4>1, <4>2
    <3>4. \A h \in Touched : h[1] = Saving /\ files[h].of = conf.servers
      BY <2>2 DEF FilesInv
    <3>. QED  BY <2>4, <3>1, <3>2, <3>3, <3>4
  <2>. QED  BY <2>3, <2>4 DEF FilesInv, Settled
<1>. QED  BY <1>1, <1>2

LEMMA SettledFiles ==
    ASSUME Settled, files' = files, Touched' = {}
    PROVE  FilesInv'
  BY DEF Settled, FilesInv

\* The head of the loop over the passes.
LEMMA LoopStep ==
    ASSUME ConfsOK, RunInv, NEW i \in Int, i >= 0, Loop(i), todo = {},
           conf' = conf, writing' = writing, files' = files, torn' = torn,
           model' \in [Ranks -> Part],
           i > 0 /\ i < conf.max_data_pass => \A s \in Ranks : EndsWith(model'[s].passes, i - 1),
           ~torn => OneModel'
    PROVE  RunInv'
<1>1. Ranks' = Ranks /\ writing = {}
  BY DEF Ranks, RunInv, RunTypeOK
<1>2. \/ pc' = "train" /\ i < conf.max_data_pass /\ todo' = {} /\ cmd' = cmd
      \/ pc' = "final" /\ cmd' = SaveCmd(-1) /\ todo' = Ranks
      \/ pc' = "done" /\ todo' = {} /\ cmd' = cmd
  BY DEF Loop, Submit
<1>3. iter' = i
  BY DEF Loop
<1>4. RunTypeOK'
  BY <1>1, <1>2, <1>3 DEF RunInv, RunTypeOK
<1>5. CmdInv'
  BY <1>2, <1>3 DEF CmdInv
<1>6. PassInv'
  BY <1>1, <1>2, <1>3 DEF RunInv, PassInv
<1>7. LoadInv'
  BY <1>2 DEF LoadInv
<1>8. ~torn => FilesInv'
  <2>1. ~torn => Settled
    BY FilesSettle DEF RunInv
  <2>2. Touched' = {}
    BY <1>1, <1>2 DEF Touched
  <2>. QED  BY <2>1, <2>2, SettledFiles
<1>. QED  BY <1>4, <1>5, <1>6, <1>7, <1>8 DEF RunInv

\* All but the loop: Run sends a command, or ends.
LEMMA StartStep ==
    ASSUME ConfsOK, RunInv, NEW c \in Confs, Start(c)
    PROVE  RunInv'
<1>1. /\ pc \in {"done", "dead"} /\ conf' = c /\ model' = NewModel(c.servers) /\ writing' = {}
      /\ pc' = "start" /\ iter' = 0 /\ todo' = {} /\ files' = files /\ torn' = torn
  BY DEF Start
<1>2. c.servers \in Nat /\ Ranks' = 0 .. c.servers - 1 /\ 0 \in Ranks'
  BY <1>1, ConfTypes DEF Ranks
<1>3. /\ model' \in [0 .. c.servers - 1 -> Part]
      /\ \A s \in 0 .. c.servers - 1 : model'[s] = [of |-> c.servers, passes |-> << >>, whole |-> TRUE]
  <2>1. << >> \in Seq(Int)
    OBVIOUS
  <2>2. [of |-> c.servers, passes |-> << >>, whole |-> TRUE] \in Part
    BY <1>2, <2>1 DEF Part
  <2>. QED  BY <1>1, <2>2 DEF NewModel
<1>4. RunTypeOK'
  BY <1>1, <1>2, <1>3 DEF RunInv, RunTypeOK
<1>5. CmdInv' /\ LoadInv'
  BY <1>1 DEF CmdInv, LoadInv
<1>6. PassInv'
  BY <1>1 DEF RunInv, PassInv
<1>7. ~torn => FilesInv'
  <2>1. ~torn => Settled
    BY <1>1, FilesSettle DEF RunInv
  <2>2. Touched' = {}
    BY <1>1 DEF Touched
  <2>. QED  BY <1>1, <2>1, <2>2, SettledFiles
<1>8. OneModel'
  BY <1>1, <1>2, <1>3 DEF OneModel
<1>. QED  BY <1>1, <1>4, <1>5, <1>6, <1>7, <1>8 DEF RunInv

LEMMA LoadModelStep ==
    ASSUME ConfsOK, RunInv, LoadModel
    PROVE  RunInv'
<1>1. /\ pc = "start" /\ conf' = conf /\ writing' = writing /\ model' = model /\ files' = files /\ torn' = torn
  BY DEF LoadModel
<1>2. todo = {} /\ writing = {} /\ Ranks' = Ranks /\ (~torn => OneModel)
  BY <1>1 DEF RunInv, CmdInv, RunTypeOK, Ranks
<1>3. ~torn => OneModel'
  BY <1>1, <1>2 DEF OneModel
<1>4. CASE Loop(0)
  <2>1. model' \in [Ranks -> Part]
    BY <1>1 DEF RunInv, RunTypeOK
  <2>. QED  BY <1>1, <1>2, <1>3, <1>4, <2>1, LoopStep
<1>5. CASE ~Loop(0)
  <2>1. /\ pc' \in {"load", "dead"} /\ iter' \in Int /\ iter' >= -1 /\ todo' \subseteq Ranks
        /\ pc' = "load" => cmd' = LoadCmd(iter') /\ todo' = Ranks
    <3>1. conf.load_iter \in Int /\ iter \in Int /\ iter >= -1
      BY ConfTypes DEF RunInv, RunTypeOK
    <3>2. CASE conf.in
      BY <1>5, <3>1, <3>2 DEF LoadModel, Submit
    <3>3. CASE ~conf.in
      BY <1>2, <1>5, <3>1, <3>3 DEF LoadModel
    <3>. QED  BY <3>2, <3>3
  <2>2. RunTypeOK'
    BY <1>1, <1>2, <2>1 DEF RunInv, RunTypeOK
  <2>3. CmdInv' /\ LoadInv'
    BY <1>1, <1>2, <2>1 DEF CmdInv, LoadInv
  <2>4. PassInv'
    BY <1>1, <2>1 DEF RunInv, PassInv
  <2>5. ~torn => FilesInv'
    <3>1. ~torn => Settled
      BY <1>1, FilesSettle DEF RunInv
    <3>2. Touched' = {}
      BY <2>1 DEF Touched
    <3>. QED  BY <1>1, <3>1, <3>2, SettledFiles
  <2>. QED  BY <1>1, <2>1, <2>2, <2>3, <2>4, <2>5 DEF RunInv
<1>. QED  BY <1>4, <1>5

\* All servers have loaded a part that was saved for the iteration, by as many servers.
LEMMA WaitLoadStep ==
    ASSUME ConfsOK, RunInv, WaitLoad
    PROVE  RunInv'
<1>1. /\ pc = "load" /\ todo = {} /\ conf' = conf /\ writing' = writing /\ model' = model
      /\ files' = files /\ torn' = torn
  BY DEF WaitLoad
<1>2. /\ writing = {} /\ Ranks' = Ranks /\ iter \in Int /\ iter >= -1 /\ model' \in [Ranks -> Part] /\ 0 \in Ranks
  BY <1>1, RanksNat DEF RunInv, RunTypeOK, Ranks
<1>3. \A s \in Ranks : /\ <<iter, s>> \in DOMAIN files /\ model[s] = files[<<iter, s>>]
                       /\ torn \/ model[s].of = conf.servers
  BY <1>1 DEF RunInv, LoadInv
<1>4. ~torn => Settled
  BY <1>1, FilesSettle DEF RunInv
<1>5. ~torn => OneModel'
  <2>1. SUFFICES ASSUME ~torn, NEW s \in Ranks
                 PROVE  model[s].of = conf.servers /\ model[s].passes = model[0].passes /\ model[s].whole
    BY <1>1, <1>2 DEF OneModel
  <2>. DEFINE f == <<iter, s>>
              g == <<iter, 0>>
  <2>2. f \in DOMAIN files /\ g \in DOMAIN files /\ f[1] = g[1]
    BY <1>2, <1>3
  <2>3. model[s] = files[f] /\ model[0] = files[g] /\ files[f].of = files[g].of /\ model[s].of = conf.servers
    BY <1>2, <1>3, <2>1
  <2>. HIDE DEF f, g
  <2>. QED  BY <1>4, <2>1, <2>2, <2>3 DEF Settled
<1>6. iter + 1 > 0 => \A s \in Ranks : EndsWith(model'[s].passes, (iter + 1) - 1)
  <2>1. iter >= 0 => \A s \in Ranks : <<iter, s>>[1] >= 0 /\ <<iter, s>>[1] = iter
    OBVIOUS
  <2>2. iter >= 0 => \A s \in Ranks : EndsWith(model[s].passes, iter)
    BY <1>3, <2>1 DEF RunInv, PassInv
  <2>. QED  BY <1>1, <1>2, <2>2
<1>7. CASE conf.predict
  <2>1. pc' = "predict" /\ iter' = iter /\ todo' = todo
    BY <1>7 DEF WaitLoad
  <2>2. RunTypeOK'
    BY <1>1, <1>2, <2>1 DEF RunInv, RunTypeOK
  <2>3. CmdInv' /\ LoadInv'
    BY <1>1, <2>1 DEF CmdInv, LoadInv
  <2>4. PassInv'
    BY <1>1, <2>1 DEF RunInv, PassInv
  <2>5. ~torn => FilesInv'
    <3>1. Touched' = {}
      BY <2>1 DEF Touched
    <3>. QED  BY <1>1, <1>4, <3>1, SettledFiles
  <2>. QED  BY <1>1, <1>5, <2>1, <2>2, <2>3, <2>4, <2>5 DEF RunInv
<1>8. CASE ~conf.predict
  <2>. DEFINE i == iter + 1
  <2>1. Loop(i) /\ i \in Int /\ i >= 0
    BY <1>2, <1>8 DEF WaitLoad
  <2>2. i > 0 => \A s \in Ranks : EndsWith(model'[s].passes, i - 1)
    BY <1>6
  <2>. HIDE DEF i
  <2>. QED  BY <1>1, <1>2, <1>5, <2>1, <2>2, LoopStep
<1>. QED  BY <1>7, <1>8

LEMMA IterateStep ==
    ASSUME ConfsOK, RunInv, Iterate
    PROVE  RunInv'
<1>1. /\ pc = "train" /\ conf' = conf /\ writing' = writing /\ files' = files /\ torn' = torn
      /\ model' = [s \in DOMAIN model |-> [model[s] EXCEPT !.passes = Append(@, iter)]]
  BY DEF Iterate
<1>2. /\ todo = {} /\ writing = {} /\ Ranks' = Ranks /\ iter \in Int /\ iter >= 0 /\ 0 \in Ranks
      /\ model \in [Ranks -> Part] /\ (~torn => OneModel)
  BY <1>1, RanksNat DEF RunInv, CmdInv, RunTypeOK, Ranks
<1>3. \A s \in Ranks : /\ model'[s] \in Part /\ model'[s].passes = Append(model[s].passes, iter)
                       /\ model'[s].of = model[s].of /\ model'[s].whole = model[s].whole
  <2>1. \A s \in Ranks : Append(model[s].passes, iter) \in Seq(Int)
    BY <1>2, AppendEnds DEF Part
  <2>. QED  BY <1>1, <1>2, <2>1 DEF Part
<1>4. model' \in [Ranks -> Part]
  BY <1>1, <1>2, <1>3
<1>5. \A s \in Ranks : EndsWith(model'[s].passes, iter)
  <2>1. \A s \in Ranks : EndsWith(Append(model[s].passes, iter), iter)
    BY <1>2, AppendEnds DEF Part
  <2>. QED  BY <1>3, <2>1
<1>6. ~torn => OneModel'
  BY <1>1, <1>2, <1>3 DEF OneModel
<1>7. CASE Loop(conf.max_data_pass)
  <2>. DEFINE i == conf.max_data_pass
  <2>1. i \in Int /\ i >= 0 /\ ~(i < conf.max_data_pass)
    BY ConfTypes DEF RunInv, RunTypeOK
  <2>. QED  BY <1>1, <1>2, <1>4, <1>6, <1>7, <2>1, LoopStep
<1>8. CASE Loop(iter + 1)
  <2>. DEFINE i == iter + 1
  <2>1. Loop(i) /\ i \in Int /\ i >= 0
    BY <1>2, <1>8
  <2>2. \A s \in Ranks : EndsWith(model'[s].passes, i - 1)
    BY <1>2, <1>5
  <2>. HIDE DEF i
  <2>. QED  BY <1>1, <1>2, <1>4, <1>6, <2>1, <2>2, LoopStep
<1>9. CASE pc' = "save" /\ cmd' = SaveCmd(iter) /\ todo' = Ranks /\ iter' = iter
  <2>1. RunTypeOK'
    BY <1>1, <1>2, <1>4, <1>9 DEF RunInv, RunTypeOK
  <2>2. CmdInv' /\ LoadInv'
    BY <1>2, <1>9 DEF CmdInv, LoadInv
  <2>3. PassInv'
    BY <1>1, <1>2, <1>5, <1>9 DEF RunInv, PassInv
  <2>4. ~torn => FilesInv'
    <3>1. ~torn => Settled
      BY <1>1, FilesSettle DEF RunInv
    <3>2. Touched' = {}
      BY <1>1, <1>2, <1>9 DEF Touched
    <3>. QED  BY <1>1, <3>1, <3>2, SettledFiles
  <2>. QED  BY <1>1, <1>6, <2>1, <2>2, <2>3, <2>4 DEF RunInv
<1>. QED  BY <1>7, <1>8, <1>9 DEF Iterate, Submit

LEMMA WaitSaveStep ==
    ASSUME ConfsOK, RunInv, WaitSave
    PROVE  RunInv'
<1>1. /\ pc \in {"save", "final"} /\ todo = {} /\ conf' = conf /\ writing' = writing /\ model' = model
      /\ files' = files /\ torn' = torn
  BY DEF WaitSave
<1>2. /\ Ranks' = Ranks /\ iter \in Int /\ iter >= -1 /\ model' \in [Ranks -> Part] /\ (~torn => OneModel)
  BY <1>1 DEF RunInv, RunTypeOK, Ranks
<1>3. ~torn => OneModel'
  BY <1>1, <1>2 DEF OneModel
<1>4. CASE pc = "save"
  <2>. DEFINE i == iter + 1
  <2>1. Loop(i) /\ i \in Int /\ i >= 0
    BY <1>2, <1>4 DEF WaitSave
  <2>2. \A s \in Ranks : EndsWith(model'[s].passes, i - 1)
    BY <1>1, <1>2, <1>4 DEF RunInv, PassInv
  <2>. HIDE DEF i
  <2>. QED  BY <1>1, <1>2, <1>3, <2>1, <2>2, LoopStep
<1>5. CASE pc = "final"
  <2>1. pc' = "done" /\ iter' = iter /\ todo' = todo
    BY <1>5 DEF WaitSave
  <2>2. RunTypeOK'
    BY <1>1, <1>2, <2>1 DEF RunInv, RunTypeOK
  <2>3. CmdInv' /\ LoadInv'
    BY <1>1, <2>1 DEF CmdInv, LoadInv
  <2>4. PassInv'
    BY <1>1, <2>1 DEF RunInv, PassInv
  <2>5. ~torn => FilesInv'
    <3>1. ~torn => Settled
      BY <1>1, FilesSettle DEF RunInv
    <3>2. Touched' = {}
      BY <2>1 DEF Touched
    <3>. QED  BY <1>1, <3>1, <3>2, SettledFiles
  <2>. QED  BY <1>1, <2>1, <2>2, <2>3, <2>4, <2>5 DEF RunInv
<1>. QED  BY <1>1, <1>4, <1>5

\* The job ends or is killed; while it saved only a torn one.
LEMMA EndStep ==
    ASSUME ConfsOK, RunInv, Predict \/ Die
    PROVE  RunInv'
<1>1. /\ pc' \in {"done", "dead"} /\ (pc' = "done" => pc = "predict")
      /\ conf' = conf /\ iter' = iter /\ cmd' = cmd /\ todo' = todo /\ writing' = writing /\ model' = model
      /\ files' = files /\ (~torn' => ~torn /\ pc \notin {"save", "final"})
  <2>1. CASE Predict
    BY <2>1 DEF Predict
  <2>2. CASE Die
    <3>1. torn' = (torn \/ pc \in {"save", "final"})
      BY <2>2 DEF Die
    <3>2. ~torn' => ~torn /\ pc \notin {"save", "final"}
      BY <3>1, Zenon
    <3>. QED  BY <2>2, <3>2 DEF Die
  <2>. QED  BY <2>1, <2>2
<1>2. RunTypeOK'
  BY <1>1 DEF RunInv, RunTypeOK, Ranks
<1>3. CmdInv' /\ LoadInv'
  BY <1>1 DEF RunInv, CmdInv, LoadInv
<1>4. PassInv'
  BY <1>1 DEF RunInv, PassInv
<1>5. ~torn' => FilesInv'
  <2>1. ~torn' => Settled
    BY <1>1, FilesSettle DEF RunInv
  <2>2. Touched' = {}
    BY <1>1 DEF Touched
  <2>. QED  BY <1>1, <2>1, <2>2, SettledFiles
<1>. QED  BY <1>1, <1>2, <1>3, <1>4, <1>5 DEF RunInv

\* Which command a server may be answering.
LEMMA Answering ==
    ASSUME RunInv, pc # "dead", todo # {}
    PROVE  \/ pc = "load" /\ IsLoad(cmd) /\ ~IsSave(cmd) /\ IterOf(cmd) = iter /\ writing = {}
           \/ pc \in {"save", "final"} /\ ~IsLoad(cmd) /\ IterOf(cmd) = Saving
<1>1. pc \in {"load", "save", "final"} /\ iter \in Int /\ iter >= -1
  BY DEF RunInv, RunTypeOK, CmdInv
<1>2. CASE pc = "load"
  BY <1>1, <1>2, Commands DEF RunInv, CmdInv
<1>3. CASE pc = "save"
  BY <1>1, <1>3, Commands DEF RunInv, CmdInv, Saving
<1>4. CASE pc = "final"
  <2>1. -1 \in Int /\ -1 >= -1
    OBVIOUS
  <2>. QED  BY <1>4, <2>1, Commands DEF RunInv, CmdInv, Saving
<1>. QED  BY <1>1, <1>2, <1>3, <1>4

LEMMA ServeLoadStep ==
    ASSUME ConfsOK, RunInv, NEW s \in Ranks, ServeLoad(s)
    PROVE  RunInv'
<1>1. /\ pc # "dead" /\ IsLoad(cmd) /\ s \in todo
      /\ conf' = conf /\ iter' = iter /\ cmd' = cmd /\ writing' = writing /\ files' = files
  BY DEF ServeLoad
<1>2. pc = "load" /\ FileOf(cmd, s) = <<iter, s>> /\ writing = {} /\ Ranks' = Ranks
  BY <1>1, Answering DEF FileOf, Ranks
<1>. DEFINE f == <<iter, s>>
<1>3. CASE f \in DOMAIN files
  <2>1. /\ model' = [model EXCEPT ![s] = files[f]] /\ todo' = todo \ {s} /\ pc' = pc
        /\ torn' = (torn \/ files[f].of # conf.servers)
    BY <1>2, <1>3 DEF ServeLoad
  <2>2. files[f] \in Part /\ model \in [Ranks -> Part]
    BY <1>3 DEF RunInv, RunTypeOK
  <2>3. model' \in [Ranks -> Part] /\ model'[s] = files[f] /\ \A r \in Ranks : r # s => model'[r] = model[r]
    BY <2>1, <2>2
  <2>4. RunTypeOK'
    BY <1>1, <1>2, <2>1, <2>3 DEF RunInv, RunTypeOK
  <2>5. CmdInv' /\ PassInv'
    BY <1>1, <1>2, <2>1 DEF RunInv, CmdInv, PassInv
  <2>6. LoadInv'
    BY <1>1, <1>2, <1>3, <2>1, <2>3 DEF RunInv, LoadInv
  <2>7. ~torn' => FilesInv'
    <3>1. ~torn' => Settled
      BY <1>2, <2>1, FilesSettle DEF RunInv
    <3>2. Touched' = {}
      BY <1>2, <2>1 DEF Touched
    <3>. QED  BY <1>1, <3>1, <3>2, SettledFiles
  <2>. QED  BY <1>2, <2>1, <2>4, <2>5, <2>6, <2>7 DEF RunInv
<1>4. CASE f \notin DOMAIN files
  <2>1. pc' = "dead" /\ model' = model /\ todo' = todo /\ torn' = torn
    BY <1>2, <1>4 DEF ServeLoad
  <2>2. RunTypeOK'
    BY <1>1, <1>2, <2>1 DEF RunInv, RunTypeOK
  <2>3. CmdInv' /\ PassInv' /\ LoadInv'
    BY <1>1, <2>1 DEF RunInv, CmdInv, PassInv, LoadInv
  <2>4. ~torn' => FilesInv'
    <3>1. ~torn' => Settled
      BY <1>2, <2>1, FilesSettle DEF RunInv
    <3>2. Touched' = {}
      BY <2>1 DEF Touched
    <3>. QED  BY <1>1, <3>1, <3>2, SettledFiles
  <2>. QED  BY <2>1, <2>2, <2>3, <2>4 DEF RunInv
<1>. QED  BY <1>3, <1>4

\* A server creates its file, and then writes it to the end and closes it.
LEMMA SaveStep ==
    ASSUME ConfsOK, RunInv, NEW s \in Ranks, ServeSave(s) \/ CloseFile(s)
    PROVE  RunInv'
<1>1. PICK w \in BOOLEAN :
        /\ pc # "dead" /\ s \in todo /\ Saved(s, w)
        /\ conf' = conf /\ pc' = pc /\ iter' = iter /\ cmd' = cmd /\ model' = model /\ torn' = torn
        /\ \/ ~w /\ IsSave(cmd) /\ writing' = writing \cup {s} /\ todo' = todo
           \/ w /\ s \in writing /\ writing' = writing \ {s} /\ todo' = todo \ {s}
  BY DEF ServeSave, CloseFile, RunInv, RunTypeOK
<1>2. pc \in {"save", "final"} /\ FileOf(cmd, s) = <<Saving, s>> /\ Ranks' = Ranks /\ Saving' = Saving
  BY <1>1, Answering DEF FileOf, Ranks, Saving
<1>3. PICK f : /\ f = <<Saving, s>>
               /\ f[1] = Saving /\ f[2] = s
  <2>1. <<Saving, s>>[1] = Saving /\ <<Saving, s>>[2] = s
    OBVIOUS
  <2>. QED  BY <2>1, Zenon
<1>4. PICK p : p = [model[s] EXCEPT !.whole = @ /\ w]
  OBVIOUS
<1>5. /\ p \in Part /\ p.of = model[s].of /\ p.passes = model[s].passes
      /\ p.whole = (model[s].whole /\ w)
  <2>1. model[s] \in Part
    BY DEF RunInv, RunTypeOK
  <2>. QED  BY <1>4, <2>1 DEF Part
<1>6. files' = [g \in DOMAIN files \cup {f} |-> IF g = f THEN p ELSE files[g]]
  BY <1>1, <1>2, <1>3, <1>4 DEF Saved
<1>7. /\ DOMAIN files' = DOMAIN files \cup {f} /\ files'[f] = p
      /\ \A g \in DOMAIN files : g # f => files'[g] = files[g]
  BY <1>6
<1>8. RunTypeOK'
  <2>1. \A g \in DOMAIN files' : g = <<g[1], g[2]>> /\ files'[g] \in Part
    BY <1>3, <1>5, <1>7 DEF RunInv, RunTypeOK
  <2>2. files' = [g \in DOMAIN files' |-> files'[g]]
    BY <1>6
  <2>3. todo' \subseteq Ranks /\ writing' \subseteq todo'
    BY <1>1 DEF RunInv, RunTypeOK
  <2>. QED  BY <1>1, <1>2, <2>1, <2>2, <2>3 DEF RunInv, RunTypeOK
<1>9. CmdInv' /\ LoadInv'
  BY <1>1, <1>2 DEF RunInv, CmdInv, LoadInv
<1>10. PassInv'
  <2>1. f[1] >= 0 => EndsWith(p.passes, f[1])
    BY <1>2, <1>3, <1>5 DEF RunInv, PassInv, Saving
  <2>. QED  BY <1>1, <1>2, <1>7, <2>1 DEF RunInv, PassInv
<1>11. ASSUME ~torn PROVE FilesInv' /\ OneModel'
  <2>1. FilesInv /\ OneModel /\ conf.servers \in Nat
    BY <1>2, <1>11, RanksNat DEF RunInv, RunTypeOK
  <2>2. OneModel'
    BY <1>1, <1>2, <2>1 DEF OneModel
  <2>3. Touched' = Touched \cup {f}
    <3>1. Ranks \ (todo' \ writing') = (Ranks \ (todo \ writing)) \cup {s}
      BY <1>1
    <3>. QED  BY <1>1, <1>2, <1>3, <3>1 DEF Touched
  <2>4. p.of = conf.servers /\ p.passes = model[0].passes /\ (w => p.whole) /\ f[2] \in 0 .. p.of - 1
    BY <1>3, <1>5, <2>1 DEF OneModel, Ranks
  <2>5. \A g \in DOMAIN files' : g[2] \in 0 .. files'[g].of - 1
    BY <1>7, <2>1, <2>4 DEF FilesInv
  <2>6. \A g \in DOMAIN files' \ Touched' : g \in DOMAIN files \ Touched /\ files'[g] = files[g]
    BY <1>7, <2>3
  <2>7. /\ \A g \in DOMAIN files' \ Touched' : files'[g].whole
        /\ \A g, h \in DOMAIN files' \ Touched' :
              g[1] = h[1] /\ files'[g].of = files'[h].of => files'[g].passes = files'[h].passes
    BY <2>1, <2>6 DEF FilesInv
  <2>8. ASSUME NEW g \in Touched'
        PROVE  /\ g \in DOMAIN files' /\ files'[g].of = conf.servers /\ files'[g].passes = model[0].passes
               /\ g[2] \notin writing' => files'[g].whole
    <3>1. CASE g = f
      BY <1>1, <1>3, <1>7, <2>4, <3>1
    <3>2. CASE g # f
      <4>1. g \in Touched
        BY <2>3, <3>2
      <4>2. g \in DOMAIN files /\ files[g].of = conf.servers /\ files[g].passes = model[0].passes
            /\ (g[2] \notin writing => files[g].whole)
        BY <2>1, <4>1 DEF FilesInv
      <4>3. g[2] # s
        BY <1>2, <1>3, <3>2, <4>1 DEF Touched
      <4>. QED  BY <1>1, <1>7, <3>2, <4>2, <4>3
    <3>. QED  BY <3>1, <3>2
  <2>. QED  BY <1>1, <2>2, <2>5, <2>7, <2>8 DEF FilesInv
<1>. QED  BY <1>1, <1>8, <1>9, <1>10, <1>11 DEF RunInv

LEMMA RunInit == ASSUME ConfsOK, JobsInit PROVE RunInv
<1>1. /\ conf \in Confs /\ pc = "done" /\ iter = 0 /\ todo = {} /\ writing = {}
      /\ model = NewModel(conf.servers) /\ files = << >>
  BY DEF JobsInit, ConfsOK
<1>2. DOMAIN files = {} /\ files = [f \in DOMAIN files |-> files[f]]
  BY <1>1
<1>3. model \in [Ranks -> Part]
  <2>1. << >> \in Seq(Int) /\ conf.servers \in Nat
    BY <1>1, ConfTypes
  <2>2. [of |-> conf.servers, passes |-> << >>, whole |-> TRUE] \in Part
    BY <2>1 DEF Part
  <2>. QED  BY <1>1, <2>2 DEF NewModel, Ranks
<1>4. RunTypeOK /\ CmdInv /\ PassInv /\ LoadInv
  BY <1>1, <1>2, <1>3 DEF RunTypeOK, CmdInv, PassInv, LoadInv
<1>5. FilesInv
  BY <1>1, <1>2 DEF FilesInv, Touched
<1>. QED  BY <1>1, <1>4, <1>5 DEF RunInv

LEMMA RunNext == ASSUME ConfsOK, RunInv, [JobsNext]_runVars PROVE RunInv'
<1>1. CASE JobsNext
  BY <1>1, StartStep, LoadModelStep, WaitLoadStep, IterateStep, WaitSaveStep, EndStep, ServeLoadStep, SaveStep DEF JobsNext
<1>2. CASE UNCHANGED runVars
  <2>. USE <1>2 DEF runVars
  <2>1. RunTypeOK /\ CmdInv => RunTypeOK' /\ CmdInv'
    BY DEF RunTypeOK, CmdInv, Ranks
  <2>2. PassInv /\ LoadInv => PassInv' /\ LoadInv'
    BY DEF PassInv, LoadInv, Ranks
  <2>3. FilesInv => FilesInv'
    BY DEF FilesInv, Touched, Saving, Ranks
  <2>4. OneModel => OneModel'
    BY DEF OneModel, Ranks
  <2>. QED  BY <2>1, <2>2, <2>3, <2>4 DEF RunInv
<1>. QED  BY <1>1, <1>2

\* Whichever jobs ran before and wherever they were killed, a job that goes on from a saved model
\* neither skips nor repeats a data pass, and works on all parts of one model unless a job was
\* killed while it saved or loaded parts of another number of servers (MinibatchScheduler::Run,
\* IterServer::ProcessRequest).
THEOREM Resumes == ASSUME ConfsOK PROVE Spec => []ResumesExactly
<1>1. JobsInit => RunInv
  BY RunInit
<1>2. RunInv /\ [JobsNext]_runVars => RunInv'
  BY RunNext
<1>3. RunInv => ResumesExactly
  <2>1. SUFFICES ASSUME RunInv, pc \in {"train", "predict", "save", "final"} PROVE ResumesExactly
    BY DEF ResumesExactly
  <2>2. pc = "train" /\ iter > 0 => \A s \in Ranks : model[s].passes # << >> /\ Last(model[s].passes) = iter - 1
    BY <2>1 DEF RunInv, PassInv, EndsWith
  <2>3. torn \/ \A s \in Ranks : model[s] = [of |-> conf.servers, passes |-> model[0].passes, whole |-> TRUE]
    BY <2>1 DEF RunInv, RunTypeOK, OneModel, Part
  <2>. QED  BY <2>2, <2>3 DEF ResumesExactly
<1>. QED  BY <1>1, <1>2, <1>3, PTL DEF Spec
=============================================================================
