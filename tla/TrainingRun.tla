---------------------------- MODULE TrainingRun ----------------------------
(***************************************************************************)
(* MinibatchScheduler::Run (src/solver/minibatch_solver.h) with the model  *)
(* commands of IterScheduler and IterServer (src/solver/iter_solver.h):    *)
(* jobs that load a model, train it pass after pass, save it every few     *)
(* passes and at the end, or predict with it, and that may die at any      *)
(* time.  All jobs use one model name.                                     *)
(*                                                                         *)
(* The part of a model that a server has is [of, passes, whole]: of how    *)
(* many servers it is a part, the numbers of the data passes that made it, *)
(* and whether all of it is there.  A pass over the data is one step; how  *)
(* it is dispatched is the matter of DataParallel.                         *)
(***************************************************************************)
EXTENDS Integers, Sequences, SequencesExt

CONSTANTS
    Confs,      \* configurations: [servers, max_data_pass, save_iter, load_iter, in, out, predict]
    MaxJobs     \* bound on the jobs, one after the other

\* There is a server; iterations fit into the upper half of the int of a command.
ConfsOK ==
    /\ Confs # {}
    /\ \A c \in Confs : /\ c.servers \in Nat /\ c.servers > 0 /\ c.save_iter \in Int
                        /\ c.max_data_pass \in Nat /\ c.max_data_pass <= 32767
                        /\ c.load_iter \in Int /\ c.load_iter <= 32766

VARIABLES
    conf,       \* the configuration of the job
    pc, iter,   \* where Run is, and cur_iter
    cmd,        \* the command that the servers were sent
    todo,       \* the servers that have not answered it
    writing,    \* the servers that have created their file and not closed it
    model,      \* model[s]: what the server of rank s has
    files,      \* files[<<i, s>>]: what was saved for the iteration i by the server of rank s
    jobs,       \* how many jobs have started
    torn        \* whether a job has died while it was saving, or loaded parts of another number of servers

runVars == <<conf, pc, iter, cmd, todo, writing, model, files, jobs, torn>>

Ranks == 0 .. conf.servers - 1
NewModel(n) == [s \in 0 .. n - 1 |-> [of |-> n, passes |-> <<>>, whole |-> TRUE]]

\* IterCmd: bit 1 to load, bit 2 to save, and the iteration, which may be -1, above 16 bits
Bit16 == 65536
LoadCmd(i) == 2 + (i + 1) * Bit16
SaveCmd(i) == 4 + (i + 1) * Bit16
IsLoad(c) == (c \div 2) % 2 = 1
IsSave(c) == (c \div 4) % 2 = 1
IterOf(c) == (c \div Bit16) - 1
\* ModelName
FileOf(c, s) == <<IterOf(c), s>>

Submit(c) == cmd' = c /\ todo' = Ranks
-----------------------------------------------------------------------------
(* The scheduler                                                           *)

\* the head of the loop over the passes
Loop(i) ==
    /\ iter' = i
    /\ IF i < conf.max_data_pass THEN pc' = "train" /\ UNCHANGED <<cmd, todo>>
       ELSE IF conf.out THEN pc' = "final" /\ Submit(SaveCmd(-1))
       ELSE pc' = "done" /\ UNCHANGED <<cmd, todo>>

Start(c) ==
    /\ pc \in {"done", "dead"} /\ jobs < MaxJobs
    /\ jobs' = jobs + 1 /\ conf' = c /\ model' = NewModel(c.servers) /\ writing' = {}
    /\ pc' = "start" /\ iter' = 0 /\ cmd' = 0 /\ todo' = {}
    /\ UNCHANGED <<files, torn>>

\* the last model is asked for with -1, also if load_iter is 0
LoadModel ==
    /\ pc = "start"
    /\ IF conf.in
       THEN /\ pc' = "load" /\ iter' = (IF conf.load_iter > 0 THEN conf.load_iter ELSE -1) /\ Submit(LoadCmd(iter'))
       ELSE IF conf.predict THEN pc' = "dead" /\ UNCHANGED <<iter, cmd, todo>> ELSE Loop(0)
    /\ UNCHANGED <<conf, writing, model, files, jobs, torn>>

WaitLoad ==
    /\ pc = "load" /\ todo = {}
    /\ IF conf.predict THEN pc' = "predict" /\ UNCHANGED <<iter, cmd, todo>> ELSE Loop(iter + 1)
    /\ UNCHANGED <<conf, writing, model, files, jobs, torn>>

Predict == pc = "predict" /\ pc' = "done" /\ UNCHANGED <<conf, iter, cmd, todo, writing, model, files, jobs, torn>>

\* Iterate over the training and the validation data, and what the loop does then; the criterion of
\* Stop may end it.
Iterate ==
    /\ pc = "train"
    /\ model' = [s \in DOMAIN model |-> [model[s] EXCEPT !.passes = Append(@, iter)]]
    /\ \E stop \in BOOLEAN :
         IF stop \/ iter = conf.max_data_pass - 1 THEN Loop(conf.max_data_pass)
         ELSE IF conf.out /\ conf.save_iter > 0 /\ (iter + 1) % conf.save_iter = 0
         THEN pc' = "save" /\ Submit(SaveCmd(iter)) /\ UNCHANGED iter
         ELSE Loop(iter + 1)
    /\ UNCHANGED <<conf, writing, files, jobs, torn>>

\* mutant of WaitSave: the request is submitted and not waited for
MutWaitSave ==
    /\ pc \in {"save", "final"}
    /\ IF pc = "save" THEN Loop(iter + 1) ELSE pc' = "done" /\ UNCHANGED <<iter, cmd, todo>>
    /\ UNCHANGED <<conf, writing, model, files, jobs, torn>>

WaitSave ==
    /\ pc \in {"save", "final"} /\ todo = {}
    /\ IF pc = "save" THEN Loop(iter + 1) ELSE pc' = "done" /\ UNCHANGED <<iter, cmd, todo>>
    /\ UNCHANGED <<conf, writing, model, files, jobs, torn>>
-----------------------------------------------------------------------------
(* The servers: IterServer::ProcessRequest                                 *)

\* A file that is not there is fatal; a file that is cut short is loaded as far as it goes.
ServeLoad(s) ==
    /\ pc # "dead" /\ IsLoad(cmd) /\ s \in todo
    /\ IF FileOf(cmd, s) \in DOMAIN files
       THEN model' = [model EXCEPT ![s] = files[FileOf(cmd, s)]] /\ todo' = todo \ {s} /\ UNCHANGED pc
            /\ torn' = (torn \/ files[FileOf(cmd, s)].of # conf.servers)
       ELSE pc' = "dead" /\ UNCHANGED <<model, todo, torn>>
    /\ UNCHANGED <<conf, iter, cmd, writing, files, jobs>>

Saved(s, whole) ==
    LET f == FileOf(cmd, s)
    IN  files' = [g \in DOMAIN files \cup {f} |-> IF g = f THEN [model[s] EXCEPT !.whole = @ /\ whole] ELSE files[g]]

\* The file is created, and then written and closed.
ServeSave(s) ==
    /\ pc # "dead" /\ IsSave(cmd) /\ s \in todo \ writing
    /\ writing' = writing \cup {s} /\ Saved(s, FALSE)
    /\ UNCHANGED <<conf, pc, iter, cmd, todo, model, jobs, torn>>
CloseFile(s) ==
    /\ pc # "dead" /\ s \in writing
    /\ writing' = writing \ {s} /\ todo' = todo \ {s} /\ Saved(s, TRUE)
    /\ UNCHANGED <<conf, pc, iter, cmd, model, jobs, torn>>

\* the job is killed, with the servers as far as they are
Die ==
    /\ pc \notin {"done", "dead"}
    /\ pc' = "dead" /\ torn' = (torn \/ pc \in {"save", "final"})
    /\ UNCHANGED <<conf, iter, cmd, todo, writing, model, files, jobs>>

JobsInit ==
    /\ conf = (CHOOSE c \in Confs : TRUE) /\ jobs = 0 /\ pc = "done" /\ iter = 0 /\ cmd = 0 /\ todo = {} /\ writing = {}
    /\ model = NewModel(conf.servers) /\ files = <<>> /\ torn = FALSE

JobsNext ==
    \/ \E c \in Confs : Start(c)
    \/ LoadModel \/ WaitLoad \/ Iterate \/ WaitSave \/ Predict \/ Die
    \/ \E s \in Ranks : ServeLoad(s) \/ ServeSave(s) \/ CloseFile(s)
-----------------------------------------------------------------------------
\* A job that goes on from a saved iteration neither skips nor repeats a data pass (Run), and works
\* on the parts of one model, all of it, unless a job died while saving, which leaves files that are
\* cut short or of another save, or came with another number of servers.
ResumesExactly ==
    pc \in {"train", "predict", "save", "final"} =>
        /\ pc = "train" /\ iter > 0 => \A s \in Ranks : model[s].passes # <<>> /\ Last(model[s].passes) = iter - 1
        /\ torn \/ \A s \in Ranks : model[s] = [of |-> conf.servers, passes |-> model[0].passes, whole |-> TRUE]
=============================================================================
