----------------------------- MODULE LaunchArgs -----------------------------
(***************************************************************************)
(* The arguments of a job on YARN: what Client keeps for itself, what it   *)
(* passes on to the application master, where it puts the files, and what  *)
(* the application master makes of its own arguments.                      *)
(*                                                                         *)
(* An argument is a record: an option "file" with a path and a name ("" if *)
(* the argument has no #), "env" with a pair, "client" for the options the *)
(* client keeps (-jobname, -tempdir, -queue, -appcp), or a "word" of the   *)
(* command.  A path is [scheme, dir, base].                                *)
(***************************************************************************)
EXTENDS Integers, FiniteSets, Sequences, SequencesExt, Functions

Put(f, k, v) == [x \in DOMAIN f \cup {k} |-> IF x = k THEN v ELSE f[x]]

\* The name a file is cached under: what follows the #, or else the last part of its path.
CacheName(arg) == IF arg.name = "" THEN arg.path.base ELSE arg.name

\* Client.initArgs: a later file replaces an earlier one of the same name.
ClientFiles(args) ==
    FoldLeft(LAMBDA f, arg : IF arg.opt = "file" THEN Put(f, CacheName(arg), arg.path) ELSE f, <<>>, args)
PassedOn(args) == SelectSeq(args, LAMBDA arg : arg.opt \in {"env", "word"})

\* Client.setupCacheFiles: a local file is copied into the temporary directory of the
\* application, over a file of the same base name; others stay where they are.
Location(path) ==
    IF path.scheme = "hdfs" THEN path ELSE [scheme |-> "hdfs", dir |-> "tmp", base |-> path.base]

\* mutant of MasterArgs: the name of a cached file is not passed on
MutMasterArgs(files, order, args) ==
    [i \in DOMAIN order |-> [opt |-> "file", path |-> Location(files[order[i]]), name |-> ""]]
      \o PassedOn(args)

\* The arguments of the application master: the files in some order, then what is passed on.
MasterArgs(files, order, args) ==
    [i \in DOMAIN order |-> [opt |-> "file", path |-> Location(files[order[i]]), name |-> order[i]]]
      \o PassedOn(args)

\* What is at a location after the files were copied in that order.
Stored(files, order) ==
    FoldLeft(LAMBDA f, k : Put(f, Location(files[k]), files[k]), <<>>, order)

\* ApplicationMaster.initArgs
MasterFiles(args) ==
    FoldLeft(LAMBDA f, arg : IF arg.opt = "file" THEN Put(f, CacheName(arg), arg.path) ELSE f, <<>>, args)
\* The user's own variables.  launchTask then sets CLASSPATH, LD_LIBRARY_PATH, PYTHONPATH and the
\* DMLC_ variables of the task itself, which no user argument is meant to name.
MasterEnv(args) ==
    FoldLeft(LAMBDA f, arg : IF arg.opt = "env" THEN Put(f, arg.key, arg.value) ELSE f, <<>>, args)
MasterCommand(args) == SelectSeq(args, LAMBDA arg : arg.opt = "word")
-----------------------------------------------------------------------------
\* The tasks get the files, the environment and the command the user gave: under every name the
\* file that was named, provided that no two local files have the same base name (the second one
\* overwrites the first in the temporary directory).
ArgsArrive(args) ==
    LET files == ClientFiles(args)
        local == {k \in DOMAIN files : files[k].scheme = "file"}
    IN  \A order \in SetToSeqs(DOMAIN files) :
          LET given == MasterArgs(files, order, args)
          IN  /\ (\A k, j \in local : files[k].base = files[j].base => files[k] = files[j]) =>
                    /\ DOMAIN MasterFiles(given) = DOMAIN files
                    /\ \A k \in DOMAIN files : Stored(files, order)[MasterFiles(given)[k]] = files[k]
              /\ MasterEnv(given) = MasterEnv(args)
              /\ MasterCommand(given) = MasterCommand(args)
=============================================================================
