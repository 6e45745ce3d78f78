--------------------------- MODULE ObjectListing ---------------------------
(***************************************************************************)
(* Directories on an object store, which has none: ListObjects asks for    *)
(* the keys with a prefix, folded at the next slash, and TryGetPathInfo,   *)
(* ListDirectory and OpenForRead of S3FileSystem and ObsFileSystem make    *)
(* files and directories of them.                                          *)
(*                                                                         *)
(* A key, and a path without its leading slash, is a sequence over         *)
(* characters, of which "/" is one.  The store lists the keys in           *)
(* lexicographic order, at most maxkeys of them: S3 answers that the list  *)
(* is truncated, which is fatal, and OBS's answer is not looked at.        *)
(* On a local disk (local_filesys.cc) directories are there if they have a *)
(* file.  MatchFile (src/base/match_file.h) looks for the files that match *)
(* a pattern, here one without special characters.                         *)
(***************************************************************************)
EXTENDS Integers, FiniteSets, Sequences, SequencesExt

Slash == "/"
File(key) == [name |-> key, type |-> "kFile"]
Directory(key) == [name |-> key, type |-> "kDirectory"]
Fatal == {[name |-> <<>>, type |-> "fatal"]}

StripSlashes(path) ==
    LET n == CHOOSE n \in 0 .. Len(path) :
               /\ \A i \in n + 1 .. Len(path) : path[i] = Slash
               /\ n > 0 => path[n] # Slash
    IN  SubSeq(path, 1, n)

\* The entry a key with the prefix shows as: the key itself, or its part up to the next slash.
Entry(key, prefix) ==
    LET cuts == {i \in Len(prefix) + 1 .. Len(key) : key[i] = Slash}
    IN  IF cuts = {} THEN File(key)
        ELSE Directory(SubSeq(key, 1, CHOOSE i \in cuts : \A j \in cuts : i <= j))

Less(order, a, b) ==
    \/ IsStrictPrefix(a, b)
    \/ \E i \in 1 .. Len(a) : /\ i <= Len(b) /\ order[a[i]] < order[b[i]]
                              /\ SubSeq(a, 1, i - 1) = SubSeq(b, 1, i - 1)

\* ListObjects
ListObjects(kind, keys, prefix, order, maxkeys) ==
    LET all == {Entry(k, prefix) : k \in {k \in keys : IsPrefix(prefix, k)}}
        first == {e \in all : Cardinality({x \in all : Less(order, x.name, e.name)}) < maxkeys}
    IN  IF first # all /\ kind = "s3" THEN Fatal ELSE first

\* TryGetPathInfo: the file, or else the directory, with that name; {} if there is neither.
TryGetPathInfo(kind, keys, path, order, maxkeys) ==
    LET name == StripSlashes(path)
        files == ListObjects(kind, keys, name, order, maxkeys)
        exact == {f \in files : f.name = name}
    IN  IF files = Fatal THEN Fatal
        ELSE IF exact # {} THEN exact ELSE {f \in files : f.name = Append(name, Slash)}

\* ListDirectory: of a path that ends with a slash everything with that prefix; of another one
\* the file of that name, or what is in the directory.
ListDirectory(kind, keys, path, order, maxkeys) ==
    IF path = <<>> \/ Last(path) = Slash THEN ListObjects(kind, keys, path, order, maxkeys)
    ELSE LET files == ListObjects(kind, keys, path, order, maxkeys)
             exact == {f \in files : f.name = path}
             dir == {f \in files : f.name = Append(path, Slash)}
         IN  IF files = Fatal THEN Fatal
             ELSE IF exact # {} THEN exact
             ELSE IF dir # {} THEN ListObjects(kind, keys, Append(path, Slash), order, maxkeys)
             ELSE {}

\* LocalFileSystem: GetPathInfo is fatal if there is nothing of that name, ListDirectory if there is no
\* directory; its entries have no slash at their end.
LocalPathInfo(keys, name) ==
    IF name \in keys THEN {File(name)}
    ELSE IF \E k \in keys : IsPrefix(Append(name, Slash), k) THEN {Directory(name)} ELSE Fatal
LocalListDirectory(keys, path) ==
    LET dir == Append(StripSlashes(path), Slash)
        inside == {k \in keys : IsStrictPrefix(dir, k)}
    IN  IF inside = {} THEN Fatal
        ELSE UNION {LocalPathInfo(keys, StripSlashes(Entry(k, dir).name)) : k \in inside}

\* MatchFile_single: the directory up to the last slash is listed, and of the whole paths in it, files
\* or directories, those are taken in which the rest of the pattern is found anywhere.
MatchFile(kind, keys, pattern, order, maxkeys) ==
    LET pos == SelectLastInSeq(pattern, LAMBDA c : c = Slash)
        dir == SubSeq(pattern, 1, pos - 1)
        rest == SubSeq(pattern, pos + 1, Len(pattern))
        info == IF kind = "local" THEN LocalListDirectory(keys, dir) ELSE ListDirectory(kind, keys, dir, order, maxkeys)
        found(name) == \E i \in 0 .. Len(name) - Len(rest) : SubSeq(name, i + 1, i + Len(rest)) = rest
    IN  IF info = Fatal THEN Fatal ELSE {f \in info : found(f.name)}

\* OpenForRead
OpenForRead(kind, keys, path, order, maxkeys) ==
    {f \in TryGetPathInfo(kind, keys, path, order, maxkeys) : f.type = "kFile"}
-----------------------------------------------------------------------------
\* On a list that is not truncated: a path is opened if and only if there is an object of that
\* name; it is a directory if there is none and some key goes on below it; and the listing of a
\* directory has all the keys below it, each in exactly one entry.
ListingRight(kind, keys, path, order, maxkeys) ==
    LET name == StripSlashes(path)
        below == {k \in keys : IsStrictPrefix(Append(name, Slash), k)}
        listed == ListDirectory(kind, keys, name, order, maxkeys)
    IN  /\ Cardinality(keys) <= maxkeys /\ name # <<>> /\ Append(name, Slash) \notin keys =>
             /\ OpenForRead(kind, keys, path, order, maxkeys) = {File(k) : k \in keys \cap {name}}
             /\ name \notin keys =>
                   /\ (TryGetPathInfo(kind, keys, path, order, maxkeys) # {}) <=> below # {}
                   /\ \A k \in below : Cardinality({e \in listed : IsPrefix(e.name, k)}) = 1
        /\ listed # Fatal => \A e \in listed : \E k \in keys : IsPrefix(e.name, k)

\* A file that a pattern names is matched, if its directory is not the name of an object too; and a
\* match is the name of a file or a directory in the directory of the pattern.
MatchRight(kind, keys, pattern, order, maxkeys) ==
    LET pos == SelectLastInSeq(pattern, LAMBDA c : c = Slash)
        dir == SubSeq(pattern, 1, pos - 1)
        match == MatchFile(kind, keys, pattern, order, maxkeys)
    IN  dir \notin keys /\ Cardinality(keys) <= maxkeys =>
          /\ pattern \in keys => File(pattern) \in match
          /\ match # Fatal => \A f \in match : /\ IsStrictPrefix(SubSeq(pattern, 1, pos), f.name)
                                               /\ \E k \in keys : IsPrefix(f.name, k)
=============================================================================
