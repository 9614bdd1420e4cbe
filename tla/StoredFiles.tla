---------------------------- MODULE StoredFiles ----------------------------
(***************************************************************************)
(* One directory of a POSIX file system, as calibration/io.py and          *)
(* verified_bytes.py use it: names bound to files, what of both is on      *)
(* disk, and the time stamp of each file's last change.  The clock of the  *)
(* stamps may be coarser than the changes are frequent.                    *)
(***************************************************************************)
EXTENDS Integers, Sequences, FiniteSets

CONSTANTS
    Names,      \* the names the directory can hold
    Inodes,     \* the files
    Versions,   \* the versions a part of a file can be of
    Size,       \* the parts of a complete file
    Nothing     \* no file

ASSUME FilesAssumption == Size \in Nat \ {0} /\ Nothing \notin Inodes

VARIABLES
    dir,        \* name -> the file it is bound to, or Nothing
    disk,       \* the bindings that a power loss keeps
    data,       \* file -> its parts, each of some version
    synced,     \* file -> how many of its parts a power loss keeps
    stamp,      \* file -> the tick of its last change
    tick        \* the clock of the stamps

fileVars == <<dir, disk, data, synced, stamp, tick>>

FilesTypeOK ==
    /\ dir \in [Names -> Inodes \cup {Nothing}]
    /\ disk \in [Names -> Inodes \cup {Nothing}]
    /\ data \in [Inodes -> Seq(Versions)]
    /\ synced \in [Inodes -> Nat]
    /\ stamp \in [Inodes -> Nat]
    /\ tick \in Nat

\* st_nlink of a file.
Links(i) == Cardinality({n \in Names : dir[n] = i})

\* The stamps after the files of F have changed.
Touch(F) == stamp' = [i \in Inodes |-> IF i \in F THEN tick ELSE stamp[i]]

\* Bind a name to a file, or to Nothing: both files' link counts change.
Bind(n, i) ==
    /\ dir' = [dir EXCEPT ![n] = i]
    /\ Touch({dir[n], i})
    /\ UNCHANGED <<disk, data, synced, tick>>

\* Extend a file by a part.
AppendTo(i, version) ==
    /\ data' = [data EXCEPT ![i] = Append(@, version)]
    /\ Touch({i})
    /\ UNCHANGED <<dir, disk, synced, tick>>

\* fsync of a file, and of the directory.
SyncFile(i) ==
    /\ synced' = [synced EXCEPT ![i] = Len(data[i])]
    /\ UNCHANGED <<dir, disk, data, stamp, tick>>

SyncDirectory ==
    /\ disk' = dir
    /\ UNCHANGED <<dir, data, synced, stamp, tick>>

\* The power fails: every binding is the old or the new one, and of each file
\* the parts that were synced remain and perhaps more.
LosePower ==
    /\ \E forgotten \in SUBSET {n \in Names : dir[n] # disk[n]} :
         dir' = [n \in Names |-> IF n \in forgotten THEN disk[n] ELSE dir[n]]
    /\ disk' = dir'
    /\ \E torn \in SUBSET {i \in Inodes : synced[i] < Len(data[i])} :
         \E kept \in [torn -> 0..Size] :
           /\ \A i \in torn : synced[i] <= kept[i] /\ kept[i] < Len(data[i])
           /\ data' = [i \in Inodes |->
                         IF i \in torn THEN SubSeq(data[i], 1, kept[i])
                         ELSE data[i]]
    /\ synced' = [i \in Inodes |-> Len(data'[i])]
    /\ UNCHANGED <<stamp, tick>>

Tick ==
    /\ tick' = tick + 1
    /\ UNCHANGED <<dir, disk, data, synced, stamp>>
=============================================================================
