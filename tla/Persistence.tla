----------------------------- MODULE Persistence -----------------------------
(***************************************************************************)
(* PersistenceManager::save and ::load (src/core/persistence.cpp) for one   *)
(* snapshot path: saves by threads of one or more processes, loads that map *)
(* the file while saves replace it, failures of every file-system call, the *)
(* death of a process and the crash of the machine between any two steps.   *)
(*                                                                          *)
(* The file system (external, POSIX): a name leads to an inode; an inode is *)
(* named after the call that created it.  `data' is what readers see of it, *)
(* `stable' what is on disk; a write reaches the disk for certain with      *)
(* fsync.  rename is atomic, and durable once the directory is synced: until *)
(* then a crash may leave the target at any inode of `entry'.               *)
(*                                                                          *)
(* The image of a save stands for the collection captured under its lock    *)
(* and encoded before the first file operation.                             *)
(***************************************************************************)
EXTENDS Maps, FiniteSets

CONSTANTS Procs,     \* processes that save to the path
          Calls,     \* save calls, each with an image of its own
          Loads,     \* load calls
          NoFile,
          Foreign,   \* files of other origin that may be at the path at first
          MaxClock   \* bound on the readings of the steady clock

\* Contents of an inode: the whole image of a call, part of one, or foreign.
Torn == "torn"

ASSUME FileAssumption ==
    /\ NoFile \notin Calls \cup Foreign
    /\ Calls \cap (Foreign \cup {Torn, "alien", "newer", "damaged"}) = {}

VARIABLES clock,    \* the steady clock of the machine
          counter,  \* process -> make_temp_path's counter
          save,     \* call -> [pc, proc, name, inode], as far as it got
          temps,    \* temporary names in the directory -> inode
          target,   \* inode at the path, or NoFile
          entry,    \* the inodes the target may be at after a crash
          data, stable,   \* inode -> contents
          load      \* load call -> [pc, region]

fs == <<temps, target, entry, data, stable>>

vars == <<clock, counter, save, fs, load>>

Running(c) == save[c].pc \notin {"new", "ok", "failed", "lost"}

At(c, pc) == save[c].pc = pc

Goto(c, pc) == save' = [save EXCEPT ![c].pc = pc]

-----------------------------------------------------------------------------
(* save                                                                     *)

\* make_temp_path: the clock and the process's own counter.
MakeTempPath(c, p) ==
    /\ At(c, "new")
    /\ save' = [save EXCEPT ![c] = [pc |-> "open", proc |-> p,
                                    name |-> <<clock, counter[p]>>, inode |-> NoFile]]
    /\ counter' = [counter EXCEPT ![p] = @ + 1]
    /\ UNCHANGED <<clock, fs, load>>

\* Mutant of Open: the file at the path is overwritten in place.
OpenInPlace(c) ==
    LET i == IF target # NoFile THEN target ELSE c
    IN  /\ At(c, "open")
        /\ temps' = Put(temps, save[c].name, i)
        /\ data' = Put(data, i, Torn)
        /\ stable' = Put(stable, i, Torn)
        /\ save' = [save EXCEPT ![c].pc = "write", ![c].inode = i]
        /\ UNCHANGED <<clock, counter, target, entry, load>>

\* fopen "wb": a new inode, or the one that has the name already, truncated.
Open(c) ==
    LET name == save[c].name
        i == IF name \in DOMAIN temps THEN temps[name] ELSE c
    IN  /\ At(c, "open")
        /\ temps' = Put(temps, name, i)
        /\ data' = Put(data, i, Torn)
        /\ stable' = Put(stable, i, Torn)
        /\ save' = [save EXCEPT ![c].pc = "write", ![c].inode = i]
        /\ UNCHANGED <<clock, counter, target, entry, load>>

OpenFails(c) ==
    /\ At(c, "open")
    /\ Goto(c, "failed")
    /\ UNCHANGED <<clock, counter, fs, load>>

\* Mutant of Write: a short write goes unnoticed.
WriteShort(c) ==
    /\ At(c, "write")
    /\ Goto(c, "sync")
    /\ UNCHANGED <<clock, counter, fs, load>>

\* fwrite and fflush of the image.
Write(c) ==
    /\ At(c, "write")
    /\ data' = [data EXCEPT ![save[c].inode] = c]
    /\ Goto(c, "sync")
    /\ UNCHANGED <<clock, counter, temps, target, entry, stable, load>>

\* Mutant of Sync: no fsync.
SyncNot(c) ==
    /\ At(c, "sync")
    /\ Goto(c, "close")
    /\ UNCHANGED <<clock, counter, fs, load>>

Sync(c) ==
    /\ At(c, "sync")
    /\ stable' = [stable EXCEPT ![save[c].inode] = data[save[c].inode]]
    /\ Goto(c, "close")
    /\ UNCHANGED <<clock, counter, temps, target, entry, data, load>>

Close(c) ==
    /\ At(c, "close")
    /\ Goto(c, "rename")
    /\ UNCHANGED <<clock, counter, fs, load>>

\* A failed write, flush, sync, close or rename: the temporary file has to go.
StepFails(c) ==
    /\ save[c].pc \in {"write", "sync", "close", "rename"}
    /\ Goto(c, "remove")
    /\ UNCHANGED <<clock, counter, fs, load>>

\* remove(temp_path, ec), whose own failure is ignored; then WriteFailure.
Cleanup(c) ==
    /\ At(c, "remove")
    /\ temps' \in {temps, Erase(temps, save[c].name)}
    /\ Goto(c, "failed")
    /\ UNCHANGED <<clock, counter, target, entry, data, stable, load>>

\* rename(temp_path, target), of whatever inode has the name now.
Rename(c) ==
    /\ At(c, "rename")
    /\ save[c].name \in DOMAIN temps
    /\ target' = temps[save[c].name]
    /\ entry' = entry \cup {target'}
    /\ temps' = Erase(temps, save[c].name)
    /\ Goto(c, "syncdir")
    /\ UNCHANGED <<clock, counter, data, stable, load>>

\* The best-effort fsync of the directory; the save succeeds either way.
SyncDirectory(c) ==
    /\ At(c, "syncdir")
    /\ entry' \in {entry, {target}}
    /\ Goto(c, "ok")
    /\ UNCHANGED <<clock, counter, temps, target, data, stable, load>>

-----------------------------------------------------------------------------
(* load                                                                     *)

\* What the checks of load may say of a file.  A file whose writing was cut
\* short may lack its header, or any part after it.
Verdicts(content) ==
    CASE content = Torn      -> {"SnapshotNotFound", "Corruption"}
      [] content = "alien"   -> {"SnapshotNotFound"}
      [] content = "newer"   -> {"UnsupportedVersion"}
      [] content = "damaged" -> {"Corruption"}
      [] OTHER               -> {"ok"}

\* exists, is_regular_file and file_size, by name.
Stat(l) ==
    /\ load[l].pc = "new"
    /\ load' = [load EXCEPT ![l].pc = IF target = NoFile THEN "SnapshotNotFound" ELSE "map"]
    /\ UNCHANGED <<clock, counter, save, fs>>

\* map_file_readonly, again by name; from here on the load reads the mapping.
\* Opening or mapping may fail.
Map(l) ==
    /\ load[l].pc = "map"
    /\ \/ /\ target # NoFile
          /\ load' = [load EXCEPT ![l] = [pc |-> "check", region |-> target]]
       \/ load' = [load EXCEPT ![l].pc = "SnapshotNotFound"]
    /\ UNCHANGED <<clock, counter, save, fs>>

\* Magic, version, checksum and structure; the collection keeps the mapping.
Check(l) ==
    /\ load[l].pc = "check"
    /\ \E verdict \in Verdicts(data[load[l].region]) :
          load' = [load EXCEPT ![l].pc = verdict]
    /\ UNCHANGED <<clock, counter, save, fs>>

\* The loaded collection is dropped and its mapping with it.
Unmap(l) ==
    /\ load[l].pc = "ok"
    /\ load' = [load EXCEPT ![l] = [pc |-> "closed", region |-> NoFile]]
    /\ UNCHANGED <<clock, counter, save, fs>>

-----------------------------------------------------------------------------
(* The environment                                                          *)

Tick == clock < MaxClock /\ clock' = clock + 1 /\ UNCHANGED <<counter, save, fs, load>>

LoseCalls(S) == save' = [c \in Calls |-> IF c \in S THEN [save[c] EXCEPT !.pc = "lost"]
                                                   ELSE save[c]]

\* Process p dies and starts again; the file system carries on.
Kill(p) ==
    /\ \E c \in Calls : Running(c) /\ save[c].proc = p
    /\ LoseCalls({c \in Calls : Running(c) /\ save[c].proc = p})
    /\ counter' = [counter EXCEPT ![p] = 0]
    /\ UNCHANGED <<clock, fs, load>>

\* The machine crashes and restarts: what is not on disk is gone, of the
\* temporary names some are left, and the clock starts again.
Crash ==
    /\ LoseCalls({c \in Calls : Running(c)})
    /\ counter' = [p \in Procs |-> 0]
    /\ clock' = 0
    /\ target' \in entry
    /\ entry' = {target'}
    /\ \E S \in SUBSET DOMAIN temps : temps' = [name \in S |-> temps[name]]
    /\ data' = stable
    /\ UNCHANGED stable
    /\ load' = [l \in Loads |-> IF load[l].pc = "new" THEN load[l]
                                ELSE [pc |-> "closed", region |-> NoFile]]

-----------------------------------------------------------------------------

Init ==
    /\ clock = 0
    /\ counter = [p \in Procs |-> 0]
    /\ save = [c \in Calls |-> [pc |-> "new"]]
    /\ temps = EmptyMap
    /\ target \in Foreign \cup {NoFile}
    /\ entry = {target}
    /\ data = [i \in {target} \ {NoFile} |-> i]
    /\ stable = data
    /\ load = [l \in Loads |-> [pc |-> "new", region |-> NoFile]]

Next ==
    \/ \E c \in Calls :
          \/ \E p \in Procs : MakeTempPath(c, p)
          \/ Open(c) \/ OpenFails(c) \/ Write(c) \/ Sync(c) \/ Close(c)
          \/ StepFails(c) \/ Cleanup(c) \/ Rename(c) \/ SyncDirectory(c)
    \/ \E l \in Loads : Stat(l) \/ Map(l) \/ Check(l) \/ Unmap(l)
    \/ Tick
    \/ \E p \in Procs : Kill(p)
    \/ Crash

Spec == Init /\ [][Next]_vars

-----------------------------------------------------------------------------
(* Properties                                                               *)

Contents == Calls \cup Foreign \cup {Torn}

\* The type of the state: the steps of save and load, and the directory.
TypeOK ==
    /\ \A c \in Calls : save[c].pc \in {"new", "open", "write", "sync", "close", "remove",
                                        "rename", "syncdir", "ok", "failed", "lost"}
    /\ target \in entry /\ entry \subseteq DOMAIN data \cup {NoFile}
    /\ \A name \in DOMAIN temps : temps[name] \in DOMAIN data
    /\ DOMAIN data = DOMAIN stable
    /\ \A i \in DOMAIN data : data[i] \in Contents /\ stable[i] \in Contents

\* What a reader finds in inode i, or a restart after a crash.
Seen(i, contents) == IF i = NoFile THEN NoFile ELSE contents[i]

Standing(c) == CASE save[c].pc \in {"ok", "failed", "lost"} -> save[c].pc
                 [] save[c].pc = "syncdir" -> "published"
                 [] OTHER -> "pending"

F == INSTANCE SnapshotFile WITH file        <- Seen(target, data),
                                recoverable <- {Seen(i, stable) : i \in entry},
                                result      <- [c \in Calls |-> Standing(c)]

\* A save is atomic, also across a failure of any of its steps, the death of its
\* process and a crash of the machine, and with other saves in progress: "a
\* failure before the rename leaves any pre-existing Snapshot untouched"
\* (persistence.hpp:15-16), and readers find whole images only.
ImplementsSnapshotFile == F!Spec

\* A loaded collection's vectors never change under it: while a load or a
\* collection has a file mapped, no save to the same path touches what is
\* mapped (persistence.cpp:139-152, 208-229, 533-542).
MappingsStable ==
    [][\A l \in Loads :
          load[l].region # NoFile /\ load'[l].region = load[l].region
              => data'[load[l].region] = data[load[l].region]]_vars

\* The engine's own files always load: whatever saves, failures, deaths and
\* crashes a load races with, also between its look at the size and its mapping,
\* it rejects only a file that was there before the first save, or none.
OwnFilesLoad ==
    \A l \in Loads :
        /\ load[l].pc \in {"SnapshotNotFound", "Corruption", "UnsupportedVersion"}
              => load[l].region \in Foreign \cup {NoFile}
        /\ load[l].pc \in {"map", "check", "ok"} => target # NoFile
=============================================================================
