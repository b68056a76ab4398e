-------------------------- MODULE PersistenceProofs --------------------------
(***************************************************************************)
(* Proofs about Persistence for any number of saves and loads, any foreign  *)
(* files and any readings of the clock, with one process saving to the path *)
(* (names of temporary files carry no process identifier, so two processes  *)
(* may take the same one).                                                  *)
(*                                                                          *)
(* The inductive invariant is IInv.  Its core is Private: a temporary name  *)
(* leads to an inode that no other name, no possible target and no mapping  *)
(* leads to, so what a save writes nobody else sees before the rename.      *)
(***************************************************************************)
EXTENDS Persistence, TLAPS

-----------------------------------------------------------------------------
(* The inductive invariant                                                  *)

\* Only one process saves to the path.
OneProcess == \A p, q \in Procs : p = q

Inodes == Calls \cup Foreign

SavePcs == {"open", "write", "sync", "close", "remove", "rename", "syncdir",
            "ok", "failed", "lost"}
LoadPcs == {"new", "map", "check", "ok", "closed",
            "SnapshotNotFound", "Corruption", "UnsupportedVersion"}

\* A save from make_temp_path on.
Begun == [pc: SavePcs, proc: Procs, name: Nat \X Nat, inode: Calls \cup {NoFile}]

\* The full types, of which TypeOK states the part about contents.
Types ==
    /\ clock \in Nat
    /\ counter \in [Procs -> Nat]
    /\ save \in [Calls -> [pc: {"new"}] \cup Begun]
    /\ load \in [Loads -> [pc: LoadPcs, region: Inodes \cup {NoFile}]]
    /\ DOMAIN data \subseteq Inodes /\ DOMAIN stable = DOMAIN data

\* The steps at which a save has its temporary file.
Holding(c) == save[c].pc \in {"write", "sync", "close", "rename", "remove"}

\* Names of running saves come from a counter that is past them.
NamesTaken ==
    /\ \A c \in Calls, p \in Procs : Running(c) => save[c].name[2] < counter[p]
    /\ \A c, d \in Calls : c # d /\ Running(c) /\ Running(d) => save[c].name # save[d].name

\* A save that has its temporary file finds it under its name.
Named ==
    \A c \in Calls : Holding(c) => /\ save[c].name \in DOMAIN temps
                                   /\ temps[save[c].name] = save[c].inode

\* Temporary files are the caller's own: no other name, entry or mapping.
Private ==
    /\ \A n \in DOMAIN temps : /\ temps[n] \in Calls \cap DOMAIN data
                               /\ temps[n] \notin entry
                               /\ \A l \in Loads : load[l].region # temps[n]
    /\ \A n, x \in DOMAIN temps : n # x => temps[n] # temps[x]

\* No inode is named after a save that has not opened its file.
Unopened == \A c \in Calls : save[c].pc \in {"new", "open"} => c \notin DOMAIN data

\* What a save has written, and what of it is on disk.
Written ==
    \A c \in Calls :
        /\ save[c].pc \in {"sync", "close", "rename"} => data[save[c].inode] = c
        /\ save[c].pc \in {"close", "rename"} => stable[save[c].inode] = c

\* The contents of inode i are a whole file.
Whole(i) ==
    /\ i \in DOMAIN data
    /\ i \in Foreign => data[i] = i
    /\ i \in Calls => data[i] \in Calls

\* Whatever the path leads to, now or after a crash, is whole and on disk.
EntriesWhole ==
    /\ target \in entry
    /\ \A i \in entry \ {NoFile} : Whole(i) /\ stable[i] = data[i]

\* Loads map whole files, and the path does not become empty under them.
LoadsSound ==
    \A l \in Loads :
        /\ load[l].region # NoFile => Whole(load[l].region)
        /\ load[l].pc \in {"new", "map"} => load[l].region = NoFile
        /\ load[l].pc \in {"check", "ok"} => load[l].region # NoFile

IInv == /\ Types /\ TypeOK /\ NamesTaken /\ Named /\ Private /\ Unopened /\ Written
        /\ EntriesWhole /\ LoadsSound /\ OwnFilesLoad

-----------------------------------------------------------------------------
(* Steps of a call                                                          *)

\* A step moves one save along and leaves what it knows of its file.
LEMMA GotoFacts ==
    ASSUME Types, NEW c \in Calls, save[c].pc # "new", NEW x \in SavePcs, Goto(c, x)
    PROVE  /\ save' \in [Calls -> [pc: {"new"}] \cup Begun]
           /\ save'[c].pc = x /\ save'[c].name = save[c].name
           /\ save'[c].proc = save[c].proc /\ save'[c].inode = save[c].inode
           /\ \A d \in Calls : d # c => save'[d] = save[d]
<1>1. save[c] \in Begun
  BY DEF Types
<1>2. [save[c] EXCEPT !.pc = x] \in Begun
  BY <1>1 DEF Begun
<1>3. save' = [save EXCEPT ![c] = [save[c] EXCEPT !.pc = x]]
  BY DEF Goto
<1>4. save'[c] = [save[c] EXCEPT !.pc = x]
  BY <1>3 DEF Types
<1> QED
  BY <1>1, <1>2, <1>3, <1>4 DEF Types, Begun

-----------------------------------------------------------------------------
(* The invariant holds at first                                             *)

LEMMA InitIInv == ASSUME Init PROVE IInv
<1> USE FileAssumption DEF Init
<1>1. DOMAIN temps = {} /\ DOMAIN data = {target} \ {NoFile} /\ DOMAIN stable = DOMAIN data
  BY DEF EmptyMap
<1>2. \A c \in Calls : save[c].pc = "new"
  OBVIOUS
<1>3. \A l \in Loads : load[l].pc = "new" /\ load[l].region = NoFile
  OBVIOUS
<1>4. Types
  BY <1>1 DEF Types, LoadPcs, Inodes
<1>5. TypeOK
  BY <1>1, <1>2 DEF TypeOK, Contents
<1>6. EntriesWhole
  BY <1>1 DEF EntriesWhole, Whole
<1>7. Private
  BY <1>1 DEF Private
<1>8. Unopened
  BY <1>1 DEF Unopened
<1> QED
  BY <1>2, <1>3, <1>4, <1>5, <1>6, <1>7, <1>8
  DEF IInv, NamesTaken, Running, Named, Holding, Written, LoadsSound, OwnFilesLoad

-----------------------------------------------------------------------------
(* Every step keeps the invariant: steps that change no file                *)

\* A step that moves one save along, to where it holds its file only if it did
\* and has written and synced no less, and touches nothing else.
LEMMA QuietIInv ==
    ASSUME IInv, NEW c \in Calls, NEW x \in SavePcs, save[c].pc # "new", Goto(c, x),
           x # "open", x \notin {"ok", "failed", "lost"} => Running(c),
           x \in {"write", "sync", "close", "rename", "remove"} => Holding(c),
           x \in {"sync", "close", "rename"} => data[save[c].inode] = c,
           x \in {"close", "rename"} => stable[save[c].inode] = c,
           UNCHANGED <<clock, counter, fs, load>>
    PROVE  IInv'
<1> USE DEF IInv
<1>1. /\ save'[c].pc = x /\ save'[c].name = save[c].name
      /\ save'[c].proc = save[c].proc /\ save'[c].inode = save[c].inode
      /\ \A d \in Calls : d # c => save'[d] = save[d]
      /\ save' \in [Calls -> [pc: {"new"}] \cup Begun]
  BY GotoFacts
<1>2. UNCHANGED <<clock, counter, temps, target, entry, data, stable, load>>
  BY DEF fs
<1>3. Types'
  BY <1>1, <1>2 DEF Types
<1>4. TypeOK'
  BY <1>1, <1>2 DEF TypeOK, SavePcs
<1>5. NamesTaken'
  BY <1>1, <1>2 DEF NamesTaken, Running
<1>6. Named'
  BY <1>1, <1>2 DEF Named, Holding
<1>7. Written'
  BY <1>1, <1>2 DEF Written
<1>8. Private' /\ EntriesWhole' /\ LoadsSound' /\ OwnFilesLoad'
  BY <1>2 DEF Private, EntriesWhole, Whole, LoadsSound, OwnFilesLoad
<1>9. Unopened'
  BY <1>1, <1>2 DEF Unopened, SavePcs
<1> QED
  BY <1>3, <1>4, <1>5, <1>6, <1>7, <1>8, <1>9

LEMMA CloseIInv == ASSUME IInv, NEW c \in Calls, Close(c) PROVE IInv'
<1>1. data[save[c].inode] = c /\ stable[save[c].inode] = c
  <2>1. Written /\ TypeOK
    BY DEF IInv
  <2>2. stable[save[c].inode] = c
    BY <2>1 DEF Close, At, Written
  <2> QED
    BY <2>1, <2>2 DEF Close, At, Written
<1> QED
  BY <1>1, QuietIInv DEF Close, At, Running, Holding, SavePcs

LEMMA StepFailsIInv == ASSUME IInv, NEW c \in Calls, StepFails(c) PROVE IInv'
  BY QuietIInv DEF StepFails, Running, Holding, SavePcs

LEMMA OpenFailsIInv == ASSUME IInv, NEW c \in Calls, OpenFails(c) PROVE IInv'
  BY QuietIInv DEF OpenFails, At, Running, Holding, SavePcs

\* make_temp_path: the counter is past the names of all running saves.
LEMMA MakeTempPathIInv ==
    ASSUME OneProcess, IInv, NEW c \in Calls, NEW p \in Procs, MakeTempPath(c, p)
    PROVE  IInv'
<1> USE DEF IInv
<1>1. /\ save[c].pc = "new"
      /\ UNCHANGED <<clock, temps, target, entry, data, stable, load>>
  BY DEF MakeTempPath, At, fs
<1>2. /\ counter[p] \in Nat /\ clock \in Nat
      /\ counter' \in [Procs -> Nat] /\ counter'[p] = counter[p] + 1
  BY DEF MakeTempPath, Types
<1>3. /\ save'[c] = [pc |-> "open", proc |-> p,
                     name |-> <<clock, counter[p]>>, inode |-> NoFile]
      /\ \A d \in Calls : d # c => save'[d] = save[d]
  BY DEF MakeTempPath, Types
<1>4. save'[c] \in Begun
  BY <1>2, <1>3 DEF Begun, SavePcs
<1>5. Types'
  BY <1>1, <1>2, <1>4 DEF Types, MakeTempPath
<1>6. TypeOK'
  BY <1>1, <1>3 DEF TypeOK
<1>7. NamesTaken'
  <2>1. \A d \in Calls : d # c /\ Running(d) => save[d].name[2] < counter[p]
    BY DEF NamesTaken
  <2>2. \A d \in Calls : Running(d) => save[d].name \in Nat \X Nat
    BY DEF Types, Running, Begun
  <2>3. \A d \in Calls, q \in Procs : Running(d)' => save'[d].name[2] < counter'[q]
    <3> SUFFICES ASSUME NEW d \in Calls, NEW q \in Procs, Running(d)'
                 PROVE  save'[d].name[2] < counter'[q]
      OBVIOUS
    <3>1. q = p
      BY DEF OneProcess
    <3>2. CASE d = c
      BY <1>2, <1>3, <3>1, <3>2
    <3>3. CASE d # c
      BY <1>2, <1>3, <2>1, <2>2, <3>1, <3>3 DEF Running
    <3> QED
      BY <3>2, <3>3
  <2>4. \A d \in Calls : d # c /\ Running(d)' => save'[d].name # save'[c].name
    BY <1>2, <1>3, <2>1 DEF Running
  <2> QED
    BY <1>3, <2>3, <2>4 DEF NamesTaken, Running
<1>8. Named' /\ Private' /\ Unopened' /\ EntriesWhole' /\ LoadsSound' /\ OwnFilesLoad'
  <2>1. Named' /\ Unopened'
    BY <1>1, <1>3 DEF Named, Unopened, Holding
  <2> QED
    BY <1>1, <2>1 DEF Private, EntriesWhole, Whole, LoadsSound, OwnFilesLoad
<1>9. Written'
  BY <1>1, <1>3 DEF Written
<1> QED
  BY <1>5, <1>6, <1>7, <1>8, <1>9

-----------------------------------------------------------------------------
(* Every step keeps the invariant: steps on files                           *)

\* The inode that Open gives a call, the one of a name left over by a process
\* that died or a new one, is no one else's.
OpenedInode(c) == IF save[c].name \in DOMAIN temps THEN temps[save[c].name] ELSE c

LEMMA OpenedInodeFacts ==
    ASSUME IInv, NEW c \in Calls, save[c].pc = "open"
    PROVE  /\ OpenedInode(c) \in Calls /\ OpenedInode(c) \notin entry
           /\ \A l \in Loads : load[l].region # OpenedInode(c)
           /\ \A d \in Calls : d # c /\ Holding(d) => save[d].inode # OpenedInode(c)
           /\ \A n \in DOMAIN temps : n # save[c].name => temps[n] # OpenedInode(c)
<1> USE FileAssumption DEF IInv
<1>1. CASE save[c].name \in DOMAIN temps
  <2>1. OpenedInode(c) = temps[save[c].name]
    BY <1>1 DEF OpenedInode
  <2>2. \A d \in Calls : d # c /\ Holding(d) => save[d].name # save[c].name
    BY DEF NamesTaken, Holding, Running
  <2> QED
    BY <1>1, <2>1, <2>2 DEF Private, Named
<1>2. CASE save[c].name \notin DOMAIN temps
  <2>1. OpenedInode(c) = c /\ c \notin DOMAIN data
    BY <1>2 DEF OpenedInode, Unopened
  <2>2. c \notin entry
    BY <2>1 DEF TypeOK
  <2>3. \A l \in Loads : load[l].region # c
    BY <2>1 DEF LoadsSound, Whole
  <2> QED
    BY <2>1, <2>2, <2>3 DEF Named, Private
<1> QED
  BY <1>1, <1>2

LEMMA OpenIInv == ASSUME IInv, NEW c \in Calls, Open(c) PROVE IInv'
<1> USE FileAssumption DEF IInv
<1> DEFINE n == save[c].name
           i == OpenedInode(c)
<1>1. save[c].pc = "open" /\ UNCHANGED <<clock, counter, target, entry, load>>
  BY DEF Open, At
<1>2. /\ i \in Calls /\ i \notin entry
      /\ \A l \in Loads : load[l].region # i
      /\ \A d \in Calls : d # c /\ Holding(d) => save[d].inode # i
      /\ \A x \in DOMAIN temps : x # n => temps[x] # i
  BY <1>1, OpenedInodeFacts
<1>3. /\ temps' = Put(temps, n, i) /\ data' = Put(data, i, Torn)
      /\ stable' = Put(stable, i, Torn)
      /\ save' = [save EXCEPT ![c].pc = "write", ![c].inode = i]
  BY DEF Open, OpenedInode
<1> HIDE DEF i
<1>4. /\ DOMAIN temps' = DOMAIN temps \cup {n} /\ temps'[n] = i
      /\ \A x \in DOMAIN temps : x # n => temps'[x] = temps[x]
  BY <1>3 DEF Put
<1>5. /\ DOMAIN data' = DOMAIN data \cup {i} /\ DOMAIN stable' = DOMAIN stable \cup {i}
      /\ data'[i] = Torn /\ stable'[i] = Torn
      /\ \A x \in DOMAIN data : x # i => data'[x] = data[x]
      /\ \A x \in DOMAIN stable : x # i => stable'[x] = stable[x]
  BY <1>3 DEF Put
<1>6. save[c] \in Begun
  BY <1>1 DEF Types
<1>7. /\ save'[c] \in Begun /\ save'[c].pc = "write" /\ save'[c].inode = i
      /\ save'[c].name = n
      /\ \A d \in Calls : d # c => save'[d] = save[d]
  BY <1>2, <1>3, <1>6 DEF Types, Begun, SavePcs
<1>8. Types'
  BY <1>1, <1>2, <1>3, <1>5, <1>7 DEF Types, Inodes
<1>9. TypeOK'
  <2>1. DOMAIN data = DOMAIN stable
    BY DEF TypeOK
  <2> QED
    BY <1>1, <1>4, <1>5, <1>7, <2>1 DEF TypeOK, Contents
<1>10. NamesTaken'
  BY <1>1, <1>7 DEF NamesTaken, Running
<1>11. Named'
  BY <1>1, <1>4, <1>7 DEF Named, Holding, NamesTaken, Running
<1>12. Private'
  BY <1>1, <1>2, <1>4, <1>5 DEF Private
<1>13. Unopened'
  <2> SUFFICES ASSUME NEW d \in Calls, save'[d].pc \in {"new", "open"}
               PROVE  d \notin DOMAIN data'
    BY DEF Unopened
  <2>1. d # c /\ save[d].pc \in {"new", "open"} /\ d \notin DOMAIN data
    BY <1>7 DEF Unopened
  <2>2. i \in DOMAIN data \/ i = c
    BY DEF i, OpenedInode, Private
  <2> QED
    BY <1>5, <2>1, <2>2
<1>14. Written'
  <2> SUFFICES ASSUME NEW d \in Calls, save'[d].pc \in {"sync", "close", "rename"}
               PROVE  /\ data'[save'[d].inode] = d
                      /\ save'[d].pc \in {"close", "rename"} => stable'[save'[d].inode] = d
    BY DEF Written
  <2>1. d # c /\ save'[d] = save[d]
    BY <1>7
  <2>2. save[d].inode # i /\ save[d].inode \in DOMAIN data
    BY <1>2, <2>1 DEF Holding, Named, Private
  <2>3. save[d].inode \in DOMAIN stable
    BY <2>2 DEF TypeOK
  <2> QED
    BY <1>5, <2>1, <2>2, <2>3 DEF Written
<1>15. \A x \in Inodes : x # i /\ Whole(x) => Whole(x)'
  BY <1>5 DEF Whole
<1>16. EntriesWhole'
  <2>1. \A x \in entry \ {NoFile} : x \in DOMAIN data /\ x \in DOMAIN stable /\ x \in Inodes
    BY DEF TypeOK, Types
  <2> QED
    BY <1>1, <1>2, <1>5, <1>15, <2>1 DEF EntriesWhole
<1>17. LoadsSound' /\ OwnFilesLoad'
  <2>1. \A l \in Loads : load[l].region # NoFile => load[l].region \in Inodes
    BY DEF Types
  <2> QED
    BY <1>1, <1>2, <1>15, <2>1 DEF LoadsSound, OwnFilesLoad
<1> QED
  BY <1>8, <1>9, <1>10, <1>11, <1>12, <1>13, <1>14, <1>16, <1>17

\* The temporary file of a save, which nobody else can be at.
LEMMA HeldInode ==
    ASSUME IInv, NEW c \in Calls, Holding(c)
    PROVE  LET i == save[c].inode
           IN  /\ save[c].name \in DOMAIN temps /\ i = temps[save[c].name]
               /\ i \in Calls /\ i \in DOMAIN data /\ i \in DOMAIN stable /\ i \notin entry
               /\ \A l \in Loads : load[l].region # i
               /\ \A d \in Calls : d # c /\ Holding(d) => save[d].inode # i
               /\ \A n \in DOMAIN temps : n # save[c].name => temps[n] # i
<1> USE DEF IInv
<1>1. save[c].name \in DOMAIN temps /\ save[c].inode = temps[save[c].name]
  BY DEF Named
<1>2. \A d \in Calls : d # c /\ Holding(d) => save[d].name # save[c].name
  BY DEF NamesTaken, Holding, Running
<1> QED
  BY <1>1, <1>2 DEF Private, Named, TypeOK

LEMMA WriteIInv == ASSUME IInv, NEW c \in Calls, Write(c) PROVE IInv'
<1> USE FileAssumption DEF IInv
<1> DEFINE i == save[c].inode
<1>1. /\ save[c].pc = "write" /\ Goto(c, "sync") /\ data' = [data EXCEPT ![i] = c]
      /\ UNCHANGED <<clock, counter, temps, target, entry, stable, load>>
  BY DEF Write, At
<1>2. /\ i \in Calls /\ i \in DOMAIN data /\ i \notin entry
      /\ \A l \in Loads : load[l].region # i
      /\ \A d \in Calls : d # c /\ Holding(d) => save[d].inode # i
  BY <1>1, HeldInode DEF Holding
<1>3. /\ save' \in [Calls -> [pc: {"new"}] \cup Begun]
      /\ save'[c].pc = "sync" /\ save'[c].name = save[c].name
      /\ save'[c].proc = save[c].proc /\ save'[c].inode = i
      /\ \A d \in Calls : d # c => save'[d] = save[d]
  BY <1>1, GotoFacts DEF SavePcs
<1> HIDE DEF i
<1>4. /\ DOMAIN data' = DOMAIN data /\ data'[i] = c
      /\ \A x \in DOMAIN data : x # i => data'[x] = data[x]
  BY <1>1, <1>2
<1>5. Types' /\ TypeOK'
  <2>1. Types'
    BY <1>1, <1>3, <1>4 DEF Types
  <2> QED
    BY <1>1, <1>3, <1>4, <2>1 DEF TypeOK, Contents
<1>6. NamesTaken' /\ Named'
  <2>1. NamesTaken'
    BY <1>1, <1>3 DEF NamesTaken, Running
  <2> QED
    BY <1>1, <1>3, <2>1 DEF i, Named, Holding
<1>7. Private' /\ Unopened'
  BY <1>1, <1>3, <1>4 DEF Private, Unopened
<1>8. Written'
  <2> SUFFICES ASSUME NEW d \in Calls, save'[d].pc \in {"sync", "close", "rename"}
               PROVE  /\ data'[save'[d].inode] = d
                      /\ save'[d].pc \in {"close", "rename"} => stable[save'[d].inode] = d
    BY <1>1 DEF Written
  <2>1. CASE d = c
    BY <1>3, <1>4, <2>1
  <2>2. CASE d # c
    <3>1. Holding(d) /\ save[d].inode # i
      BY <1>2, <1>3, <2>2 DEF Holding
    <3>2. save[d].inode \in DOMAIN data
      BY <3>1, HeldInode
    <3> QED
      BY <1>3, <1>4, <2>2, <3>1, <3>2 DEF Written
  <2> QED
    BY <2>1, <2>2
<1>9. \A x : x # i /\ Whole(x) => Whole(x)'
  BY <1>4 DEF Whole
<1>10. EntriesWhole' /\ LoadsSound' /\ OwnFilesLoad'
  BY <1>1, <1>2, <1>4, <1>9 DEF EntriesWhole, LoadsSound, OwnFilesLoad, Whole
<1> QED
  BY <1>5, <1>6, <1>7, <1>8, <1>10

LEMMA SyncIInv == ASSUME IInv, NEW c \in Calls, Sync(c) PROVE IInv'
<1> USE FileAssumption DEF IInv
<1> DEFINE i == save[c].inode
<1>1. /\ save[c].pc = "sync" /\ Goto(c, "close")
      /\ stable' = [stable EXCEPT ![i] = data[i]]
      /\ UNCHANGED <<clock, counter, temps, target, entry, data, load>>
  BY DEF Sync, At
<1>2. /\ i \in DOMAIN data /\ i \in DOMAIN stable /\ i \notin entry
      /\ \A d \in Calls : d # c /\ Holding(d) => save[d].inode # i
  BY <1>1, HeldInode DEF Holding
<1>3. data[i] = c
  BY <1>1 DEF Written
<1>4. /\ save' \in [Calls -> [pc: {"new"}] \cup Begun]
      /\ save'[c].pc = "close" /\ save'[c].name = save[c].name
      /\ save'[c].proc = save[c].proc /\ save'[c].inode = i
      /\ \A d \in Calls : d # c => save'[d] = save[d]
  BY <1>1, GotoFacts DEF SavePcs
<1> HIDE DEF i
<1>5. /\ DOMAIN stable' = DOMAIN stable /\ stable'[i] = c
      /\ \A x \in DOMAIN stable : x # i => stable'[x] = stable[x]
  BY <1>1, <1>2, <1>3
<1>6. Types' /\ TypeOK'
  <2>1. Types'
    BY <1>1, <1>4, <1>5 DEF Types
  <2> QED
    BY <1>1, <1>4, <1>5, <2>1 DEF TypeOK, Contents
<1>7. NamesTaken' /\ Named'
  <2>1. NamesTaken'
    BY <1>1, <1>4 DEF NamesTaken, Running
  <2> QED
    BY <1>1, <1>4, <2>1 DEF i, Named, Holding
<1>8. Private' /\ Unopened' /\ LoadsSound' /\ OwnFilesLoad'
  BY <1>1, <1>4 DEF Private, Unopened, LoadsSound, OwnFilesLoad, Whole
<1>9. Written'
  <2> SUFFICES ASSUME NEW d \in Calls, save'[d].pc \in {"sync", "close", "rename"}
               PROVE  /\ data[save'[d].inode] = d
                      /\ save'[d].pc \in {"close", "rename"} => stable'[save'[d].inode] = d
    BY <1>1 DEF Written
  <2>1. CASE d = c
    BY <1>3, <1>4, <1>5, <2>1
  <2>2. CASE d # c
    <3>1. Holding(d) /\ save[d].inode # i
      BY <1>2, <1>4, <2>2 DEF Holding
    <3>2. save[d].inode \in DOMAIN stable
      BY <3>1, HeldInode
    <3> QED
      BY <1>4, <1>5, <2>2, <3>1, <3>2 DEF Written
  <2> QED
    BY <2>1, <2>2
<1>10. EntriesWhole'
  <2>1. \A x \in entry \ {NoFile} : x \in DOMAIN stable /\ x # i
    BY <1>2 DEF TypeOK
  <2> QED
    BY <1>1, <1>5, <2>1 DEF EntriesWhole, Whole
<1> QED
  BY <1>6, <1>7, <1>8, <1>9, <1>10

LEMMA CleanupIInv == ASSUME IInv, NEW c \in Calls, Cleanup(c) PROVE IInv'
<1> USE FileAssumption DEF IInv
<1> DEFINE n == save[c].name
<1>1. /\ save[c].pc = "remove" /\ Goto(c, "failed") /\ temps' \in {temps, Erase(temps, n)}
      /\ UNCHANGED <<clock, counter, target, entry, data, stable, load>>
  BY DEF Cleanup, At
<1>2. /\ save' \in [Calls -> [pc: {"new"}] \cup Begun]
      /\ save'[c].pc = "failed"
      /\ \A d \in Calls : d # c => save'[d] = save[d]
  BY <1>1, GotoFacts DEF SavePcs
<1>3. /\ DOMAIN temps' \subseteq DOMAIN temps
      /\ \A x \in DOMAIN temps' : temps'[x] = temps[x]
      /\ \A x \in DOMAIN temps : x # n => x \in DOMAIN temps'
  BY <1>1 DEF Erase
<1>4. Types' /\ TypeOK'
  <2>1. Types'
    BY <1>1, <1>2 DEF Types
  <2> QED
    BY <1>1, <1>2, <1>3, <2>1 DEF TypeOK
<1>5. NamesTaken'
  BY <1>1, <1>2 DEF NamesTaken, Running
<1>6. Named'
  <2>1. \A d \in Calls : d # c /\ Holding(d) => save[d].name # n
    BY <1>1 DEF NamesTaken, Running, Holding
  <2> QED
    BY <1>2, <1>3, <2>1 DEF Named, Holding
<1>7. Private' /\ Unopened'
  <2>1. Private'
    BY <1>1, <1>3 DEF Private
  <2> QED
    BY <1>1, <1>2, <2>1 DEF Unopened
<1>8. Written' /\ EntriesWhole' /\ LoadsSound' /\ OwnFilesLoad'
  <2>1. Written'
    BY <1>1, <1>2 DEF Written
  <2> QED
    BY <1>1, <2>1 DEF EntriesWhole, Whole, LoadsSound, OwnFilesLoad
<1> QED
  BY <1>4, <1>5, <1>6, <1>7, <1>8

\* rename: what becomes visible is the call's own image, whole and on disk.
LEMMA RenameIInv == ASSUME IInv, NEW c \in Calls, Rename(c) PROVE IInv'
<1> USE FileAssumption DEF IInv
<1> DEFINE n == save[c].name
           i == save[c].inode
<1>1. /\ save[c].pc = "rename" /\ Goto(c, "syncdir")
      /\ target' = temps[n] /\ entry' = entry \cup {target'} /\ temps' = Erase(temps, n)
      /\ UNCHANGED <<clock, counter, data, stable, load>>
  BY DEF Rename, At
<1>2. /\ i = temps[n] /\ i \in Calls /\ i \in DOMAIN data
      /\ \A d \in Calls : d # c /\ Holding(d) => save[d].inode # i
      /\ \A x \in DOMAIN temps : x # n => temps[x] # i
  BY <1>1, HeldInode DEF Holding
<1>3. data[i] = c /\ stable[i] = c
  BY <1>1 DEF Written
<1>4. /\ save' \in [Calls -> [pc: {"new"}] \cup Begun]
      /\ save'[c].pc = "syncdir" /\ save'[c].name = n
      /\ \A d \in Calls : d # c => save'[d] = save[d]
  BY <1>1, GotoFacts DEF SavePcs
<1> HIDE DEF i, n
<1>5. /\ DOMAIN temps' = DOMAIN temps \ {n}
      /\ \A x \in DOMAIN temps' : temps'[x] = temps[x]
  BY <1>1 DEF Erase
<1>6. target' = i /\ entry' = entry \cup {i} /\ i # NoFile
  BY <1>1, <1>2
<1>7. Types' /\ TypeOK'
  <2>1. Types'
    BY <1>1, <1>4 DEF Types
  <2> QED
    BY <1>1, <1>2, <1>4, <1>5, <1>6, <2>1 DEF TypeOK
<1>8. NamesTaken'
  BY <1>1, <1>4 DEF n, NamesTaken, Running
<1>9. Named'
  <2>1. \A d \in Calls : d # c /\ Holding(d) => save[d].name # n
    BY <1>1 DEF n, NamesTaken, Running, Holding
  <2> QED
    BY <1>4, <1>5, <2>1 DEF Named, Holding
<1>10. Private'
  BY <1>1, <1>2, <1>5, <1>6 DEF Private
<1>11. Unopened' /\ Written'
  <2>1. Unopened'
    BY <1>1, <1>4 DEF Unopened
  <2> QED
    BY <1>1, <1>4, <2>1 DEF Written
<1>12. EntriesWhole' /\ LoadsSound' /\ OwnFilesLoad'
  BY <1>1, <1>2, <1>3, <1>6 DEF EntriesWhole, LoadsSound, OwnFilesLoad, Whole
<1> QED
  BY <1>7, <1>8, <1>9, <1>10, <1>11, <1>12

LEMMA SyncDirectoryIInv == ASSUME IInv, NEW c \in Calls, SyncDirectory(c) PROVE IInv'
<1> USE FileAssumption DEF IInv
<1>1. /\ save[c].pc = "syncdir" /\ Goto(c, "ok") /\ entry' \in {entry, {target}}
      /\ UNCHANGED <<clock, counter, temps, target, data, stable, load>>
  BY DEF SyncDirectory, At
<1>2. /\ save' \in [Calls -> [pc: {"new"}] \cup Begun]
      /\ save'[c].pc = "ok"
      /\ \A d \in Calls : d # c => save'[d] = save[d]
  BY <1>1, GotoFacts DEF SavePcs
<1>3. target \in entry' /\ entry' \subseteq entry
  BY <1>1 DEF TypeOK
<1>4. Types' /\ TypeOK'
  <2>1. Types'
    BY <1>1, <1>2 DEF Types
  <2> QED
    BY <1>1, <1>2, <1>3, <2>1 DEF TypeOK
<1>5. NamesTaken' /\ Named'
  <2>1. NamesTaken'
    BY <1>1, <1>2 DEF NamesTaken, Running
  <2> QED
    BY <1>1, <1>2, <2>1 DEF Named, Holding
<1>6. Private' /\ Unopened' /\ Written'
  <2>1. Written'
    BY <1>1, <1>2 DEF Written
  <2> QED
    BY <1>1, <1>2, <1>3, <2>1 DEF Private, Unopened
<1>7. EntriesWhole' /\ LoadsSound' /\ OwnFilesLoad'
  BY <1>1, <1>3 DEF EntriesWhole, Whole, LoadsSound, OwnFilesLoad
<1> QED
  BY <1>4, <1>5, <1>6, <1>7

-----------------------------------------------------------------------------
(* Every step keeps the invariant: loads                                    *)

\* A step of a load leads to a record of the load that is sound by itself, with
\* the region it had, the file now at the path, or none.
LEMMA LoadStepIInv ==
    ASSUME IInv, NEW l \in Loads, NEW r \in [pc: LoadPcs, region: {NoFile, target, load[l].region}],
           load' = [load EXCEPT ![l] = r], UNCHANGED <<clock, counter, save, fs>>,
           r.pc \in {"new", "map"} => r.region = NoFile,
           r.pc \in {"check", "ok"} => r.region # NoFile,
           r.pc \in {"map", "check", "ok"} => target # NoFile,
           r.pc \in {"SnapshotNotFound", "Corruption", "UnsupportedVersion"}
               => r.region \in Foreign \cup {NoFile}
    PROVE  IInv'
<1> USE FileAssumption DEF IInv
<1>1. /\ load'[l] = r /\ \A m \in Loads : m # l => load'[m] = load[m]
      /\ UNCHANGED <<clock, counter, save, temps, target, entry, data, stable>>
  BY DEF Types, fs
<1>2. r.region # NoFile => /\ Whole(r.region) /\ r.region \in Inodes
                           /\ \A n \in DOMAIN temps : temps[n] # r.region
  <2>1. CASE r.region = target
    BY <2>1 DEF EntriesWhole, Private, TypeOK, Types
  <2>2. CASE r.region = load[l].region
    BY <2>2 DEF LoadsSound, Private, Types
  <2> QED
    BY <2>1, <2>2
<1>3. Types'
  BY <1>1, <1>2 DEF Types
<1>4. TypeOK' /\ NamesTaken' /\ Named' /\ Unopened' /\ Written' /\ EntriesWhole'
  BY <1>1 DEF TypeOK, NamesTaken, Running, Named, Holding, Unopened, Written,
              EntriesWhole, Whole
<1>5. Private'
  BY <1>1, <1>2 DEF Private
<1>6. LoadsSound' /\ OwnFilesLoad'
  BY <1>1, <1>2 DEF LoadsSound, OwnFilesLoad, Whole
<1> QED
  BY <1>3, <1>4, <1>5, <1>6

\* The step of a load that leaves its region alone, as a record.
LEMMA ReplacePc ==
    ASSUME Types, NEW l \in Loads, NEW x
    PROVE  [load EXCEPT ![l].pc = x] = [load EXCEPT ![l] = [pc |-> x, region |-> load[l].region]]
<1>1. load[l] \in [pc: LoadPcs, region: Inodes \cup {NoFile}]
  BY DEF Types
<1>2. [load[l] EXCEPT !.pc = x] = [pc |-> x, region |-> load[l].region]
  BY <1>1
<1>3. load \in [Loads -> [pc: LoadPcs, region: Inodes \cup {NoFile}]]
  BY DEF Types
<1> QED
  BY <1>2, <1>3

LEMMA StatIInv == ASSUME IInv, NEW l \in Loads, Stat(l) PROVE IInv'
<1> DEFINE pc == IF target = NoFile THEN "SnapshotNotFound" ELSE "map"
           r == [pc |-> pc, region |-> NoFile]
<1>1. load[l].region = NoFile /\ load[l] \in [pc: LoadPcs, region: Inodes \cup {NoFile}]
  BY DEF IInv, Types, LoadsSound, Stat
<1>2. load' = [load EXCEPT ![l] = r]
  BY <1>1, ReplacePc DEF IInv, Stat
<1>3. r \in [pc: LoadPcs, region: {NoFile, target, load[l].region}]
  BY DEF LoadPcs
<1> QED
  BY <1>2, <1>3, LoadStepIInv DEF Stat

LEMMA MapIInv == ASSUME IInv, NEW l \in Loads, Map(l) PROVE IInv'
<1>1. load[l].region = NoFile /\ load[l] \in [pc: LoadPcs, region: Inodes \cup {NoFile}]
  BY DEF IInv, Types, LoadsSound, Map
<1>2. CASE target # NoFile /\ load' = [load EXCEPT ![l] = [pc |-> "check", region |-> target]]
  <2> DEFINE r == [pc |-> "check", region |-> target]
  <2>1. r \in [pc: LoadPcs, region: {NoFile, target, load[l].region}]
    BY DEF LoadPcs
  <2> QED
    BY <1>2, <2>1, LoadStepIInv DEF Map
<1>3. CASE load' = [load EXCEPT ![l].pc = "SnapshotNotFound"]
  <2> DEFINE r == [pc |-> "SnapshotNotFound", region |-> NoFile]
  <2>1. r \in [pc: LoadPcs, region: {NoFile, target, load[l].region}]
    BY DEF LoadPcs
  <2>2. load' = [load EXCEPT ![l] = r]
    BY <1>1, <1>3, ReplacePc DEF IInv
  <2> QED
    BY <2>1, <2>2, LoadStepIInv DEF Map
<1> QED
  BY <1>2, <1>3 DEF Map

\* A load accepts every file of the engine's own.
LEMMA CheckIInv == ASSUME IInv, NEW l \in Loads, Check(l) PROVE IInv'
<1> USE DEF IInv
<1> DEFINE g == load[l].region
<1>1. /\ load[l].pc = "check" /\ g # NoFile /\ target # NoFile /\ Whole(g) /\ g \in Inodes
      /\ load[l] \in [pc: LoadPcs, region: Inodes \cup {NoFile}]
  BY DEF Check, LoadsSound, OwnFilesLoad, Types
<1>2. PICK verdict \in Verdicts(data[g]) : load' = [load EXCEPT ![l].pc = verdict]
  BY DEF Check
<1>3. verdict \in {"SnapshotNotFound", "Corruption", "UnsupportedVersion", "ok"}
  BY DEF Verdicts
<1>4. g \in Calls => verdict = "ok"
  BY <1>1, FileAssumption DEF Verdicts, Whole
<1> DEFINE r == [pc |-> verdict, region |-> g]
<1>5. r \in [pc: LoadPcs, region: {NoFile, target, load[l].region}]
  BY <1>3 DEF LoadPcs
<1>6. load' = [load EXCEPT ![l] = r]
  BY <1>1, <1>2, ReplacePc
<1>7. UNCHANGED <<clock, counter, save, fs>>
  BY DEF Check
<1> QED
  BY <1>1, <1>3, <1>4, <1>5, <1>6, <1>7, LoadStepIInv DEF Inodes

LEMMA UnmapIInv == ASSUME IInv, NEW l \in Loads, Unmap(l) PROVE IInv'
<1> DEFINE r == [pc |-> "closed", region |-> NoFile]
<1>1. r \in [pc: LoadPcs, region: {NoFile, target, load[l].region}]
  BY DEF LoadPcs
<1> QED
  BY <1>1, LoadStepIInv DEF Unmap

-----------------------------------------------------------------------------
(* Every step keeps the invariant: the environment                          *)

LEMMA TickIInv == ASSUME IInv, Tick PROVE IInv'
<1>1. clock' \in Nat /\ UNCHANGED <<counter, save, temps, target, entry, data, stable, load>>
  BY DEF IInv, Types, Tick, fs
<1>2. Types'
  BY <1>1 DEF IInv, Types
<1> QED
  BY <1>1, <1>2 DEF IInv, TypeOK, NamesTaken, Running, Named, Holding, Private, Unopened,
                    Written, EntriesWhole, Whole, LoadsSound, OwnFilesLoad

LEMMA StutterIInv == ASSUME IInv, UNCHANGED vars PROVE IInv'
<1>1. UNCHANGED <<clock, counter, save, temps, target, entry, data, stable, load>>
  BY DEF vars, fs
<1>2. Types'
  BY <1>1 DEF IInv, Types
<1> QED
  BY <1>1, <1>2 DEF IInv, TypeOK, NamesTaken, Running, Named, Holding, Private, Unopened,
                    Written, EntriesWhole, Whole, LoadsSound, OwnFilesLoad

\* Calls that end without an answer, none of those that never started.
LEMMA LoseFacts ==
    ASSUME Types, TypeOK, NEW S \in SUBSET {c \in Calls : Running(c)}, LoseCalls(S)
    PROVE  /\ save' \in [Calls -> [pc: {"new"}] \cup Begun]
           /\ \A c \in S : save'[c].pc = "lost"
           /\ \A c \in Calls \ S : save'[c] = save[c]
<1>1. \A c \in S : save[c] \in Begun
  BY DEF Types, Running
<1>2. \A c \in S : [save[c] EXCEPT !.pc = "lost"] \in Begun
  BY <1>1 DEF Begun, SavePcs
<1>3. \A c \in S : [save[c] EXCEPT !.pc = "lost"].pc = "lost"
  BY <1>1 DEF Begun
<1>4. \A c \in Calls : save'[c] = IF c \in S THEN [save[c] EXCEPT !.pc = "lost"] ELSE save[c]
  BY DEF LoseCalls
<1>5. save' = [c \in Calls |-> save'[c]]
  BY DEF LoseCalls
<1>6. \A c \in Calls : save'[c] \in [pc: {"new"}] \cup Begun
  BY <1>2, <1>4 DEF Types
<1>7. save' \in [Calls -> [pc: {"new"}] \cup Begun]
  BY <1>5, <1>6
<1>8. \A c \in S : save'[c].pc = "lost"
  <2> TAKE c \in S
  <2>1. save'[c] = [save[c] EXCEPT !.pc = "lost"]
    BY <1>4
  <2> QED
    BY <1>3, <2>1
<1> QED
  BY <1>4, <1>7, <1>8

LEMMA KillIInv == ASSUME OneProcess, IInv, NEW p \in Procs, Kill(p) PROVE IInv'
<1> USE DEF IInv
<1> DEFINE S == {c \in Calls : Running(c) /\ save[c].proc = p}
<1>1. /\ LoseCalls(S) /\ counter' = [counter EXCEPT ![p] = 0]
      /\ UNCHANGED <<clock, temps, target, entry, data, stable, load>>
  BY DEF Kill, fs
<1>2. \A c \in Calls : Running(c) => c \in S
  BY DEF Types, Begun, Running, OneProcess
<1>3. S \in SUBSET {c \in Calls : Running(c)}
  OBVIOUS
<1> HIDE DEF S
<1>4. /\ save' \in [Calls -> [pc: {"new"}] \cup Begun]
      /\ \A c \in S : save'[c].pc = "lost"
      /\ \A c \in Calls \ S : save'[c] = save[c]
  BY <1>1, <1>3, LoseFacts
<1>5. \A c \in Calls : ~Running(c)'
  BY <1>2, <1>4 DEF Running
<1>6. Types'
  BY <1>1, <1>4 DEF Types
<1>7. TypeOK'
  BY <1>1, <1>4 DEF TypeOK
<1>8. NamesTaken'
  BY <1>5 DEF NamesTaken
<1>9. Named' /\ Written'
  BY <1>5 DEF Named, Written, Holding, Running
<1>10. Private' /\ Unopened'
  BY <1>1, <1>4 DEF Private, Unopened
<1>11. EntriesWhole' /\ LoadsSound' /\ OwnFilesLoad'
  BY <1>1 DEF EntriesWhole, Whole, LoadsSound, OwnFilesLoad
<1> QED
  BY <1>6, <1>7, <1>8, <1>9, <1>10, <1>11

LEMMA CrashIInv == ASSUME IInv, Crash PROVE IInv'
<1> USE FileAssumption DEF IInv
<1> DEFINE S == {c \in Calls : Running(c)}
<1>1. /\ LoseCalls(S) /\ counter' = [p \in Procs |-> 0] /\ clock' = 0
      /\ target' \in entry /\ entry' = {target'}
      /\ data' = stable /\ stable' = stable
  BY DEF Crash
<1>2. /\ save' \in [Calls -> [pc: {"new"}] \cup Begun]
      /\ \A c \in S : save'[c].pc = "lost"
      /\ \A c \in Calls \ S : save'[c] = save[c]
  BY <1>1, LoseFacts
<1>3. \A c \in Calls : ~Running(c)'
  BY <1>2 DEF Running
<1>4. /\ DOMAIN temps' \subseteq DOMAIN temps
      /\ \A n \in DOMAIN temps' : temps'[n] = temps[n]
  BY DEF Crash
<1>5. \A l \in Loads : load'[l].pc \in {"new", "closed"} /\ load'[l].region = NoFile
  BY DEF Crash, LoadsSound
<1>6. \A l \in Loads : load'[l] \in [pc: LoadPcs, region: Inodes \cup {NoFile}]
  BY DEF Crash, Types, LoadPcs
<1>7. Types'
  <2>1. load' = [l \in Loads |-> load'[l]]
    BY DEF Crash
  <2> QED
    BY <1>1, <1>2, <1>6, <2>1 DEF Types
<1>8. TypeOK'
  BY <1>1, <1>2, <1>4 DEF TypeOK
<1>9. NamesTaken' /\ Named' /\ Written'
  BY <1>3 DEF NamesTaken, Named, Written, Holding, Running
<1>10. Private'
  <2>1. DOMAIN data' = DOMAIN data /\ entry' \subseteq entry
    BY <1>1 DEF TypeOK
  <2> QED
    BY <1>4, <1>5, <2>1 DEF Private
<1>11. Unopened'
  BY <1>1, <1>2 DEF Unopened, TypeOK
<1>12. EntriesWhole'
  BY <1>1 DEF EntriesWhole, Whole, TypeOK
<1>13. LoadsSound' /\ OwnFilesLoad'
  BY <1>5 DEF LoadsSound, OwnFilesLoad
<1> QED
  BY <1>7, <1>8, <1>9, <1>10, <1>11, <1>12, <1>13

LEMMA NextIInv == ASSUME OneProcess, IInv, [Next]_vars PROVE IInv'
<1>1. ASSUME NEW c \in Calls, NEW p \in Procs, MakeTempPath(c, p) PROVE IInv'
  BY <1>1, MakeTempPathIInv
<1>2. ASSUME NEW c \in Calls,
             Open(c) \/ OpenFails(c) \/ Write(c) \/ Sync(c) \/ Close(c)
             \/ StepFails(c) \/ Cleanup(c) \/ Rename(c) \/ SyncDirectory(c)
      PROVE  IInv'
  BY <1>2, OpenIInv, OpenFailsIInv, WriteIInv, SyncIInv, CloseIInv, StepFailsIInv,
     CleanupIInv, RenameIInv, SyncDirectoryIInv
<1>3. ASSUME NEW l \in Loads, Stat(l) \/ Map(l) \/ Check(l) \/ Unmap(l) PROVE IInv'
  BY <1>3, StatIInv, MapIInv, CheckIInv, UnmapIInv
<1>4. CASE Tick
  BY <1>4, TickIInv
<1>5. ASSUME NEW p \in Procs, Kill(p) PROVE IInv'
  BY <1>5, KillIInv
<1>6. CASE Crash
  BY <1>6, CrashIInv
<1>7. CASE UNCHANGED vars
  BY <1>7, StutterIInv
<1> QED
  BY <1>1, <1>2, <1>3, <1>4, <1>5, <1>6, <1>7 DEF Next

LEMMA Inductive == ASSUME OneProcess PROVE Spec => []IInv
<1>1. Init => IInv
  BY InitIInv
<1>2. IInv /\ [Next]_vars => IInv'
  BY NextIInv
<1> QED
  BY <1>1, <1>2, PTL DEF Spec

-----------------------------------------------------------------------------
(* The theorems                                                             *)

\* The saves, the directory and the contents of files keep their types, whatever
\* fails, dies or crashes.
THEOREM TypeCorrect == ASSUME OneProcess PROVE Spec => []TypeOK
<1>1. IInv => TypeOK
  BY DEF IInv
<1> QED
  BY <1>1, Inductive, PTL

\* The engine's own files always load, whatever saves, failures, deaths and
\* crashes a load races with (persistence.hpp:14-30, persistence.cpp:523-560).
THEOREM LoadsAcceptOwnFiles == ASSUME OneProcess PROVE Spec => []OwnFilesLoad
<1>1. IInv => OwnFilesLoad
  BY DEF IInv
<1> QED
  BY <1>1, Inductive, PTL

\* No save touches a file that a load or a loaded collection has mapped.
THEOREM MappedFilesKept == ASSUME OneProcess PROVE Spec => MappingsStable
<1> DEFINE A == \A l \in Loads :
                   load[l].region # NoFile /\ load'[l].region = load[l].region
                       => data'[load[l].region] = data[load[l].region]
<1>1. ASSUME IInv, [Next]_vars PROVE A
  <2>1. ASSUME NEW c \in Calls, Open(c) PROVE A
    <3>1. \A l \in Loads : load[l].region # NoFile => load[l].region \in DOMAIN data
      BY <1>1 DEF IInv, LoadsSound, Whole
    <3>2. \A l \in Loads : load[l].region # OpenedInode(c)
      BY <1>1, <2>1, OpenedInodeFacts DEF Open, At
    <3>3. data' = Put(data, OpenedInode(c), Torn)
      BY <2>1 DEF Open, OpenedInode
    <3> QED
      BY <3>1, <3>2, <3>3 DEF Put
  <2>2. ASSUME NEW c \in Calls, Write(c) PROVE A
    <3>1. \A l \in Loads : load[l].region # NoFile => load[l].region \in DOMAIN data
      BY <1>1 DEF IInv, LoadsSound, Whole
    <3>2. \A l \in Loads : load[l].region # save[c].inode
      BY <1>1, <2>2, HeldInode DEF Write, At, Holding
    <3> QED
      BY <2>2, <3>1, <3>2 DEF Write
  <2>3. CASE Crash
    BY <1>1, <2>3 DEF Crash, IInv, LoadsSound
  <2>4. CASE data' = data
    BY <2>4
  <2>5. \/ \E c \in Calls : Open(c) \/ Write(c)
        \/ Crash
        \/ data' = data
    BY <1>1 DEF Next, vars, fs, MakeTempPath, OpenFails, Sync, Close, StepFails, Cleanup,
                Rename, SyncDirectory, Stat, Map, Check, Unmap, Tick, Kill
  <2> QED
    BY <2>1, <2>2, <2>3, <2>4, <2>5
<1> QED
  BY <1>1, Inductive, PTL DEF MappingsStable, Spec

-----------------------------------------------------------------------------
(* The refinement                                                           *)

\* The state of SnapshotFile that a state stands for.
File        == Seen(target, data)
Recoverable == {Seen(i, stable) : i \in entry}
Result      == [c \in Calls |-> Standing(c)]

\* A step that moves one call and leaves the path and what it leads to.
LEMMA SameFile ==
    ASSUME target \in entry, UNCHANGED <<target, entry>>,
           \A i \in entry \ {NoFile} : data'[i] = data[i] /\ stable'[i] = stable[i]
    PROVE  UNCHANGED <<File, Recoverable>>
<1>1. \A i \in entry : Seen(i, stable)' = Seen(i, stable)
  BY DEF Seen
<1>2. Recoverable' = {Seen(i, stable)' : i \in entry}
  BY DEF Recoverable
<1> QED
  BY <1>1, <1>2 DEF File, Recoverable, Seen

LEMMA MovedResult ==
    ASSUME NEW c \in Calls, \A d \in Calls : d # c => save'[d] = save[d]
    PROVE  Result' = [Result EXCEPT ![c] = Standing(c)']
<1>1. \A d \in Calls : d # c => Standing(d)' = Standing(d)
  BY DEF Standing
<1> QED
  BY <1>1 DEF Result

\* Steps of a save before its file is published.
LEMMA PendingSteps ==
    ASSUME IInv, NEW c \in Calls,
           \/ \E p \in Procs : MakeTempPath(c, p)
           \/ Open(c) \/ Write(c) \/ Sync(c) \/ Close(c) \/ StepFails(c)
    PROVE  UNCHANGED <<File, Recoverable, Result>>
<1> USE DEF IInv
<1>1. target \in entry /\ \A i \in entry \ {NoFile} : i \in DOMAIN data /\ i \in DOMAIN stable
  BY DEF TypeOK
<1>2. UNCHANGED <<target, entry>>
  BY DEF MakeTempPath, Open, Write, Sync, Close, StepFails, fs
<1>3. \A i \in entry \ {NoFile} : data'[i] = data[i] /\ stable'[i] = stable[i]
  <2>1. CASE Open(c)
    <3>1. OpenedInode(c) \notin entry
      BY <2>1, OpenedInodeFacts DEF Open, At
    <3>2. /\ data' = Put(data, OpenedInode(c), Torn)
          /\ stable' = Put(stable, OpenedInode(c), Torn)
      BY <2>1 DEF Open, OpenedInode
    <3> QED
      BY <1>1, <3>1, <3>2 DEF Put
  <2>2. CASE Write(c)
    <3>1. save[c].inode \notin entry
      BY <2>2, HeldInode DEF Write, At, Holding
    <3> QED
      BY <1>1, <2>2, <3>1 DEF Write
  <2>3. CASE Sync(c)
    <3>1. save[c].inode \notin entry
      BY <2>3, HeldInode DEF Sync, At, Holding
    <3> QED
      BY <1>1, <2>3, <3>1 DEF Sync
  <2>4. CASE (\E p \in Procs : MakeTempPath(c, p)) \/ Close(c) \/ StepFails(c)
    BY <2>4 DEF MakeTempPath, Close, StepFails, fs
  <2> QED
    BY <2>1, <2>2, <2>3, <2>4
<1>4. /\ Standing(c) = "pending" /\ Standing(c)' = "pending"
      /\ \A d \in Calls : d # c => save'[d] = save[d]
  <2>1. CASE \E p \in Procs : MakeTempPath(c, p)
    BY <2>1 DEF MakeTempPath, At, Standing, Types
  <2>2. CASE Open(c)
    <3>1. save[c] \in Begun
      BY <2>2 DEF Types, Open, At
    <3>2. /\ save'[c].pc = "write"
          /\ \A d \in Calls : d # c => save'[d] = save[d]
      BY <2>2, <3>1 DEF Open, Types, Begun
    <3> QED
      BY <2>2, <3>2 DEF Open, At, Standing
  <2>3. CASE Write(c) \/ Sync(c) \/ Close(c) \/ StepFails(c)
    <3>1. PICK x \in {"sync", "close", "rename", "remove"} : Goto(c, x)
      BY <2>3 DEF Write, Sync, Close, StepFails
    <3>2. save[c].pc \in {"write", "sync", "close", "rename"}
      BY <2>3 DEF Write, Sync, Close, StepFails, At
    <3>3. x \in SavePcs /\ save[c].pc # "new"
      BY <3>1, <3>2 DEF SavePcs
    <3>4. save'[c].pc = x /\ \A d \in Calls : d # c => save'[d] = save[d]
      BY <3>1, <3>3, GotoFacts
    <3> QED
      BY <3>1, <3>2, <3>4 DEF Standing
  <2> QED
    BY <2>1, <2>2, <2>3
<1>5. Result' = Result
  BY <1>4, MovedResult DEF Result
<1> QED
  BY <1>1, <1>2, <1>3, <1>5, SameFile

\* Calls that are lost, with their process or with the machine.
LEMMA LostCalls ==
    ASSUME Types, TypeOK, NEW S \in SUBSET {c \in Calls : Running(c)}, LoseCalls(S)
    PROVE  /\ S \in SUBSET {c \in Calls : Result[c] \in {"pending", "published"}}
           /\ Result' = [c \in Calls |-> IF c \in S THEN "lost" ELSE Result[c]]
<1>1. /\ \A c \in S : save'[c].pc = "lost"
      /\ \A c \in Calls \ S : save'[c] = save[c]
  BY LoseFacts
<1>2. \A c \in S : Standing(c)' = "lost" /\ Standing(c) \in {"pending", "published"}
  BY <1>1 DEF Standing, Running
<1>3. \A c \in Calls \ S : Standing(c)' = Standing(c)
  BY <1>1 DEF Standing
<1> QED
  BY <1>2, <1>3 DEF Result

\* Saves are atomic: what the path leads to, what a crash may leave there and the
\* answers of the saves change as SnapshotFile promises (persistence.hpp:14-30).
THEOREM Refinement == ASSUME OneProcess PROVE Spec => ImplementsSnapshotFile
<1>1. Init => F!Init
  <2> SUFFICES ASSUME Init PROVE F!Init
    OBVIOUS
  <2>1. \A i \in entry : Seen(i, stable) = Seen(target, data)
    BY DEF Init
  <2>2. {Seen(i, stable) : i \in entry} = {Seen(target, data)}
    BY <2>1 DEF Init
  <2>3. \A c \in Calls : Standing(c) = "pending"
    BY DEF Init, Standing
  <2> QED
    BY <2>2, <2>3 DEF F!Init
<1>2. IInv /\ [Next]_vars => [F!Next]_F!vars
  <2> SUFFICES ASSUME IInv, [Next]_vars PROVE F!Next \/ UNCHANGED F!vars
    OBVIOUS
  <2> USE DEF IInv
  <2>1. UNCHANGED <<File, Recoverable, Result>> => UNCHANGED F!vars
    BY DEF F!vars, File, Recoverable, Result
  <2>2. ASSUME UNCHANGED <<target, entry, data, stable>>
        PROVE  UNCHANGED <<File, Recoverable>>
    BY <2>2 DEF File, Recoverable, Seen
  <2>3. ASSUME NEW c \in Calls,
               \/ \E p \in Procs : MakeTempPath(c, p)
               \/ Open(c) \/ Write(c) \/ Sync(c) \/ Close(c) \/ StepFails(c)
        PROVE  UNCHANGED F!vars
    BY <2>1, <2>3, PendingSteps
  <2>4. ASSUME NEW c \in Calls, OpenFails(c) \/ Cleanup(c)
        PROVE  F!Fail(c)
    <3>1. /\ save[c].pc \in {"open", "remove"} /\ Goto(c, "failed")
          /\ UNCHANGED <<target, entry, data, stable>>
      BY <2>4 DEF OpenFails, Cleanup, At, fs
    <3>2. /\ save'[c].pc = "failed" /\ \A d \in Calls : d # c => save'[d] = save[d]
      BY <3>1, GotoFacts DEF SavePcs
    <3>3. Result[c] = "pending" /\ Result' = [Result EXCEPT ![c] = "failed"]
      BY <3>1, <3>2, MovedResult DEF Result, Standing
    <3> QED
      BY <2>2, <3>1, <3>3 DEF F!Fail, File, Recoverable, Result
  <2>5. ASSUME NEW c \in Calls, Rename(c)
        PROVE  F!Publish(c)
    <3>1. /\ save[c].pc = "rename" /\ Goto(c, "syncdir")
          /\ entry' = entry \cup {target'} /\ target' = temps[save[c].name]
          /\ UNCHANGED <<data, stable>>
      BY <2>5 DEF Rename, At
    <3>2. target' = save[c].inode /\ target' # NoFile
      BY <3>1, HeldInode, FileAssumption DEF Holding
    <3>3. Seen(target', data) = c /\ Seen(target', stable) = c
      BY <3>1, <3>2 DEF Written, Seen
    <3>4. /\ save'[c].pc = "syncdir" /\ \A d \in Calls : d # c => save'[d] = save[d]
      BY <3>1, GotoFacts DEF SavePcs
    <3>5. Result[c] = "pending" /\ Result' = [Result EXCEPT ![c] = "published"]
      BY <3>1, <3>4, MovedResult DEF Result, Standing
    <3>6. {Seen(i, stable) : i \in entry'} = {Seen(i, stable) : i \in entry} \cup {c}
      BY <3>1, <3>3
    <3>7. File' = c /\ Recoverable' = Recoverable \cup {c}
      BY <3>1, <3>3, <3>6 DEF File, Recoverable, Seen
    <3> QED
      BY <3>5, <3>7 DEF F!Publish, File, Recoverable, Result
  <2>6. ASSUME NEW c \in Calls, SyncDirectory(c)
        PROVE  F!Succeed(c)
    <3>1. /\ save[c].pc = "syncdir" /\ Goto(c, "ok") /\ entry' \in {entry, {target}}
          /\ UNCHANGED <<target, data, stable>>
      BY <2>6 DEF SyncDirectory, At
    <3>2. /\ save'[c].pc = "ok" /\ \A d \in Calls : d # c => save'[d] = save[d]
      BY <3>1, GotoFacts DEF SavePcs
    <3>3. Result[c] = "published" /\ Result' = [Result EXCEPT ![c] = "ok"]
      BY <3>1, <3>2, MovedResult DEF Result, Standing
    <3>4. Seen(target, stable) = Seen(target, data)
      BY DEF EntriesWhole, Seen
    <3>5. File' = File
      BY <3>1 DEF File, Seen
    <3>6. Recoverable' \in {Recoverable, {File}}
      <4>1. CASE entry' = entry
        BY <3>1, <4>1 DEF Recoverable, Seen
      <4>2. CASE entry' = {target}
        BY <3>1, <3>4, <4>2 DEF Recoverable, File, Seen
      <4> QED
        BY <3>1, <4>1, <4>2
    <3> QED
      BY <3>3, <3>5, <3>6 DEF F!Succeed, File, Recoverable, Result
  <2>7. ASSUME NEW p \in Procs, Kill(p)
        PROVE  \E S \in SUBSET F!Unanswered : F!Kill(S)
    <3> DEFINE S == {c \in Calls : Running(c) /\ save[c].proc = p}
    <3>1. LoseCalls(S) /\ UNCHANGED <<target, entry, data, stable>>
      BY <2>7 DEF Kill, fs
    <3>2. S \in SUBSET {c \in Calls : Running(c)}
      OBVIOUS
    <3> HIDE DEF S
    <3>3. /\ S \in SUBSET {c \in Calls : Result[c] \in {"pending", "published"}}
          /\ Result' = [c \in Calls |-> IF c \in S THEN "lost" ELSE Result[c]]
      BY <3>1, <3>2, LostCalls
    <3>4. S \in SUBSET F!Unanswered
      BY <3>3 DEF F!Unanswered, Result
    <3>5. F!Kill(S)
      BY <2>2, <3>1, <3>3 DEF F!Kill, F!Lose, File, Recoverable, Result
    <3> QED
      BY <3>4, <3>5
  <2>8. ASSUME Crash
        PROVE  \E S \in SUBSET F!Unanswered : F!Crash(S)
    <3> DEFINE S == {c \in Calls : Running(c)}
    <3>1. /\ LoseCalls(S) /\ target' \in entry /\ entry' = {target'}
          /\ data' = stable /\ stable' = stable
      BY <2>8 DEF Crash
    <3>2. /\ S \in SUBSET {c \in Calls : Result[c] \in {"pending", "published"}}
          /\ Result' = [c \in Calls |-> IF c \in S THEN "lost" ELSE Result[c]]
      BY <3>1, LostCalls
    <3> HIDE DEF S
    <3>3. S \in SUBSET F!Unanswered
      BY <3>2 DEF F!Unanswered, Result
    <3>4. File' \in Recoverable /\ Recoverable' = {File'}
      BY <3>1 DEF File, Recoverable, Seen
    <3>5. F!Crash(S)
      BY <3>2, <3>4 DEF F!Crash, F!Lose, File, Recoverable, Result
    <3> QED
      BY <3>3, <3>5
  <2>9. ASSUME \/ \E l \in Loads : Stat(l) \/ Map(l) \/ Check(l) \/ Unmap(l)
               \/ Tick
               \/ UNCHANGED vars
        PROVE  UNCHANGED F!vars
    <3>1. UNCHANGED <<save, target, entry, data, stable>>
      BY <2>9 DEF Stat, Map, Check, Unmap, Tick, vars, fs
    <3>2. Result' = Result
      BY <3>1 DEF Result, Standing
    <3> QED
      BY <2>1, <2>2, <3>1, <3>2
  <2> QED
    BY <2>3, <2>4, <2>5, <2>6, <2>7, <2>8, <2>9 DEF Next, F!Next
<1> QED
  BY <1>1, <1>2, Inductive, PTL DEF Spec, ImplementsSnapshotFile, F!Spec
=============================================================================
