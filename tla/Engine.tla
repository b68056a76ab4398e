-------------------------------- MODULE Engine --------------------------------
(***************************************************************************)
(* The engine of src/core/engine.cpp over the collections of Collection:    *)
(* the registry of names, the source of allocator tags, the engine mutex,   *)
(* the handles callers keep, and the snapshots saved to files.              *)
(*                                                                          *)
(* create, get and delete run to their end under the mutex and are one      *)
(* action each.  list and save keep the mutex while they wait for the       *)
(* shared lock of a collection, so they are split there.  A snapshot file   *)
(* is written as a whole or not at all (see Persistence).                   *)
(*                                                                          *)
(* Contract of CollectionHandle (collection.hpp:201-204): a handle is used  *)
(* only while its collection is registered, so no call is in progress on a  *)
(* collection when it is deleted, and none starts afterwards.               *)
(***************************************************************************)
EXTENDS Collection

CONSTANTS Names, Paths, NoFile

\* Tags are numbers; no thread is NoTag and no path NoFile.
ASSUME EngineAssumption == Tags \subseteq Nat /\ NoTag \notin Threads /\ NoFile \notin Paths

VARIABLES collections,  \* the registry: name -> tag
          next_tag,
          mutex,        \* the thread that holds the engine mutex, or NoTag
          todo,         \* thread -> the collections its engine call has to read
          saving,       \* thread -> path of the save it is in, or NoFile
          handle,       \* thread -> tag its handle points to, or NoTag
          files         \* path -> the snapshot saved there, or NoFile

engine == <<collections, next_tag, mutex, todo, saving, handle, files>>

evars == <<vars, engine>>

Registered == {collections[n] : n \in DOMAIN collections}

\* The engine mutex is free for a thread that is in no call.
Enter(t) == mutex = NoTag /\ op[t] = Idle /\ todo[t] = {} /\ saving[t] = NoFile

Counted == calls < MaxCalls /\ calls' = calls + 1

\* A collection object built under the current tag, with these contents.
Fresh(mp, recs, ix) ==
    /\ mapped' = [mapped EXCEPT ![next_tag] = mp]
    /\ records' = [records EXCEPT ![next_tag] = recs]
    /\ record_count' = [record_count EXCEPT ![next_tag] = Cardinality(DOMAIN recs)]
    /\ index' = [index EXCEPT ![next_tag] = ix]

-----------------------------------------------------------------------------

\* Mutant of CreateCollection: the tag is not used up.
CreateReusesTag(t, n) ==
    /\ Enter(t)
    /\ Counted
    /\ n \notin DOMAIN collections
    /\ next_tag \in Tags
    /\ Fresh(EmptyMap, EmptyMap, NoIndex)
    /\ collections' = Put(collections, n, next_tag)
    /\ handle' = [handle EXCEPT ![t] = next_tag]
    /\ UNCHANGED <<owner, mem, op, next_tag, mutex, todo, saving, files>>

CreateCollection(t, n) ==
    /\ Enter(t)
    /\ Counted
    /\ n \notin DOMAIN collections
    /\ next_tag \in Tags
    /\ Fresh(EmptyMap, EmptyMap, NoIndex)
    /\ collections' = Put(collections, n, next_tag)
    /\ next_tag' = next_tag + 1
    /\ handle' = [handle EXCEPT ![t] = next_tag]
    /\ UNCHANGED <<owner, mem, op, mutex, todo, saving, files>>

GetCollection(t, n) ==
    /\ Enter(t)
    /\ Counted
    /\ n \in DOMAIN collections
    /\ handle' = [handle EXCEPT ![t] = collections[n]]
    /\ UNCHANGED <<records, record_count, index, mapped, owner, mem, op,
                   collections, next_tag, mutex, todo, saving, files>>

\* NameConflict, NotFound, and an injected deletion fault: nothing changes.
Refused(t, n) ==
    /\ Enter(t)
    /\ UNCHANGED evars

\* Mutants of ReleaseAll: nothing is released; everything is.
ReleaseAllForgets(c) == owner
ReleaseAllTags(c) == [b \in Blocks |-> NoTag]

\* allocator_.release_all(c): see ImplementsArena in MemoryAllocator.
ReleaseAll(c) == [b \in Blocks |-> IF owner[b] = c THEN NoTag ELSE owner[b]]

\* release_all(tag), then the registry entry and the collection object go.
EraseCollection(t, n) ==
    /\ Enter(t)
    /\ Counted
    /\ n \in DOMAIN collections
    /\ LET c == collections[n]
       IN  /\ owner' = ReleaseAll(c)
           /\ records' = [records EXCEPT ![c] = EmptyMap]
           /\ record_count' = [record_count EXCEPT ![c] = 0]
           /\ index' = [index EXCEPT ![c] = NoIndex]
           /\ mapped' = [mapped EXCEPT ![c] = EmptyMap]
    /\ collections' = Erase(collections, n)
    /\ UNCHANGED <<mem, op, next_tag, mutex, todo, saving, handle, files>>

\* By the contract of handles nobody is inside the collection.
DeleteCollection(t, n) ==
    /\ n \in DOMAIN collections
    /\ \A u \in Threads : ~InCall(u, collections[n])
    /\ EraseCollection(t, n)

\* list_collections: the mutex, then the info() of every collection in turn.
StartList(t) ==
    /\ Enter(t)
    /\ Counted
    /\ collections # EmptyMap
    /\ mutex' = t
    /\ todo' = [todo EXCEPT ![t] = Registered]
    /\ UNCHANGED <<records, record_count, index, mapped, owner, mem, op,
                   collections, next_tag, saving, handle, files>>

\* save_collection: the mutex, held until the file is written.
StartSave(t, n, path) ==
    /\ Enter(t)
    /\ Counted
    /\ n \in DOMAIN collections
    /\ mutex' = t
    /\ todo' = [todo EXCEPT ![t] = {collections[n]}]
    /\ saving' = [saving EXCEPT ![t] = path]
    /\ UNCHANGED <<records, record_count, index, mapped, owner, mem, op,
                   collections, next_tag, handle, files>>

NameOf(c) == CHOOSE n \in DOMAIN collections : collections[n] = c

\* snapshot_data(): a point-in-time copy under the shared lock.
Snapshot(c) == [name |-> NameOf(c), view |-> View(c), index |-> index[c]]

\* Mutant of Inspect: a save that fails returns with the mutex held.
InspectKeepsMutex(t) ==
    \E c \in todo[t] :
        /\ CanRead(c)
        /\ todo' = [todo EXCEPT ![t] = @ \ {c}]
        /\ saving' = [saving EXCEPT ![t] = NoFile]
        /\ \/ /\ saving[t] # NoFile
              /\ files' = [files EXCEPT ![saving[t]] = Snapshot(c)]
              /\ mutex' = NoTag
           \/ /\ mutex' = IF todo[t] = {c} /\ saving[t] = NoFile THEN NoTag ELSE mutex
              /\ UNCHANGED files
        /\ UNCHANGED <<vars, collections, next_tag, handle>>

\* info() or snapshot_data() of a collection, once its shared lock is free; a
\* save then writes what it copied, or fails and leaves the old file.
Inspect(t) ==
    \E c \in todo[t] :
        /\ CanRead(c)
        /\ todo' = [todo EXCEPT ![t] = @ \ {c}]
        /\ mutex' = IF todo[t] = {c} THEN NoTag ELSE mutex
        /\ saving' = [saving EXCEPT ![t] = NoFile]
        /\ \/ /\ saving[t] # NoFile
              /\ files' = [files EXCEPT ![saving[t]] = Snapshot(c)]
           \/ UNCHANGED files
        /\ UNCHANGED <<vars, collections, next_tag, handle>>

\* load_collection takes a tag before it knows whether the load succeeds.
LoadCollection(t, path) ==
    /\ Enter(t)
    /\ Counted
    /\ next_tag \in Tags
    /\ next_tag' = next_tag + 1
    /\ IF files[path] # NoFile /\ files[path].name \notin DOMAIN collections
       THEN LET view == files[path].view
            IN  /\ Fresh([id \in DOMAIN view |-> view[id].vec],
                         [id \in DOMAIN view |-> [block |-> Mapped, meta |-> view[id].meta]],
                         files[path].index)
                /\ collections' = Put(collections, files[path].name, next_tag)
                /\ handle' = [handle EXCEPT ![t] = next_tag]
       ELSE UNCHANGED <<records, record_count, index, mapped, collections, handle>>
    /\ UNCHANGED <<owner, mem, op, mutex, todo, saving, files>>

\* A call through a handle, by a thread that is in no engine call.
UseHandle(t) ==
    /\ handle[t] \in Registered
    /\ todo[t] = {}
    /\ Begin(t, handle[t])
    /\ UNCHANGED engine

ContinueCall(t) == Continue(t) /\ UNCHANGED engine

-----------------------------------------------------------------------------

EInit ==
    /\ Init
    /\ collections = EmptyMap
    /\ next_tag = 1
    /\ mutex = NoTag
    /\ todo = [t \in Threads |-> {}]
    /\ saving = [t \in Threads |-> NoFile]
    /\ handle = [t \in Threads |-> NoTag]
    /\ files = [path \in Paths |-> NoFile]

ENext ==
    \E t \in Threads :
        \/ \E n \in Names : \/ CreateCollection(t, n) \/ GetCollection(t, n)
                            \/ Refused(t, n) \/ DeleteCollection(t, n)
                            \/ \E path \in Paths : StartSave(t, n, path)
        \/ StartList(t)
        \/ Inspect(t)
        \/ \E path \in Paths : LoadCollection(t, path)
        \/ UseHandle(t)
        \/ ContinueCall(t)

\* A thread inside a call keeps running when nothing it waits for is held.
ESpec == EInit /\ [][ENext]_evars
               /\ \A t \in Threads : WF_evars(ContinueCall(t)) /\ WF_evars(Inspect(t))

-----------------------------------------------------------------------------
(* Properties                                                               *)

\* The registry and the mutex: a tag names at most one collection, is never
\* handed out again, and whoever has engine work left holds the mutex
\* (engine.cpp:79, 166; the tag of a failed load is not reused).  What list or
\* save is about to read is still registered: "Hold the registry lock across the
\* save so the resolved collection cannot be deleted out from under the
\* serializer" (engine.cpp:143-146).  And a collection, created, used or loaded,
\* has an index that agrees with its records.
RegistrySound ==
    /\ \A n, x \in DOMAIN collections : n # x => collections[n] # collections[x]
    /\ \A c \in Registered : c < next_tag
    /\ \A t \in Threads : (todo[t] # {} <=> mutex = t) /\ todo[t] \subseteq Registered
    /\ IndexAgrees

\* Deleting a collection gives back all its memory and nobody else's: every
\* block in use is attributed to a registered collection (engine.cpp:108-112)
\* that refers to it exactly once, and a refused load leaves none behind
\* (engine.cpp:170-188).
NoOrphanBlocks ==
    /\ \A b \in Blocks : owner[b] = NoTag \/ owner[b] \in Registered
    /\ BlocksAccounted

\* Registering or dropping one collection leaves the contents, the index and
\* the blocks of every other one alone (release_all works by tag,
\* engine.cpp:110-112, 184).
RegistryChangeIsolated ==
    [][collections' # collections =>
          \A c \in Registered :
              c \in {collections'[n] : n \in DOMAIN collections'} =>
                 /\ View(c)' = View(c) /\ index'[c] = index[c]
                 /\ \A b \in Blocks : owner[b] = c <=> owner'[b] = c]_evars

\* A snapshot is a state of its collection between two calls, never the middle of
\* a batch, with the index that belongs to it: "The collection captures its own
\* consistent view under its readers-writer lock" (engine.cpp:145-146).  A name is
\* registered for a collection that is empty, or exactly what was saved under it,
\* whatever happened to the original since (engine.cpp:158-194).
SavesAndLoadsExact ==
    [][/\ \A path \in Paths : files'[path] # files[path] =>
             \E n \in DOMAIN collections :
                files'[path] = [name |-> n, view |-> Committed(collections[n]),
                                index |-> index[collections[n]]]
       /\ \A n \in DOMAIN collections' \ DOMAIN collections, c \in Tags :
             c = collections'[n] =>
                \/ Committed(c)' = EmptyMap /\ index'[c] = NoIndex
                \/ \E path \in Paths :
                      files[path] = [name |-> n, view |-> Committed(c)',
                                     index |-> index'[c]]]_evars

\* No circle of threads that wait for each other: the engine mutex is held by a
\* thread with engine work left, which waits for writers of a collection only;
\* those have no engine work (engine.cpp:118-124, 146-155), and a thread in a
\* collection waits for nobody: its next step finds what it needs.
NoWaitCycle ==
    /\ mutex # NoTag => mutex \in Threads /\ todo[mutex] # {}
    /\ \A t \in Threads : \A c \in todo[t] : \A u \in Writers(c) : todo[u] = {}
    /\ \A t \in Threads : \/ op[t].pc \in {"idle", "read", "erase", "stage", "release_old"}
                          \/ op[t].pc = "rollback" /\ op[t].staged # << >>
                          \/ op[t].pc = "install" /\ Current(t).id \in DOMAIN records[op[t].c]

\* Nobody waits for ever: the engine mutex is held while a collection's lock is
\* awaited (engine.cpp:118-124, 146-155), never the other way round, so every
\* call that started, on the engine or on a collection, returns.
EveryCallReturns ==
    \A t \in Threads : op[t] # Idle \/ todo[t] # {} ~> op[t] = Idle /\ todo[t] = {}
=============================================================================
