------------------------------ MODULE Collection ------------------------------
(***************************************************************************)
(* The record stores of src/core/collection.cpp: several collections whose  *)
(* vectors live in blocks of one shared allocator, and the threads that     *)
(* call them.  A call holds its collection's readers-writer lock from its   *)
(* first step to its last; threads in different collections interleave at   *)
(* every call they make to the allocator, whose operations are atomic.      *)
(*                                                                          *)
(* The allocator appears as the abstract arena that MemoryAllocator is      *)
(* proved to implement, for collections of equal dimensionality: a block is *)
(* any of Blocks that nobody owns, and allocation fails when there is none. *)
(* A loaded collection's vectors are not in blocks but in its mapped file,  *)
(* which release ignores (they are foreign pointers to the allocator).      *)
(*                                                                          *)
(* An index is the set of its live entries: what add and remove promise.    *)
(***************************************************************************)
EXTENDS Maps, FiniteSets

CONSTANTS Threads,
          Tags,        \* the collections, named by their allocator tag
          Blocks,      \* vector-sized blocks of the arena
          NoTag,       \* owner of a free block
          Mapped,      \* the place of a vector inside the mapped snapshot
          Inputs,      \* records [id, vec, meta] passed to insert
          Malformed,   \* the inputs that validation rejects
          MaxBatch,    \* bound on the length of a batch
          Params,      \* values of m and nlist passed to build_index
          Snapshots,   \* contents id -> [vec, meta] a collection may start with
          MaxCalls     \* bound on the calls made in a behaviour

ASSUME TagAssumption == NoTag \notin Tags /\ Mapped \notin Blocks

ASSUME InputAssumption == Malformed \subseteq Inputs /\ Inputs \ Malformed # {}

ASSUME BoundAssumption == MaxBatch \in Nat /\ MaxCalls \in Nat

Ids == {rec.id : rec \in Inputs \ Malformed}
Vectors == {rec.vec : rec \in Inputs \ Malformed}
Metas == {rec.meta : rec \in Inputs \ Malformed}

ASSUME SnapshotAssumption ==
    \A s \in Snapshots :
        /\ IsFiniteSet(DOMAIN s) /\ DOMAIN s \subseteq Ids
        /\ \A id \in DOMAIN s : s[id].vec \in Vectors /\ s[id].meta \in Metas

VARIABLES records,      \* collection -> id -> [block, meta]
          record_count,
          index,        \* collection -> [type, entries: id -> vec]
          mapped,       \* collection -> id -> vec, the mapped file
          owner,        \* block -> tag it is attributed to, or NoTag
          mem,          \* block -> the vector written there last
          op,           \* thread -> the call it is in
          calls

vars == <<records, record_count, index, mapped, owner, mem, op, calls>>

-----------------------------------------------------------------------------

\* kMaxBatchSize is 10000 in the code.
Batches == UNION {[1..n -> Inputs] : n \in 1..MaxBatch}

\* is_valid_id, the dimension check and first_non_finite, for every record.
Valid(batch) == \A j \in 1..Len(batch) : batch[j] \notin Malformed

IndexTypes == {"None", "HNSW", "IVF"}
NoIndex == [type |-> "None", entries |-> EmptyMap]

\* Mutant of IndexAdd: a known identifier keeps its old vector.
IndexAddKeepsOld(ix, id, vec) ==
    IF ix.type = "None" \/ id \in DOMAIN ix.entries THEN ix
    ELSE [ix EXCEPT !.entries = Put(@, id, vec)]

IndexAdd(ix, id, vec) ==
    IF ix.type = "None" THEN ix ELSE [ix EXCEPT !.entries = Put(@, id, vec)]
IndexRemove(ix, id) ==
    IF ix.type = "None" THEN ix ELSE [ix EXCEPT !.entries = Erase(@, id)]

\* The vector a slot points at: in its block, or in the mapped file.
VectorAt(c, id) == IF records[c][id].block = Mapped THEN mapped[c][id]
                                                    ELSE mem[records[c][id].block]

\* The contents of a collection as a reader under the lock copies them out.
View(c) == [id \in DOMAIN records[c] |->
              [vec |-> VectorAt(c, id), meta |-> records[c][id].meta]]

Idle == [pc |-> "idle"]
Writing == {"stage", "rollback", "release_old", "install", "erase"}

InCall(t, c) == op[t] # Idle /\ op[t].c = c
Writers(c) == {t \in Threads : InCall(t, c) /\ op[t].pc \in Writing}

\* Mutant of CanWrite: a writer does not wait for readers.
CanWriteAmongReaders(c) == Writers(c) = {}

CanWrite(c) == \A t \in Threads : ~InCall(t, c)

\* Mutant of CanRead: a reader does not wait for a writer.
CanReadAmongWriters(c) == c \in Tags

CanRead(c) == Writers(c) = {}

\* allocator_->release(block): a mapped vector is ignored.
Released(block) == IF block = Mapped THEN owner ELSE [owner EXCEPT ![block] = NoTag]

Call(t) == op[t] = Idle /\ calls < MaxCalls /\ calls' = calls + 1
Return(t) == op' = [op EXCEPT ![t] = Idle]

-----------------------------------------------------------------------------
(* insert and insert_batch: insert is a batch of one record                 *)

\* Rejected by validation, before the lock: nothing changes.
RejectInsert(t, batch) == op[t] = Idle /\ ~Valid(batch) /\ UNCHANGED vars

StartInsert(t, c, batch) ==
    /\ Call(t)
    /\ Valid(batch)
    /\ CanWrite(c)
    /\ op' = [op EXCEPT ![t] = [pc |-> "stage", c |-> c, batch |-> batch,
                                staged |-> << >>, i |-> 1]]
    /\ UNCHANGED <<records, record_count, index, mapped, owner, mem>>

\* allocate, then store_components; after the last record the commit begins.
Stage(t) ==
    /\ op[t].pc = "stage"
    /\ \E b \in Blocks :
          /\ owner[b] = NoTag
          /\ owner' = [owner EXCEPT ![b] = op[t].c]
          /\ mem' = [mem EXCEPT ![b] = op[t].batch[Len(op[t].staged) + 1].vec]
          /\ op' = [op EXCEPT
                      ![t].staged = Append(@, b),
                      ![t].pc = IF Len(op[t].staged) + 1 = Len(op[t].batch)
                                THEN "release_old" ELSE "stage"]
    /\ UNCHANGED <<records, record_count, index, mapped, calls>>

\* Mutants of StageFails: what was staged is committed; the call waits for memory.
StageFailsKeepsPrefix(t) ==
    /\ op[t].pc = "stage"
    /\ \A b \in Blocks : owner[b] # NoTag
    /\ IF op[t].staged = << >> THEN Return(t)
       ELSE op' = [op EXCEPT ![t].pc = "release_old",
                             ![t].batch = SubSeq(@, 1, Len(op[t].staged))]
    /\ UNCHANGED <<records, record_count, index, mapped, owner, mem, calls>>

StageFailsWaits(t) ==
    /\ op[t].pc = "stage"
    /\ \A b \in Blocks : owner[b] # NoTag
    /\ UNCHANGED vars

\* The allocator is exhausted: undo what was staged, or return if nothing was.
StageFails(t) ==
    /\ op[t].pc = "stage"
    /\ \A b \in Blocks : owner[b] # NoTag
    /\ IF op[t].staged = << >> THEN Return(t)
                               ELSE op' = [op EXCEPT ![t].pc = "rollback"]
    /\ UNCHANGED <<records, record_count, index, mapped, owner, mem, calls>>

\* Mutant of Rollback: once all is given back, the insert is tried again.
RollbackRetries(t) ==
    /\ op[t].pc = "rollback"
    /\ owner' = Released(Head(op[t].staged))
    /\ op' = [op EXCEPT ![t].staged = Tail(@),
                        ![t].pc = IF Len(op[t].staged) = 1 THEN "stage" ELSE @]
    /\ UNCHANGED <<records, record_count, index, mapped, mem, calls>>

Rollback(t) ==
    /\ op[t].pc = "rollback"
    /\ owner' = Released(Head(op[t].staged))
    /\ IF Len(op[t].staged) = 1 THEN Return(t)
                                ELSE op' = [op EXCEPT ![t].staged = Tail(@)]
    /\ UNCHANGED <<records, record_count, index, mapped, mem, calls>>

\* The record being committed by the call of thread t.
Current(t) == op[t].batch[op[t].i]

\* Mutant of ReleaseOld: the old block is forgotten.
ReleaseOldForgets(t) ==
    /\ op[t].pc = "release_old"
    /\ Current(t).id \in DOMAIN records[op[t].c]
    /\ op' = [op EXCEPT ![t].pc = "install"]
    /\ UNCHANGED <<records, record_count, index, mapped, owner, mem, calls>>

\* Overwriting: the old block goes back before the slot gets the new one.
ReleaseOld(t) ==
    /\ op[t].pc = "release_old"
    /\ Current(t).id \in DOMAIN records[op[t].c]
    /\ owner' = Released(records[op[t].c][Current(t).id].block)
    /\ op' = [op EXCEPT ![t].pc = "install"]
    /\ UNCHANGED <<records, record_count, index, mapped, mem, calls>>

\* The slot is replaced or created and the index told; then the next record.
Install(t) ==
    LET c == op[t].c
        rec == Current(t)
        isNew == rec.id \notin DOMAIN records[c]
    IN  /\ op[t].pc \in {"release_old", "install"}
        /\ op[t].pc = IF isNew THEN "release_old" ELSE "install"
        /\ records' = [records EXCEPT
                         ![c] = Put(@, rec.id, [block |-> op[t].staged[op[t].i],
                                                meta |-> rec.meta])]
        /\ record_count' = [record_count EXCEPT ![c] = IF isNew THEN @ + 1 ELSE @]
        /\ index' = [index EXCEPT ![c] = IndexAdd(@, rec.id, rec.vec)]
        /\ IF op[t].i = Len(op[t].batch) THEN Return(t)
           ELSE op' = [op EXCEPT ![t].pc = "release_old", ![t].i = @ + 1]
        /\ UNCHANGED <<mapped, owner, mem, calls>>

-----------------------------------------------------------------------------
(* remove                                                                   *)

RemoveMissing(t, c, id) ==
    op[t] = Idle /\ CanWrite(c) /\ id \notin DOMAIN records[c] /\ UNCHANGED vars

StartRemove(t, c, id) ==
    /\ Call(t)
    /\ CanWrite(c)
    /\ id \in DOMAIN records[c]
    /\ owner' = Released(records[c][id].block)
    /\ op' = [op EXCEPT ![t] = [pc |-> "erase", c |-> c, id |-> id]]
    /\ UNCHANGED <<records, record_count, index, mapped, mem>>

\* Mutant of EraseRecord: the count is not lowered.
EraseRecordUncounted(t) ==
    /\ op[t].pc = "erase"
    /\ LET c == op[t].c
       IN  /\ records' = [records EXCEPT ![c] = Erase(@, op[t].id)]
           /\ index' = [index EXCEPT ![c] = IndexRemove(@, op[t].id)]
    /\ Return(t)
    /\ UNCHANGED <<record_count, mapped, owner, mem, calls>>

EraseRecord(t) ==
    /\ op[t].pc = "erase"
    /\ LET c == op[t].c
       IN  /\ records' = [records EXCEPT ![c] = Erase(@, op[t].id)]
           /\ record_count' = [record_count EXCEPT ![c] = @ - 1]
           /\ index' = [index EXCEPT ![c] = IndexRemove(@, op[t].id)]
    /\ Return(t)
    /\ UNCHANGED <<mapped, owner, mem, calls>>

-----------------------------------------------------------------------------
(* build_index, and the calls under the shared lock                         *)

\* param is m (HNSW) or nlist (IVF, 0 for automatic).
ParamsOK(c, type, param) ==
    \/ type = "HNSW" /\ param >= 2
    \/ type = "IVF" /\ (param = 0 \/ param =< record_count[c])

BuildIndex(t, c, type, param) ==
    /\ Call(t)
    /\ CanWrite(c)
    /\ ParamsOK(c, type, param)
    /\ index' = [index EXCEPT ![c] =
                   [type |-> type,
                    entries |-> [id \in DOMAIN records[c] |-> VectorAt(c, id)]]]
    /\ UNCHANGED <<records, record_count, mapped, owner, mem, op>>

BuildRejected(t, c, type, param) ==
    op[t] = Idle /\ CanWrite(c) /\ ~ParamsOK(c, type, param) /\ UNCHANGED vars

\* get, query, count, info and snapshot_data read records and vectors, one
\* after the other, between these two steps.
StartRead(t, c) ==
    /\ Call(t)
    /\ CanRead(c)
    /\ op' = [op EXCEPT ![t] = [pc |-> "read", c |-> c]]
    /\ UNCHANGED <<records, record_count, index, mapped, owner, mem>>

EndRead(t) ==
    /\ op[t].pc = "read"
    /\ Return(t)
    /\ UNCHANGED <<records, record_count, index, mapped, owner, mem, calls>>

-----------------------------------------------------------------------------

Init ==
    /\ \E f \in [Tags -> Snapshots] :
          /\ mapped = [c \in Tags |-> [id \in DOMAIN f[c] |-> f[c][id].vec]]
          /\ records = [c \in Tags |-> [id \in DOMAIN f[c] |->
                                          [block |-> Mapped, meta |-> f[c][id].meta]]]
          /\ record_count = [c \in Tags |-> Cardinality(DOMAIN f[c])]
    /\ index = [c \in Tags |-> NoIndex]
    /\ owner = [b \in Blocks |-> NoTag]
    /\ mem = [b \in Blocks |-> CHOOSE v \in Vectors : TRUE]
    /\ op = [t \in Threads |-> Idle]
    /\ calls = 0

\* The rest of a call once it holds the lock.
Continue(t) ==
    \/ Stage(t) \/ StageFails(t) \/ Rollback(t) \/ ReleaseOld(t) \/ Install(t)
    \/ EraseRecord(t) \/ EndRead(t)

Begin(t, c) ==
    \/ \E batch \in Batches : StartInsert(t, c, batch)
    \/ \E id \in Ids : StartRemove(t, c, id) \/ RemoveMissing(t, c, id)
    \/ \E type \in IndexTypes, param \in Params :
          BuildIndex(t, c, type, param) \/ BuildRejected(t, c, type, param)
    \/ StartRead(t, c)

Next ==
    \/ \E t \in Threads : Continue(t) \/ \E c \in Tags : Begin(t, c)
    \/ \E t \in Threads, batch \in Batches : RejectInsert(t, batch)

Spec == Init /\ [][Next]_vars

-----------------------------------------------------------------------------
(* Properties                                                               *)

\* The type of the state: collection.hpp:177-193 and the calls in progress.
TypeOK ==
    /\ \A c \in Tags :
          /\ DOMAIN records[c] \subseteq Ids
          /\ \A id \in DOMAIN records[c] :
                records[c][id] \in [block: Blocks \cup {Mapped}, meta: Metas]
          /\ record_count[c] = Cardinality(DOMAIN records[c])
          /\ index[c].type \in IndexTypes
    /\ owner \in [Blocks -> Tags \cup {NoTag}]
    /\ mem \in [Blocks -> Vectors]
    /\ \A t \in Threads : op[t].pc \in Writing \cup {"idle", "read"}
    /\ calls \in 0..MaxCalls

\* The id whose old block the writer of c has released but whose slot still
\* points at it (between collection.cpp:96 and 97, 181 and 182, 228 and 229).
InTransit(c) ==
    {Current(t).id : t \in {w \in Writers(c) : op[w].pc = "install"}}
    \cup {op[t].id : t \in {w \in Writers(c) : op[w].pc = "erase"}}

Settled(c) == DOMAIN records[c] \ InTransit(c)

\* Everything that refers to a block on behalf of c: the slots that hold one,
\* and the staged blocks a batch has yet to install or to roll back.
Slots(c) == {id \in Settled(c) : records[c][id].block # Mapped}

Staged(c) ==
    UNION {{<<t, j>> : j \in op[t].i..Len(op[t].staged)} :
               t \in {w \in Writers(c) : op[w].pc # "erase"}}

StagedBlock(h) == op[h[1]].staged[h[2]]

\* Block ownership is exact: every block a slot or a batch in progress refers to
\* is attributed to that collection, no two of them share a block, and every
\* block attributed to a collection is one of them.  A slot that outlived its
\* block, a batch that staged a block twice, or a rollback or an overwrite that
\* forgot one (collection.cpp:85-98, 155-186, 228) breaks it.
BlocksAccounted ==
    \A c \in Tags :
        /\ \A id \in Slots(c) : owner[records[c][id].block] = c
        /\ \A h \in Staged(c) : owner[StagedBlock(h)] = c
        /\ \A id, x \in Slots(c) : id # x => records[c][id].block # records[c][x].block
        /\ \A h, g \in Staged(c) : h # g => StagedBlock(h) # StagedBlock(g)
        /\ \A id \in Slots(c), h \in Staged(c) : records[c][id].block # StagedBlock(h)
        /\ \A b \in Blocks : owner[b] = c =>
              \/ \E id \in Slots(c) : records[c][id].block = b
              \/ \E h \in Staged(c) : StagedBlock(h) = b

\* The index knows exactly the stored records, with the vectors their blocks
\* hold, through inserts, overwrites, removals and rebuilds: "It was live in the
\* store, so it is live in the index" (collection.cpp:226-227).
IndexAgrees ==
    \A c \in Tags : index[c].type # "None" =>
        /\ DOMAIN index[c].entries = DOMAIN records[c]
        /\ \A id \in Settled(c) : index[c].entries[id] = VectorAt(c, id)

\* Readers see one state: while a thread holds the shared lock of a collection
\* nothing it can copy out changes, although other collections allocate, write
\* and release blocks of the same arena meanwhile (collection.cpp:197-215,
\* 334-401, 423-452).
ReadersStable ==
    [][\A t \in Threads :
          op[t].pc = "read" /\ op'[t] = op[t] =>
              LET c == op[t].c
              IN  View(c)' = View(c) /\ index'[c] = index[c]]_vars

\* Steps a call still has to take at most: two for each record to commit, one
\* for each to stage or to give back.
StepsLeft(call) ==
    LET uncommitted == Len(call.batch) - call.i + 1
    IN  CASE call = Idle -> 0
          [] call.pc = "stage" -> Len(call.batch) - Len(call.staged) + 2 * uncommitted + 1
          [] call.pc = "rollback" -> Len(call.staged)
          [] call.pc = "release_old" -> 2 * uncommitted
          [] call.pc = "install" -> 2 * uncommitted - 1
          [] call.pc \in {"erase", "read"} -> 1

\* Every call ends: none of its steps is taken in vain or taken back, also when
\* the memory runs out in the middle of a batch: what was staged is given back
\* once and the batch is not tried again (collection.cpp:155-186).
CallsShrink ==
    [][\A t \in Threads :
          op[t] # Idle /\ op'[t] # op[t] => StepsLeft(op'[t]) \in 0..StepsLeft(op[t]) - 1]_vars

\* What c holds once the call that is past its point of no return is through.
Committed(c) ==
    IF \E t \in Writers(c) : op[t].pc \in {"release_old", "install"}
    THEN LET t == CHOOSE t \in Writers(c) : TRUE
         IN  Overlay(View(c), op[t].batch, op[t].i)
    ELSE [id \in Settled(c) |-> View(c)[id]]

\* The insert of thread t, while it may still be refused.
Undecided(t) == IF op[t].pc \in {"stage", "rollback"}
                THEN [c |-> op[t].c, batch |-> op[t].batch]
                ELSE [batch |-> << >>]

S == INSTANCE VectorStore WITH store   <- [c \in Tags |-> Committed(c)],
                               pending <- [t \in Threads |-> Undecided(t)]

\* Batches are atomic and collections are isolated: seen through the memory the
\* slots point at, the stores move only as VectorStore allows.  The batch that
\* was asked for takes effect as a whole when its last block is staged, or, when
\* memory runs out, not at all (collection.hpp:84-92); a removal when it starts.
ImplementsVectorStore == S!Spec
=============================================================================
