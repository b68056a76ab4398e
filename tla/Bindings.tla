------------------------------- MODULE Bindings -------------------------------
(***************************************************************************)
(* The Python extension of src/python/module.cpp over the engine of Engine: *)
(* argument conversion, the calls into the core, and what Python gets back. *)
(*                                                                          *)
(* All threads are Python threads.  The binding never releases the global   *)
(* interpreter lock, so a core call runs to its end under it.  Conversion   *)
(* runs Python code (item access, iterators), so the lock may change hands  *)
(* there; by then the binding has resolved `self' to a Collection pointer.  *)
(*                                                                          *)
(* Contract of handles (collection.hpp:201-204): a method is called on a    *)
(* registered collection, and its collection is not deleted while its       *)
(* arguments are converted.  That nobody is inside a collection when it is  *)
(* deleted is not assumed here: see OneThreadInCore.                       *)
(***************************************************************************)
EXTENDS Engine

CONSTANTS PyInts,    \* Python integers passed as k
          NoK,       \* a method other than query
          LongMax,   \* largest long long
          UintMax    \* largest uint32_t

ASSUME WidthAssumption == UintMax \in Nat /\ LongMax \in Nat /\ UintMax =< LongMax

ASSUME PyIntAssumption == PyInts \subseteq Int /\ NoK \notin PyInts

VARIABLES gil,      \* the thread that holds the interpreter lock, or NoTag
          frame,    \* thread -> the Collection method it is in: [c, k]
          outcome   \* what the last step gave back to Python, if anything

binding == <<gil, frame, outcome>>
bvars == <<evars, binding>>

NoFrame == [k |-> NoK]
Nothing == [type |-> "nothing"]
Returned == [type |-> "value"]
Raised(origin, types) == [type |-> "exception", origin |-> origin, types |-> types]

-----------------------------------------------------------------------------
(* Exceptions                                                                *)

ErrorCategory ==
    {"NameConflict", "InvalidName", "InvalidDimensionality", "InvalidMetric", "NotFound",
     "DimensionMismatch", "InvalidValue", "InvalidIdentifier", "InvalidParameter",
     "InvalidArgument", "UndefinedDistance", "AllocationFailure", "WriteFailure",
     "SnapshotNotFound", "UnsupportedVersion", "Corruption", "DeletionFailed"}

\* The categories that are also a builtin exception.
Builtin == [InvalidName |-> "ValueError", NotFound |-> "KeyError",
            AllocationFailure |-> "MemoryError", WriteFailure |-> "OSError",
            SnapshotNotFound |-> "FileNotFoundError"]

\* Mutant of exception_map: the categories of builtins are not entered.
ExceptionMapPartial == [e \in ErrorCategory \ DOMAIN Builtin |-> {e, "VectorVaultError"}]

\* The types an exception is an instance of.
exception_map ==
    [e \in ErrorCategory |->
        {e, "VectorVaultError"} \cup IF e \in DOMAIN Builtin THEN {Builtin[e]} ELSE {}]

\* The translator: CoreError -> Python exception.
CoreError(category) ==
    Raised("core", IF category \in DOMAIN exception_map THEN exception_map[category]
                   ELSE {"RuntimeError"})

-----------------------------------------------------------------------------
(* The interpreter lock                                                      *)

InCore(t) == op[t] # Idle \/ todo[t] # {}

\* Python code of t runs, outside the binding; or inside it, converting.
InPython(t) == gil = t /\ frame[t] = NoFrame /\ ~InCore(t)
Converting(t) == gil = t /\ frame[t] # NoFrame /\ ~InCore(t)

TakeGil(t) ==
    /\ gil = NoTag
    /\ gil' = t
    /\ outcome' = Nothing
    /\ UNCHANGED <<evars, frame>>

\* Mutant of DropGil: the lock is released in the core as well.
DropGilAnywhere(t) ==
    /\ gil = t
    /\ gil' = NoTag
    /\ outcome' = Nothing
    /\ UNCHANGED <<evars, frame>>

\* Between two steps of Python code, never inside the core.
DropGil(t) ==
    /\ gil = t /\ ~InCore(t)
    /\ gil' = NoTag
    /\ outcome' = Nothing
    /\ UNCHANGED <<evars, frame>>

-----------------------------------------------------------------------------
(* Methods of Collection                                                     *)

Method(t, k) ==
    /\ InPython(t)
    /\ calls < MaxCalls
    /\ handle[t] \in Registered
    /\ frame' = [frame EXCEPT ![t] = [c |-> handle[t], k |-> k]]
    /\ outcome' = Nothing
    /\ UNCHANGED <<evars, gil>>

Leave(t, result) ==
    /\ frame' = [frame EXCEPT ![t] = NoFrame]
    /\ outcome' = result

\* Mutant of k32: a plain conversion to 32 bits.
KWraps(k) == k % (UintMax + 1)

\* k clamped to 32 bits.
k32(k) == IF k > UintMax THEN UintMax ELSE k

FitsLong(k) == k =< LongMax /\ k >= -LongMax - 1

\* A vector, metadata or record of a batch of the wrong type or shape is a
\* TypeError, a cast that fails a RuntimeError; what the Python code that is run
\* raises is not told apart.  k must fit long long and be at least 1, an index
\* type must be known.  No core call is made.
ConversionFails(t) ==
    /\ Converting(t)
    /\ LET k == frame[t].k
       IN  \/ \E type \in {"TypeError", "RuntimeError"} : Leave(t, Raised("binding", {type}))
           \/ k # NoK /\ FitsLong(k) /\ k < 1 /\ Leave(t, CoreError("InvalidArgument"))
           \/ k = NoK /\ Leave(t, CoreError("InvalidArgument"))
    /\ UNCHANGED <<evars, gil>>

KConverted(k) == k # NoK => FitsLong(k) /\ k >= 1

\* The core refuses: arguments that fail its validation (their contents are
\* not modelled), an unknown record, index parameters out of range.
CoreRefuses(t) ==
    /\ Converting(t)
    /\ KConverted(frame[t].k)
    /\ LET c == frame[t].c
       IN  \/ \E e \in {"DimensionMismatch", "InvalidValue"} : Leave(t, CoreError(e))
           \/ /\ frame[t].k = NoK
              /\ \/ \E e \in {"InvalidIdentifier", "InvalidArgument"} : Leave(t, CoreError(e))
                 \/ /\ \E id \in Ids : RemoveMissing(t, c, id)
                    /\ Leave(t, CoreError("NotFound"))
                 \/ \E type \in IndexTypes, param \in Params :
                       /\ BuildRejected(t, c, type, param)
                       /\ Leave(t, CoreError(IF type = "None" THEN "InvalidArgument"
                                             ELSE "InvalidParameter"))
    /\ UNCHANGED <<evars, gil>>

\* The core call begins; build_index is over at once.
CallCore(t) ==
    /\ Converting(t)
    /\ KConverted(frame[t].k)
    /\ LET c == frame[t].c
       IN  \/ StartRead(t, c)
           \/ /\ frame[t].k = NoK
              /\ \/ \E batch \in Batches : StartInsert(t, c, batch)
                 \/ \E id \in Ids : StartRemove(t, c, id)
                 \/ \E type \in IndexTypes, param \in Params : BuildIndex(t, c, type, param)
    /\ IF op'[t] = Idle THEN Leave(t, Returned) ELSE outcome' = Nothing /\ UNCHANGED frame
    /\ UNCHANGED <<engine, gil>>

\* What the core call gives back when it returns: the list of a query has the
\* nearest k32 records, or all (see Query).
Result(t) ==
    IF op[t].pc \in {"stage", "rollback"} THEN CoreError("AllocationFailure")
    ELSE IF frame[t].k = NoK THEN Returned
    ELSE [type |-> "neighbours", k |-> frame[t].k, of |-> record_count[frame[t].c],
          n |-> IF k32(frame[t].k) < record_count[frame[t].c] THEN k32(frame[t].k)
                ELSE record_count[frame[t].c]]

\* The core call goes on.  The thread has the interpreter lock all along.
CoreStep(t) ==
    /\ ContinueCall(t)
    /\ IF op'[t] = Idle THEN Leave(t, Result(t)) ELSE outcome' = Nothing /\ UNCHANGED frame
    /\ UNCHANGED gil

-----------------------------------------------------------------------------
(* Methods of Engine: no conversion runs Python code                         *)

\* A method of collection c has its arguments converted by thread u.
Preparing(u, c) == frame[u] # NoFrame /\ ~InCore(u) /\ frame[u].c = c

PyDelete(t, n) ==
    /\ n \in DOMAIN collections
    /\ \A u \in Threads : ~Preparing(u, collections[n])
    /\ EraseCollection(t, n)

EngineCall(t) ==
    /\ InPython(t)
    /\ \/ /\ \E n \in Names : CreateCollection(t, n) \/ GetCollection(t, n) \/ PyDelete(t, n)
          /\ outcome' = Returned
       \/ /\ StartList(t) \/ \E n \in Names, path \in Paths : StartSave(t, n, path)
          /\ outcome' = Nothing
       \/ \E path \in Paths :
             /\ LoadCollection(t, path)
             /\ outcome' = IF files[path] = NoFile THEN CoreError("SnapshotNotFound")
                           ELSE IF files[path].name \in DOMAIN collections
                           THEN CoreError("NameConflict") ELSE Returned
    /\ UNCHANGED <<gil, frame>>

EngineRefuses(t) ==
    /\ InPython(t)
    /\ \E n \in Names :
          /\ Refused(t, n)
          /\ \E e \in {"InvalidName", "InvalidDimensionality", "InvalidMetric"}
                      \cup IF n \in DOMAIN collections THEN {"NameConflict", "DeletionFailed"}
                           ELSE {"NotFound"} :
                outcome' = CoreError(e)
    /\ UNCHANGED <<gil, frame>>

\* list goes on to the next collection; save ends, or fails and leaves the file.
EngineStep(t) ==
    /\ Inspect(t)
    /\ \/ outcome' = IF todo'[t] = {} THEN Returned ELSE Nothing
       \/ saving[t] # NoFile /\ files' = files /\ outcome' = CoreError("WriteFailure")
    /\ UNCHANGED <<gil, frame>>

-----------------------------------------------------------------------------

BInit ==
    /\ EInit
    /\ gil = NoTag
    /\ frame = [t \in Threads |-> NoFrame]
    /\ outcome = Nothing

BNext ==
    \E t \in Threads :
        \/ TakeGil(t) \/ DropGil(t)
        \/ \E k \in PyInts \cup {NoK} : Method(t, k)
        \/ ConversionFails(t) \/ CoreRefuses(t) \/ CallCore(t) \/ CoreStep(t)
        \/ EngineCall(t) \/ EngineRefuses(t) \/ EngineStep(t)

\* The core keeps running.  The interpreter drops the lock on request and gives
\* it to every thread that waits for it (strong fairness: it is taken and
\* dropped again and again), and a thread that converts gets on in its turns.
BSpec ==
    /\ BInit /\ [][BNext]_bvars
    /\ \A t \in Threads :
          /\ WF_bvars(CoreStep(t)) /\ WF_bvars(EngineStep(t))
          /\ WF_bvars(DropGil(t)) /\ SF_bvars(TakeGil(t))
          /\ SF_bvars(ConversionFails(t) \/ CoreRefuses(t) \/ CallCore(t))

-----------------------------------------------------------------------------
(* Properties                                                                *)

\* The state of the binding.  Every failure of the core reaches Python as one of
\* the package's exceptions: "All inherit from `VectorVaultError'"
\* (docs/python-api.md:218); only the binding's own conversions raise others.
BTypeOK ==
    /\ gil \in Threads \cup {NoTag}
    /\ \A t \in Threads : frame[t] = NoFrame \/ frame[t].c \in Tags
    /\ outcome.type \in {"nothing", "value", "exception", "neighbours"}
    /\ outcome.type = "exception" /\ outcome.origin = "core" =>
          "VectorVaultError" \in outcome.types

\* Python threads are never inside the core together, whatever the order in
\* which the lock changes hands during conversions: the binding keeps it, so no
\* lock of the core is ever contended, and the unsynchronised rebuild of the IVF
\* index (see IvfIndex) cannot be met from Python.  Nor is a collection deleted
\* while a thread is inside it, although delete_collection does not check
\* (engine.cpp:100-114): its caller has the lock.
OneThreadInCore ==
    \A t \in Threads : InCore(t) => gil = t /\ \A u \in Threads \ {t} : ~InCore(u)

\* The locks of the core and the interpreter lock cannot block each other:
\* whoever runs Python code, or converts arguments, finds every lock of the core
\* free, and a thread in the core finds those free that it still has to take
\* (module.cpp:345-393, engine.cpp:118-124, 146-155).
CoreNeverWaits ==
    \A t \in Threads : gil = t =>
        /\ ~InCore(t) => mutex = NoTag /\ \A c \in Tags : CanWrite(c)
        /\ \A c \in todo[t] : CanRead(c)

\* "If `k' exceeds the record count, all records are returned"
\* (docs/python-api.md:161-162), also for a k beyond 32 bits.
QueryReturnsK ==
    outcome.type = "neighbours" =>
        outcome.n = IF outcome.k < outcome.of THEN outcome.k ELSE outcome.of

\* No call freezes the interpreter: whoever takes the lock gives it up, and
\* every call of a method returns or raises.
PythonRuns ==
    \A t \in Threads : /\ gil = t ~> gil # t
                       /\ frame[t] # NoFrame \/ InCore(t) ~> frame[t] = NoFrame /\ ~InCore(t)
=============================================================================
