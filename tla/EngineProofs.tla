----------------------------- MODULE EngineProofs -----------------------------
(***************************************************************************)
(* Proofs about Collection, Engine and Bindings for any number of threads,  *)
(* collections, blocks, names and paths, any inputs and any length of a     *)
(* batch.                                                                   *)
(*                                                                          *)
(* The collections' inductive invariant is IInv.  BlocksAccounted is not    *)
(* inductive by itself: it needs the locks (Locks), what each call knows at *)
(* its step (CallsSound), and it is kept in a form over threads and slots   *)
(* instead of pairs (Exact).  IndexAgrees leans on Exact: the block a batch *)
(* fills is free, so no slot of any collection sees it change.              *)
(*                                                                          *)
(* The engine's, EIInv, adds to it what the engine keeps about collections: *)
(* the registry (Directory), whose calls and blocks they are (Attributed),  *)
(* and the snapshots it can load again (FilesSound).  A tag that is yet to  *)
(* be handed out has no call and no block, so that creating or loading a    *)
(* collection is a step in one collection (StepIInv), and so is deleting    *)
(* one, for nobody is inside it.  Every other step leaves the stores alone  *)
(* or is one of Collection (EngineSteps), so what Collection promises of    *)
(* steps holds in the engine as well.                                       *)
(*                                                                          *)
(* Engine takes that from its callers.  Under Python it is a consequence of *)
(* the interpreter lock, for any number of Python threads: the steps the    *)
(* binding takes are steps of Engine, so what is proved of Engine holds of  *)
(* the engine under Python as well (BIInv and what follows).                *)
(***************************************************************************)
EXTENDS Bindings, FiniteSetTheorems, SequenceTheorems, WellFoundedInduction, TLAPS

-----------------------------------------------------------------------------
(* The collections' inductive invariant                                     *)

InsertPcs == {"stage", "rollback", "release_old", "install"}

\* Batches that validation lets through.
Accepted == {batch \in Batches : Valid(batch)}

Reads   == [pc: {"read"}, c: Tags]
Erases  == [pc: {"erase"}, c: Tags, id: Ids]
Inserts == [pc: InsertPcs, c: Tags, batch: Accepted, staged: Seq(Blocks), i: Nat \ {0}]
Ops     == {Idle} \cup Reads \cup Erases \cup Inserts

\* What TypeOK leaves open: the domains, the finite stores, the calls in full.
Types ==
    /\ DOMAIN records = Tags /\ DOMAIN record_count = Tags /\ DOMAIN index = Tags
    /\ DOMAIN mapped = Tags
    /\ \A c \in Tags : /\ IsFiniteSet(DOMAIN records[c])
                       /\ index[c] = [type |-> index[c].type, entries |-> index[c].entries]
    /\ op \in [Threads -> Ops]

\* The readers-writer locks: whoever writes is alone in its collection.
Locks == \A t, u \in Threads, c \in Tags :
            t # u /\ op[t].pc \in Writing /\ InCall(t, c) => ~InCall(u, c)

\* What a call knows at its step.
CallSound(t) ==
    /\ op[t].pc \in {"stage", "rollback"} => op[t].i = 1
    /\ op[t].pc = "stage" => Len(op[t].staged) < Len(op[t].batch)
    /\ op[t].pc = "rollback" => op[t].staged # << >>
    /\ op[t].pc \in {"release_old", "install"} =>
          Len(op[t].staged) = Len(op[t].batch) /\ op[t].i =< Len(op[t].batch)
    /\ op[t].pc = "install" => Current(t).id \in DOMAIN records[op[t].c]
    /\ op[t].pc = "erase" => op[t].id \in DOMAIN records[op[t].c]
    /\ op[t].pc \in {"stage", "release_old", "install"} =>
          \A j \in op[t].i..Len(op[t].staged) : mem[op[t].staged[j]] = op[t].batch[j].vec

CallsSound == \A t \in Threads : CallSound(t)

\* The positions of staged blocks a call has yet to install or roll back, and
\* the identifier whose block it has released but whose slot still stands.
Pending(t) == IF op[t].pc \in InsertPcs THEN op[t].i..Len(op[t].staged) ELSE {}
Moving(t)  == CASE op[t].pc = "install" -> {Current(t).id}
                [] op[t].pc = "erase"   -> {op[t].id}
                [] OTHER                -> {}

\* The identifiers of c whose slot can be read through, and those in a block.
Firm(c) == {id \in DOMAIN records[c] : \A t \in Threads : InCall(t, c) => id \notin Moving(t)}
Held(c) == {id \in Firm(c) : records[c][id].block # Mapped}

\* BlocksAccounted over threads and slots.
Exact ==
    /\ \A c \in Tags : \A id \in Held(c) : owner[records[c][id].block] = c
    /\ \A t \in Threads : \A j \in Pending(t) : owner[op[t].staged[j]] = op[t].c
    /\ \A c \in Tags : \A id, x \in Held(c) :
          id # x => records[c][id].block # records[c][x].block
    /\ \A t \in Threads : \A j, k \in Pending(t) :
          j # k => op[t].staged[j] # op[t].staged[k]
    /\ \A t \in Threads, c \in Tags : InCall(t, c) =>
          \A j \in Pending(t), id \in Held(c) : records[c][id].block # op[t].staged[j]
    /\ \A c \in Tags, b \in Blocks : owner[b] = c =>
          \/ \E id \in Held(c) : records[c][id].block = b
          \/ \E t \in Threads : InCall(t, c) /\ \E j \in Pending(t) : op[t].staged[j] = b

\* IndexAgrees over the slots.
Indexed ==
    \A c \in Tags : index[c].type # "None" =>
        /\ DOMAIN index[c].entries = DOMAIN records[c]
        /\ \A id \in Firm(c) : index[c].entries[id] = VectorAt(c, id)

IInv == Types /\ TypeOK /\ Locks /\ CallsSound /\ Exact /\ Indexed

-----------------------------------------------------------------------------
(* Calls                                                                    *)

\* The kind of a call is told by its step.
LEMMA OpShape ==
    ASSUME NEW r \in Ops
    PROVE  /\ r.pc \in InsertPcs => r \in Inserts
           /\ r.pc = "erase" => r \in Erases
           /\ r.pc = "read" => r \in Reads
           /\ r.pc = "idle" <=> r = Idle
           /\ r # Idle => r.c \in Tags
           /\ r.pc \in Writing \cup {"idle", "read"}
           /\ r.pc \in Writing <=> r.pc = "erase" \/ r.pc \in InsertPcs
<1>1. /\ Idle.pc = "idle"
      /\ \A x \in Reads : x.pc = "read" /\ x.c \in Tags
      /\ \A x \in Erases : x.pc = "erase" /\ x.c \in Tags
      /\ \A x \in Inserts : x.pc \in InsertPcs /\ x.c \in Tags
  BY DEF Idle, Reads, Erases, Inserts
<1> QED
  BY <1>1 DEF Ops, InsertPcs, Writing

\* What validation lets through.
LEMMA AcceptedFacts ==
    ASSUME NEW batch \in Accepted
    PROVE  /\ Len(batch) \in Nat \ {0} /\ DOMAIN batch = 1..Len(batch)
           /\ batch \in Seq(Inputs)
           /\ \A j \in 1..Len(batch) :
                 batch[j].id \in Ids /\ batch[j].vec \in Vectors /\ batch[j].meta \in Metas
<1>1. PICK n \in 1..MaxBatch : batch \in [1..n -> Inputs]
  BY DEF Accepted, Batches
<1>2. n \in Nat \ {0}
  BY BoundAssumption
<1>3. batch \in Seq(Inputs) /\ Len(batch) = n /\ DOMAIN batch = 1..n
  BY <1>1, <1>2
<1>4. \A j \in 1..n : batch[j] \in Inputs \ Malformed
  BY <1>1, <1>3 DEF Accepted, Valid
<1> QED
  BY <1>2, <1>3, <1>4 DEF Ids, Vectors, Metas

\* An insert with another step, other staged blocks, or the next record.
LEMMA InsertMoved ==
    ASSUME op \in [Threads -> Ops], NEW t \in Threads, op[t] \in Inserts,
           NEW p \in InsertPcs, NEW s \in Seq(Blocks), NEW n \in Nat \ {0},
           \/ op' = [op EXCEPT ![t].pc = p] /\ s = op[t].staged /\ n = op[t].i
           \/ op' = [op EXCEPT ![t].staged = s] /\ p = op[t].pc /\ n = op[t].i
           \/ op' = [op EXCEPT ![t].staged = s, ![t].pc = p] /\ n = op[t].i
           \/ op' = [op EXCEPT ![t].pc = p, ![t].i = n] /\ s = op[t].staged
    PROVE  /\ op' \in [Threads -> Ops] /\ op'[t] # Idle
           /\ op'[t].pc = p /\ op'[t].c = op[t].c /\ op'[t].batch = op[t].batch
           /\ op'[t].staged = s /\ op'[t].i = n
           /\ \A u \in Threads \ {t} : op'[u] = op[u]
<1>1. /\ op'[t] \in Inserts
      /\ op'[t].pc = p /\ op'[t].c = op[t].c /\ op'[t].batch = op[t].batch
      /\ op'[t].staged = s /\ op'[t].i = n
      /\ \A u \in Threads \ {t} : op'[u] = op[u]
      /\ op' = [u \in Threads |-> op'[u]]
  <2>1. CASE op' = [op EXCEPT ![t].pc = p] /\ s = op[t].staged /\ n = op[t].i
    BY <2>1 DEF Inserts
  <2>2. CASE op' = [op EXCEPT ![t].staged = s] /\ p = op[t].pc /\ n = op[t].i
    BY <2>2 DEF Inserts
  <2>3. CASE op' = [op EXCEPT ![t].staged = s, ![t].pc = p] /\ n = op[t].i
    BY <2>3 DEF Inserts
  <2>4. CASE op' = [op EXCEPT ![t].pc = p, ![t].i = n] /\ s = op[t].staged
    BY <2>4 DEF Inserts
  <2> QED
    BY <2>1, <2>2, <2>3, <2>4
<1>2. op'[t] # Idle
  BY <1>1 DEF Idle, InsertPcs
<1>3. \A u \in Threads : op'[u] \in Ops
  BY <1>1 DEF Ops
<1> QED
  BY <1>1, <1>2, <1>3

-----------------------------------------------------------------------------
(* One thread, one collection                                               *)

\* Whatever thread t does in collection c it does alone, but for readers.
Alone(t, c) ==
    /\ op[t] = Idle \/ op[t].c = c
    /\ \A u \in Threads \ {t} : InCall(u, c) => op[u].pc = "read"

\* Exact for collection c, with thread t in it.
Local(t, c) ==
    /\ \A id \in Held(c) : owner[records[c][id].block] = c
    /\ \A j \in Pending(t) : owner[op[t].staged[j]] = c
    /\ \A id, x \in Held(c) : id # x => records[c][id].block # records[c][x].block
    /\ \A j, k \in Pending(t) : j # k => op[t].staged[j] # op[t].staged[k]
    /\ \A j \in Pending(t), id \in Held(c) : records[c][id].block # op[t].staged[j]
    /\ \A b \in Blocks : owner[b] = c =>
          \/ \E id \in Held(c) : records[c][id].block = b
          \/ \E j \in Pending(t) : op[t].staged[j] = b

\* TypeOK and Types, and Indexed, for collection c.
TypedAt(c) ==
    /\ DOMAIN records[c] \subseteq Ids /\ IsFiniteSet(DOMAIN records[c])
    /\ \A id \in DOMAIN records[c] :
          records[c][id] \in [block: Blocks \cup {Mapped}, meta: Metas]
    /\ record_count[c] = Cardinality(DOMAIN records[c])
    /\ index[c].type \in IndexTypes
    /\ index[c] = [type |-> index[c].type, entries |-> index[c].entries]

IndexedAt(c) ==
    index[c].type # "None" =>
        /\ DOMAIN index[c].entries = DOMAIN records[c]
        /\ \A id \in Firm(c) : index[c].entries[id] = VectorAt(c, id)

\* Readers and idle threads have nothing on the way.
LEMMA NothingMoving ==
    ASSUME Types, NEW u \in Threads, op[u].pc \in {"read", "idle"}
    PROVE  Moving(u) = {} /\ Pending(u) = {}
  BY DEF Moving, Pending, InsertPcs

LEMMA FirmAlone ==
    ASSUME Types, NEW t \in Threads, NEW c \in Tags, Alone(t, c)
    PROVE  Firm(c) = DOMAIN records[c] \ Moving(t)
<1>1. \A u \in Threads \ {t} : InCall(u, c) => Moving(u) = {}
  BY NothingMoving DEF Alone
<1>2. op[t] = Idle => Moving(t) = {}
  BY NothingMoving DEF Idle
<1> QED
  BY <1>1, <1>2 DEF Firm, Alone, InCall

LEMMA ExactLocal ==
    ASSUME Types, Exact, NEW t \in Threads, NEW c \in Tags, Alone(t, c)
    PROVE  Local(t, c)
<1>1. \A u \in Threads \ {t} : InCall(u, c) => Pending(u) = {}
  BY NothingMoving DEF Alone
<1>2. op[t] = Idle => Pending(t) = {}
  BY NothingMoving DEF Idle
<1>3. Pending(t) # {} => InCall(t, c) /\ op[t].c = c
  BY <1>2 DEF Alone, InCall
<1>4. NoTag # c
  BY TagAssumption
<1> QED
  BY <1>1, <1>3, <1>4 DEF Exact, Local

\* A step of thread t in collection c leaves alone the other threads, the other
\* collections, and the blocks that are theirs.
StepOf(t, c) ==
    /\ op' \in [Threads -> Ops]
    /\ \A u \in Threads \ {t} : op'[u] = op[u]
    /\ op'[t] = Idle \/ op'[t].c = c
    /\ op'[t].pc \in Writing => \A u \in Threads \ {t} : ~InCall(u, c)
    /\ \/ \A u \in Threads \ {t} : ~InCall(u, c)
       \/ UNCHANGED <<records, record_count, index, mapped, owner, mem>>
    /\ DOMAIN records' = Tags /\ DOMAIN record_count' = Tags /\ DOMAIN index' = Tags
    /\ DOMAIN mapped' = Tags
    /\ \A d \in Tags \ {c} : /\ records'[d] = records[d] /\ record_count'[d] = record_count[d]
                             /\ index'[d] = index[d] /\ mapped'[d] = mapped[d]
    /\ owner' \in [Blocks -> Tags \cup {NoTag}] /\ mem' \in [Blocks -> Vectors]
    /\ \A b \in Blocks : owner[b] \in {c, NoTag} => owner'[b] \in {c, NoTag}
    /\ \A b \in Blocks : owner[b] \notin {c, NoTag} => owner'[b] = owner[b] /\ mem'[b] = mem[b]
    /\ calls' \in 0..MaxCalls

\* Such a step of thread t, with the lock the collection asks for.
Apart(t) == \E c \in Tags : Alone(t, c) /\ StepOf(t, c)

\* What such a step does not touch.
LEMMA OthersKept ==
    ASSUME IInv, NEW t \in Threads, NEW c \in Tags, Alone(t, c), StepOf(t, c)
    PROVE  /\ \A u \in Threads \ {t} : Pending(u)' = Pending(u)
           /\ \A u \in Threads \ {t} : Pending(u) # {} => op[u].c \in Tags \ {c}
           /\ \A u \in Threads \ {t}, d \in Tags : InCall(u, d)' = InCall(u, d)
           /\ \A d \in Tags \ {c} : Firm(d)' = Firm(d) /\ Held(d)' = Held(d)
           /\ \A d \in Tags \ {c} : \A id \in Firm(d) : VectorAt(d, id)' = VectorAt(d, id)
<1> USE DEF IInv
<1>1. \A u \in Threads \ {t} : Pending(u)' = Pending(u) /\ Moving(u)' = Moving(u)
  BY DEF StepOf, Pending, Moving, Current
<1>2. \A u \in Threads \ {t} : Pending(u) # {} => op[u].c \in Tags \ {c}
  <2> SUFFICES ASSUME NEW u \in Threads \ {t}, Pending(u) # {}
               PROVE  op[u].c \in Tags \ {c}
    OBVIOUS
  <2>1. op[u].pc \in InsertPcs /\ op[u] # Idle /\ op[u].c \in Tags
    BY OpShape DEF Pending, InsertPcs, Types, Idle
  <2>2. op[u].pc # "read"
    BY <2>1 DEF InsertPcs
  <2> QED
    BY <2>1, <2>2 DEF Alone, InCall
<1>3. \A u \in Threads \ {t}, d \in Tags : InCall(u, d)' = InCall(u, d)
  BY DEF StepOf, InCall
<1>4. \A d \in Tags \ {c} : ~InCall(t, d) /\ ~InCall(t, d)'
  BY DEF StepOf, Alone, InCall
<1>5. \A d \in Tags \ {c} : Firm(d)' = Firm(d)
  <2> TAKE d \in Tags \ {c}
  <2>1. records'[d] = records[d]
    BY DEF StepOf
  <2>2. \A id : (\A u \in Threads : InCall(u, d) => id \notin Moving(u))
                <=> (\A u \in Threads : InCall(u, d)' => id \notin Moving(u)')
    BY <1>1, <1>3, <1>4
  <2> QED
    BY <2>1, <2>2 DEF Firm
<1>6. \A d \in Tags \ {c} : Held(d)' = Held(d)
  BY <1>5 DEF Held, StepOf
<1>7. \A d \in Tags \ {c} : \A id \in Firm(d) : VectorAt(d, id)' = VectorAt(d, id)
  <2> SUFFICES ASSUME NEW d \in Tags \ {c}, NEW id \in Firm(d)
               PROVE  VectorAt(d, id)' = VectorAt(d, id)
    OBVIOUS
  <2>1. records'[d] = records[d] /\ mapped'[d] = mapped[d]
    BY DEF StepOf
  <2>2. CASE records[d][id].block = Mapped
    BY <2>1, <2>2 DEF VectorAt
  <2>3. CASE records[d][id].block # Mapped
    <3>1. id \in Held(d) /\ id \in DOMAIN records[d]
      BY <2>3 DEF Held, Firm
    <3>2. records[d][id].block \in Blocks
      BY <2>3, <3>1 DEF TypeOK
    <3>3. owner[records[d][id].block] = d /\ d # NoTag
      BY <3>1, TagAssumption DEF Exact
    <3>4. mem'[records[d][id].block] = mem[records[d][id].block]
      BY <3>2, <3>3 DEF StepOf
    <3> QED
      BY <2>1, <2>3, <3>4 DEF VectorAt
  <2> QED
    BY <2>2, <2>3
<1> QED
  BY <1>1, <1>2, <1>3, <1>5, <1>6, <1>7

\* Such a step keeps the invariant if it does in its own collection.
LEMMA StepIInv ==
    ASSUME IInv, NEW t \in Threads, NEW c \in Tags, Alone(t, c), StepOf(t, c),
           TypedAt(c)', CallSound(t)', Local(t, c)', IndexedAt(c)'
    PROVE  IInv' /\ Apart(t)
<1> USE DEF IInv
<1>1. /\ \A u \in Threads \ {t} : Pending(u)' = Pending(u)
      /\ \A u \in Threads \ {t} : Pending(u) # {} => op[u].c \in Tags \ {c}
      /\ \A u \in Threads \ {t}, d \in Tags : InCall(u, d)' = InCall(u, d)
      /\ \A d \in Tags \ {c} : Firm(d)' = Firm(d) /\ Held(d)' = Held(d)
      /\ \A d \in Tags \ {c} : \A id \in Firm(d) : VectorAt(d, id)' = VectorAt(d, id)
  BY OthersKept
<1>2. Types'
  BY DEF Types, TypedAt, StepOf
<1>3. TypeOK'
  <2>1. \A u \in Threads : op'[u].pc \in Writing \cup {"idle", "read"}
    BY OpShape DEF StepOf
  <2>2. \A d \in Tags \ {c} : TypedAt(d)'
    BY DEF TypeOK, Types, TypedAt, StepOf
  <2> QED
    BY <2>1, <2>2 DEF TypeOK, TypedAt, StepOf
<1>4. Locks'
  <2> SUFFICES ASSUME NEW u \in Threads, NEW w \in Threads, NEW d \in Tags, u # w,
                      op'[u].pc \in Writing, InCall(u, d)'
               PROVE  ~InCall(w, d)'
    BY DEF Locks
  <2>1. CASE u = t
    <3>1. d = c
      BY <2>1 DEF StepOf, InCall
    <3> QED
      BY <1>1, <2>1, <3>1 DEF StepOf
  <2>2. CASE u # t /\ w = t
    <3>1. op[u].pc \in Writing /\ InCall(u, d)
      BY <1>1, <2>2 DEF StepOf
    <3>2. d # c
      BY <2>2, <3>1 DEF Alone, Writing
    <3> QED
      BY <2>2, <3>2 DEF StepOf, InCall
  <2>3. CASE u # t /\ w # t
    BY <1>1, <2>3 DEF Locks, StepOf
  <2> QED
    BY <2>1, <2>2, <2>3
<1>5. CallsSound'
  <2> SUFFICES ASSUME NEW u \in Threads \ {t} PROVE CallSound(u)'
    BY DEF CallsSound
  <2>1. op'[u] = op[u] /\ CallSound(u)
    BY DEF StepOf, CallsSound
  <2>2. CASE op[u].pc \in {"read", "idle"}
    BY <2>1, <2>2 DEF CallSound
  <2>3. CASE op[u].pc \in Writing
    <3>1. op[u] # Idle /\ op[u].c \in Tags /\ op[u].c # c
      BY <2>3, OpShape DEF Alone, InCall, Writing, Idle, Types
    <3>2. records'[op[u].c] = records[op[u].c]
      BY <3>1 DEF StepOf
    <3>3. \A j \in Pending(u) : mem'[op[u].staged[j]] = mem[op[u].staged[j]]
      <4> TAKE j \in Pending(u)
      <4>1. op[u] \in Inserts /\ j \in 1..Len(op[u].staged)
        BY OpShape DEF Pending, Inserts, Types
      <4>2. op[u].staged[j] \in Blocks
        BY <4>1 DEF Inserts
      <4>3. owner[op[u].staged[j]] = op[u].c
        BY DEF Exact
      <4> QED
        BY <3>1, <4>2, <4>3, TagAssumption DEF StepOf
    <3> QED
      BY <2>1, <3>2, <3>3 DEF CallSound, Pending, InsertPcs, Current
  <2> QED
    BY <2>2, <2>3, OpShape DEF Types
<1>6. Exact'
  <2>1. /\ \A d \in Tags \ {c} : \A id \in Held(d) : owner[records[d][id].block] = d
        /\ \A u \in Threads \ {t} : \A j \in Pending(u) : owner[op[u].staged[j]] = op[u].c
        /\ \A d \in Tags \ {c} : \A id \in Held(d) : records[d][id].block \in Blocks
        /\ \A u \in Threads \ {t} : \A j \in Pending(u) : op[u].staged[j] \in Blocks
    <3>1. \A d \in Tags \ {c} : \A id \in Held(d) : records[d][id].block \in Blocks
      BY DEF Held, Firm, TypeOK
    <3>2. \A u \in Threads \ {t} : \A j \in Pending(u) : op[u].staged[j] \in Blocks
      <4> TAKE u \in Threads \ {t}
      <4> TAKE j \in Pending(u)
      <4>1. op[u] \in Inserts /\ j \in 1..Len(op[u].staged)
        BY OpShape DEF Pending, Inserts, Types
      <4> QED
        BY <4>1 DEF Inserts
    <3> QED
      BY <3>1, <3>2 DEF Exact
  <2>2. /\ \A d \in Tags : \A id \in Held(d)' : owner'[records'[d][id].block] = d
        /\ \A u \in Threads : \A j \in Pending(u)' : owner'[op'[u].staged[j]] = op'[u].c
    <3>1. \A d \in Tags \ {c} : \A id \in Held(d)' : owner'[records'[d][id].block] = d
      BY <1>1, <2>1, TagAssumption DEF StepOf
    <3>2. \A u \in Threads \ {t} : \A j \in Pending(u)' : owner'[op'[u].staged[j]] = op'[u].c
      BY <1>1, <2>1, TagAssumption DEF StepOf
    <3>3. \A j \in Pending(t)' : owner'[op'[t].staged[j]] = op'[t].c
      BY DEF Local, StepOf, Pending, Idle, InsertPcs
    <3> QED
      BY <3>1, <3>2, <3>3 DEF Local
  <2>3. /\ \A d \in Tags : \A id, x \in Held(d)' :
              id # x => records'[d][id].block # records'[d][x].block
        /\ \A u \in Threads : \A j, k \in Pending(u)' :
              j # k => op'[u].staged[j] # op'[u].staged[k]
    <3>1. \A d \in Tags \ {c} : \A id, x \in Held(d)' :
              id # x => records'[d][id].block # records'[d][x].block
      BY <1>1 DEF Exact, StepOf
    <3>2. \A u \in Threads \ {t} : \A j, k \in Pending(u)' :
              j # k => op'[u].staged[j] # op'[u].staged[k]
      BY <1>1 DEF Exact, StepOf
    <3> QED
      BY <3>1, <3>2 DEF Local
  <2>4. ASSUME NEW u \in Threads, NEW d \in Tags, InCall(u, d)',
               NEW j \in Pending(u)', NEW id \in Held(d)'
        PROVE  records'[d][id].block # op'[u].staged[j]
    <3>1. CASE u = t
      <4>1. d = c
        BY <2>4, <3>1 DEF StepOf, InCall
      <4> QED
        BY <3>1, <4>1 DEF Local
    <3>2. CASE u # t
      <4>1. op'[u] = op[u] /\ j \in Pending(u) /\ InCall(u, d) /\ d \in Tags \ {c}
        BY <1>1, <2>4, <3>2 DEF StepOf, InCall
      <4>2. id \in Held(d) /\ records'[d] = records[d]
        BY <1>1, <4>1 DEF StepOf
      <4> QED
        BY <4>1, <4>2 DEF Exact
    <3> QED
      BY <3>1, <3>2
  <2>5. ASSUME NEW d \in Tags, NEW b \in Blocks, owner'[b] = d
        PROVE  \/ \E id \in Held(d)' : records'[d][id].block = b
               \/ \E u \in Threads : InCall(u, d)' /\ \E j \in Pending(u)' : op'[u].staged[j] = b
    <3>1. CASE d = c
      <4>1. (\E j \in Pending(t)' : op'[t].staged[j] = b) => InCall(t, c)'
        BY DEF StepOf, Pending, InCall, Idle, InsertPcs
      <4> QED
        BY <2>5, <3>1, <4>1 DEF Local
    <3>2. CASE d # c
      <4>1. owner[b] = d
        BY <2>5, <3>2, TagAssumption DEF StepOf
      <4>2. CASE \E id \in Held(d) : records[d][id].block = b
        BY <1>1, <3>2, <4>2 DEF StepOf
      <4>3. CASE \E u \in Threads : InCall(u, d) /\ \E j \in Pending(u) : op[u].staged[j] = b
        <5>1. PICK u \in Threads : InCall(u, d) /\ \E j \in Pending(u) : op[u].staged[j] = b
          BY <4>3
        <5>2. u # t
          BY <3>2, <5>1 DEF Alone, InCall
        <5> QED
          BY <1>1, <5>1, <5>2 DEF StepOf
      <4> QED
        BY <4>1, <4>2, <4>3 DEF Exact
    <3> QED
      BY <3>1, <3>2
  <2> QED
    BY <2>2, <2>3, <2>4, <2>5 DEF Exact
<1>7. Indexed'
  <2>1. \A d \in Tags \ {c} : IndexedAt(d)'
    <3> SUFFICES ASSUME NEW d \in Tags \ {c}, index'[d].type # "None"
                 PROVE  /\ DOMAIN index'[d].entries = DOMAIN records'[d]
                        /\ \A id \in Firm(d)' : index'[d].entries[id] = VectorAt(d, id)'
      BY DEF IndexedAt
    <3> QED
      BY <1>1 DEF Indexed, StepOf
  <2> QED
    BY <2>1 DEF Indexed, IndexedAt
<1> QED
  BY <1>2, <1>3, <1>4, <1>5, <1>6, <1>7 DEF Apart

-----------------------------------------------------------------------------
(* What a step starts from and what it has to show                          *)

\* A thread in a call has the lock it needs.
LEMMA InCallAlone ==
    ASSUME IInv, NEW t \in Threads, op[t] # Idle
    PROVE  \E c \in Tags : /\ op[t].c = c /\ InCall(t, c) /\ Alone(t, c)
                           /\ op[t].pc \in Writing =>
                                 \A u \in Threads \ {t} : ~InCall(u, c)
<1>1. PICK c \in Tags : op[t].c = c
  BY OpShape DEF IInv, Types
<1>2. InCall(t, c)
  BY <1>1 DEF InCall
<1>3. op[t].pc \in Writing => \A u \in Threads \ {t} : ~InCall(u, c)
  BY <1>2 DEF IInv, Locks
<1>4. \A u \in Threads \ {t} : InCall(u, c) => op[u].pc \notin Writing
  BY <1>2 DEF IInv, Locks
<1>5. \A u \in Threads \ {t} : InCall(u, c) => op[u].pc = "read"
  BY <1>4, OpShape DEF IInv, Types, InCall
<1> QED
  BY <1>1, <1>2, <1>3, <1>5 DEF Alone

\* A thread that enters a collection waits for the lock it needs.
LEMMA EnterAlone ==
    ASSUME IInv, NEW t \in Threads, NEW c \in Tags, op[t] = Idle, CanWrite(c) \/ CanRead(c)
    PROVE  Alone(t, c)
<1>1. \A u \in Threads \ {t} : InCall(u, c) => op[u].pc \notin Writing
  BY DEF CanWrite, CanRead, Writers
<1>2. \A u \in Threads \ {t} : InCall(u, c) => op[u].pc = "read"
  BY <1>1, OpShape DEF IInv, Types, InCall
<1> QED
  BY <1>2 DEF Alone

\* What holds of the thread and its collection before a step ...
LEMMA Before ==
    ASSUME IInv, NEW t \in Threads, NEW c \in Tags, Alone(t, c)
    PROVE  /\ TypedAt(c) /\ IndexedAt(c) /\ Local(t, c) /\ CallSound(t)
           /\ Firm(c) = DOMAIN records[c] \ Moving(t)
           /\ DOMAIN records = Tags /\ DOMAIN record_count = Tags /\ DOMAIN index = Tags
           /\ DOMAIN mapped = Tags /\ op \in [Threads -> Ops] /\ calls \in 0..MaxCalls
           /\ owner \in [Blocks -> Tags \cup {NoTag}] /\ mem \in [Blocks -> Vectors]
<1> USE DEF IInv
<1>1. TypedAt(c) /\ IndexedAt(c)
  BY DEF TypedAt, Types, TypeOK, IndexedAt, Indexed
<1>2. Local(t, c) /\ CallSound(t) /\ Firm(c) = DOMAIN records[c] \ Moving(t)
  BY ExactLocal, FirmAlone DEF CallsSound
<1> QED
  BY <1>1, <1>2 DEF Types, TypeOK

\* ... and which slots can be read through after it.
LEMMA After ==
    ASSUME IInv, NEW t \in Threads, NEW c \in Tags, Alone(t, c), StepOf(t, c)
    PROVE  Firm(c)' = DOMAIN records'[c] \ Moving(t)'
<1>1. \A u \in Threads \ {t} : InCall(u, c)' => op'[u].pc = "read"
  BY DEF Alone, StepOf, InCall
<1>2. \A u \in Threads \ {t} : InCall(u, c)' => Moving(u)' = {}
  BY <1>1 DEF Moving
<1>3. op'[t] = Idle => Moving(t)' = {}
  BY DEF Moving, Idle
<1>4. op'[t] # Idle => InCall(t, c)'
  BY DEF StepOf, InCall
<1> QED
  BY <1>2, <1>3, <1>4 DEF Firm

-----------------------------------------------------------------------------
(* The steps of an insert                                                   *)

LEMMA StageIInv == ASSUME IInv, NEW t \in Threads, Stage(t) PROVE IInv' /\ Apart(t)
<1>1. op[t].pc = "stage" /\ op[t] # Idle
  BY DEF Stage, Idle
<1>2. PICK c \in Tags : /\ op[t].c = c /\ InCall(t, c) /\ Alone(t, c)
                        /\ \A u \in Threads \ {t} : ~InCall(u, c)
  BY <1>1, InCallAlone DEF Writing
<1>3. PICK b \in Blocks :
        /\ owner[b] = NoTag /\ owner' = [owner EXCEPT ![b] = c]
        /\ mem' = [mem EXCEPT ![b] = op[t].batch[Len(op[t].staged) + 1].vec]
        /\ op' = [op EXCEPT ![t].staged = Append(@, b),
                            ![t].pc = IF Len(op[t].staged) + 1 = Len(op[t].batch)
                                      THEN "release_old" ELSE "stage"]
  BY <1>2 DEF Stage
<1>4. UNCHANGED <<records, record_count, index, mapped, calls>>
  BY DEF Stage
<1> DEFINE n == Len(op[t].staged)
           batch == op[t].batch
           staged == Append(op[t].staged, b)
           pc == IF n + 1 = Len(batch) THEN "release_old" ELSE "stage"
<1>5. /\ TypedAt(c) /\ IndexedAt(c) /\ Local(t, c) /\ CallSound(t)
      /\ Firm(c) = DOMAIN records[c] \ Moving(t)
      /\ DOMAIN records = Tags /\ DOMAIN record_count = Tags /\ DOMAIN index = Tags
      /\ DOMAIN mapped = Tags /\ op \in [Threads -> Ops] /\ calls \in 0..MaxCalls
      /\ owner \in [Blocks -> Tags \cup {NoTag}] /\ mem \in [Blocks -> Vectors]
  BY <1>2, Before
<1>6. op[t] \in Inserts /\ op[t].i = 1 /\ n < Len(batch) /\ batch \in Accepted
      /\ op[t].staged \in Seq(Blocks) /\ n \in Nat
  <2>1. op[t] \in Inserts
    BY <1>1, <1>5, OpShape DEF InsertPcs
  <2> QED
    BY <1>1, <1>5, <2>1 DEF Inserts, CallSound
<1>7. Len(batch) \in Nat /\ batch[n + 1].vec \in Vectors
  BY <1>6, AcceptedFacts
<1>8. /\ staged \in Seq(Blocks) /\ Len(staged) = n + 1 /\ staged[n + 1] = b
      /\ \A j \in 1..n : staged[j] = op[t].staged[j] /\ op[t].staged[j] \in Blocks
  BY <1>6
<1>9. op' = [op EXCEPT ![t].staged = staged, ![t].pc = pc]
  BY <1>3
<1>10. pc \in InsertPcs /\ (pc = "stage" => n + 1 < Len(batch))
                       /\ (pc = "release_old" => n + 1 = Len(batch))
  BY <1>6, <1>7 DEF InsertPcs
<1>11. pc # "rollback" /\ pc # "install"
  OBVIOUS
<1> HIDE DEF pc, staged
<1>12. /\ op' \in [Threads -> Ops] /\ op'[t] # Idle
       /\ op'[t].pc = pc /\ op'[t].c = c /\ op'[t].batch = batch
       /\ op'[t].staged = staged /\ op'[t].i = 1
       /\ \A u \in Threads \ {t} : op'[u] = op[u]
  <2>1. op[t].i \in Nat \ {0}
    BY <1>6
  <2>2. /\ op' \in [Threads -> Ops] /\ op'[t] # Idle
        /\ op'[t].pc = pc /\ op'[t].c = op[t].c /\ op'[t].batch = op[t].batch
        /\ op'[t].staged = staged /\ op'[t].i = op[t].i
        /\ \A u \in Threads \ {t} : op'[u] = op[u]
    BY <1>5, <1>6, <1>8, <1>9, <1>10, <2>1, InsertMoved
  <2> QED
    BY <1>2, <1>6, <2>2
<1> HIDE DEF n, batch
<1>13. StepOf(t, c)
  BY <1>2, <1>3, <1>4, <1>5, <1>7, <1>12, TagAssumption DEF StepOf, n, batch
<1>14. /\ Moving(t) = {} /\ Moving(t)' = {} /\ Pending(t) = 1..n /\ Pending(t)' = 1..(n + 1)
  BY <1>1, <1>6, <1>8, <1>10, <1>11, <1>12 DEF Moving, Pending, InsertPcs, n
<1>15. Firm(c)' = Firm(c) /\ Held(c)' = Held(c)
  BY <1>2, <1>4, <1>5, <1>13, <1>14, After DEF Held
<1>16. TypedAt(c)'
  BY <1>4, <1>5 DEF TypedAt
<1>17. \A x \in Blocks : owner[x] # NoTag => owner'[x] = owner[x] /\ mem'[x] = mem[x] /\ x # b
  BY <1>3, <1>5
<1>18. /\ owner'[b] = c /\ mem'[b] = batch[n + 1].vec
  BY <1>3, <1>5 DEF n, batch
<1>19. \A j \in 1..n : owner[op[t].staged[j]] = c /\ mem[op[t].staged[j]] = batch[j].vec
  BY <1>1, <1>5, <1>6, <1>14 DEF Local, CallSound, n, batch
<1>20. c # NoTag
  BY TagAssumption
<1>21. CallSound(t)'
  <2>1. \A j \in 1..(n + 1) : mem'[staged[j]] = batch[j].vec
    <3> TAKE j \in 1..(n + 1)
    <3>1. CASE j = n + 1
      BY <1>8, <1>18, <3>1
    <3>2. CASE j # n + 1
      <4>1. j \in 1..n
        BY <1>6, <3>2
      <4> QED
        BY <1>8, <1>17, <1>19, <1>20, <4>1
    <3> QED
      BY <3>1, <3>2
  <2> QED
    BY <1>6, <1>7, <1>8, <1>10, <1>11, <1>12, <2>1 DEF CallSound, InsertPcs
<1>22. Local(t, c)'
  <2>1. \A id \in Held(c) : records[c][id].block \in Blocks /\ owner[records[c][id].block] = c
    BY <1>5 DEF Local, TypedAt, Held, Firm
  <2>2. \A j \in 1..(n + 1) : j \in 1..n \/ j = n + 1
    BY <1>6
  <2>3. \A j \in 1..(n + 1) : owner'[staged[j]] = c
    BY <1>8, <1>17, <1>18, <1>19, <1>20, <2>2
  <2>4. \A j, k \in 1..(n + 1) : j # k => staged[j] # staged[k]
    BY <1>3, <1>5, <1>8, <1>14, <1>19, <1>20, <2>2 DEF Local
  <2>5. \A j \in 1..(n + 1), id \in Held(c) : records[c][id].block # staged[j]
    BY <1>3, <1>5, <1>8, <1>14, <1>20, <2>1, <2>2 DEF Local
  <2>6. \A x \in Blocks : owner'[x] = c =>
            \/ \E id \in Held(c) : records[c][id].block = x
            \/ \E j \in 1..(n + 1) : staged[j] = x
    <3> SUFFICES ASSUME NEW x \in Blocks, owner'[x] = c
                 PROVE  \/ \E id \in Held(c) : records[c][id].block = x
                        \/ \E j \in 1..(n + 1) : staged[j] = x
      OBVIOUS
    <3>1. CASE x = b
      BY <1>6, <1>8, <3>1
    <3>2. CASE x # b
      <4>1. owner[x] = c
        BY <1>3, <1>5, <3>2
      <4> QED
        BY <1>5, <1>6, <1>8, <1>14, <4>1 DEF Local
    <3> QED
      BY <3>1, <3>2
  <2> QED
    BY <1>4, <1>5, <1>12, <1>14, <1>15, <1>17, <1>20, <2>1, <2>3, <2>4, <2>5, <2>6 DEF Local
<1>23. IndexedAt(c)'
  <2>1. \A id \in Firm(c) : VectorAt(c, id)' = VectorAt(c, id)
    <3> TAKE id \in Firm(c)
    <3>1. records[c][id].block # Mapped => mem'[records[c][id].block] = mem[records[c][id].block]
      BY <1>5, <1>17, <1>20 DEF Local, TypedAt, Held, Firm
    <3> QED
      BY <1>4, <3>1 DEF VectorAt
  <2> QED
    BY <1>4, <1>5, <1>15, <2>1 DEF IndexedAt
<1> QED
  BY <1>2, <1>13, <1>16, <1>21, <1>22, <1>23, StepIInv

LEMMA ReturnFacts ==
    ASSUME op \in [Threads -> Ops], NEW t \in Threads, Return(t)
    PROVE  /\ op' \in [Threads -> Ops] /\ op'[t] = Idle
           /\ \A u \in Threads \ {t} : op'[u] = op[u]
           /\ Pending(t)' = {} /\ Moving(t)' = {} /\ CallSound(t)'
<1>1. op' \in [Threads -> Ops] /\ op'[t] = Idle /\ \A u \in Threads \ {t} : op'[u] = op[u]
  BY DEF Return, Ops
<1>2. op'[t].pc = "idle"
  BY <1>1 DEF Idle
<1> QED
  BY <1>1, <1>2 DEF Pending, Moving, CallSound, InsertPcs

\* A step that changes only what the thread is at.
LEMMA OnlyOpIInv ==
    ASSUME IInv, NEW t \in Threads, NEW c \in Tags, Alone(t, c), StepOf(t, c),
           UNCHANGED <<records, record_count, index, mapped, owner, mem>>,
           Moving(t)' = Moving(t), Pending(t)' = Pending(t),
           Pending(t) # {} => op'[t].staged = op[t].staged,
           CallSound(t)'
    PROVE  IInv' /\ Apart(t)
<1>1. /\ TypedAt(c) /\ IndexedAt(c) /\ Local(t, c)
      /\ Firm(c) = DOMAIN records[c] \ Moving(t)
  BY Before
<1>2. Firm(c)' = Firm(c) /\ Held(c)' = Held(c)
  BY <1>1, After DEF Held
<1>3. TypedAt(c)' /\ Local(t, c)'
  BY <1>1, <1>2 DEF TypedAt, Local
<1>4. IndexedAt(c)'
  BY <1>1, <1>2 DEF IndexedAt, VectorAt
<1> QED
  BY <1>3, <1>4, StepIInv

LEMMA StageFailsIInv == ASSUME IInv, NEW t \in Threads, StageFails(t) PROVE IInv' /\ Apart(t)
<1>1. op[t].pc = "stage" /\ op[t] # Idle
  BY DEF StageFails, Idle
<1>2. PICK c \in Tags : /\ op[t].c = c /\ InCall(t, c) /\ Alone(t, c)
                        /\ \A u \in Threads \ {t} : ~InCall(u, c)
  BY <1>1, InCallAlone DEF Writing
<1>3. UNCHANGED <<records, record_count, index, mapped, owner, mem, calls>>
  BY DEF StageFails
<1>4. /\ CallSound(t)
      /\ DOMAIN records = Tags /\ DOMAIN record_count = Tags /\ DOMAIN index = Tags
      /\ DOMAIN mapped = Tags /\ op \in [Threads -> Ops] /\ calls \in 0..MaxCalls
      /\ owner \in [Blocks -> Tags \cup {NoTag}] /\ mem \in [Blocks -> Vectors]
  BY <1>2, Before
<1>5. op[t] \in Inserts /\ op[t].i = 1 /\ Moving(t) = {}
  BY <1>1, <1>4, OpShape DEF InsertPcs, CallSound, Moving
<1>6. CASE op[t].staged = << >> /\ Return(t)
  <2>1. /\ op' \in [Threads -> Ops] /\ op'[t] = Idle
        /\ \A u \in Threads \ {t} : op'[u] = op[u]
        /\ Pending(t)' = {} /\ Moving(t)' = {} /\ CallSound(t)'
    BY <1>4, <1>6, ReturnFacts
  <2>2. StepOf(t, c)
    BY <1>2, <1>3, <1>4, <2>1 DEF StepOf
  <2>3. Pending(t) = {}
    BY <1>5, <1>6 DEF Pending
  <2> QED
    BY <1>2, <1>3, <1>5, <2>1, <2>2, <2>3, OnlyOpIInv
<1>7. CASE op[t].staged # << >> /\ op' = [op EXCEPT ![t].pc = "rollback"]
  <2>1. op[t].staged \in Seq(Blocks) /\ op[t].i \in Nat \ {0} /\ "rollback" \in InsertPcs
    BY <1>5 DEF Inserts, InsertPcs
  <2>2. /\ op' \in [Threads -> Ops] /\ op'[t] # Idle
        /\ op'[t].pc = "rollback" /\ op'[t].c = op[t].c /\ op'[t].batch = op[t].batch
        /\ op'[t].staged = op[t].staged /\ op'[t].i = op[t].i
        /\ \A u \in Threads \ {t} : op'[u] = op[u]
    BY <1>4, <1>5, <1>7, <2>1, InsertMoved
  <2>3. StepOf(t, c)
    BY <1>2, <1>3, <1>4, <2>2 DEF StepOf
  <2>4. Pending(t)' = Pending(t) /\ Moving(t)' = {} /\ CallSound(t)'
    BY <1>1, <1>5, <1>7, <2>2 DEF Pending, Moving, CallSound, InsertPcs
  <2> QED
    BY <1>2, <1>3, <1>5, <2>2, <2>3, <2>4, OnlyOpIInv
<1> QED
  BY <1>6, <1>7 DEF StageFails

LEMMA RollbackIInv == ASSUME IInv, NEW t \in Threads, Rollback(t) PROVE IInv' /\ Apart(t)
<1>1. op[t].pc = "rollback" /\ op[t] # Idle
  BY DEF Rollback, Idle
<1>2. PICK c \in Tags : /\ op[t].c = c /\ InCall(t, c) /\ Alone(t, c)
                        /\ \A u \in Threads \ {t} : ~InCall(u, c)
  BY <1>1, InCallAlone DEF Writing
<1>3. UNCHANGED <<records, record_count, index, mapped, mem, calls>>
  BY DEF Rollback
<1>4. /\ TypedAt(c) /\ IndexedAt(c) /\ Local(t, c) /\ CallSound(t)
      /\ Firm(c) = DOMAIN records[c] \ Moving(t)
      /\ DOMAIN records = Tags /\ DOMAIN record_count = Tags /\ DOMAIN index = Tags
      /\ DOMAIN mapped = Tags /\ op \in [Threads -> Ops] /\ calls \in 0..MaxCalls
      /\ owner \in [Blocks -> Tags \cup {NoTag}] /\ mem \in [Blocks -> Vectors]
  BY <1>2, Before
<1> DEFINE staged == op[t].staged
           m == Len(staged)
           b == Head(staged)
<1>5. op[t] \in Inserts /\ op[t].i = 1 /\ staged \in Seq(Blocks) /\ m \in Nat \ {0}
  <2>1. op[t] \in Inserts
    BY <1>1, <1>4, OpShape DEF InsertPcs
  <2> QED
    BY <1>1, <1>4, <2>1 DEF Inserts, CallSound
<1>6. b \in Blocks /\ b = staged[1] /\ Tail(staged) \in Seq(Blocks) /\ Len(Tail(staged)) = m - 1
      /\ \A j \in 1..(m - 1) : Tail(staged)[j] = staged[j + 1]
  BY <1>5
<1>7. owner' = [owner EXCEPT ![b] = NoTag]
  BY <1>6, TagAssumption DEF Rollback, Released
<1>8. Pending(t) = 1..m /\ Moving(t) = {}
  BY <1>1, <1>5 DEF Pending, Moving, InsertPcs
<1>8a. owner[b] = c
  BY <1>4, <1>5, <1>6, <1>8 DEF Local
<1>9. /\ op' \in [Threads -> Ops] /\ (op'[t] = Idle \/ op'[t].c = c)
      /\ \A u \in Threads \ {t} : op'[u] = op[u]
      /\ Pending(t)' = 1..(m - 1) /\ Moving(t)' = {} /\ CallSound(t)'
      /\ \A j \in 1..(m - 1) : op'[t].staged[j] = staged[j + 1]
  <2>1. CASE m = 1 /\ Return(t)
    <3>1. /\ op' \in [Threads -> Ops] /\ op'[t] = Idle
          /\ \A u \in Threads \ {t} : op'[u] = op[u]
          /\ Pending(t)' = {} /\ Moving(t)' = {} /\ CallSound(t)'
      BY <1>4, <2>1, ReturnFacts
    <3> QED
      BY <2>1, <3>1
  <2>2. CASE m # 1 /\ op' = [op EXCEPT ![t].staged = Tail(@)]
    <3>1. op[t].i \in Nat \ {0} /\ op[t].pc \in InsertPcs
      BY <1>1, <1>5 DEF InsertPcs
    <3>2. op' = [op EXCEPT ![t].staged = Tail(staged)]
      BY <2>2
    <3>3. /\ op' \in [Threads -> Ops] /\ op'[t] # Idle
          /\ op'[t].pc = op[t].pc /\ op'[t].c = op[t].c /\ op'[t].batch = op[t].batch
          /\ op'[t].staged = Tail(staged) /\ op'[t].i = op[t].i
          /\ \A u \in Threads \ {t} : op'[u] = op[u]
      BY <1>4, <1>5, <1>6, <3>1, <3>2, InsertMoved
    <3>4. Pending(t)' = 1..(m - 1) /\ Moving(t)' = {}
      BY <1>1, <1>5, <1>6, <3>3 DEF Pending, Moving, InsertPcs
    <3>5. Tail(staged) # << >>
      <4>1. Len(Tail(staged)) # 0
        BY <1>5, <1>6, <2>2
      <4> QED
        BY <1>6, <4>1, EmptySeq
    <3>6. CallSound(t)'
      BY <1>1, <1>5, <3>3, <3>5 DEF CallSound
    <3> QED
      BY <1>2, <1>6, <3>3, <3>4, <3>6
  <2> QED
    BY <2>1, <2>2 DEF Rollback
<1> HIDE DEF b, m, staged
<1>10. StepOf(t, c)
  BY <1>8a, <1>2, <1>3, <1>4, <1>6, <1>7, <1>9, TagAssumption DEF StepOf
<1>11. Firm(c)' = Firm(c) /\ Held(c)' = Held(c)
  <2>1. Firm(c)' = DOMAIN records'[c] \ Moving(t)'
    BY <1>2, <1>10, After
  <2> QED
    BY <1>3, <1>4, <1>8, <1>9, <2>1 DEF Held
<1>12. TypedAt(c)' /\ IndexedAt(c)'
  <2>1. TypedAt(c)'
    BY <1>3, <1>4 DEF TypedAt
  <2> QED
    BY <1>3, <1>4, <1>11, <2>1 DEF IndexedAt, VectorAt
<1>13. Local(t, c)'
  <2>1. \A x \in Blocks : x # b => owner'[x] = owner[x]
    BY <1>4, <1>7
  <2>2. \A j \in 1..(m - 1) : j + 1 \in 1..m /\ 1 \in 1..m /\ j + 1 # 1
    BY <1>5
  <2>3. \A j \in 1..(m - 1) : staged[j + 1] # b /\ staged[j + 1] \in Blocks
    BY <1>4, <1>5, <1>6, <1>8, <2>2 DEF Local, m, staged
  <2>4. \A id \in Held(c) : records[c][id].block \in Blocks /\ records[c][id].block # b
    BY <1>4, <1>5, <1>6, <1>8 DEF Local, TypedAt, Held, Firm, staged
  <2>5. \A j \in 1..(m - 1) : owner'[op'[t].staged[j]] = c
    BY <1>4, <1>8, <1>9, <2>1, <2>2, <2>3 DEF Local, staged
  <2>6. \A id \in Held(c) : owner'[records[c][id].block] = c
    BY <1>4, <2>1, <2>4 DEF Local
  <2>7. ASSUME NEW j \in 1..(m - 1), NEW k \in 1..(m - 1), j # k
        PROVE  op'[t].staged[j] # op'[t].staged[k]
    <3>1. j + 1 \in 1..m /\ k + 1 \in 1..m /\ j + 1 # k + 1
      BY <1>5, <2>7
    <3>2. staged[j + 1] # staged[k + 1]
      BY <1>4, <1>8, <3>1 DEF Local, staged
    <3> QED
      BY <1>9, <3>2
  <2>8. \A j \in 1..(m - 1), id \in Held(c) : records[c][id].block # op'[t].staged[j]
    BY <1>4, <1>8, <1>9, <2>2 DEF Local, staged
  <2>9. ASSUME NEW x \in Blocks, owner'[x] = c
        PROVE  \/ \E id \in Held(c) : records[c][id].block = x
               \/ \E j \in 1..(m - 1) : op'[t].staged[j] = x
    <3>1. x # b /\ owner[x] = c
      BY <1>4, <1>6, <1>7, <2>1, <2>9, TagAssumption
    <3>2. CASE \E j \in 1..m : staged[j] = x
      <4>1. PICK j \in 1..m : staged[j] = x
        BY <3>2
      <4>2. j # 1 /\ j - 1 \in 1..(m - 1) /\ (j - 1) + 1 = j
        BY <1>5, <1>6, <3>1, <4>1
      <4> QED
        BY <1>9, <4>1, <4>2
    <3> QED
      BY <1>4, <1>8, <3>1, <3>2 DEF Local, staged
  <2> QED
    BY <1>3, <1>9, <1>11, <2>5, <2>6, <2>7, <2>8, <2>9, <1>4 DEF Local
<1> QED
  BY <1>2, <1>9, <1>10, <1>12, <1>13, StepIInv

\* A writer gives back the block of a slot that still stands.
LEMMA ReleaseSlotIInv ==
    ASSUME IInv, NEW t \in Threads, NEW c \in Tags, Alone(t, c),
           \A u \in Threads \ {t} : ~InCall(u, c),
           NEW id \in DOMAIN records[c], owner' = Released(records[c][id].block),
           UNCHANGED <<records, record_count, index, mapped, mem>>, calls' \in 0..MaxCalls,
           op' \in [Threads -> Ops], op'[t].c = c, \A u \in Threads \ {t} : op'[u] = op[u],
           Moving(t) = {}, Moving(t)' = {id}, Pending(t)' = Pending(t),
           Pending(t) # {} => op'[t].staged = op[t].staged,
           CallSound(t)'
    PROVE  IInv' /\ Apart(t)
<1>1. /\ TypedAt(c) /\ IndexedAt(c) /\ Local(t, c)
      /\ Firm(c) = DOMAIN records[c]
      /\ DOMAIN records = Tags /\ DOMAIN record_count = Tags /\ DOMAIN index = Tags
      /\ DOMAIN mapped = Tags
      /\ owner \in [Blocks -> Tags \cup {NoTag}] /\ mem \in [Blocks -> Vectors]
  <2>1. /\ TypedAt(c) /\ IndexedAt(c) /\ Local(t, c)
        /\ Firm(c) = DOMAIN records[c] \ Moving(t)
        /\ DOMAIN records = Tags /\ DOMAIN record_count = Tags /\ DOMAIN index = Tags
        /\ DOMAIN mapped = Tags
        /\ owner \in [Blocks -> Tags \cup {NoTag}] /\ mem \in [Blocks -> Vectors]
    BY ONLY IInv, t \in Threads, c \in Tags, Alone(t, c), Before
  <2> QED
    BY <2>1
<1> DEFINE block == records[c][id].block
<1>2. c # NoTag /\ Mapped \notin Blocks
  BY TagAssumption
<1>3. block # Mapped => block \in Blocks /\ id \in Held(c) /\ owner[block] = c
  BY <1>1 DEF TypedAt, Held, Local
<1>4. /\ owner' \in [Blocks -> Tags \cup {NoTag}]
      /\ block # Mapped => owner'[block] = NoTag
      /\ \A x \in Blocks : x # block => owner'[x] = owner[x]
  BY <1>1, <1>2, <1>3 DEF Released
<1> HIDE DEF block
<1>5. StepOf(t, c)
  BY <1>1, <1>2, <1>3, <1>4 DEF StepOf, block
<1>6. Firm(c)' = Firm(c) \ {id}
  BY <1>1, <1>5, After
<1>7. Held(c)' = Held(c) \ {id}
  BY <1>6 DEF Held
<1>8. TypedAt(c)' /\ IndexedAt(c)'
  BY <1>1, <1>6 DEF TypedAt, IndexedAt, VectorAt
<1>9. Local(t, c)'
  <2>1. \A x \in Held(c)' : records[c][x].block \in Blocks /\ records[c][x].block # block
    BY <1>1, <1>3, <1>7 DEF TypedAt, Held, Firm, Local, block
  <2>2. \A x \in Held(c)' : owner'[records[c][x].block] = c
    BY <1>1, <1>4, <1>7, <2>1 DEF Local
  <2>3. \A j \in Pending(t) : op[t].staged[j] \in Blocks /\ op[t].staged[j] # block
    <3> TAKE j \in Pending(t)
    <3>1. op[t] \in Inserts /\ j \in 1..Len(op[t].staged)
      BY OpShape DEF Pending, Inserts, IInv, Types
    <3>2. op[t].staged[j] \in Blocks
      BY <3>1 DEF Inserts
    <3> QED
      BY <1>1, <1>2, <1>3, <3>2 DEF Local, block
  <2>4. \A j \in Pending(t) : owner'[op[t].staged[j]] = c
    BY <1>1, <1>4, <2>3 DEF Local
  <2>5. ASSUME NEW x \in Blocks, owner'[x] = c
        PROVE  \/ \E y \in Held(c)' : records[c][y].block = x
               \/ \E j \in Pending(t) : op[t].staged[j] = x
    <3>1. x # block /\ owner[x] = c
      BY <1>2, <1>4, <2>5
    <3> QED
      BY <1>1, <1>7, <3>1 DEF Local, block
  <2> QED
    BY <1>1, <1>7, <2>2, <2>4, <2>5 DEF Local
<1> QED
  BY <1>5, <1>8, <1>9, StepIInv

LEMMA ReleaseOldIInv == ASSUME IInv, NEW t \in Threads, ReleaseOld(t) PROVE IInv' /\ Apart(t)
<1>1. op[t].pc = "release_old" /\ op[t] # Idle
  BY DEF ReleaseOld, Idle
<1>2. PICK c \in Tags : /\ op[t].c = c /\ InCall(t, c) /\ Alone(t, c)
                        /\ \A u \in Threads \ {t} : ~InCall(u, c)
  BY <1>1, InCallAlone DEF Writing
<1>3. /\ UNCHANGED <<records, record_count, index, mapped, mem, calls>>
      /\ Current(t).id \in DOMAIN records[c]
      /\ owner' = Released(records[c][Current(t).id].block)
      /\ op' = [op EXCEPT ![t].pc = "install"]
  BY <1>2 DEF ReleaseOld
<1>4. CallSound(t) /\ op \in [Threads -> Ops] /\ calls \in 0..MaxCalls
  BY <1>2, Before
<1>5. op[t] \in Inserts /\ op[t].staged \in Seq(Blocks) /\ op[t].i \in Nat \ {0}
      /\ "install" \in InsertPcs
  <2>1. op[t] \in Inserts
    BY <1>1, <1>4, OpShape DEF InsertPcs
  <2> QED
    BY <2>1 DEF Inserts, InsertPcs
<1>6. /\ op' \in [Threads -> Ops] /\ op'[t] # Idle
      /\ op'[t].pc = "install" /\ op'[t].c = op[t].c /\ op'[t].batch = op[t].batch
      /\ op'[t].staged = op[t].staged /\ op'[t].i = op[t].i
      /\ \A u \in Threads \ {t} : op'[u] = op[u]
  BY <1>3, <1>4, <1>5, InsertMoved
<1>7. Moving(t) = {} /\ Moving(t)' = {Current(t).id} /\ Pending(t)' = Pending(t)
      /\ Current(t)' = Current(t)
  BY <1>1, <1>6 DEF Moving, Pending, Current, InsertPcs
<1>8. CallSound(t)'
  BY <1>1, <1>2, <1>3, <1>4, <1>6, <1>7 DEF CallSound
<1> QED
  BY <1>2, <1>3, <1>4, <1>6, <1>7, <1>8, ReleaseSlotIInv

LEMMA InstallIInv == ASSUME IInv, NEW t \in Threads, Install(t) PROVE IInv' /\ Apart(t)
<1>1. op[t].pc \in {"release_old", "install"} /\ op[t] # Idle
  BY DEF Install, Idle
<1>2. PICK c \in Tags : /\ op[t].c = c /\ InCall(t, c) /\ Alone(t, c)
                        /\ \A u \in Threads \ {t} : ~InCall(u, c)
  BY <1>1, InCallAlone DEF Writing
<1> DEFINE rec == Current(t)
           id == rec.id
           isNew == id \notin DOMAIN records[c]
           staged == op[t].staged
           batch == op[t].batch
           i == op[t].i
           n == Len(batch)
           b == staged[i]
<1>3. /\ records' = [records EXCEPT ![c] = Put(@, id, [block |-> b, meta |-> rec.meta])]
      /\ record_count' = [record_count EXCEPT ![c] = IF isNew THEN @ + 1 ELSE @]
      /\ index' = [index EXCEPT ![c] = IndexAdd(@, id, rec.vec)]
      /\ op[t].pc = IF isNew THEN "release_old" ELSE "install"
      /\ UNCHANGED <<mapped, owner, mem, calls>>
  BY <1>2 DEF Install
<1>4. /\ TypedAt(c) /\ IndexedAt(c) /\ Local(t, c) /\ CallSound(t)
      /\ Firm(c) = DOMAIN records[c] \ Moving(t)
      /\ DOMAIN records = Tags /\ DOMAIN record_count = Tags /\ DOMAIN index = Tags
      /\ DOMAIN mapped = Tags /\ op \in [Threads -> Ops] /\ calls \in 0..MaxCalls
      /\ owner \in [Blocks -> Tags \cup {NoTag}] /\ mem \in [Blocks -> Vectors]
  BY <1>2, Before
<1>5. op[t] \in Inserts /\ staged \in Seq(Blocks) /\ i \in Nat \ {0} /\ batch \in Accepted
  <2>1. op[t] \in Inserts
    BY <1>1, <1>4, OpShape DEF InsertPcs
  <2> QED
    BY <2>1 DEF Inserts
<1>6. /\ n \in Nat \ {0} /\ i =< n /\ Len(staged) = n /\ i \in 1..n /\ i \in i..n
      /\ \A j \in i..n : mem[staged[j]] = batch[j].vec
  BY <1>1, <1>4, <1>5, AcceptedFacts DEF CallSound
<1>7. /\ rec = batch[i] /\ id \in Ids /\ rec.vec \in Vectors /\ rec.meta \in Metas
      /\ b \in Blocks /\ mem[b] = rec.vec
  BY <1>5, <1>6, AcceptedFacts DEF Current
<1>8. Pending(t) = i..n /\ (isNew \/ Moving(t) = {id}) /\ (isNew => Moving(t) = {})
  BY <1>1, <1>3, <1>6 DEF Pending, Moving, InsertPcs
<1>9. /\ op' \in [Threads -> Ops] /\ (op'[t] = Idle \/ op'[t].c = c)
      /\ \A u \in Threads \ {t} : op'[u] = op[u]
      /\ Pending(t)' = (i + 1)..n /\ Moving(t)' = {} /\ CallSound(t)'
      /\ \A j \in (i + 1)..n : op'[t].staged[j] = staged[j]
  <2>1. CASE i = n /\ Return(t)
    <3>1. /\ op' \in [Threads -> Ops] /\ op'[t] = Idle
          /\ \A u \in Threads \ {t} : op'[u] = op[u]
          /\ Pending(t)' = {} /\ Moving(t)' = {} /\ CallSound(t)'
      BY <1>4, <2>1, ReturnFacts
    <3> QED
      BY <1>6, <2>1, <3>1
  <2>2. CASE i # n /\ op' = [op EXCEPT ![t].pc = "release_old", ![t].i = @ + 1]
    <3>1. i + 1 \in Nat \ {0} /\ "release_old" \in InsertPcs /\ i + 1 =< n
      BY <1>5, <1>6, <2>2 DEF InsertPcs
    <3>2. op' = [op EXCEPT ![t].pc = "release_old", ![t].i = i + 1]
      BY <2>2
    <3>3. /\ op' \in [Threads -> Ops] /\ op'[t] # Idle
          /\ op'[t].pc = "release_old" /\ op'[t].c = op[t].c /\ op'[t].batch = batch
          /\ op'[t].staged = staged /\ op'[t].i = i + 1
          /\ \A u \in Threads \ {t} : op'[u] = op[u]
      BY <1>4, <1>5, <3>1, <3>2, InsertMoved
    <3>4. Pending(t)' = (i + 1)..n /\ Moving(t)' = {}
      BY <1>6, <3>3 DEF Pending, Moving, InsertPcs
    <3>5. CallSound(t)'
      BY <1>3, <1>5, <1>6, <3>1, <3>3 DEF CallSound
    <3> QED
      BY <1>2, <3>3, <3>4, <3>5
  <2> QED
    BY <2>1, <2>2 DEF Install
<1> HIDE DEF rec, isNew, staged, batch, n, b, id
<1>10. StepOf(t, c)
  BY <1>2, <1>3, <1>4, <1>9 DEF StepOf
<1>11. /\ DOMAIN records'[c] = DOMAIN records[c] \cup {id}
       /\ records'[c][id] = [block |-> b, meta |-> rec.meta]
       /\ \A x \in DOMAIN records[c] \ {id} : records'[c][x] = records[c][x]
  BY <1>3, <1>4 DEF Put
<1>12. Firm(c)' = Firm(c) \cup {id} /\ id \notin Firm(c)
  <2>1. Firm(c)' = DOMAIN records[c] \cup {id}
    BY <1>2, <1>9, <1>10, <1>11, After
  <2>2. Firm(c) = DOMAIN records[c] \ {id}
    BY <1>4, <1>8 DEF isNew
  <2> QED
    BY <2>1, <2>2
<1>13. Held(c)' = Held(c) \cup {id} /\ id \notin Held(c)
       /\ \A x \in Held(c) : records'[c][x] = records[c][x]
  <2>1. \A x \in Firm(c) : x \in DOMAIN records[c] \ {id}
    BY <1>12 DEF Firm
  <2>2. b # Mapped
    BY <1>7, TagAssumption
  <2> QED
    BY <1>11, <1>12, <2>1, <2>2 DEF Held
<1>14. TypedAt(c)'
  <2>1. IsFiniteSet(DOMAIN records'[c])
        /\ Cardinality(DOMAIN records'[c]) = IF isNew THEN Cardinality(DOMAIN records[c]) + 1
                                             ELSE Cardinality(DOMAIN records[c])
    BY <1>4, <1>11, FS_AddElement DEF TypedAt, isNew
  <2>2. record_count'[c] = Cardinality(DOMAIN records'[c])
    BY <1>3, <1>4, <2>1 DEF TypedAt
  <2>3. /\ DOMAIN records'[c] \subseteq Ids
        /\ \A x \in DOMAIN records'[c] :
              records'[c][x] \in [block: Blocks \cup {Mapped}, meta: Metas]
    BY <1>4, <1>7, <1>11 DEF TypedAt
  <2>4. /\ index'[c].type \in IndexTypes
        /\ index'[c] = [type |-> index'[c].type, entries |-> index'[c].entries]
    BY <1>3, <1>4 DEF TypedAt, IndexAdd
  <2> QED
    BY <2>1, <2>2, <2>3, <2>4 DEF TypedAt
<1>15. IndexedAt(c)'
  <2> SUFFICES ASSUME index'[c].type # "None"
               PROVE  /\ DOMAIN index'[c].entries = DOMAIN records'[c]
                      /\ \A x \in Firm(c)' : index'[c].entries[x] = VectorAt(c, x)'
    BY DEF IndexedAt
  <2>1. index[c].type # "None" /\ index'[c].entries = Put(index[c].entries, id, rec.vec)
    BY <1>3, <1>4 DEF TypedAt, IndexAdd
  <2>2. DOMAIN index[c].entries = DOMAIN records[c]
    BY <1>4, <2>1 DEF IndexedAt
  <2>3. \A x \in Firm(c) : VectorAt(c, x)' = VectorAt(c, x) /\ x \in DOMAIN records[c] \ {id}
    BY <1>3, <1>11, <1>12 DEF VectorAt, Firm
  <2>4. \A x : x = id => VectorAt(c, x)' = rec.vec
    BY <1>3, <1>7, <1>11, TagAssumption DEF VectorAt
  <2> QED
    BY <1>4, <1>11, <1>12, <2>1, <2>2, <2>3, <2>4 DEF IndexedAt, Put
<1>16. Local(t, c)'
  <2>1. \A j \in (i + 1)..n : j \in i..n /\ j # i
    BY <1>6
  <2>2. \A j \in i..n : j = i \/ j \in (i + 1)..n
    BY <1>6
  <2>3. owner[b] = c /\ \A x \in Held(c) : records[c][x].block # b
    BY <1>4, <1>6, <1>8 DEF Local, b, staged
  <2>4. \A x \in Held(c)' : owner[records'[c][x].block] = c
    BY <1>4, <1>11, <1>13, <2>3 DEF Local
  <2>5. \A x, y \in Held(c)' : x # y => records'[c][x].block # records'[c][y].block
    BY <1>4, <1>11, <1>13, <2>3 DEF Local
  <2>6. \A j \in (i + 1)..n : owner[staged[j]] = c /\ staged[j] # b
    BY <1>4, <1>6, <1>8, <2>1 DEF Local, b, staged
  <2>7. \A j, k \in (i + 1)..n : j # k => staged[j] # staged[k]
    BY <1>4, <1>8, <2>1 DEF Local, staged
  <2>8. \A j \in (i + 1)..n, x \in Held(c)' : records'[c][x].block # staged[j]
    BY <1>4, <1>8, <1>11, <1>13, <2>1, <2>6 DEF Local, staged
  <2>9. ASSUME NEW x \in Blocks, owner[x] = c
        PROVE  \/ \E y \in Held(c)' : records'[c][y].block = x
               \/ \E j \in (i + 1)..n : staged[j] = x
    <3>1. CASE \E y \in Held(c) : records[c][y].block = x
      BY <1>13, <3>1
    <3>2. CASE \E j \in i..n : staged[j] = x
      BY <1>11, <1>13, <2>2, <3>2 DEF b
    <3> QED
      BY <1>4, <1>8, <2>9, <3>1, <3>2 DEF Local, staged
  <2> QED
    BY <1>3, <1>9, <2>4, <2>5, <2>6, <2>7, <2>8, <2>9 DEF Local
<1> QED
  BY <1>2, <1>9, <1>10, <1>14, <1>15, <1>16, StepIInv

-----------------------------------------------------------------------------
(* The other steps                                                          *)

LEMMA EraseRecordIInv == ASSUME IInv, NEW t \in Threads, EraseRecord(t) PROVE IInv' /\ Apart(t)
<1>1. op[t].pc = "erase" /\ op[t] # Idle
  BY DEF EraseRecord, Idle
<1>2. PICK c \in Tags : /\ op[t].c = c /\ InCall(t, c) /\ Alone(t, c)
                        /\ \A u \in Threads \ {t} : ~InCall(u, c)
  BY <1>1, InCallAlone DEF Writing
<1>3. /\ TypedAt(c) /\ IndexedAt(c) /\ Local(t, c) /\ CallSound(t)
      /\ Firm(c) = DOMAIN records[c] \ Moving(t)
      /\ DOMAIN records = Tags /\ DOMAIN record_count = Tags /\ DOMAIN index = Tags
      /\ DOMAIN mapped = Tags /\ op \in [Threads -> Ops] /\ calls \in 0..MaxCalls
      /\ owner \in [Blocks -> Tags \cup {NoTag}] /\ mem \in [Blocks -> Vectors]
  BY <1>2, Before
<1>4. PICK id \in DOMAIN records[c] : op[t].id = id
  BY <1>1, <1>2, <1>3 DEF CallSound
<1>5. /\ records' = [records EXCEPT ![c] = Erase(@, id)]
      /\ record_count' = [record_count EXCEPT ![c] = @ - 1]
      /\ index' = [index EXCEPT ![c] = IndexRemove(@, id)]
      /\ Return(t) /\ UNCHANGED <<mapped, owner, mem, calls>>
  BY <1>2, <1>4 DEF EraseRecord
<1>6. Moving(t) = {id} /\ Pending(t) = {}
  BY <1>1, <1>4 DEF Moving, Pending, InsertPcs
<1>7. /\ op' \in [Threads -> Ops] /\ op'[t] = Idle
      /\ \A u \in Threads \ {t} : op'[u] = op[u]
      /\ Pending(t)' = {} /\ Moving(t)' = {} /\ CallSound(t)'
  BY <1>3, <1>5, ReturnFacts
<1>8. StepOf(t, c)
  BY <1>2, <1>3, <1>5, <1>7 DEF StepOf
<1>9. /\ DOMAIN records'[c] = DOMAIN records[c] \ {id}
      /\ \A x \in DOMAIN records'[c] : records'[c][x] = records[c][x]
  BY <1>3, <1>5 DEF Erase
<1>10. Firm(c)' = Firm(c) /\ Firm(c) = DOMAIN records[c] \ {id}
  BY <1>2, <1>3, <1>6, <1>7, <1>8, <1>9, After
<1>11. Held(c)' = Held(c) /\ \A x \in Held(c) : records'[c][x] = records[c][x]
  BY <1>9, <1>10 DEF Held
<1>12. TypedAt(c)'
  <2>1. IsFiniteSet(DOMAIN records'[c])
        /\ Cardinality(DOMAIN records'[c]) = Cardinality(DOMAIN records[c]) - 1
    <3>1. IsFiniteSet(DOMAIN records[c]) /\ id \in DOMAIN records[c]
      BY <1>3, <1>4 DEF TypedAt
    <3>2. /\ IsFiniteSet(DOMAIN records[c] \ {id})
          /\ Cardinality(DOMAIN records[c] \ {id})
               = Cardinality(DOMAIN records[c]) - 1
      BY <3>1, FS_RemoveElement
    <3> QED
      BY <1>9, <3>2
  <2>2. record_count'[c] = Cardinality(DOMAIN records'[c])
    BY <1>3, <1>5, <2>1 DEF TypedAt
  <2>3. /\ index'[c].type \in IndexTypes
        /\ index'[c] = [type |-> index'[c].type, entries |-> index'[c].entries]
    BY <1>3, <1>5 DEF TypedAt, IndexRemove
  <2> QED
    BY <1>3, <1>9, <2>1, <2>2, <2>3 DEF TypedAt
<1>13. IndexedAt(c)'
  <2> SUFFICES ASSUME index'[c].type # "None"
               PROVE  /\ DOMAIN index'[c].entries = DOMAIN records'[c]
                      /\ \A x \in Firm(c)' : index'[c].entries[x] = VectorAt(c, x)'
    BY DEF IndexedAt
  <2>1. index[c].type # "None" /\ index'[c].entries = Erase(index[c].entries, id)
    BY <1>3, <1>5 DEF TypedAt, IndexRemove
  <2>2. DOMAIN index[c].entries = DOMAIN records[c]
    BY <1>3, <2>1 DEF IndexedAt
  <2>3. \A x \in Firm(c) : VectorAt(c, x)' = VectorAt(c, x)
    BY <1>5, <1>9, <1>10 DEF VectorAt
  <2> QED
    BY <1>3, <1>9, <1>10, <2>1, <2>2, <2>3 DEF IndexedAt, Erase
<1>14. Local(t, c)'
  BY <1>3, <1>5, <1>6, <1>7, <1>11 DEF Local
<1> QED
  BY <1>2, <1>7, <1>8, <1>12, <1>13, <1>14, StepIInv

LEMMA EndReadIInv == ASSUME IInv, NEW t \in Threads, EndRead(t) PROVE IInv' /\ Apart(t)
<1>1. /\ op[t].pc = "read" /\ op[t] # Idle /\ Return(t)
      /\ UNCHANGED <<records, record_count, index, mapped, owner, mem, calls>>
  BY DEF EndRead, Idle
<1>2. PICK c \in Tags : op[t].c = c /\ Alone(t, c)
  BY <1>1, InCallAlone
<1>3. /\ DOMAIN records = Tags /\ DOMAIN record_count = Tags /\ DOMAIN index = Tags
      /\ DOMAIN mapped = Tags /\ op \in [Threads -> Ops] /\ calls \in 0..MaxCalls
      /\ owner \in [Blocks -> Tags \cup {NoTag}] /\ mem \in [Blocks -> Vectors]
  BY <1>2, Before
<1>4. /\ op' \in [Threads -> Ops] /\ op'[t] = Idle
      /\ \A u \in Threads \ {t} : op'[u] = op[u]
      /\ Pending(t)' = {} /\ Moving(t)' = {} /\ CallSound(t)'
  BY <1>1, <1>3, ReturnFacts
<1>5. StepOf(t, c)
  BY <1>1, <1>3, <1>4 DEF StepOf, Idle, Writing
<1>6. Moving(t) = {} /\ Pending(t) = {}
  BY <1>1, NothingMoving DEF IInv
<1> QED
  BY <1>1, <1>2, <1>4, <1>5, <1>6, OnlyOpIInv

LEMMA StartInsertIInv ==
    ASSUME IInv, NEW t \in Threads, NEW c \in Tags, NEW batch \in Batches,
           StartInsert(t, c, batch)
    PROVE  IInv' /\ Apart(t)
<1> DEFINE r == [pc |-> "stage", c |-> c, batch |-> batch, staged |-> << >>, i |-> 1]
<1>1. /\ op[t] = Idle /\ calls < MaxCalls /\ calls' = calls + 1
      /\ Valid(batch) /\ CanWrite(c) /\ op' = [op EXCEPT ![t] = r]
      /\ UNCHANGED <<records, record_count, index, mapped, owner, mem>>
  BY DEF StartInsert, Call
<1>2. Alone(t, c) /\ \A u \in Threads \ {t} : ~InCall(u, c)
  BY <1>1, EnterAlone DEF CanWrite
<1>3. /\ DOMAIN records = Tags /\ DOMAIN record_count = Tags /\ DOMAIN index = Tags
      /\ DOMAIN mapped = Tags /\ op \in [Threads -> Ops] /\ calls \in 0..MaxCalls
      /\ owner \in [Blocks -> Tags \cup {NoTag}] /\ mem \in [Blocks -> Vectors]
  BY <1>2, Before
<1>4. batch \in Accepted /\ Len(batch) \in Nat \ {0}
  BY <1>1, AcceptedFacts DEF Accepted
<1>5. r \in Inserts
  BY <1>4 DEF Inserts, InsertPcs
<1>6. /\ op' \in [Threads -> Ops] /\ op'[t] = r
      /\ \A u \in Threads \ {t} : op'[u] = op[u]
  BY <1>1, <1>3, <1>5 DEF Ops
<1>7. calls' \in 0..MaxCalls
  BY <1>1, <1>3, BoundAssumption
<1>8. StepOf(t, c)
  BY <1>1, <1>2, <1>3, <1>6, <1>7 DEF StepOf
<1>9. Moving(t) = {} /\ Pending(t) = {}
  BY <1>1, NothingMoving DEF IInv, Idle
<1>10. Moving(t)' = {} /\ Pending(t)' = {} /\ CallSound(t)'
  BY <1>4, <1>6 DEF Moving, Pending, CallSound
<1> QED
  BY <1>1, <1>2, <1>8, <1>9, <1>10, OnlyOpIInv

LEMMA StartReadIInv ==
    ASSUME IInv, NEW t \in Threads, NEW c \in Tags, StartRead(t, c) PROVE IInv' /\ Apart(t)
<1> DEFINE r == [pc |-> "read", c |-> c]
<1>1. /\ op[t] = Idle /\ calls < MaxCalls /\ calls' = calls + 1
      /\ CanRead(c) /\ op' = [op EXCEPT ![t] = r]
      /\ UNCHANGED <<records, record_count, index, mapped, owner, mem>>
  BY DEF StartRead, Call
<1>2. Alone(t, c)
  BY <1>1, EnterAlone
<1>3. /\ DOMAIN records = Tags /\ DOMAIN record_count = Tags /\ DOMAIN index = Tags
      /\ DOMAIN mapped = Tags /\ op \in [Threads -> Ops] /\ calls \in 0..MaxCalls
      /\ owner \in [Blocks -> Tags \cup {NoTag}] /\ mem \in [Blocks -> Vectors]
  BY <1>2, Before
<1>4. /\ op' \in [Threads -> Ops] /\ op'[t] = r
      /\ \A u \in Threads \ {t} : op'[u] = op[u]
  BY <1>1, <1>3 DEF Ops, Reads
<1>5. calls' \in 0..MaxCalls
  BY <1>1, <1>3, BoundAssumption
<1>6. StepOf(t, c)
  BY <1>1, <1>2, <1>3, <1>4, <1>5 DEF StepOf, Writing
<1>7. Moving(t) = {} /\ Pending(t) = {}
  BY <1>1, NothingMoving DEF IInv, Idle
<1>8. Moving(t)' = {} /\ Pending(t)' = {} /\ CallSound(t)'
  BY <1>4 DEF Moving, Pending, CallSound, InsertPcs
<1> QED
  BY <1>1, <1>2, <1>6, <1>7, <1>8, OnlyOpIInv

LEMMA StartRemoveIInv ==
    ASSUME IInv, NEW t \in Threads, NEW c \in Tags, NEW id \in Ids, StartRemove(t, c, id)
    PROVE  IInv' /\ Apart(t)
<1> DEFINE r == [pc |-> "erase", c |-> c, id |-> id]
<1>1. /\ op[t] = Idle /\ calls < MaxCalls /\ calls' = calls + 1
      /\ CanWrite(c) /\ op' = [op EXCEPT ![t] = r] /\ id \in DOMAIN records[c]
      /\ owner' = Released(records[c][id].block)
      /\ UNCHANGED <<records, record_count, index, mapped, mem>>
  BY DEF StartRemove, Call
<1>2. Alone(t, c) /\ \A u \in Threads \ {t} : ~InCall(u, c)
  BY <1>1, EnterAlone DEF CanWrite
<1>3. op \in [Threads -> Ops] /\ calls \in 0..MaxCalls
  BY <1>2, Before
<1>4. /\ op' \in [Threads -> Ops] /\ op'[t] = r
      /\ \A u \in Threads \ {t} : op'[u] = op[u]
  BY <1>1, <1>3 DEF Ops, Erases
<1>5. calls' \in 0..MaxCalls
  BY <1>1, <1>3, BoundAssumption
<1>6. Moving(t) = {} /\ Pending(t) = {}
  BY <1>1, NothingMoving DEF IInv, Idle
<1>7. Moving(t)' = {id} /\ Pending(t)' = {} /\ CallSound(t)'
  BY <1>1, <1>4 DEF Moving, Pending, CallSound, InsertPcs
<1> QED
  BY <1>1, <1>2, <1>4, <1>5, <1>6, <1>7, ReleaseSlotIInv

LEMMA BuildIndexIInv ==
    ASSUME IInv, NEW t \in Threads, NEW c \in Tags, NEW type \in IndexTypes, NEW param,
           BuildIndex(t, c, type, param)
    PROVE  IInv' /\ Apart(t)
<1>1. /\ op[t] = Idle /\ calls < MaxCalls /\ calls' = calls + 1 /\ CanWrite(c)
      /\ index' = [index EXCEPT ![c] =
                     [type |-> type,
                      entries |-> [id \in DOMAIN records[c] |-> VectorAt(c, id)]]]
      /\ UNCHANGED <<records, record_count, mapped, owner, mem, op>>
  BY DEF BuildIndex, Call
<1>2. Alone(t, c) /\ \A u \in Threads \ {t} : ~InCall(u, c)
  BY <1>1, EnterAlone DEF CanWrite
<1>3. /\ TypedAt(c) /\ Local(t, c) /\ CallSound(t)
      /\ Firm(c) = DOMAIN records[c] \ Moving(t)
      /\ DOMAIN records = Tags /\ DOMAIN record_count = Tags /\ DOMAIN index = Tags
      /\ DOMAIN mapped = Tags /\ op \in [Threads -> Ops] /\ calls \in 0..MaxCalls
      /\ owner \in [Blocks -> Tags \cup {NoTag}] /\ mem \in [Blocks -> Vectors]
  BY <1>2, Before
<1>4. calls' \in 0..MaxCalls
  BY <1>1, <1>3, BoundAssumption
<1>5. StepOf(t, c)
  BY <1>1, <1>2, <1>3, <1>4 DEF StepOf
<1>6. Moving(t)' = Moving(t) /\ Pending(t)' = Pending(t)
  BY <1>1 DEF Moving, Pending, Current
<1>7. Firm(c)' = Firm(c) /\ Held(c)' = Held(c)
  BY <1>1, <1>2, <1>3, <1>5, <1>6, After DEF Held
<1>8. TypedAt(c)'
  BY <1>1, <1>3 DEF TypedAt
<1>9. Local(t, c)' /\ CallSound(t)'
  BY <1>1, <1>3, <1>6, <1>7 DEF Local, CallSound, Current
<1>10. \A id \in Firm(c) : VectorAt(c, id)' = VectorAt(c, id) /\ id \in DOMAIN records[c]
  BY <1>1 DEF VectorAt, Firm
<1>11. IndexedAt(c)'
  BY <1>1, <1>3, <1>7, <1>10 DEF IndexedAt
<1> QED
  BY <1>2, <1>5, <1>8, <1>9, <1>11, StepIInv

-----------------------------------------------------------------------------
(* The invariant                                                            *)

LEMMA InitIInv == ASSUME Init PROVE IInv
<1>1. PICK f \in [Tags -> Snapshots] :
        /\ mapped = [c \in Tags |-> [id \in DOMAIN f[c] |-> f[c][id].vec]]
        /\ records = [c \in Tags |-> [id \in DOMAIN f[c] |->
                                        [block |-> Mapped, meta |-> f[c][id].meta]]]
        /\ record_count = [c \in Tags |-> Cardinality(DOMAIN f[c])]
  BY DEF Init
<1>2. /\ index = [c \in Tags |-> NoIndex]
      /\ owner = [b \in Blocks |-> NoTag]
      /\ mem = [b \in Blocks |-> CHOOSE v \in Vectors : TRUE]
      /\ op = [t \in Threads |-> Idle]
      /\ calls = 0
  BY DEF Init
<1>3. \A c \in Tags : /\ IsFiniteSet(DOMAIN f[c]) /\ DOMAIN f[c] \subseteq Ids
                      /\ \A id \in DOMAIN f[c] : f[c][id].meta \in Metas
  BY <1>1, SnapshotAssumption
<1>4. \A c \in Tags : /\ DOMAIN records[c] = DOMAIN f[c]
                      /\ \A id \in DOMAIN f[c] : /\ records[c][id].block = Mapped
                                                 /\ records[c][id].meta = f[c][id].meta
                                                 /\ records[c][id] = [block |-> Mapped,
                                                                      meta |-> f[c][id].meta]
  BY <1>1
<1>5. \A t \in Threads : /\ op[t] = Idle /\ op[t].pc = "idle"
                         /\ Pending(t) = {} /\ Moving(t) = {}
  BY <1>2 DEF Idle, Pending, Moving, InsertPcs
<1>6. \A c \in Tags : Held(c) = {}
  BY <1>4 DEF Held, Firm
<1>7. \A c \in Tags : /\ index[c] = NoIndex /\ index[c].type = "None"
                      /\ index[c] = [type |-> index[c].type, entries |-> index[c].entries]
  BY <1>2 DEF NoIndex
<1>8. mem \in [Blocks -> Vectors]
  <2>1. Vectors # {}
    BY InputAssumption DEF Vectors
  <2> QED
    BY <1>2, <2>1
<1>9. Types
  <2>1. op \in [Threads -> Ops]
    BY <1>2 DEF Ops
  <2> QED
    BY <1>1, <1>2, <1>3, <1>4, <1>7, <2>1 DEF Types
<1>10. TypeOK
  <2>1. \A c \in Tags :
          /\ DOMAIN records[c] \subseteq Ids
          /\ \A id \in DOMAIN records[c] :
                records[c][id] \in [block: Blocks \cup {Mapped}, meta: Metas]
          /\ record_count[c] = Cardinality(DOMAIN records[c])
          /\ index[c].type \in IndexTypes
    BY <1>1, <1>3, <1>4, <1>7 DEF IndexTypes
  <2>2. owner \in [Blocks -> Tags \cup {NoTag}] /\ calls \in 0..MaxCalls
    BY <1>2, BoundAssumption
  <2> QED
    BY <1>5, <1>8, <2>1, <2>2 DEF TypeOK
<1>11. Locks /\ CallsSound
  BY <1>5 DEF Locks, CallsSound, CallSound, InCall
<1>12. Exact
  BY <1>2, <1>5, <1>6, TagAssumption DEF Exact
<1>13. Indexed
  BY <1>7 DEF Indexed
<1> QED
  BY <1>9, <1>10, <1>11, <1>12, <1>13 DEF IInv

LEMMA StutterIInv == ASSUME IInv, UNCHANGED vars PROVE IInv'
  BY DEF vars, IInv, Types, TypeOK, Locks, CallsSound, CallSound, Exact, Indexed, InCall,
         Pending, Moving, Firm, Held, VectorAt, Current

LEMMA ContinueIInv == ASSUME IInv, NEW t \in Threads, Continue(t) PROVE IInv' /\ Apart(t)
  BY StageIInv, StageFailsIInv, RollbackIInv, ReleaseOldIInv, InstallIInv, EraseRecordIInv,
     EndReadIInv DEF Continue

LEMMA BeginIInv ==
    ASSUME IInv, NEW t \in Threads, NEW c \in Tags, Begin(t, c)
    PROVE  IInv' /\ (Apart(t) \/ UNCHANGED vars)
<1>1. CASE \E batch \in Batches : StartInsert(t, c, batch)
  BY <1>1, StartInsertIInv
<1>2. CASE \E id \in Ids : StartRemove(t, c, id) \/ RemoveMissing(t, c, id)
  BY <1>2, StartRemoveIInv, StutterIInv DEF RemoveMissing
<1>3. CASE \E type \in IndexTypes, param \in Params :
              BuildIndex(t, c, type, param) \/ BuildRejected(t, c, type, param)
  BY <1>3, BuildIndexIInv, StutterIInv DEF BuildRejected
<1>4. CASE StartRead(t, c)
  BY <1>4, StartReadIInv
<1> QED
  BY <1>1, <1>2, <1>3, <1>4 DEF Begin

LEMMA NextIInv == ASSUME IInv, [Next]_vars PROVE IInv'
<1>1. CASE \E t \in Threads : Continue(t) \/ \E c \in Tags : Begin(t, c)
  BY <1>1, ContinueIInv, BeginIInv
<1>2. CASE \E t \in Threads, batch \in Batches : RejectInsert(t, batch)
  BY <1>2, StutterIInv DEF RejectInsert
<1> QED
  BY <1>1, <1>2, StutterIInv DEF Next

LEMMA Inductive == Spec => []IInv
<1>1. Init => IInv
  BY InitIInv
<1>2. IInv /\ [Next]_vars => IInv'
  BY NextIInv
<1> QED
  BY <1>1, <1>2, PTL DEF Spec

-----------------------------------------------------------------------------
(* The theorems about collections                                           *)

\* The counts are the numbers of records, every slot points into the arena or at
\* the mapped file, every record stored came through validation
\* (collection.hpp:177-193, collection.cpp:66-98).
THEOREM TypeCorrect == Spec => []TypeOK
<1>1. IInv => TypeOK
  BY DEF IInv
<1> QED
  BY <1>1, Inductive, PTL

\* The identifiers in transit are those the calls are moving.
LEMMA SettledFirm == ASSUME NEW c \in Tags PROVE Settled(c) = Firm(c)
<1>1. \A t \in Threads : \A id :
        id \in Moving(t) <=> \/ op[t].pc = "install" /\ id = Current(t).id
                             \/ op[t].pc = "erase" /\ id = op[t].id
  BY DEF Moving
<1>2. \A id : id \in InTransit(c) <=> \E t \in Threads : InCall(t, c) /\ id \in Moving(t)
  BY <1>1 DEF InTransit, Writers, Writing
<1> QED
  BY <1>2 DEF Settled, Firm

\* The staged blocks of a collection are those its one writer has pending.
LEMMA StagedPending ==
    ASSUME Types, NEW c \in Tags, NEW h
    PROVE  h \in Staged(c) <=>
              \E t \in Threads : InCall(t, c) /\ \E j \in Pending(t) : h = <<t, j>>
<1>1. \A t \in Threads : t \in Writers(c) /\ op[t].pc # "erase"
                         <=> InCall(t, c) /\ op[t].pc \in InsertPcs
  BY OpShape DEF Types, Writers, Writing, InsertPcs
<1>2. h \in Staged(c) <=>
         \E t \in Writers(c) : /\ op[t].pc # "erase"
                               /\ \E j \in op[t].i..Len(op[t].staged) : h = <<t, j>>
  BY DEF Staged
<1>3. \A t \in Threads : Pending(t) = IF op[t].pc \in InsertPcs
                                      THEN op[t].i..Len(op[t].staged) ELSE {}
  BY DEF Pending
<1>4. Writers(c) \subseteq Threads
  BY DEF Writers
<1> QED
  BY <1>1, <1>2, <1>3, <1>4

\* Exact is BlocksAccounted, pair by pair.
LEMMA Accounted == ASSUME IInv PROVE BlocksAccounted
<1> SUFFICES ASSUME NEW c \in Tags
             PROVE  /\ \A id \in Slots(c) : owner[records[c][id].block] = c
                    /\ \A h \in Staged(c) : owner[StagedBlock(h)] = c
                    /\ \A id, x \in Slots(c) :
                          id # x => records[c][id].block # records[c][x].block
                    /\ \A h, g \in Staged(c) : h # g => StagedBlock(h) # StagedBlock(g)
                    /\ \A id \in Slots(c), h \in Staged(c) :
                          records[c][id].block # StagedBlock(h)
                    /\ \A b \in Blocks : owner[b] = c =>
                          \/ \E id \in Slots(c) : records[c][id].block = b
                          \/ \E h \in Staged(c) : StagedBlock(h) = b
  BY DEF BlocksAccounted
<1>1. Slots(c) = Held(c)
  BY SettledFirm DEF Slots, Held
<1>2. \A h : h \in Staged(c) <=>
        \E t \in Threads : InCall(t, c) /\ \E j \in Pending(t) : h = <<t, j>>
  BY StagedPending DEF IInv
<1>3. \A t, j : StagedBlock(<<t, j>>) = op[t].staged[j]
  BY DEF StagedBlock
<1>4. \A t \in Threads : InCall(t, c) => op[t].c = c
  BY DEF InCall
<1>5. \A t, u \in Threads : InCall(t, c) /\ Pending(t) # {} /\ InCall(u, c) => t = u
  <2>1. \A t \in Threads : Pending(t) # {} => op[t].pc \in Writing
    BY DEF Pending, InsertPcs, Writing
  <2> SUFFICES ASSUME NEW t \in Threads, NEW u \in Threads, t # u,
                      InCall(t, c), Pending(t) # {}
               PROVE  ~InCall(u, c)
    OBVIOUS
  <2>2. Locks
    BY DEF IInv
  <2> QED
    BY <2>1, <2>2 DEF Locks
<1>6. /\ \A id \in Held(c) : owner[records[c][id].block] = c
      /\ \A id, x \in Held(c) : id # x => records[c][id].block # records[c][x].block
  BY DEF IInv, Exact
<1>7. \A h \in Staged(c) : owner[StagedBlock(h)] = c
  BY <1>2, <1>3, <1>4 DEF IInv, Exact
<1>8. ASSUME NEW h \in Staged(c), NEW g \in Staged(c), h # g
      PROVE  StagedBlock(h) # StagedBlock(g)
  <2>1. PICK t \in Threads : InCall(t, c) /\ \E j \in Pending(t) : h = <<t, j>>
    BY <1>2
  <2>2. PICK j \in Pending(t) : h = <<t, j>>
    BY <2>1
  <2>3. PICK u \in Threads : InCall(u, c) /\ \E k \in Pending(u) : g = <<u, k>>
    BY <1>2
  <2>4. PICK k \in Pending(u) : g = <<u, k>>
    BY <2>3
  <2>5. t = u
    BY <1>5, <2>1, <2>3
  <2>6. j # k
    BY <1>8, <2>2, <2>4, <2>5
  <2> QED
    BY <1>3, <2>2, <2>4, <2>5, <2>6 DEF IInv, Exact
<1>9. \A id \in Held(c), h \in Staged(c) : records[c][id].block # StagedBlock(h)
  BY <1>2, <1>3 DEF IInv, Exact
<1>10. ASSUME NEW b \in Blocks, owner[b] = c
       PROVE  \/ \E id \in Held(c) : records[c][id].block = b
              \/ \E h \in Staged(c) : StagedBlock(h) = b
  <2>1. CASE \E t \in Threads : InCall(t, c) /\ \E j \in Pending(t) : op[t].staged[j] = b
    BY <1>2, <1>3, <2>1
  <2> QED
    BY <1>10, <2>1 DEF IInv, Exact
<1> QED
  BY <1>1, <1>6, <1>7, <1>8, <1>9, <1>10

\* Block ownership is exact in every state: each block a slot or a batch refers
\* to is attributed to its collection, none is referred to twice, and none
\* attributed to a collection is lost (collection.cpp:85-98, 155-186, 228).
THEOREM BlocksOwned == Spec => []BlocksAccounted
<1>1. IInv => BlocksAccounted
  BY Accounted
<1> QED
  BY <1>1, Inductive, PTL

LEMMA IndexKept == ASSUME IInv PROVE IndexAgrees
  BY SettledFirm DEF IInv, Indexed, IndexAgrees

\* The index of a collection holds exactly its records with the vectors their
\* blocks hold, but for the one a call is moving (collection.cpp:80-105, 226-230).
THEOREM IndexExact == Spec => []IndexAgrees
<1>1. IInv => IndexAgrees
  BY IndexKept
<1> QED
  BY <1>1, Inductive, PTL

\* While a thread reads, only other threads take steps, and they are apart.
LEMMA WhileReading ==
    ASSUME IInv, [Next]_vars, NEW t \in Threads, op[t].pc = "read", op'[t] = op[t]
    PROVE  UNCHANGED vars \/ \E u \in Threads \ {t} : Apart(u)
<1>1. op[t] # Idle
  BY DEF Idle
<1>2. op \in [Threads -> Ops]
  BY DEF IInv, Types
<1>3. ~Continue(t)
  <2>1. ~EndRead(t)
    BY <1>1, <1>2 DEF EndRead, Return
  <2> QED
    BY <2>1 DEF Continue, Stage, StageFails, Rollback, ReleaseOld, Install, EraseRecord
<1>4. ASSUME NEW c \in Tags PROVE ~Begin(t, c)
  BY <1>1 DEF Begin, StartInsert, StartRemove, RemoveMissing, BuildIndex, BuildRejected,
              StartRead, Call
<1>5. CASE \E u \in Threads : Continue(u) \/ \E c \in Tags : Begin(u, c)
  <2>1. PICK u \in Threads : Continue(u) \/ \E c \in Tags : Begin(u, c)
    BY <1>5
  <2>2. u # t
    BY <1>3, <1>4, <2>1
  <2> QED
    BY <2>1, <2>2, ContinueIInv, BeginIInv
<1>6. CASE \E u \in Threads, batch \in Batches : RejectInsert(u, batch)
  BY <1>6 DEF RejectInsert
<1> QED
  BY <1>5, <1>6 DEF Next

\* What a reader can copy out, and the index it may search, stay as they are.
LEMMA ReaderSame ==
    ASSUME IInv, [Next]_vars, NEW t \in Threads, op[t].pc = "read", op'[t] = op[t],
           NEW c \in Tags, op[t].c = c
    PROVE  View(c)' = View(c) /\ index'[c] = index[c]
<1>1. InCall(t, c) /\ Alone(t, c) /\ op[t] # Idle
  BY InCallAlone DEF Idle
<1>2. Firm(c) = DOMAIN records[c]
  BY <1>1, FirmAlone, NothingMoving DEF IInv
<1>3. CASE UNCHANGED <<records, index, mapped, mem>>
  BY <1>3 DEF View, VectorAt
<1>4. CASE \E u \in Threads \ {t} : Apart(u)
  <2>1. PICK u \in Threads \ {t}, d \in Tags : Alone(u, d) /\ StepOf(u, d)
    BY <1>4 DEF Apart
  <2>2. CASE d = c
    BY <1>1, <1>3, <2>1, <2>2 DEF StepOf
  <2>3. CASE d # c
    <3>1. records'[c] = records[c] /\ index'[c] = index[c]
      BY <2>1, <2>3 DEF StepOf
    <3>2. \A id \in DOMAIN records[c] : VectorAt(c, id)' = VectorAt(c, id)
      BY <1>2, <2>1, <2>3, OthersKept
    <3> QED
      BY <3>1, <3>2 DEF View
  <2> QED
    BY <2>2, <2>3
<1> QED
  BY <1>3, <1>4, WhileReading DEF vars

\* Readers see one state: what a thread under the shared lock can copy out, and
\* the index it may search, stay as they are whatever other threads do in other
\* collections of the same arena (collection.cpp:197-215, 334-401, 423-452).
THEOREM ReadersUndisturbed == Spec => ReadersStable
<1>1. ASSUME IInv, [Next]_vars
      PROVE  [\A t \in Threads :
                 op[t].pc = "read" /\ op'[t] = op[t] =>
                     LET c == op[t].c
                     IN  View(c)' = View(c) /\ index'[c] = index[c]]_vars
  <2> SUFFICES ASSUME NEW t \in Threads, op[t].pc = "read", op'[t] = op[t]
               PROVE  /\ View(op[t].c)' = View(op[t].c)
                      /\ index'[op[t].c] = index[op[t].c]
    OBVIOUS
  <2>1. PICK c \in Tags : op[t].c = c
    BY <1>1, InCallAlone DEF Idle
  <2>2. View(c)' = View(c) /\ index'[c] = index[c]
    BY <1>1, <2>1, ReaderSame
  <2>3. View(op[t].c)' = View(c)'
    BY <2>1 DEF View, VectorAt
  <2> QED
    BY <2>1, <2>2, <2>3
<1> QED
  BY <1>1, Inductive, PTL DEF Spec, ReadersStable

-----------------------------------------------------------------------------
(* Every call ends                                                          *)

\* The kinds of calls have these steps left.
LEMMA StepsOfOthers == StepsLeft(Idle) = 0 /\ \A r \in Reads \cup Erases : StepsLeft(r) = 1
<1>1. StepsLeft(Idle) = 0
  BY DEF StepsLeft, Idle
<1>2. ASSUME NEW r \in Reads \cup Erases PROVE StepsLeft(r) = 1
  <2>1. r.pc \in {"erase", "read"} /\ r # Idle
    BY DEF Reads, Erases, Idle
  <2> QED
    BY <2>1 DEF StepsLeft
<1> QED
  BY <1>1, <1>2

LEMMA StepsOfInsert ==
    ASSUME NEW r \in Inserts
    PROVE  /\ Len(r.batch) \in Nat \ {0} /\ Len(r.staged) \in Nat /\ r.i \in Nat \ {0}
           /\ r.pc = "stage" =>
                 StepsLeft(r) = 3 * Len(r.batch) - Len(r.staged) - 2 * r.i + 3
           /\ r.pc = "rollback" => StepsLeft(r) = Len(r.staged)
           /\ r.pc = "release_old" => StepsLeft(r) = 2 * Len(r.batch) - 2 * r.i + 2
           /\ r.pc = "install" => StepsLeft(r) = 2 * Len(r.batch) - 2 * r.i + 1
<1>1. Len(r.batch) \in Nat \ {0} /\ Len(r.staged) \in Nat /\ r.i \in Nat \ {0}
  BY AcceptedFacts DEF Inserts
<1>2. r # Idle
  BY DEF Inserts, InsertPcs, Idle
<1>3. ASSUME NEW b \in Nat, NEW s \in Nat, NEW i \in Nat
      PROVE  /\ b - s + 2 * (b - i + 1) + 1 = 3 * b - s - 2 * i + 3
             /\ 2 * (b - i + 1) = 2 * b - 2 * i + 2
             /\ 2 * (b - i + 1) - 1 = 2 * b - 2 * i + 1
  OBVIOUS
<1>4. CASE r.pc = "stage"
  <2>1. StepsLeft(r) = Len(r.batch) - Len(r.staged) + 2 * (Len(r.batch) - r.i + 1) + 1
    BY <1>2, <1>4 DEF StepsLeft
  <2> QED
    BY <1>1, <1>3, <1>4, <2>1
<1>5. CASE r.pc = "rollback"
  BY <1>1, <1>2, <1>5 DEF StepsLeft
<1>6. CASE r.pc = "release_old"
  <2>1. StepsLeft(r) = 2 * (Len(r.batch) - r.i + 1)
    BY <1>2, <1>6 DEF StepsLeft
  <2> QED
    BY <1>1, <1>3, <1>6, <2>1
<1>7. CASE r.pc = "install"
  <2>1. StepsLeft(r) = 2 * (Len(r.batch) - r.i + 1) - 1
    BY <1>2, <1>7 DEF StepsLeft
  <2> QED
    BY <1>1, <1>3, <1>7, <2>1
<1> QED
  BY <1>1, <1>4, <1>5, <1>6, <1>7

LEMMA StageShrinks ==
    ASSUME IInv, NEW t \in Threads, Stage(t)
    PROVE  StepsLeft(op'[t]) \in 0..StepsLeft(op[t]) - 1
<1>1. op[t].pc = "stage" /\ op \in [Threads -> Ops]
  BY DEF Stage, IInv, Types
<1>2. op[t] \in Inserts /\ op[t].i = 1 /\ Len(op[t].staged) < Len(op[t].batch)
  BY <1>1, OpShape DEF InsertPcs, IInv, CallsSound, CallSound
<1>3. PICK b, s : b = Len(op[t].batch) /\ s = Len(op[t].staged)
  OBVIOUS
<1>4. b \in Nat /\ s \in Nat /\ s < b /\ StepsLeft(op[t]) = 3 * b - s + 1
  <2>1. /\ Len(op[t].batch) \in Nat /\ Len(op[t].staged) \in Nat
        /\ StepsLeft(op[t]) = 3 * Len(op[t].batch) - Len(op[t].staged) - 2 * op[t].i + 3
    BY <1>1, <1>2, StepsOfInsert
  <2>2. b \in Nat /\ s \in Nat /\ s < b /\ StepsLeft(op[t]) = 3 * b - s - 2 * 1 + 3
    BY <1>2, <1>3, <2>1
  <2> QED
    BY <2>2
<1>5. PICK x \in Blocks :
         op' = [op EXCEPT ![t].staged = Append(@, x),
                          ![t].pc = IF s + 1 = b THEN "release_old" ELSE "stage"]
  BY <1>3 DEF Stage
<1> DEFINE more == Append(op[t].staged, x)
           next == IF s + 1 = b THEN "release_old" ELSE "stage"
<1>6. next \in {"release_old", "stage"}
  OBVIOUS
<1>7. more \in Seq(Blocks) /\ Len(more) = s + 1 /\ next \in InsertPcs
  BY <1>2, <1>3 DEF Inserts, InsertPcs
<1>8. op'[t] = [op[t] EXCEPT !.staged = more, !.pc = next]
  BY <1>1, <1>5
<1> HIDE DEF more, next
<1>9. /\ op'[t] \in Inserts /\ op'[t].pc = next /\ op'[t].batch = op[t].batch
      /\ op'[t].staged = more /\ op'[t].i = op[t].i
  BY <1>2, <1>7, <1>8 DEF Inserts
<1>10. Len(op'[t].batch) = b /\ Len(op'[t].staged) = s + 1 /\ op'[t].i = 1
  BY <1>2, <1>3, <1>7, <1>9
<1>11. CASE next = "release_old"
  <2>1. StepsLeft(op'[t]) = 2 * Len(op'[t].batch) - 2 * op'[t].i + 2
    BY <1>9, <1>11, StepsOfInsert
  <2>2. StepsLeft(op'[t]) = 2 * b - 2 * 1 + 2
    BY <1>10, <2>1
  <2> QED
    BY <1>4, <2>2
<1>12. CASE next = "stage"
  <2>1. StepsLeft(op'[t]) = 3 * Len(op'[t].batch) - Len(op'[t].staged) - 2 * op'[t].i + 3
    BY <1>9, <1>12, StepsOfInsert
  <2>2. StepsLeft(op'[t]) = 3 * b - (s + 1) - 2 * 1 + 3
    BY <1>10, <2>1
  <2> QED
    BY <1>4, <2>2
<1> QED
  BY <1>6, <1>11, <1>12

LEMMA StageFailsShrinks ==
    ASSUME IInv, NEW t \in Threads, StageFails(t)
    PROVE  StepsLeft(op'[t]) \in 0..StepsLeft(op[t]) - 1
<1>1. op[t].pc = "stage" /\ op \in [Threads -> Ops]
  BY DEF StageFails, IInv, Types
<1>2. op[t] \in Inserts /\ op[t].i = 1 /\ Len(op[t].staged) < Len(op[t].batch)
  BY <1>1, OpShape DEF InsertPcs, IInv, CallsSound, CallSound
<1>3. PICK b, s : b = Len(op[t].batch) /\ s = Len(op[t].staged)
  OBVIOUS
<1>4. b \in Nat /\ s \in Nat /\ s < b /\ StepsLeft(op[t]) = 3 * b - s + 1
  <2>1. /\ Len(op[t].batch) \in Nat /\ Len(op[t].staged) \in Nat
        /\ StepsLeft(op[t]) = 3 * Len(op[t].batch) - Len(op[t].staged) - 2 * op[t].i + 3
    BY <1>1, <1>2, StepsOfInsert
  <2>2. b \in Nat /\ s \in Nat /\ s < b /\ StepsLeft(op[t]) = 3 * b - s - 2 * 1 + 3
    BY <1>2, <1>3, <2>1
  <2> QED
    BY <2>2
<1>5. CASE Return(t)
  <2>1. StepsLeft(op'[t]) = 0
    BY <1>1, <1>5, StepsOfOthers DEF Return
  <2> QED
    BY <1>4, <2>1
<1>6. CASE op' = [op EXCEPT ![t].pc = "rollback"]
  <2>1. op'[t] = [op[t] EXCEPT !.pc = "rollback"]
    BY <1>1, <1>6
  <2>2. op'[t] \in Inserts /\ op'[t].pc = "rollback" /\ op'[t].staged = op[t].staged
    BY <1>2, <2>1 DEF Inserts, InsertPcs
  <2>3. StepsLeft(op'[t]) = s
    BY <1>3, <2>2, StepsOfInsert
  <2> QED
    BY <1>4, <2>3
<1> QED
  BY <1>5, <1>6 DEF StageFails

LEMMA RollbackShrinks ==
    ASSUME IInv, NEW t \in Threads, Rollback(t)
    PROVE  StepsLeft(op'[t]) \in 0..StepsLeft(op[t]) - 1
<1>1. op[t].pc = "rollback" /\ op \in [Threads -> Ops]
  BY DEF Rollback, IInv, Types
<1>2. op[t] \in Inserts /\ op[t].staged # << >> /\ op[t].staged \in Seq(Blocks)
  BY <1>1, OpShape DEF InsertPcs, IInv, CallsSound, CallSound, Inserts
<1>3. PICK s : s = Len(op[t].staged)
  OBVIOUS
<1>4. s \in Nat \ {0} /\ StepsLeft(op[t]) = s
  <2>1. s \in Nat \ {0}
    BY <1>2, <1>3
  <2> QED
    BY <1>1, <1>2, <1>3, <2>1, StepsOfInsert
<1>5. CASE Return(t)
  <2>1. StepsLeft(op'[t]) = 0
    BY <1>1, <1>5, StepsOfOthers DEF Return
  <2> QED
    BY <1>4, <2>1
<1>6. CASE op' = [op EXCEPT ![t].staged = Tail(@)]
  <2> DEFINE rest == Tail(op[t].staged)
  <2>1. rest \in Seq(Blocks) /\ Len(rest) = s - 1
    BY <1>2, <1>3
  <2>2. op'[t] = [op[t] EXCEPT !.staged = rest]
    BY <1>1, <1>6
  <2> HIDE DEF rest
  <2>3. op'[t] \in Inserts /\ op'[t].pc = "rollback" /\ op'[t].staged = rest
    BY <1>1, <1>2, <2>1, <2>2 DEF Inserts, InsertPcs
  <2>4. StepsLeft(op'[t]) = s - 1
    BY <2>1, <2>3, StepsOfInsert
  <2> QED
    BY <1>4, <2>4
<1> QED
  BY <1>5, <1>6 DEF Rollback

\* What is left of a commit.
LEMMA CommitSteps ==
    ASSUME IInv, NEW t \in Threads, op[t].pc \in {"release_old", "install"}
    PROVE  /\ op \in [Threads -> Ops] /\ op[t] \in Inserts
           /\ Len(op[t].batch) \in Nat /\ op[t].i \in Nat \ {0}
           /\ op[t].i =< Len(op[t].batch)
           /\ StepsLeft(op[t]) = 2 * Len(op[t].batch) - 2 * op[t].i
                                 + IF op[t].pc = "release_old" THEN 2 ELSE 1
<1>1. op \in [Threads -> Ops] /\ op[t] \in Inserts /\ op[t].i =< Len(op[t].batch)
  BY OpShape DEF IInv, Types, InsertPcs, CallsSound, CallSound
<1>2. CASE op[t].pc = "release_old"
  BY <1>1, <1>2, StepsOfInsert
<1>3. CASE op[t].pc = "install"
  BY <1>1, <1>3, StepsOfInsert
<1> QED
  BY <1>1, <1>2, <1>3

LEMMA ReleaseOldShrinks ==
    ASSUME IInv, NEW t \in Threads, ReleaseOld(t)
    PROVE  StepsLeft(op'[t]) \in 0..StepsLeft(op[t]) - 1
<1>1. op[t].pc = "release_old" /\ op' = [op EXCEPT ![t].pc = "install"]
  BY DEF ReleaseOld
<1>2. PICK b, i : b = Len(op[t].batch) /\ i = op[t].i
  OBVIOUS
<1>3. op \in [Threads -> Ops] /\ op[t] \in Inserts
  BY <1>1, CommitSteps
<1>4. b \in Nat /\ i \in Nat /\ i =< b /\ StepsLeft(op[t]) = 2 * b - 2 * i + 2
  BY <1>1, <1>2, CommitSteps
<1>5. op'[t] = [op[t] EXCEPT !.pc = "install"]
  BY <1>1, <1>3
<1>6. /\ op'[t] \in Inserts /\ op'[t].pc = "install" /\ op'[t].batch = op[t].batch
      /\ op'[t].i = op[t].i
  BY <1>3, <1>5 DEF Inserts, InsertPcs
<1>7. StepsLeft(op'[t]) = 2 * b - 2 * i + 1
  BY <1>2, <1>6, StepsOfInsert
<1> QED
  BY <1>4, <1>7

LEMMA InstallShrinks ==
    ASSUME IInv, NEW t \in Threads, Install(t)
    PROVE  StepsLeft(op'[t]) \in 0..StepsLeft(op[t]) - 1
<1>1. op[t].pc \in {"release_old", "install"}
  BY DEF Install
<1>2. PICK b, i : b = Len(op[t].batch) /\ i = op[t].i
  OBVIOUS
<1>3. op \in [Threads -> Ops] /\ op[t] \in Inserts
  BY <1>1, CommitSteps
<1>4. /\ b \in Nat /\ i \in Nat \ {0} /\ i =< b
      /\ StepsLeft(op[t]) \in {2 * b - 2 * i + 2, 2 * b - 2 * i + 1}
  BY <1>1, <1>2, CommitSteps
<1>5. CASE i = b /\ Return(t)
  <2>1. StepsLeft(op'[t]) = 0
    BY <1>3, <1>5, StepsOfOthers DEF Return
  <2> QED
    BY <1>4, <1>5, <2>1
<1>6. CASE i # b /\ op' = [op EXCEPT ![t].pc = "release_old", ![t].i = @ + 1]
  <2>1. PICK n \in Nat \ {0} : n = i + 1
    BY <1>4
  <2>2. op'[t] = [op[t] EXCEPT !.pc = "release_old", !.i = n]
    BY <1>2, <1>3, <1>6, <2>1
  <2>3. /\ op'[t] \in Inserts /\ op'[t].pc = "release_old" /\ op'[t].batch = op[t].batch
        /\ op'[t].i = n
    BY <1>3, <2>2 DEF Inserts, InsertPcs
  <2>4. StepsLeft(op'[t]) = 2 * b - 2 * n + 2
    BY <1>2, <2>3, StepsOfInsert
  <2> QED
    BY <1>4, <1>6, <2>1, <2>4
<1> QED
  BY <1>2, <1>5, <1>6 DEF Install

LEMMA ContinueShrinks ==
    ASSUME IInv, NEW t \in Threads, Continue(t)
    PROVE  StepsLeft(op'[t]) \in 0..StepsLeft(op[t]) - 1
<1>1. CASE EraseRecord(t) \/ EndRead(t)
  <2>1. op[t] \in Reads \cup Erases /\ op \in [Threads -> Ops]
    BY <1>1, OpShape DEF EraseRecord, EndRead, IInv, Types
  <2>2. op'[t] = Idle
    BY <1>1, <2>1 DEF EraseRecord, EndRead, Return
  <2> QED
    BY <2>1, <2>2, StepsOfOthers
<1> QED
  BY <1>1, StageShrinks, StageFailsShrinks, RollbackShrinks, ReleaseOldShrinks,
     InstallShrinks DEF Continue

\* A thread that is in a call moves only by the steps of its call.
LEMMA CallsMove ==
    ASSUME IInv, [Next]_vars, NEW t \in Threads, op[t] # Idle, op'[t] # op[t]
    PROVE  Continue(t)
<1>1. \A u \in Threads \ {t} : ~Apart(u)
  BY DEF Apart, StepOf
<1>2. ASSUME NEW c \in Tags PROVE ~Begin(t, c)
  BY DEF Begin, StartInsert, StartRemove, RemoveMissing, BuildIndex, BuildRejected,
         StartRead, Call
<1>3. ASSUME NEW u \in Threads, NEW c \in Tags, Begin(u, c) PROVE FALSE
  <2>1. u = t
    BY <1>1, <1>3, BeginIInv DEF vars
  <2> QED
    BY <1>2, <1>3, <2>1
<1>4. ASSUME NEW u \in Threads, Continue(u) PROVE u = t
  BY <1>1, <1>4, ContinueIInv
<1>5. ~UNCHANGED vars
  BY DEF vars
<1> QED
  BY <1>3, <1>4, <1>5 DEF Next, RejectInsert

\* Every call ends: each of its steps leaves fewer to take, and at the start there
\* are three for each record of its batch and one more.  None is undone or tried
\* again, also when memory runs out in a batch (collection.cpp:155-186).
THEOREM CallsEnd == Spec => CallsShrink
<1>1. ASSUME IInv, [Next]_vars
      PROVE  [\A t \in Threads :
                 op[t] # Idle /\ op'[t] # op[t] =>
                     StepsLeft(op'[t]) \in 0..StepsLeft(op[t]) - 1]_vars
  BY <1>1, CallsMove, ContinueShrinks
<1> QED
  BY <1>1, Inductive, PTL DEF Spec, CallsShrink

-----------------------------------------------------------------------------
(* Batches stored record by record, and as a whole                          *)

\* The last record with an identifier that some record from i on has.
LEMMA LastOfFacts ==
    ASSUME NEW batch, Len(batch) \in Nat, NEW i \in Nat, NEW id,
           \E j \in i..Len(batch) : batch[j].id = id
    PROVE  /\ LastOf(batch, i, id) \in i..Len(batch)
           /\ batch[LastOf(batch, i, id)].id = id
           /\ \A n \in (LastOf(batch, i, id) + 1)..Len(batch) : batch[n].id # id
<1> DEFINE Last(j) == /\ batch[j].id = id
                      /\ \A n \in (j + 1)..Len(batch) : batch[n].id # id
           Back == {n \in Nat : n =< Len(batch) - i /\ batch[Len(batch) - n].id = id}
<1>1. Back \subseteq Nat /\ Back # {}
  <2>1. PICK j \in i..Len(batch) : batch[j].id = id
    OBVIOUS
  <2>2. Len(batch) - j \in Nat /\ Len(batch) - (Len(batch) - j) = j
    BY <2>1
  <2>3. Len(batch) - j \in Back
    BY <2>1, <2>2
  <2> QED
    BY <2>3
<1>2. PICK m \in Back : \A n \in Back : ~(<<n, m>> \in OpToRel(<, Nat))
  BY <1>1, NatLessThanWellFounded, WFMin
<1>3. m \in Nat /\ m =< Len(batch) - i /\ batch[Len(batch) - m].id = id
      /\ \A n \in Back : ~(n < m)
  BY <1>1, <1>2 DEF OpToRel
<1>4. Len(batch) - m \in i..Len(batch)
  BY <1>3
<1>5. ASSUME NEW n \in (Len(batch) - m + 1)..Len(batch) PROVE batch[n].id # id
  <2>1. /\ Len(batch) - n \in Nat /\ Len(batch) - n < m /\ Len(batch) - n =< Len(batch) - i
        /\ Len(batch) - (Len(batch) - n) = n
    BY <1>3
  <2>2. Len(batch) - n \notin Back
    BY <1>3, <2>1
  <2> QED
    BY <2>1, <2>2
<1>6. \E j \in i..Len(batch) : Last(j)
  BY <1>3, <1>4, <1>5
<1>7. LastOf(batch, i, id) = CHOOSE j \in i..Len(batch) : Last(j)
  BY DEF LastOf
<1> HIDE DEF Last
<1>8. LastOf(batch, i, id) \in i..Len(batch) /\ Last(LastOf(batch, i, id))
  BY <1>6, <1>7
<1> QED
  BY <1>8 DEF Last

\* Storing the record at i, then the rest, is storing all of them.
LEMMA OverlayStep ==
    ASSUME NEW batch, Len(batch) \in Nat, NEW i \in 1..Len(batch), NEW m
    PROVE  Overlay(m, batch, i) =
               Overlay(Put(m, batch[i].id, [vec |-> batch[i].vec, meta |-> batch[i].meta]),
                       batch, i + 1)
<1> DEFINE new == {batch[j].id : j \in i..Len(batch)}
           later == {batch[j].id : j \in (i + 1)..Len(batch)}
           value(j) == [vec |-> batch[j].vec, meta |-> batch[j].meta]
           p == Put(m, batch[i].id, value(i))
<1>1. new = later \cup {batch[i].id}
  <2>1. \A j \in i..Len(batch) : j = i \/ j \in (i + 1)..Len(batch)
    OBVIOUS
  <2>2. \A j \in (i + 1)..Len(batch) : j \in i..Len(batch)
    OBVIOUS
  <2>3. i \in i..Len(batch)
    OBVIOUS
  <2> QED
    BY <2>1, <2>2, <2>3
<1>2. ASSUME NEW id \in later
      PROVE  LastOf(batch, i, id) = LastOf(batch, i + 1, id)
  <2> DEFINE a == LastOf(batch, i, id)
             b == LastOf(batch, i + 1, id)
  <2>1. \E j \in (i + 1)..Len(batch) : batch[j].id = id
    OBVIOUS
  <2>2. \E j \in i..Len(batch) : batch[j].id = id
    BY <2>1
  <2>3. /\ a \in i..Len(batch) /\ batch[a].id = id
        /\ \A n \in (a + 1)..Len(batch) : batch[n].id # id
    BY <2>2, LastOfFacts
  <2>4. i + 1 \in Nat
    OBVIOUS
  <2>5. /\ b \in (i + 1)..Len(batch) /\ batch[b].id = id
        /\ \A n \in (b + 1)..Len(batch) : batch[n].id # id
    BY <2>1, <2>4, LastOfFacts
  <2> HIDE DEF a, b
  <2>6. ~(a < b) /\ ~(b < a)
    BY <2>3, <2>5
  <2>7. a = b
    BY <2>3, <2>5, <2>6
  <2> QED
    BY <2>7 DEF a, b
<1>3. batch[i].id \notin later => LastOf(batch, i, batch[i].id) = i
  <2> SUFFICES ASSUME batch[i].id \notin later
               PROVE  LastOf(batch, i, batch[i].id) = i
    OBVIOUS
  <2>1. \E j \in i..Len(batch) : batch[j].id = batch[i].id
    OBVIOUS
  <2>2. /\ LastOf(batch, i, batch[i].id) \in i..Len(batch)
        /\ batch[LastOf(batch, i, batch[i].id)].id = batch[i].id
    BY <2>1, LastOfFacts
  <2> QED
    BY <2>2
<1>4. DOMAIN p = DOMAIN m \cup {batch[i].id}
      /\ \A id \in DOMAIN p : p[id] = IF id = batch[i].id THEN value(i) ELSE m[id]
  BY DEF Put
<1>5. Overlay(m, batch, i) = [id \in DOMAIN m \cup new |->
                                IF id \in new THEN value(LastOf(batch, i, id)) ELSE m[id]]
  BY DEF Overlay
<1>6. Overlay(p, batch, i + 1) =
          [id \in DOMAIN p \cup later |->
             IF id \in later THEN value(LastOf(batch, i + 1, id)) ELSE p[id]]
  BY DEF Overlay
<1> HIDE DEF new, later, p
<1>7. DOMAIN m \cup new = DOMAIN p \cup later
  BY <1>1, <1>4
<1>8. ASSUME NEW id \in DOMAIN m \cup new
      PROVE  (IF id \in new THEN value(LastOf(batch, i, id)) ELSE m[id]) =
             (IF id \in later THEN value(LastOf(batch, i + 1, id)) ELSE p[id])
  <2>1. CASE id \in later
    BY <1>1, <1>2, <2>1
  <2>2. CASE id \notin later /\ id = batch[i].id
    BY <1>1, <1>3, <1>4, <2>2
  <2>3. CASE id \notin later /\ id # batch[i].id
    BY <1>1, <1>4, <2>3
  <2> QED
    BY <2>1, <2>2, <2>3
<1>9. Overlay(m, batch, i) = Overlay(p, batch, i + 1)
  BY <1>5, <1>6, <1>7, <1>8
<1> QED
  BY <1>9 DEF p

\* With no record left there is nothing to store, and what the batch stores
\* does not depend on what is stored there now.
LEMMA OverlayNone ==
    ASSUME NEW batch, Len(batch) \in Nat, NEW m
    PROVE  Overlay(m, batch, Len(batch) + 1) = [id \in DOMAIN m |-> m[id]]
<1> DEFINE new == {batch[j].id : j \in (Len(batch) + 1)..Len(batch)}
           value(id) == [vec  |-> batch[LastOf(batch, Len(batch) + 1, id)].vec,
                         meta |-> batch[LastOf(batch, Len(batch) + 1, id)].meta]
<1>1. new = {}
  OBVIOUS
<1>2. Overlay(m, batch, Len(batch) + 1) =
          [id \in DOMAIN m \cup new |-> IF id \in new THEN value(id) ELSE m[id]]
  BY DEF Overlay
<1> HIDE DEF new, value
<1> QED
  BY <1>1, <1>2

LEMMA OverlaySame ==
    ASSUME NEW batch, NEW i, NEW m, NEW p, DOMAIN m = DOMAIN p,
           \A id \in DOMAIN m :
              id \in {batch[j].id : j \in i..Len(batch)} \/ m[id] = p[id]
    PROVE  Overlay(m, batch, i) = Overlay(p, batch, i)
  BY DEF Overlay

-----------------------------------------------------------------------------
(* The abstract store                                                       *)

Committing == {"release_old", "install"}

\* A collection in which no call is past its point of no return holds what can
\* be read through its slots; otherwise the rest of that call's batch comes on top.
Forms ==
    \A c \in Tags :
        /\ (\A t \in Threads : InCall(t, c) => op[t].pc \notin Committing) =>
              Committed(c) = [id \in Firm(c) |-> View(c)[id]]
        /\ \A t \in Threads : InCall(t, c) /\ op[t].pc \in Committing =>
              Committed(c) = Overlay(View(c), op[t].batch, op[t].i)

LEMMA FormsHold == IInv => Forms
<1> SUFFICES ASSUME IInv, NEW c \in Tags
             PROVE  /\ (\A t \in Threads : InCall(t, c) => op[t].pc \notin Committing) =>
                          Committed(c) = [id \in Firm(c) |-> View(c)[id]]
                    /\ \A t \in Threads : InCall(t, c) /\ op[t].pc \in Committing =>
                          Committed(c) = Overlay(View(c), op[t].batch, op[t].i)
  BY DEF Forms
<1>1. ASSUME \A t \in Threads : InCall(t, c) => op[t].pc \notin Committing
      PROVE  Committed(c) = [id \in Firm(c) |-> View(c)[id]]
  <2>1. ~ \E t \in Writers(c) : op[t].pc \in {"release_old", "install"}
    BY <1>1 DEF Writers, Committing
  <2> QED
    BY <2>1, SettledFirm DEF Committed
<1>2. ASSUME NEW t \in Threads, InCall(t, c), op[t].pc \in Committing
      PROVE  Committed(c) = Overlay(View(c), op[t].batch, op[t].i)
  <2>1. op[t].pc \in Writing
    BY <1>2 DEF Committing, Writing
  <2>2. Writers(c) = {t}
    BY <1>2, <2>1 DEF Writers, IInv, Locks
  <2>3. \E u \in Writers(c) : op[u].pc \in {"release_old", "install"}
    BY <1>2, <2>2 DEF Committing
  <2>4. (CHOOSE u \in Writers(c) : TRUE) = t
    BY <2>2
  <2> QED
    BY <2>3, <2>4 DEF Committed
<1> QED
  BY <1>1, <1>2

\* The same of the next state.
LEMMA FormsHoldNext == IInv' => Forms'
  BY FormsHold, PTL

\* Nothing is committed anywhere else by a step of thread t in collection c.
LEMMA OthersCommitted ==
    ASSUME IInv, IInv', NEW t \in Threads, NEW c \in Tags, Alone(t, c), StepOf(t, c),
           NEW d \in Tags \ {c}
    PROVE  Committed(d)' = Committed(d)
<1>1. /\ \A u \in Threads \ {t} : InCall(u, d)' = InCall(u, d) /\ op'[u] = op[u]
      /\ Firm(d)' = Firm(d) /\ records'[d] = records[d]
      /\ \A id \in Firm(d) : VectorAt(d, id)' = VectorAt(d, id)
  BY OthersKept DEF StepOf
<1>2. ~InCall(t, d) /\ ~InCall(t, d)'
  BY DEF Alone, StepOf, InCall
<1>3. /\ DOMAIN View(d) = DOMAIN records[d] /\ DOMAIN View(d)' = DOMAIN records[d]
      /\ Firm(d) \subseteq DOMAIN records[d]
  BY <1>1 DEF View, Firm
<1>4. \A id \in Firm(d) : View(d)'[id] = View(d)[id]
  BY <1>1, <1>3 DEF View
<1>5. Forms /\ Forms'
  BY FormsHold, FormsHoldNext
<1>6. CASE \A u \in Threads : InCall(u, d) => op[u].pc \notin Committing
  <2>1. \A u \in Threads : InCall(u, d)' => op'[u].pc \notin Committing
    BY <1>1, <1>2, <1>6
  <2>2. Committed(d) = [id \in Firm(d) |-> View(d)[id]]
    BY <1>5, <1>6 DEF Forms
  <2>3. Committed(d)' = [id \in Firm(d)' |-> View(d)'[id]]
    BY <1>5, <2>1 DEF Forms
  <2> QED
    BY <1>1, <1>4, <2>2, <2>3
<1>7. CASE \E u \in Threads : InCall(u, d) /\ op[u].pc \in Committing
  <2>1. PICK u \in Threads : InCall(u, d) /\ op[u].pc \in Committing
    BY <1>7
  <2>2. u # t /\ op'[u] = op[u] /\ InCall(u, d)'
    BY <1>1, <1>2, <2>1
  <2>3. Committed(d) = Overlay(View(d), op[u].batch, op[u].i)
    BY <1>5, <2>1 DEF Forms
  <2>4. Committed(d)' = Overlay(View(d)', op[u].batch, op[u].i)
    BY <1>5, <2>1, <2>2 DEF Forms
  <2>5. Firm(d) = DOMAIN records[d] \ Moving(u)
    <3>1. Alone(u, d)
      BY <2>1, InCallAlone DEF InCall
    <3> QED
      BY <3>1, FirmAlone DEF IInv
  <2>6. Moving(u) \subseteq {op[u].batch[j].id : j \in op[u].i..Len(op[u].batch)}
    <3>1. op[u] \in Inserts /\ op[u].i =< Len(op[u].batch)
      BY <2>1, OpShape DEF IInv, Types, CallsSound, CallSound, Committing, InsertPcs
    <3>2. op[u].i \in op[u].i..Len(op[u].batch)
      BY <3>1, AcceptedFacts DEF Inserts
    <3> QED
      BY <2>1, <3>2 DEF Moving, Current, Committing
  <2>7. \A id \in DOMAIN View(d) :
          \/ id \in {op[u].batch[j].id : j \in op[u].i..Len(op[u].batch)}
          \/ View(d)[id] = View(d)'[id]
    BY <1>3, <1>4, <2>5, <2>6
  <2>8. Overlay(View(d), op[u].batch, op[u].i) = Overlay(View(d)', op[u].batch, op[u].i)
    BY <1>3, <2>7, OverlaySame
  <2> QED
    BY <2>3, <2>4, <2>8
<1> QED
  BY <1>6, <1>7

\* A step of thread t in collection c is a step of VectorStore if it is one at
\* t and c.
LEMMA AbstractStep ==
    ASSUME IInv, IInv', NEW t \in Threads, NEW c \in Tags, Alone(t, c), StepOf(t, c),
           \/ Committed(c)' = Committed(c) /\ Undecided(t)' = Undecided(t)
           \/ /\ Committed(c)' = Committed(c)
              /\ Undecided(t) # S!NoCall /\ Undecided(t)' = S!NoCall
           \/ /\ Undecided(t) # S!NoCall /\ Undecided(t)' = S!NoCall
              /\ Undecided(t).c = c
              /\ Committed(c)' = Overlay(Committed(c), Undecided(t).batch, 1)
           \/ /\ Committed(c)' = Committed(c) /\ Undecided(t) = S!NoCall
              /\ \E batch \in Batches : Undecided(t)' = [c |-> c, batch |-> batch]
           \/ /\ \E id \in DOMAIN Committed(c) : Committed(c)' = Erase(Committed(c), id)
              /\ Undecided(t)' = Undecided(t)
    PROVE  [S!Next]_S!vars
<1> DEFINE store == [d \in Tags |-> Committed(d)]
           asked == [u \in Threads |-> Undecided(u)]
<1>1. \A d \in Tags \ {c} : Committed(d)' = Committed(d)
  BY OthersCommitted
<1>2. \A u \in Threads \ {t} : Undecided(u)' = Undecided(u)
  BY DEF StepOf, Undecided
<1>3. store' = [store EXCEPT ![c] = Committed(c)']
  BY <1>1
<1>4. asked' = [asked EXCEPT ![t] = Undecided(t)']
  BY <1>2
<1>5. store[c] = Committed(c) /\ asked[t] = Undecided(t)
  OBVIOUS
<1>6. /\ Committed(c)' = Committed(c) => store' = store
      /\ Undecided(t)' = Undecided(t) => asked' = asked
  BY <1>1, <1>2
<1> HIDE DEF store, asked
<1>7. CASE Committed(c)' = Committed(c) /\ Undecided(t)' = Undecided(t)
  BY <1>6, <1>7 DEF S!vars, store, asked
<1>8. CASE /\ Committed(c)' = Committed(c)
           /\ Undecided(t) # S!NoCall /\ Undecided(t)' = S!NoCall
  <2>1. store' = store /\ asked[t] # S!NoCall /\ asked' = [asked EXCEPT ![t] = S!NoCall]
    BY <1>4, <1>5, <1>6, <1>8
  <2>2. S!Refuse(t)
    BY <2>1 DEF S!Refuse, S!Decided, store, asked
  <2> QED
    BY <2>2 DEF S!Next
<1>9. CASE /\ Undecided(t) # S!NoCall /\ Undecided(t)' = S!NoCall
           /\ Undecided(t).c = c
           /\ Committed(c)' = Overlay(Committed(c), Undecided(t).batch, 1)
  <2>1. /\ asked[t] # S!NoCall /\ asked' = [asked EXCEPT ![t] = S!NoCall]
        /\ store' = [store EXCEPT ![asked[t].c] = Overlay(store[asked[t].c], asked[t].batch, 1)]
    BY <1>3, <1>4, <1>5, <1>9
  <2>2. S!Overlay(store[asked[t].c], asked[t].batch, 1) =
            Overlay(store[asked[t].c], asked[t].batch, 1)
    BY DEF S!Overlay, Overlay, S!LastOf, LastOf
  <2>3. store' = [store EXCEPT
                    ![asked[t].c] = S!Overlay(store[asked[t].c], asked[t].batch, 1)]
    BY <2>1, <2>2
  <2>4. S!PutAll(t)
    BY <2>1, <2>3 DEF S!PutAll, S!Decided, store, asked
  <2> QED
    BY <2>4 DEF S!Next
<1>10. CASE /\ Committed(c)' = Committed(c) /\ Undecided(t) = S!NoCall
            /\ \E batch \in Batches : Undecided(t)' = [c |-> c, batch |-> batch]
  <2>1. PICK batch \in Batches : Undecided(t)' = [c |-> c, batch |-> batch]
    BY <1>10
  <2>2. /\ asked[t] = S!NoCall /\ store' = store
        /\ asked' = [asked EXCEPT ![t] = [c |-> c, batch |-> batch]]
    BY <1>4, <1>5, <1>6, <1>10, <2>1
  <2>3. asked'[t] = [c |-> c, batch |-> batch] /\ [c |-> c, batch |-> batch] = Undecided(t)'
    BY <2>1 DEF asked
  <2>4. asked' = [asked EXCEPT ![t] = asked'[t]]
    BY <2>2, <2>3
  <2>5. asked'[t] \in [c: Tags, batch: Batches]
    BY <2>3
  <2>6. S!Ask(t)
    BY <2>2, <2>4, <2>5 DEF S!Ask, store, asked
  <2> QED
    BY <2>6 DEF S!Next
<1>11. CASE /\ \E id \in DOMAIN Committed(c) : Committed(c)' = Erase(Committed(c), id)
            /\ Undecided(t)' = Undecided(t)
  <2>1. PICK id \in DOMAIN Committed(c) : Committed(c)' = Erase(Committed(c), id)
    BY <1>11
  <2>2. /\ asked' = asked /\ id \in DOMAIN store[c]
        /\ store' = [store EXCEPT ![c] = Erase(store[c], id)]
    BY <1>3, <1>5, <1>6, <1>11, <2>1
  <2>3. S!Remove(c, id)
    BY <2>2 DEF S!Remove, S!Erase, Erase, store, asked
  <2> QED
    BY <2>2, <2>3, <1>5 DEF S!Next, store
<1> QED
  BY <1>7, <1>8, <1>9, <1>10, <1>11

\* What the collection of a step holds before and after it.
LEMMA StepForms ==
    ASSUME IInv, IInv', NEW t \in Threads, NEW c \in Tags, Alone(t, c), StepOf(t, c)
    PROVE  /\ op[t].pc \notin Committing =>
                 Committed(c) = [id \in Firm(c) |-> View(c)[id]]
           /\ op[t].pc \in Committing =>
                 Committed(c) = Overlay(View(c), op[t].batch, op[t].i)
           /\ op'[t].pc \notin Committing =>
                 Committed(c)' = [id \in Firm(c)' |-> View(c)'[id]]
           /\ op'[t].pc \in Committing =>
                 Committed(c)' = Overlay(View(c)', op'[t].batch, op'[t].i)
           /\ Firm(c) = DOMAIN records[c] \ Moving(t)
           /\ Firm(c)' = DOMAIN records'[c] \ Moving(t)'
<1>1. Forms /\ Forms'
  BY FormsHold, FormsHoldNext
<1>2. \A u \in Threads \ {t} : InCall(u, c) => op[u].pc \notin Committing
  BY DEF Alone, Committing
<1>3. \A u \in Threads \ {t} : InCall(u, c)' => op'[u].pc \notin Committing
  BY <1>2 DEF StepOf, InCall
<1>4. op[t].pc \in Committing => InCall(t, c)
  BY DEF Alone, Committing, InCall, Idle
<1>5. op'[t].pc \in Committing => InCall(t, c)'
  BY DEF StepOf, Committing, InCall, Idle
<1>6. Firm(c) = DOMAIN records[c] \ Moving(t) /\ Firm(c)' = DOMAIN records'[c] \ Moving(t)'
  BY After, FirmAlone DEF IInv
<1>7. op[t].pc \notin Committing => Committed(c) = [id \in Firm(c) |-> View(c)[id]]
  BY <1>1, <1>2 DEF Forms
<1>8. op'[t].pc \notin Committing => Committed(c)' = [id \in Firm(c)' |-> View(c)'[id]]
  BY <1>1, <1>3 DEF Forms
<1> QED
  BY <1>1, <1>4, <1>5, <1>6, <1>7, <1>8 DEF Forms

\* The collection a call is in, when the thread stays in it or leaves it.
LEMMA CallApart ==
    ASSUME NEW t \in Threads, op[t] # Idle, Apart(t)
    PROVE  \E c \in Tags : op[t].c = c /\ Alone(t, c) /\ StepOf(t, c)
  BY DEF Apart, Alone

\* A step that touches neither slots nor vectors, of a call that commits nothing.
LEMMA NothingCommitted ==
    ASSUME IInv, IInv', NEW t \in Threads, NEW c \in Tags, Alone(t, c), StepOf(t, c),
           UNCHANGED <<records, mapped, mem>>,
           op[t].pc \notin Committing, op'[t].pc \notin Committing, Moving(t)' = Moving(t)
    PROVE  Committed(c)' = Committed(c)
<1>1. View(c)' = View(c)
  BY DEF View, VectorAt
<1> QED
  BY <1>1, StepForms

LEMMA StageRefines == ASSUME IInv, NEW t \in Threads, Stage(t) PROVE [S!Next]_S!vars
<1>1. op[t].pc = "stage" /\ op[t] # Idle
  BY DEF Stage, Idle
<1>2. IInv' /\ Apart(t)
  BY StageIInv
<1>3. PICK c \in Tags : op[t].c = c /\ Alone(t, c) /\ StepOf(t, c)
  BY <1>1, <1>2, CallApart
<1>4. PICK b \in Blocks :
        /\ owner[b] = NoTag /\ mem' = [mem EXCEPT ![b] = op[t].batch[Len(op[t].staged) + 1].vec]
        /\ op' = [op EXCEPT ![t].staged = Append(@, b),
                            ![t].pc = IF Len(op[t].staged) + 1 = Len(op[t].batch)
                                      THEN "release_old" ELSE "stage"]
        /\ UNCHANGED <<records, mapped>>
  BY DEF Stage
<1> DEFINE pc == IF Len(op[t].staged) + 1 = Len(op[t].batch) THEN "release_old" ELSE "stage"
           staged == Append(op[t].staged, b)
<1>5. op \in [Threads -> Ops] /\ CallSound(t) /\ TypedAt(c) /\ Local(t, c)
      /\ mem \in [Blocks -> Vectors]
  BY <1>3, Before
<1>6. op[t] \in Inserts /\ op[t].i = 1 /\ op[t].batch \in Accepted /\ staged \in Seq(Blocks)
      /\ pc \in InsertPcs /\ 1 \in Nat \ {0} /\ pc \in {"stage", "release_old"}
  <2>1. op[t] \in Inserts
    BY <1>1, <1>5, OpShape DEF InsertPcs
  <2> QED
    BY <1>1, <1>5, <2>1 DEF Inserts, InsertPcs, CallSound
<1>7. op' = [op EXCEPT ![t].staged = staged, ![t].pc = pc]
  BY <1>4
<1> HIDE DEF pc, staged
<1>8. op'[t].pc = pc /\ op'[t].c = c /\ op'[t].batch = op[t].batch /\ op'[t].i = 1
  <2>1. op'[t] = [[op[t] EXCEPT !.staged = staged] EXCEPT !.pc = pc]
    BY <1>5, <1>7
  <2>2. op'[t].pc = pc /\ op'[t].c = op[t].c /\ op'[t].batch = op[t].batch
        /\ op'[t].i = op[t].i
    BY ONLY <1>6, <2>1 DEF Inserts
  <2> QED
    BY <1>3, <1>6, <2>2
<1>9. Moving(t) = {} /\ Moving(t)' = {}
  BY <1>1, <1>6, <1>8 DEF Moving
<1>10. /\ op[t].pc \notin Committing
       /\ Firm(c) = DOMAIN records[c] /\ Firm(c)' = DOMAIN records[c]
  <2>1. Firm(c) = DOMAIN records[c] \ Moving(t) /\ Firm(c)' = DOMAIN records'[c] \ Moving(t)'
    BY <1>2, <1>3, StepForms
  <2> QED
    BY <1>1, <1>4, <1>9, <2>1 DEF Committing
<1>11. View(c)' = View(c)
  <2>1. \A id \in DOMAIN records[c] : VectorAt(c, id)' = VectorAt(c, id)
    <3> TAKE id \in DOMAIN records[c]
    <3>1. CASE records[c][id].block = Mapped
      BY <1>4, <3>1 DEF VectorAt
    <3>2. CASE records[c][id].block # Mapped
      <4>1. records[c][id].block \in Blocks /\ owner[records[c][id].block] = c
        BY <1>5, <1>10, <3>2 DEF TypedAt, Local, Held
      <4>2. records[c][id].block # b
        BY <1>4, <4>1, TagAssumption
      <4> QED
        BY <1>4, <1>5, <3>2, <4>1, <4>2 DEF VectorAt
    <3> QED
      BY <3>1, <3>2
  <2> QED
    BY <1>4, <2>1 DEF View
<1>12. Committed(c) = View(c)
  <2>1. Committed(c) = [id \in Firm(c) |-> View(c)[id]]
    BY <1>2, <1>3, <1>10, StepForms
  <2> QED
    BY <1>10, <2>1 DEF View
<1>13. CASE pc = "stage"
  <2>1. Committed(c)' = Committed(c)
    BY <1>2, <1>3, <1>8, <1>10, <1>11, <1>13, StepForms DEF Committing
  <2>2. Undecided(t)' = Undecided(t)
    BY <1>1, <1>3, <1>8, <1>13 DEF Undecided
  <2> QED
    BY <1>2, <1>3, <2>1, <2>2, AbstractStep
<1>14. CASE pc = "release_old"
  <2>1. Committed(c)' = Overlay(Committed(c), op[t].batch, 1)
    BY <1>2, <1>3, <1>8, <1>11, <1>12, <1>14, StepForms DEF Committing
  <2>2. Undecided(t) = [c |-> c, batch |-> op[t].batch] /\ Undecided(t)' = S!NoCall
    BY <1>1, <1>3, <1>8, <1>14 DEF Undecided, S!NoCall
  <2>3. Undecided(t) # S!NoCall
    <3>1. op[t].batch # << >>
      BY <1>6, AcceptedFacts
    <3> QED
      BY <2>2, <3>1 DEF S!NoCall
  <2>4. Undecided(t).c = c /\ Undecided(t).batch = op[t].batch
    BY <2>2
  <2> QED
    BY <1>2, <1>3, <2>1, <2>2, <2>3, <2>4, AbstractStep
<1> QED
  BY <1>6, <1>13, <1>14

\* A call that may still be refused is not the call that asked for nothing.
LEMMA Asking ==
    ASSUME IInv, NEW t \in Threads, op[t].pc \in {"stage", "rollback"}
    PROVE  Undecided(t) # S!NoCall
<1>1. op[t] \in Inserts
  BY OpShape DEF IInv, Types, InsertPcs
<1>2. op[t].batch # << >>
  BY <1>1, AcceptedFacts DEF Inserts
<1> QED
  BY <1>2 DEF Undecided, S!NoCall

LEMMA StageFailsRefines ==
    ASSUME IInv, NEW t \in Threads, StageFails(t) PROVE [S!Next]_S!vars
<1>1. op[t].pc = "stage" /\ op[t] # Idle /\ UNCHANGED <<records, mapped, mem>>
  BY DEF StageFails, Idle
<1>2. IInv' /\ Apart(t)
  BY StageFailsIInv
<1>3. PICK c \in Tags : op[t].c = c /\ Alone(t, c) /\ StepOf(t, c)
  BY <1>1, <1>2, CallApart
<1>4. op \in [Threads -> Ops]
  BY <1>3, Before
<1>5. op[t] \in Inserts
  BY <1>1, <1>4, OpShape DEF InsertPcs
<1>6. CASE Return(t)
  <2>1. op'[t] = Idle /\ op'[t].pc = "idle"
    BY <1>4, <1>6, ReturnFacts DEF Idle
  <2>2. Committed(c)' = Committed(c)
    BY <1>1, <1>2, <1>3, <2>1, NothingCommitted DEF Committing, Moving
  <2>3. Undecided(t) # S!NoCall /\ Undecided(t)' = S!NoCall
    BY <1>1, <2>1, Asking DEF Undecided, S!NoCall
  <2> QED
    BY <1>2, <1>3, <2>2, <2>3, AbstractStep
<1>7. CASE op' = [op EXCEPT ![t].pc = "rollback"]
  <2>1. op'[t].pc = "rollback" /\ op'[t].c = c /\ op'[t].batch = op[t].batch
    BY <1>3, <1>4, <1>5, <1>7 DEF Inserts
  <2>2. Committed(c)' = Committed(c)
    BY <1>1, <1>2, <1>3, <2>1, NothingCommitted DEF Committing, Moving
  <2>3. Undecided(t)' = Undecided(t)
    BY <1>1, <1>3, <2>1 DEF Undecided
  <2> QED
    BY <1>2, <1>3, <2>2, <2>3, AbstractStep
<1> QED
  BY <1>6, <1>7 DEF StageFails

LEMMA RollbackRefines ==
    ASSUME IInv, NEW t \in Threads, Rollback(t) PROVE [S!Next]_S!vars
<1>1. op[t].pc = "rollback" /\ op[t] # Idle /\ UNCHANGED <<records, mapped, mem>>
  BY DEF Rollback, Idle
<1>2. IInv' /\ Apart(t)
  BY RollbackIInv
<1>3. PICK c \in Tags : op[t].c = c /\ Alone(t, c) /\ StepOf(t, c)
  BY <1>1, <1>2, CallApart
<1>4. op \in [Threads -> Ops]
  BY <1>3, Before
<1>5. op[t] \in Inserts
  BY <1>1, <1>4, OpShape DEF InsertPcs
<1>6. CASE Return(t)
  <2>1. op'[t] = Idle /\ op'[t].pc = "idle"
    BY <1>4, <1>6, ReturnFacts DEF Idle
  <2>2. Committed(c)' = Committed(c)
    BY <1>1, <1>2, <1>3, <2>1, NothingCommitted DEF Committing, Moving
  <2>3. Undecided(t) # S!NoCall /\ Undecided(t)' = S!NoCall
    BY <1>1, <2>1, Asking DEF Undecided, S!NoCall
  <2> QED
    BY <1>2, <1>3, <2>2, <2>3, AbstractStep
<1>7. CASE op' = [op EXCEPT ![t].staged = Tail(@)]
  <2>1. op'[t].pc = "rollback" /\ op'[t].c = c /\ op'[t].batch = op[t].batch
    BY <1>1, <1>3, <1>4, <1>5, <1>7 DEF Inserts
  <2>2. Committed(c)' = Committed(c)
    BY <1>1, <1>2, <1>3, <2>1, NothingCommitted DEF Committing, Moving
  <2>3. Undecided(t)' = Undecided(t)
    BY <1>1, <1>3, <2>1 DEF Undecided
  <2> QED
    BY <1>2, <1>3, <2>2, <2>3, AbstractStep
<1> QED
  BY <1>6, <1>7 DEF Rollback

LEMMA ReleaseOldRefines ==
    ASSUME IInv, NEW t \in Threads, ReleaseOld(t) PROVE [S!Next]_S!vars
<1>1. op[t].pc = "release_old" /\ op[t] # Idle /\ UNCHANGED <<records, mapped, mem>>
  BY DEF ReleaseOld, Idle
<1>2. IInv' /\ Apart(t)
  BY ReleaseOldIInv
<1>3. PICK c \in Tags : op[t].c = c /\ Alone(t, c) /\ StepOf(t, c)
  BY <1>1, <1>2, CallApart
<1>4. op \in [Threads -> Ops]
  BY <1>3, Before
<1>5. op[t] \in Inserts
  BY <1>1, <1>4, OpShape DEF InsertPcs
<1>6. /\ op'[t].pc = "install" /\ op'[t].c = c
      /\ op'[t].batch = op[t].batch /\ op'[t].i = op[t].i
  BY <1>3, <1>4, <1>5 DEF ReleaseOld, Inserts
<1>7. View(c)' = View(c)
  BY <1>1 DEF View, VectorAt
<1>8. Committed(c)' = Committed(c)
  BY <1>1, <1>2, <1>3, <1>6, <1>7, StepForms DEF Committing
<1>9. Undecided(t)' = Undecided(t)
  BY <1>1, <1>6 DEF Undecided
<1> QED
  BY <1>2, <1>3, <1>8, <1>9, AbstractStep

LEMMA InstallRefines ==
    ASSUME IInv, NEW t \in Threads, Install(t) PROVE [S!Next]_S!vars
<1>1. op[t].pc \in Committing /\ op[t] # Idle /\ UNCHANGED <<mapped, mem>>
  BY DEF Install, Idle, Committing
<1>2. IInv' /\ Apart(t)
  BY InstallIInv
<1>3. PICK c \in Tags : op[t].c = c /\ Alone(t, c) /\ StepOf(t, c)
  BY <1>1, <1>2, CallApart
<1>4. op \in [Threads -> Ops] /\ CallSound(t) /\ DOMAIN records = Tags /\ TypedAt(c)
  BY <1>3, Before
<1> DEFINE batch == op[t].batch
           i == op[t].i
           n == Len(batch)
           v == [vec |-> batch[i].vec, meta |-> batch[i].meta]
<1>5. op[t] \in Inserts /\ batch \in Accepted /\ i \in Nat \ {0}
      /\ op[t].staged \in Seq(Blocks)
  <2>1. op[t] \in Inserts
    BY <1>1, <1>4, OpShape DEF InsertPcs, Committing
  <2> QED
    BY <2>1 DEF Inserts
<1>6. n \in Nat /\ i \in 1..n /\ i \in i..Len(op[t].staged) /\ Len(op[t].staged) = n
  BY <1>1, <1>4, <1>5, AcceptedFacts DEF CallSound, Committing
<1>7. PICK b \in Blocks : op[t].staged[i] = b /\ mem[b] = batch[i].vec
  BY <1>1, <1>4, <1>5, <1>6 DEF CallSound, Committing
<1>8. PICK id \in Ids : batch[i].id = id
  BY <1>5, <1>6, AcceptedFacts
<1>9. records' = [records EXCEPT ![c] = Put(@, id, [block |-> b, meta |-> batch[i].meta])]
  BY <1>3, <1>7, <1>8 DEF Install, Current
<1>10. /\ DOMAIN records'[c] = DOMAIN records[c] \cup {id}
       /\ records'[c][id] = [block |-> b, meta |-> batch[i].meta]
       /\ \A x \in DOMAIN records[c] \ {id} : records'[c][x] = records[c][x]
  BY <1>4, <1>9 DEF Put
<1> HIDE DEF batch, i, n, v
<1>11. View(c)' = Put(View(c), id, v)
  <2>1. VectorAt(c, id)' = batch[i].vec
    BY <1>1, <1>7, <1>10, TagAssumption DEF VectorAt
  <2>2. \A x \in DOMAIN records[c] \ {id} : VectorAt(c, x)' = VectorAt(c, x)
    BY <1>1, <1>10 DEF VectorAt
  <2>3. \A x \in DOMAIN records[c] \cup {id} :
          [vec |-> VectorAt(c, x)', meta |-> records'[c][x].meta] =
          IF x = id THEN v ELSE [vec |-> VectorAt(c, x), meta |-> records[c][x].meta]
    BY <1>10, <2>1, <2>2 DEF v
  <2>4. View(c)' = [x \in DOMAIN records[c] \cup {id} |->
                      IF x = id THEN v
                      ELSE [vec |-> VectorAt(c, x), meta |-> records[c][x].meta]]
    BY <1>10, <2>3 DEF View
  <2>5. /\ DOMAIN View(c) = DOMAIN records[c]
        /\ \A x \in DOMAIN records[c] :
              View(c)[x] = [vec |-> VectorAt(c, x), meta |-> records[c][x].meta]
    BY DEF View
  <2> QED
    BY <2>4, <2>5 DEF Put
<1>12. Committed(c) = Overlay(View(c), batch, i)
  BY <1>1, <1>2, <1>3, StepForms DEF batch, i
<1>13. Overlay(View(c), batch, i) = Overlay(View(c)', batch, i + 1)
  <2>1. Overlay(View(c), batch, i) = Overlay(Put(View(c), batch[i].id, v), batch, i + 1)
    BY <1>6, OverlayStep DEF n, v
  <2> QED
    BY <1>8, <1>11, <2>1
<1>14. CASE i = n /\ Return(t)
  <2>1. op'[t] = Idle /\ op'[t].pc = "idle"
    BY <1>4, <1>14, ReturnFacts DEF Idle
  <2>2. Committed(c)' = [x \in Firm(c)' |-> View(c)'[x]]
    BY <1>2, <1>3, <2>1, StepForms DEF Committing
  <2>3. Firm(c)' = DOMAIN records'[c]
    <3>1. Firm(c)' = DOMAIN records'[c] \ Moving(t)'
      BY <1>2, <1>3, StepForms
    <3> QED
      BY <2>1, <3>1 DEF Moving
  <2>4. DOMAIN View(c)' = DOMAIN records'[c]
    BY DEF View
  <2>5. Overlay(View(c)', batch, n + 1) = [x \in DOMAIN View(c)' |-> View(c)'[x]]
    BY <1>6, OverlayNone DEF n
  <2>6. Committed(c)' = Committed(c)
    BY <1>12, <1>13, <1>14, <2>2, <2>3, <2>4, <2>5
  <2>7. Undecided(t)' = Undecided(t)
    BY <1>1, <2>1 DEF Undecided, Committing
  <2> QED
    BY <1>2, <1>3, <2>6, <2>7, AbstractStep
<1>15. CASE op' = [op EXCEPT ![t].pc = "release_old", ![t].i = @ + 1]
  <2>1. op'[t].pc = "release_old" /\ op'[t].batch = batch /\ op'[t].i = i + 1
    BY <1>4, <1>5, <1>15 DEF Inserts, batch, i
  <2>2. Committed(c)' = Committed(c)
    BY <1>2, <1>3, <1>12, <1>13, <2>1, StepForms DEF Committing
  <2>3. Undecided(t)' = Undecided(t)
    BY <1>1, <2>1 DEF Undecided, Committing
  <2> QED
    BY <1>2, <1>3, <2>2, <2>3, AbstractStep
<1> QED
  BY <1>14, <1>15 DEF Install, i, n, batch

LEMMA EraseRecordRefines ==
    ASSUME IInv, NEW t \in Threads, EraseRecord(t) PROVE [S!Next]_S!vars
<1>1. op[t].pc = "erase" /\ op[t] # Idle /\ Return(t) /\ UNCHANGED <<mapped, mem>>
  BY DEF EraseRecord, Idle
<1>2. IInv' /\ Apart(t)
  BY EraseRecordIInv
<1>3. PICK c \in Tags : op[t].c = c /\ Alone(t, c) /\ StepOf(t, c)
  BY <1>1, <1>2, CallApart
<1>4. op \in [Threads -> Ops] /\ DOMAIN records = Tags
  BY <1>3, Before
<1>5. op'[t] = Idle /\ op'[t].pc = "idle"
  BY <1>1, <1>4, ReturnFacts DEF Idle
<1>6. /\ DOMAIN records'[c] = DOMAIN records[c] \ {op[t].id}
      /\ \A x \in DOMAIN records'[c] : records'[c][x] = records[c][x]
  BY <1>3, <1>4 DEF EraseRecord, Erase
<1>7. Firm(c) = DOMAIN records'[c] /\ Firm(c)' = DOMAIN records'[c]
  <2>1. Firm(c) = DOMAIN records[c] \ Moving(t) /\ Firm(c)' = DOMAIN records'[c] \ Moving(t)'
    BY <1>2, <1>3, StepForms
  <2> QED
    BY <1>1, <1>5, <1>6, <2>1 DEF Moving
<1>8. \A x \in Firm(c) : View(c)'[x] = View(c)[x]
  BY <1>1, <1>6, <1>7 DEF View, VectorAt
<1>9. Committed(c)' = Committed(c)
  <2>1. Committed(c) = [x \in Firm(c) |-> View(c)[x]]
    BY <1>1, <1>2, <1>3, StepForms DEF Committing
  <2>2. Committed(c)' = [x \in Firm(c)' |-> View(c)'[x]]
    BY <1>2, <1>3, <1>5, StepForms DEF Committing
  <2> QED
    BY <1>7, <1>8, <2>1, <2>2
<1>10. Undecided(t)' = Undecided(t)
  BY <1>1, <1>5 DEF Undecided
<1> QED
  BY <1>2, <1>3, <1>9, <1>10, AbstractStep

LEMMA EndReadRefines ==
    ASSUME IInv, NEW t \in Threads, EndRead(t) PROVE [S!Next]_S!vars
<1>1. op[t].pc = "read" /\ op[t] # Idle /\ Return(t) /\ UNCHANGED <<records, mapped, mem>>
  BY DEF EndRead, Idle
<1>2. IInv' /\ Apart(t)
  BY EndReadIInv
<1>3. PICK c \in Tags : op[t].c = c /\ Alone(t, c) /\ StepOf(t, c)
  BY <1>1, <1>2, CallApart
<1>4. op'[t] = Idle /\ op'[t].pc = "idle"
  BY <1>1, <1>3, Before, ReturnFacts DEF Idle
<1>5. Committed(c)' = Committed(c)
  BY <1>1, <1>2, <1>3, <1>4, NothingCommitted DEF Committing, Moving
<1>6. Undecided(t)' = Undecided(t)
  BY <1>1, <1>4 DEF Undecided
<1> QED
  BY <1>2, <1>3, <1>5, <1>6, AbstractStep

\* The collection a call starts in.
LEMMA EnterApart ==
    ASSUME NEW t \in Threads, NEW c \in Tags, Apart(t), op'[t] # Idle, op'[t].c = c
    PROVE  Alone(t, c) /\ StepOf(t, c)
  BY DEF Apart, StepOf

LEMMA StartInsertRefines ==
    ASSUME IInv, NEW t \in Threads, NEW c \in Tags, NEW batch \in Batches,
           StartInsert(t, c, batch)
    PROVE  [S!Next]_S!vars
<1> DEFINE r == [pc |-> "stage", c |-> c, batch |-> batch, staged |-> << >>, i |-> 1]
<1>1. op[t] = Idle /\ op' = [op EXCEPT ![t] = r] /\ UNCHANGED <<records, mapped, mem>>
  BY DEF StartInsert, Call
<1>2. IInv' /\ Apart(t)
  BY StartInsertIInv
<1>3. op'[t] = r
  BY <1>1 DEF IInv, Types
<1>4. op'[t] # Idle /\ op'[t].c = c /\ op'[t].pc = "stage" /\ op[t].pc = "idle"
  BY <1>1, <1>3 DEF Idle
<1>5. Alone(t, c) /\ StepOf(t, c)
  BY <1>2, <1>4, EnterApart
<1>6. Committed(c)' = Committed(c)
  BY <1>1, <1>2, <1>4, <1>5, NothingCommitted DEF Committing, Moving
<1>7. Undecided(t) = S!NoCall /\ Undecided(t)' = [c |-> c, batch |-> batch]
  BY <1>3, <1>4 DEF Undecided, S!NoCall
<1> QED
  BY <1>2, <1>5, <1>6, <1>7, AbstractStep

LEMMA StartReadRefines ==
    ASSUME IInv, NEW t \in Threads, NEW c \in Tags, StartRead(t, c) PROVE [S!Next]_S!vars
<1> DEFINE r == [pc |-> "read", c |-> c]
<1>1. op[t] = Idle /\ op' = [op EXCEPT ![t] = r] /\ UNCHANGED <<records, mapped, mem>>
  BY DEF StartRead, Call
<1>2. IInv' /\ Apart(t)
  BY StartReadIInv
<1>3. op'[t] = r
  BY <1>1 DEF IInv, Types
<1>4. op'[t] # Idle /\ op'[t].c = c /\ op'[t].pc = "read" /\ op[t].pc = "idle"
  BY <1>1, <1>3 DEF Idle
<1>5. Alone(t, c) /\ StepOf(t, c)
  BY <1>2, <1>4, EnterApart
<1>6. Committed(c)' = Committed(c)
  BY <1>1, <1>2, <1>4, <1>5, NothingCommitted DEF Committing, Moving
<1>7. Undecided(t)' = Undecided(t)
  BY <1>4 DEF Undecided
<1> QED
  BY <1>2, <1>5, <1>6, <1>7, AbstractStep

LEMMA StartRemoveRefines ==
    ASSUME IInv, NEW t \in Threads, NEW c \in Tags, NEW id \in Ids, StartRemove(t, c, id)
    PROVE  [S!Next]_S!vars
<1> DEFINE r == [pc |-> "erase", c |-> c, id |-> id]
<1>1. /\ op[t] = Idle /\ op' = [op EXCEPT ![t] = r] /\ UNCHANGED <<records, mapped, mem>>
      /\ id \in DOMAIN records[c]
  BY DEF StartRemove, Call
<1>2. IInv' /\ Apart(t)
  BY StartRemoveIInv
<1>3. op'[t] = r
  BY <1>1 DEF IInv, Types
<1>4. /\ op'[t] # Idle /\ op'[t].c = c /\ op'[t].pc = "erase" /\ op'[t].id = id
      /\ op[t].pc = "idle"
  BY <1>1, <1>3 DEF Idle
<1>5. Alone(t, c) /\ StepOf(t, c)
  BY <1>2, <1>4, EnterApart
<1>6. Firm(c) = DOMAIN records[c] /\ Firm(c)' = DOMAIN records[c] \ {id}
  <2>1. Firm(c) = DOMAIN records[c] \ Moving(t) /\ Firm(c)' = DOMAIN records'[c] \ Moving(t)'
    BY <1>2, <1>5, StepForms
  <2> QED
    BY <1>1, <1>4, <2>1 DEF Moving
<1>7. View(c)' = View(c)
  BY <1>1 DEF View, VectorAt
<1>8. Committed(c) = [x \in Firm(c) |-> View(c)[x]]
  BY <1>2, <1>4, <1>5, StepForms DEF Committing
<1>9. Committed(c)' = [x \in Firm(c)' |-> View(c)'[x]]
  BY <1>2, <1>4, <1>5, StepForms DEF Committing
<1>10. id \in DOMAIN Committed(c) /\ Committed(c)' = Erase(Committed(c), id)
  BY <1>1, <1>6, <1>7, <1>8, <1>9 DEF Erase
<1>11. Undecided(t)' = Undecided(t)
  BY <1>4 DEF Undecided
<1> QED
  BY <1>2, <1>5, <1>10, <1>11, AbstractStep

\* A step that leaves slots, vectors and calls alone.
LEMMA UnreadRefines ==
    ASSUME UNCHANGED <<records, mapped, mem, op>> PROVE UNCHANGED S!vars
<1>1. \A c \in Tags : View(c)' = View(c) /\ Writers(c)' = Writers(c)
  BY DEF View, VectorAt, Writers, InCall
<1>2. \A c \in Tags : Settled(c)' = Settled(c)
  BY <1>1 DEF Settled, InTransit, Current
<1> DEFINE Holder(W) == CHOOSE t \in W : TRUE
           Through(W, calling, view, settled) ==
               IF \E t \in W : calling[t].pc \in {"release_old", "install"}
               THEN Overlay(view, calling[Holder(W)].batch, calling[Holder(W)].i)
               ELSE [id \in settled |-> view[id]]
<1>3. \A c \in Tags : Committed(c)' = Committed(c)
  <2> TAKE c \in Tags
  <2>1. Committed(c) = Through(Writers(c), op, View(c), Settled(c))
    BY DEF Committed
  <2>2. Committed(c)' = Through(Writers(c)', op', View(c)', Settled(c)')
    BY DEF Committed
  <2> HIDE DEF Through
  <2> QED
    BY <1>1, <1>2, <2>1, <2>2
<1>4. \A t \in Threads : Undecided(t)' = Undecided(t)
  BY DEF Undecided
<1> QED
  BY <1>3, <1>4 DEF S!vars

LEMMA NextRefines == ASSUME IInv, [Next]_vars PROVE [S!Next]_S!vars
<1>1. ASSUME NEW t \in Threads, Continue(t) PROVE [S!Next]_S!vars
  BY <1>1, StageRefines, StageFailsRefines, RollbackRefines, ReleaseOldRefines,
     InstallRefines, EraseRecordRefines, EndReadRefines DEF Continue
<1>2. ASSUME UNCHANGED vars PROVE [S!Next]_S!vars
  BY <1>2, UnreadRefines DEF vars
<1>3. ASSUME NEW t \in Threads, NEW c \in Tags, Begin(t, c) PROVE [S!Next]_S!vars
  <2>1. CASE \E batch \in Batches : StartInsert(t, c, batch)
    BY <2>1, StartInsertRefines
  <2>2. CASE \E id \in Ids : StartRemove(t, c, id) \/ RemoveMissing(t, c, id)
    BY <1>2, <2>2, StartRemoveRefines DEF RemoveMissing
  <2>3. CASE \E type \in IndexTypes, param \in Params :
                BuildIndex(t, c, type, param) \/ BuildRejected(t, c, type, param)
    BY <1>2, <2>3, UnreadRefines DEF BuildIndex, BuildRejected
  <2>4. CASE StartRead(t, c)
    BY <2>4, StartReadRefines
  <2> QED
    BY <1>3, <2>1, <2>2, <2>3, <2>4 DEF Begin
<1>4. CASE \E t \in Threads : Continue(t) \/ \E c \in Tags : Begin(t, c)
  BY <1>1, <1>3, <1>4
<1>5. CASE \E t \in Threads, batch \in Batches : RejectInsert(t, batch)
  BY <1>2, <1>5 DEF RejectInsert
<1> QED
  BY <1>2, <1>4, <1>5 DEF Next

\* Batches are atomic, removals take one record, collections are isolated: the
\* record stores implement VectorStore.  The batch asked for is stored when its
\* last block is staged, or refused when memory runs out (collection.hpp:84-92).
THEOREM Refinement == Spec => ImplementsVectorStore
<1>1. Init => S!Init
  BY DEF Init, S!Init, S!NoCall, Undecided, Idle
<1>2. IInv /\ [Next]_vars => [S!Next]_S!vars
  BY NextRefines
<1> QED
  BY <1>1, <1>2, Inductive, PTL DEF Spec, S!Spec, ImplementsVectorStore

-----------------------------------------------------------------------------
(* The engine's inductive invariant                                         *)

\* The registry, the source of tags, and the work under the engine mutex.
Directory ==
    /\ collections = [n \in DOMAIN collections |-> collections[n]]
    /\ \A n \in DOMAIN collections : collections[n] \in Tags /\ collections[n] < next_tag
    /\ \A n, x \in DOMAIN collections : n # x => collections[n] # collections[x]
    /\ next_tag \in Nat
    /\ DOMAIN todo = Threads /\ DOMAIN handle = Threads
    /\ \A t \in Threads : (todo[t] # {} <=> mutex = t) /\ todo[t] \subseteq Registered
    /\ saving \in [Threads -> Paths \cup {NoFile}]
    /\ DOMAIN files = Paths

\* Calls and blocks are those of registered collections.
Attributed ==
    /\ \A t \in Threads, c \in Tags : InCall(t, c) => c \in Registered
    /\ \A b \in Blocks : owner[b] = NoTag \/ owner[b] \in Registered

\* A snapshot a collection may be made of: its index agrees with its contents.
FileSound(f) ==
    /\ f = [name |-> f.name, view |-> f.view, index |-> f.index]
    /\ f.view = [id \in DOMAIN f.view |-> [vec |-> f.view[id].vec, meta |-> f.view[id].meta]]
    /\ IsFiniteSet(DOMAIN f.view) /\ DOMAIN f.view \subseteq Ids
    /\ \A id \in DOMAIN f.view : f.view[id].meta \in Metas
    /\ f.index.type \in IndexTypes
    /\ f.index = [type |-> f.index.type, entries |-> f.index.entries]
    /\ f.index.type # "None" =>
          /\ DOMAIN f.index.entries = DOMAIN f.view
          /\ \A id \in DOMAIN f.view : f.index.entries[id] = f.view[id].vec

FilesSound == \A path \in Paths : files[path] # NoFile => FileSound(files[path])

EIInv == IInv /\ Directory /\ Attributed /\ FilesSound

-----------------------------------------------------------------------------
(* Steps of the engine on the collections                                   *)

\* A step that counts a call and leaves the collections alone.
LEMMA CountedIInv ==
    ASSUME IInv, UNCHANGED <<records, record_count, index, mapped, owner, mem, op>>,
           calls' \in 0..MaxCalls
    PROVE  IInv'
  BY DEF IInv, Types, TypeOK, Locks, CallsSound, CallSound, Exact, Indexed, InCall,
         Pending, Moving, Firm, Held, VectorAt, Current

LEMMA CountedCalls == ASSUME IInv, Counted PROVE calls' \in 0..MaxCalls
  BY BoundAssumption DEF IInv, TypeOK, Counted

\* The next tag is nobody's.
LEMMA NextTagFresh ==
    ASSUME EIInv, next_tag \in Tags
    PROVE  /\ next_tag \notin Registered
           /\ \A u \in Threads : ~InCall(u, next_tag)
           /\ \A b \in Blocks : owner[b] # next_tag
<1>1. next_tag \notin Registered
  BY EngineAssumption DEF EIInv, Directory, Registered
<1> QED
  BY <1>1, TagAssumption DEF EIInv, Attributed

\* A collection with a mapped file and an index that agrees with it, or with
\* nothing, made under the next tag.
LEMMA FreshIInv ==
    ASSUME EIInv, NEW t \in Threads, op[t] = Idle, next_tag \in Tags,
           NEW mp, NEW recs, NEW ix, Fresh(mp, recs, ix), UNCHANGED <<owner, mem, op>>, Counted,
           IsFiniteSet(DOMAIN recs), DOMAIN recs \subseteq Ids,
           \A id \in DOMAIN recs : recs[id] \in [block: {Mapped}, meta: Metas],
           ix.type \in IndexTypes, ix = [type |-> ix.type, entries |-> ix.entries],
           ix.type # "None" => /\ DOMAIN ix.entries = DOMAIN recs
                               /\ \A id \in DOMAIN recs : ix.entries[id] = mp[id]
    PROVE  IInv'
<1>1. PICK c \in Tags : c = next_tag
  OBVIOUS
<1>2. /\ \A u \in Threads : ~InCall(u, c)
      /\ \A b \in Blocks : owner[b] # c
  BY <1>1, NextTagFresh
<1>3. IInv /\ Alone(t, c)
  BY <1>2 DEF EIInv, Alone
<1>4. /\ DOMAIN records = Tags /\ DOMAIN record_count = Tags /\ DOMAIN index = Tags
      /\ DOMAIN mapped = Tags /\ op \in [Threads -> Ops]
      /\ owner \in [Blocks -> Tags \cup {NoTag}] /\ mem \in [Blocks -> Vectors]
  BY <1>3, Before
<1>5. /\ mapped' = [mapped EXCEPT ![c] = mp]
      /\ records' = [records EXCEPT ![c] = recs]
      /\ record_count' = [record_count EXCEPT ![c] = Cardinality(DOMAIN recs)]
      /\ index' = [index EXCEPT ![c] = ix]
  BY <1>1 DEF Fresh
<1>6. /\ mapped'[c] = mp /\ records'[c] = recs /\ index'[c] = ix
      /\ record_count'[c] = Cardinality(DOMAIN recs)
  BY <1>4, <1>5
<1>7. op'[t] = Idle /\ op'[t].pc = "idle"
  BY DEF Idle
<1>8. StepOf(t, c)
  BY <1>2, <1>3, <1>4, <1>5, <1>7, CountedCalls DEF StepOf, Writing
<1>9. TypedAt(c)'
  BY <1>6 DEF TypedAt
<1>10. CallSound(t)' /\ Pending(t)' = {}
  BY <1>7 DEF CallSound, Pending, InsertPcs
<1>11. Held(c)' = {} /\ \A id \in Firm(c)' : VectorAt(c, id)' = mp[id] /\ id \in DOMAIN recs
  BY <1>6 DEF Held, Firm, VectorAt
<1>12. Local(t, c)'
  BY <1>2, <1>10, <1>11 DEF Local
<1>13. IndexedAt(c)'
  BY <1>6, <1>11 DEF IndexedAt
<1> QED
  BY <1>3, <1>8, <1>9, <1>10, <1>12, <1>13, StepIInv

\* A collection nobody is in loses its records and its blocks.
LEMMA EraseIInv ==
    ASSUME EIInv, NEW t \in Threads, op[t] = Idle, NEW c \in Tags,
           \A u \in Threads : ~InCall(u, c),
           owner' = ReleaseAll(c), records' = [records EXCEPT ![c] = EmptyMap],
           record_count' = [record_count EXCEPT ![c] = 0],
           index' = [index EXCEPT ![c] = NoIndex],
           mapped' = [mapped EXCEPT ![c] = EmptyMap], UNCHANGED <<mem, op>>, Counted
    PROVE  IInv'
<1>1. IInv /\ Alone(t, c)
  BY DEF EIInv, Alone
<1>2. /\ DOMAIN records = Tags /\ DOMAIN record_count = Tags /\ DOMAIN index = Tags
      /\ DOMAIN mapped = Tags /\ op \in [Threads -> Ops]
      /\ owner \in [Blocks -> Tags \cup {NoTag}] /\ mem \in [Blocks -> Vectors]
  BY <1>1, Before
<1>3. records'[c] = EmptyMap /\ record_count'[c] = 0 /\ index'[c] = NoIndex
  BY <1>2
<1>4. op'[t] = Idle /\ op'[t].pc = "idle"
  BY DEF Idle
<1>5. /\ owner' \in [Blocks -> Tags \cup {NoTag}]
      /\ \A b \in Blocks : owner'[b] = IF owner[b] = c THEN NoTag ELSE owner[b]
  BY <1>2 DEF ReleaseAll
<1>6. StepOf(t, c)
  BY <1>1, <1>2, <1>4, <1>5, CountedCalls DEF StepOf, Writing
<1>7. DOMAIN EmptyMap = {}
  BY DEF EmptyMap
<1>8. TypedAt(c)'
  <2>1. IsFiniteSet({}) /\ Cardinality({}) = 0
    BY FS_EmptySet
  <2> QED
    BY <1>3, <1>7, <2>1 DEF TypedAt, NoIndex, IndexTypes
<1>9. CallSound(t)' /\ Pending(t)' = {}
  BY <1>4 DEF CallSound, Pending, InsertPcs
<1>10. Held(c)' = {} /\ \A b \in Blocks : owner'[b] # c
  BY <1>3, <1>5, <1>7, TagAssumption DEF Held, Firm
<1>11. Local(t, c)'
  BY <1>9, <1>10 DEF Local
<1>12. IndexedAt(c)'
  BY <1>3 DEF IndexedAt, NoIndex
<1> QED
  BY <1>1, <1>6, <1>8, <1>9, <1>11, <1>12, StepIInv

-----------------------------------------------------------------------------
(* The actions                                                              *)

\* A name is registered for the next tag.
LEMMA PutName ==
    ASSUME EIInv, NEW n, n \notin DOMAIN collections, next_tag \in Tags,
           collections' = Put(collections, n, next_tag), next_tag' = next_tag + 1,
           UNCHANGED <<mutex, todo, saving, files, op, owner>>, DOMAIN handle' = Threads
    PROVE  Directory' /\ Attributed' /\ FilesSound'
<1>1. /\ DOMAIN collections' = DOMAIN collections \cup {n}
      /\ collections'[n] = next_tag
      /\ \A x \in DOMAIN collections : collections'[x] = collections[x]
      /\ collections' = [x \in DOMAIN collections' |-> collections'[x]]
  BY DEF Put
<1>2. Registered \subseteq Registered'
  BY <1>1 DEF Registered
<1>3. \A x \in DOMAIN collections : collections[x] \in Nat /\ collections[x] < next_tag
  BY EngineAssumption DEF EIInv, Directory
<1>4. next_tag \in Nat
  BY DEF EIInv, Directory
<1>5. /\ \A x \in DOMAIN collections' : collections'[x] \in Tags /\ collections'[x] < next_tag'
      /\ \A x, y \in DOMAIN collections' : x # y => collections'[x] # collections'[y]
  <2>1. \A x \in DOMAIN collections : collections'[x] # next_tag
    BY <1>1, <1>3, <1>4
  <2>2. \A x \in DOMAIN collections' : collections'[x] \in Tags /\ collections'[x] < next_tag'
    BY <1>1, <1>3, <1>4 DEF EIInv, Directory
  <2>3. \A x, y \in DOMAIN collections' : x # y => collections'[x] # collections'[y]
    BY <1>1, <2>1 DEF EIInv, Directory
  <2> QED
    BY <2>2, <2>3
<1>6. Directory'
  BY <1>1, <1>2, <1>4, <1>5 DEF EIInv, Directory
<1>7. Attributed'
  BY <1>2 DEF EIInv, Attributed, InCall
<1> QED
  BY <1>6, <1>7 DEF EIInv, FilesSound

LEMMA CreateEIInv ==
    ASSUME EIInv, NEW t \in Threads, NEW n \in Names, CreateCollection(t, n) PROVE EIInv'
<1>1. Directory' /\ Attributed' /\ FilesSound'
  <2>1. DOMAIN handle' = Threads
    BY DEF CreateCollection, EIInv, Directory
  <2> QED
    BY <2>1, PutName DEF CreateCollection
<1>2. IInv'
  <2>1. DOMAIN EmptyMap = {} /\ IsFiniteSet({})
    BY FS_EmptySet DEF EmptyMap
  <2>2. NoIndex.type = "None" /\ NoIndex = [type |-> NoIndex.type, entries |-> NoIndex.entries]
    BY DEF NoIndex
  <2>3. /\ op[t] = Idle /\ next_tag \in Tags /\ Fresh(EmptyMap, EmptyMap, NoIndex)
        /\ UNCHANGED <<owner, mem, op>> /\ Counted
    BY DEF CreateCollection, Enter
  <2> QED
    BY <2>1, <2>2, <2>3, FreshIInv DEF IndexTypes
<1> QED
  BY <1>1, <1>2 DEF EIInv

LEMMA LoadEIInv ==
    ASSUME EIInv, NEW t \in Threads, NEW path \in Paths, LoadCollection(t, path) PROVE EIInv'
<1>1. /\ op[t] = Idle /\ Counted /\ next_tag \in Tags /\ next_tag' = next_tag + 1
      /\ UNCHANGED <<owner, mem, op, mutex, todo, saving, files>>
  BY DEF LoadCollection, Enter
<1>2. CASE files[path] # NoFile /\ files[path].name \notin DOMAIN collections
  <2> DEFINE view == files[path].view
             mp == [id \in DOMAIN view |-> view[id].vec]
             recs == [id \in DOMAIN view |-> [block |-> Mapped, meta |-> view[id].meta]]
             ix == files[path].index
  <2>1. /\ Fresh(mp, recs, ix)
        /\ collections' = Put(collections, files[path].name, next_tag)
        /\ handle' = [handle EXCEPT ![t] = next_tag]
    BY <1>2 DEF LoadCollection
  <2>2. FileSound(files[path])
    BY <1>2 DEF EIInv, FilesSound
  <2>3. Directory' /\ Attributed' /\ FilesSound'
    <3>1. DOMAIN handle' = Threads
      BY <2>1 DEF EIInv, Directory
    <3> QED
      BY <1>1, <1>2, <2>1, <3>1, PutName
  <2>4. /\ IsFiniteSet(DOMAIN recs) /\ DOMAIN recs \subseteq Ids
        /\ \A id \in DOMAIN recs : recs[id] \in [block: {Mapped}, meta: Metas]
        /\ ix.type \in IndexTypes /\ ix = [type |-> ix.type, entries |-> ix.entries]
        /\ ix.type # "None" => /\ DOMAIN ix.entries = DOMAIN recs
                               /\ \A id \in DOMAIN recs : ix.entries[id] = mp[id]
    BY <2>2 DEF FileSound
  <2> HIDE DEF mp, recs, ix
  <2>5. IInv'
    BY <1>1, <2>1, <2>4, FreshIInv
  <2> QED
    BY <2>3, <2>5 DEF EIInv
<1>3. CASE UNCHANGED <<records, record_count, index, mapped, collections, handle>>
  <2>1. IInv'
    BY <1>1, <1>3, CountedIInv, CountedCalls DEF EIInv
  <2>2. Registered' = Registered
    BY <1>3 DEF Registered
  <2>3. \A n \in DOMAIN collections : collections[n] \in Nat
    BY EngineAssumption DEF EIInv, Directory
  <2>4. Directory'
    BY <1>1, <1>3, <2>2, <2>3 DEF EIInv, Directory
  <2>5. Attributed'
    BY <1>1, <1>3, <2>2 DEF EIInv, Attributed, InCall
  <2>6. FilesSound'
    BY <1>1 DEF EIInv, FilesSound
  <2> QED
    BY <2>1, <2>4, <2>5, <2>6 DEF EIInv
<1> QED
  BY <1>2, <1>3 DEF LoadCollection

\* While the mutex is free no engine call has work left.
LEMMA NothingToDo ==
    ASSUME EIInv, NEW t \in Threads, Enter(t) PROVE \A u \in Threads : todo[u] = {}
  BY EngineAssumption DEF EIInv, Directory, Enter

LEMMA EraseEIInv ==
    ASSUME EIInv, NEW t \in Threads, NEW n \in DOMAIN collections,
           \A u \in Threads : ~InCall(u, collections[n]), EraseCollection(t, n)
    PROVE  EIInv'
<1>1. PICK c \in Tags : c = collections[n]
  BY DEF EIInv, Directory
<1>2. IInv'
  BY <1>1, EraseIInv DEF EraseCollection, Enter
<1>3. /\ DOMAIN collections' = DOMAIN collections \ {n}
      /\ \A x \in DOMAIN collections' : collections'[x] = collections[x]
      /\ collections' = [x \in DOMAIN collections' |-> collections'[x]]
      /\ UNCHANGED <<op, next_tag, mutex, todo, saving, handle, files>>
      /\ owner' = ReleaseAll(c)
  BY <1>1 DEF EraseCollection, Erase
<1>4. Registered' = Registered \ {c}
  BY <1>1, <1>3 DEF EIInv, Directory, Registered
<1>5. Directory'
  <2>1. \A u \in Threads : todo[u] = {}
    BY NothingToDo DEF EraseCollection
  <2> QED
    BY <1>3, <2>1 DEF EIInv, Directory
<1>6. Attributed'
  <2>1. \A u \in Threads, d \in Tags : InCall(u, d)' => d \in Registered'
    BY <1>1, <1>3, <1>4 DEF EIInv, Attributed, InCall
  <2>2. \A b \in Blocks : owner'[b] = NoTag \/ owner'[b] \in Registered'
    BY <1>3, <1>4 DEF EIInv, Attributed, ReleaseAll
  <2> QED
    BY <2>1, <2>2 DEF Attributed
<1>7. FilesSound'
  BY <1>3 DEF EIInv, FilesSound
<1> QED
  BY <1>2, <1>5, <1>6, <1>7 DEF EIInv

\* The steps that touch neither the collections nor the registry.
LEMMA KeptEIInv ==
    ASSUME EIInv,
           UNCHANGED <<records, record_count, index, mapped, owner, mem, op>>,
           calls' \in 0..MaxCalls, UNCHANGED <<collections, next_tag>>, Directory', FilesSound'
    PROVE  EIInv'
<1>1. IInv'
  BY CountedIInv DEF EIInv
<1>2. Attributed'
  BY DEF EIInv, Attributed, InCall, Registered
<1> QED
  BY <1>1, <1>2 DEF EIInv

LEMMA GetEIInv ==
    ASSUME EIInv, NEW t \in Threads, NEW n \in Names, GetCollection(t, n) PROVE EIInv'
<1>1. Directory' /\ FilesSound'
  BY DEF GetCollection, EIInv, Directory, FilesSound, Registered
<1> QED
  BY <1>1, KeptEIInv, CountedCalls DEF GetCollection, EIInv

LEMMA StartListEIInv == ASSUME EIInv, NEW t \in Threads, StartList(t) PROVE EIInv'
<1>1. /\ collections # EmptyMap /\ mutex' = t /\ todo' = [todo EXCEPT ![t] = Registered]
      /\ Counted /\ UNCHANGED <<records, record_count, index, mapped, owner, mem, op>>
      /\ UNCHANGED <<collections, next_tag, saving, handle, files>>
  BY DEF StartList
<1>2. \A u \in Threads : todo[u] = {}
  BY NothingToDo DEF StartList
<1>3. Registered # {} /\ Registered' = Registered
  <2>1. collections = [n \in DOMAIN collections |-> collections[n]]
    BY DEF EIInv, Directory
  <2>2. DOMAIN collections # {}
    BY <1>1, <2>1 DEF EmptyMap
  <2> QED
    BY <1>1, <2>2 DEF Registered
<1>4. Directory'
  BY <1>1, <1>2, <1>3 DEF EIInv, Directory
<1>5. FilesSound'
  BY <1>1 DEF EIInv, FilesSound
<1> QED
  BY <1>1, <1>4, <1>5, KeptEIInv, CountedCalls DEF EIInv

LEMMA StartSaveEIInv ==
    ASSUME EIInv, NEW t \in Threads, NEW n \in Names, NEW path \in Paths,
           StartSave(t, n, path)
    PROVE  EIInv'
<1>1. /\ n \in DOMAIN collections /\ mutex' = t
      /\ todo' = [todo EXCEPT ![t] = {collections[n]}]
      /\ saving' = [saving EXCEPT ![t] = path]
      /\ Counted /\ UNCHANGED <<records, record_count, index, mapped, owner, mem, op>>
      /\ UNCHANGED <<collections, next_tag, handle, files>>
  BY DEF StartSave
<1>2. \A u \in Threads : todo[u] = {}
  BY NothingToDo DEF StartSave
<1>3. {collections[n]} \subseteq Registered /\ Registered' = Registered
  BY <1>1 DEF Registered
<1>4. Directory'
  BY <1>1, <1>2, <1>3 DEF EIInv, Directory
<1>5. FilesSound'
  BY <1>1 DEF EIInv, FilesSound
<1> QED
  BY <1>1, <1>4, <1>5, KeptEIInv, CountedCalls DEF EIInv

\* What can be copied out of a collection under its shared lock can be loaded.
LEMMA SnapshotSound ==
    ASSUME IInv, NEW c \in Tags, CanRead(c) PROVE FileSound(Snapshot(c))
<1>1. Firm(c) = DOMAIN records[c]
  <2>1. \A u \in Threads : InCall(u, c) => Moving(u) = {}
    BY DEF CanRead, Writers, Moving, Writing
  <2> QED
    BY <2>1 DEF Firm
<1>2. /\ DOMAIN records[c] \subseteq Ids /\ IsFiniteSet(DOMAIN records[c])
      /\ \A id \in DOMAIN records[c] : records[c][id].meta \in Metas
      /\ index[c].type \in IndexTypes
      /\ index[c] = [type |-> index[c].type, entries |-> index[c].entries]
  BY DEF IInv, Types, TypeOK
<1>3. index[c].type # "None" =>
        /\ DOMAIN index[c].entries = DOMAIN records[c]
        /\ \A id \in DOMAIN records[c] : index[c].entries[id] = VectorAt(c, id)
  BY <1>1 DEF IInv, Indexed
<1>4. /\ DOMAIN View(c) = DOMAIN records[c]
      /\ \A id \in DOMAIN records[c] : /\ View(c)[id].vec = VectorAt(c, id)
                                       /\ View(c)[id].meta = records[c][id].meta
  BY DEF View
<1>5. /\ Snapshot(c).view = View(c) /\ Snapshot(c).index = index[c]
      /\ Snapshot(c) = [name |-> Snapshot(c).name, view |-> View(c), index |-> index[c]]
  BY DEF Snapshot
<1>6. View(c) = [id \in DOMAIN View(c) |-> [vec |-> View(c)[id].vec, meta |-> View(c)[id].meta]]
  BY DEF View
<1> QED
  BY <1>2, <1>3, <1>4, <1>5, <1>6 DEF FileSound

LEMMA InspectEIInv == ASSUME EIInv, NEW t \in Threads, Inspect(t) PROVE EIInv'
<1>1. PICK c \in todo[t] :
        /\ CanRead(c)
        /\ todo' = [todo EXCEPT ![t] = @ \ {c}]
        /\ mutex' = IF todo[t] = {c} THEN NoTag ELSE mutex
        /\ saving' = [saving EXCEPT ![t] = NoFile]
        /\ \/ saving[t] # NoFile /\ files' = [files EXCEPT ![saving[t]] = Snapshot(c)]
           \/ UNCHANGED files
        /\ UNCHANGED <<vars, collections, next_tag, handle>>
  BY DEF Inspect
<1>2. c \in Registered /\ mutex = t /\ Registered' = Registered
  BY <1>1 DEF EIInv, Directory, Registered
<1>3. c \in Tags
  BY <1>2 DEF EIInv, Directory, Registered
<1>4. \A u \in Threads \ {t} : todo[u] = {} /\ todo'[u] = {}
  BY <1>1, <1>2 DEF EIInv, Directory
<1>5. todo'[t] = todo[t] \ {c}
  BY <1>1 DEF EIInv, Directory
<1>6. \A u \in Threads : (todo'[u] # {} <=> mutex' = u) /\ todo'[u] \subseteq Registered
  <2>1. CASE todo[t] = {c}
    <3>1. todo'[t] = {} /\ mutex' = NoTag
      BY <1>1, <1>5, <2>1
    <3> QED
      BY <1>4, <3>1, EngineAssumption
  <2>2. CASE todo[t] # {c}
    <3>1. todo'[t] # {} /\ mutex' = t
      BY <1>1, <1>2, <1>5, <2>2
    <3> QED
      BY <1>4, <1>5, <3>1 DEF EIInv, Directory
  <2> QED
    BY <2>1, <2>2
<1>7. Directory'
  BY <1>1, <1>2, <1>6 DEF EIInv, Directory
<1>8. FilesSound'
  <2>1. FileSound(Snapshot(c))
    BY <1>1, <1>3, SnapshotSound DEF EIInv
  <2>2. \A path \in Paths : files'[path] = files[path] \/ files'[path] = Snapshot(c)
    BY <1>1 DEF EIInv, Directory
  <2>3. \A path \in Paths : files'[path] # NoFile => FileSound(files'[path])
    BY <2>1, <2>2 DEF EIInv, FilesSound
  <2> QED
    BY <2>3 DEF FilesSound
<1>9. calls' \in 0..MaxCalls /\ UNCHANGED <<records, record_count, index, mapped, owner, mem, op>>
  BY <1>1 DEF vars, EIInv, IInv, TypeOK
<1> QED
  BY <1>1, <1>7, <1>8, <1>9, KeptEIInv

\* A step of a call in a registered collection.
LEMMA CallEIInv ==
    ASSUME EIInv, IInv', UNCHANGED engine,
           \A u \in Threads : op'[u] = op[u] \/ op'[u] = Idle \/ op'[u].c \in Registered,
           \A b \in Blocks : owner'[b] \in {owner[b], NoTag} \cup Registered
    PROVE  EIInv'
<1>1. Registered' = Registered
  BY DEF engine, Registered
<1>2. Directory'
  BY <1>1 DEF EIInv, Directory, engine
<1>3. Attributed'
  <2>1. \A u \in Threads, c \in Tags : InCall(u, c)' => c \in Registered
    BY DEF EIInv, Attributed, InCall
  <2>2. \A b \in Blocks : owner'[b] = NoTag \/ owner'[b] \in Registered
    BY DEF EIInv, Attributed
  <2> QED
    BY <1>1, <2>1, <2>2 DEF Attributed
<1>4. FilesSound'
  BY DEF EIInv, FilesSound, engine
<1> QED
  BY <1>2, <1>3, <1>4 DEF EIInv

LEMMA ContinueEIInv == ASSUME EIInv, NEW t \in Threads, ContinueCall(t) PROVE EIInv'
<1>1. Continue(t) /\ UNCHANGED engine
  BY DEF ContinueCall
<1>2. IInv' /\ Apart(t)
  BY <1>1, ContinueIInv DEF EIInv
<1>3. op[t] # Idle
  BY <1>1 DEF Continue, Stage, StageFails, Rollback, ReleaseOld, Install, EraseRecord,
              EndRead, Idle
<1>4. PICK c \in Tags : op[t].c = c /\ Alone(t, c) /\ StepOf(t, c)
  BY <1>2, <1>3, CallApart
<1>5. c \in Registered
  BY <1>3, <1>4 DEF EIInv, Attributed, InCall
<1>6. \A u \in Threads : op'[u] = op[u] \/ op'[u] = Idle \/ op'[u].c \in Registered
  BY <1>4, <1>5 DEF StepOf
<1>7. \A b \in Blocks : owner'[b] \in {owner[b], NoTag} \cup Registered
  BY <1>4, <1>5 DEF StepOf
<1> QED
  BY <1>1, <1>2, <1>6, <1>7, CallEIInv

\* A call begins in a registered collection.
LEMMA BeginEIInv ==
    ASSUME EIInv, NEW t \in Threads, NEW c \in Registered, Begin(t, c), UNCHANGED engine
    PROVE  EIInv'
<1>1. c \in Tags
  BY DEF EIInv, Directory, Registered
<1>2. IInv'
  BY <1>1, BeginIInv DEF EIInv
<1>3. DOMAIN op = Threads /\ DOMAIN owner = Blocks
  BY DEF EIInv, IInv, Types, TypeOK
<1>4. \A u \in Threads : op'[u] = op[u] \/ op'[u] = Idle \/ op'[u].c \in Registered
  BY <1>3 DEF Begin, StartInsert, StartRemove, RemoveMissing, BuildIndex, BuildRejected,
              StartRead, vars
<1>5. \A b \in Blocks : owner'[b] \in {owner[b], NoTag} \cup Registered
  BY <1>3 DEF Begin, StartInsert, StartRemove, RemoveMissing, BuildIndex, BuildRejected,
              StartRead, vars, Released
<1> QED
  BY <1>2, <1>4, <1>5, CallEIInv

LEMMA EStutter == ASSUME EIInv, UNCHANGED evars PROVE EIInv'
<1>1. IInv'
  BY StutterIInv DEF EIInv, evars
<1> QED
  BY <1>1, CallEIInv DEF evars, vars

LEMMA EInitEIInv == ASSUME EInit PROVE EIInv
<1>1. IInv
  BY InitIInv DEF EInit
<1>2. Directory
  <2>1. DOMAIN collections = {} /\ collections = [n \in DOMAIN collections |-> collections[n]]
    BY DEF EInit, EmptyMap
  <2>2. \A t \in Threads : todo[t] = {} /\ mutex # t
    BY EngineAssumption DEF EInit
  <2>3. /\ next_tag \in Nat /\ DOMAIN todo = Threads /\ DOMAIN handle = Threads
        /\ saving \in [Threads -> Paths \cup {NoFile}] /\ DOMAIN files = Paths
    BY DEF EInit
  <2> QED
    BY <2>1, <2>2, <2>3 DEF Directory
<1>3. Attributed
  BY DEF EInit, Init, Attributed, InCall
<1>4. FilesSound
  BY DEF EInit, FilesSound
<1> QED
  BY <1>1, <1>2, <1>3, <1>4 DEF EIInv

LEMMA ENextEIInv == ASSUME EIInv, [ENext]_evars PROVE EIInv'
<1>1. CASE ENext
  <2>1. PICK t \in Threads :
          \/ \E n \in Names : \/ CreateCollection(t, n) \/ GetCollection(t, n)
                              \/ Refused(t, n) \/ DeleteCollection(t, n)
                              \/ \E path \in Paths : StartSave(t, n, path)
          \/ StartList(t)
          \/ Inspect(t)
          \/ \E path \in Paths : LoadCollection(t, path)
          \/ UseHandle(t)
          \/ ContinueCall(t)
    BY <1>1 DEF ENext
  <2>2. ASSUME NEW n \in Names,
               \/ CreateCollection(t, n) \/ GetCollection(t, n)
               \/ Refused(t, n) \/ DeleteCollection(t, n)
               \/ \E path \in Paths : StartSave(t, n, path)
        PROVE  EIInv'
    BY <2>2, CreateEIInv, GetEIInv, EStutter, EraseEIInv, StartSaveEIInv
       DEF Refused, DeleteCollection
  <2>3. CASE UseHandle(t)
    BY <2>3, BeginEIInv DEF UseHandle
  <2> QED
    BY <2>1, <2>2, <2>3, StartListEIInv, InspectEIInv, LoadEIInv, ContinueEIInv
<1> QED
  BY <1>1, EStutter

\* Safety needs none of the fairness of ESpec.
LEMMA EInductive == EInit /\ [][ENext]_evars => []EIInv
<1>1. EInit => EIInv
  BY EInitEIInv
<1>2. EIInv /\ [ENext]_evars => EIInv'
  BY ENextEIInv
<1> QED
  BY <1>1, <1>2, PTL

-----------------------------------------------------------------------------
(* The theorems about the engine                                            *)

LEMMA RegistryKept == ASSUME EIInv PROVE RegistrySound
<1>1. IndexAgrees
  BY IndexKept DEF EIInv
<1>2. \A c \in Registered : c < next_tag
  BY DEF EIInv, Directory, Registered
<1> QED
  BY <1>1, <1>2 DEF EIInv, Directory, RegistrySound

LEMMA BlocksKept == ASSUME EIInv PROVE NoOrphanBlocks
<1>1. BlocksAccounted
  BY Accounted DEF EIInv
<1> QED
  BY <1>1 DEF EIInv, Attributed, NoOrphanBlocks

\* Only creating, loading and deleting change the registry, each at its own tag.
LEMMA OthersIsolated ==
    ASSUME EIInv, [ENext]_evars, collections' # collections, NEW c \in Registered,
           c \in Registered'
    PROVE  /\ View(c)' = View(c) /\ index'[c] = index[c]
           /\ \A b \in Blocks : owner[b] = c <=> owner'[b] = c
<1>1. c \in Tags
  BY DEF EIInv, Directory, Registered
<1>2. DOMAIN records = Tags /\ DOMAIN index = Tags /\ DOMAIN mapped = Tags
      /\ DOMAIN owner = Blocks
  BY DEF EIInv, IInv, Types, TypeOK
<1>3. ASSUME NEW d, d # c, NEW recs, NEW ix, NEW mp,
             records' = [records EXCEPT ![d] = recs], index' = [index EXCEPT ![d] = ix],
             mapped' = [mapped EXCEPT ![d] = mp], mem' = mem
      PROVE  View(c)' = View(c) /\ index'[c] = index[c]
  <2>1. records'[c] = records[c] /\ index'[c] = index[c] /\ mapped'[c] = mapped[c]
    BY <1>1, <1>2, <1>3
  <2> QED
    BY <1>3, <2>1 DEF View, VectorAt
<1>4. next_tag \in Tags => next_tag # c
  BY NextTagFresh
<1>5. ASSUME NEW t \in Threads, NEW n \in Names, CreateCollection(t, n)
      PROVE  /\ View(c)' = View(c) /\ index'[c] = index[c]
             /\ \A b \in Blocks : owner[b] = c <=> owner'[b] = c
  BY <1>3, <1>4, <1>5 DEF CreateCollection, Fresh
<1>6. ASSUME NEW t \in Threads, NEW path \in Paths, LoadCollection(t, path)
      PROVE  /\ View(c)' = View(c) /\ index'[c] = index[c]
             /\ \A b \in Blocks : owner[b] = c <=> owner'[b] = c
  <2>1. next_tag # c /\ owner' = owner /\ mem' = mem
    BY <1>4, <1>6 DEF LoadCollection
  <2>2. PICK recs, ix, mp : Fresh(mp, recs, ix)
    BY <1>6 DEF LoadCollection
  <2> QED
    BY <1>3, <2>1, <2>2 DEF Fresh
<1>7. ASSUME NEW t \in Threads, NEW n \in Names, DeleteCollection(t, n)
      PROVE  /\ View(c)' = View(c) /\ index'[c] = index[c]
             /\ \A b \in Blocks : owner[b] = c <=> owner'[b] = c
  <2>1. n \in DOMAIN collections /\ EraseCollection(t, n)
    BY <1>7 DEF DeleteCollection
  <2>2. PICK d \in Tags : d = collections[n]
    BY <2>1 DEF EIInv, Directory
  <2>3. collections' = Erase(collections, n)
    BY <2>1 DEF EraseCollection
  <2>4. d # c
    BY <2>1, <2>2, <2>3 DEF EIInv, Directory, Registered, Erase
  <2>5. /\ owner' = ReleaseAll(d) /\ mem' = mem
        /\ records' = [records EXCEPT ![d] = EmptyMap]
        /\ index' = [index EXCEPT ![d] = NoIndex]
        /\ mapped' = [mapped EXCEPT ![d] = EmptyMap]
    BY <2>1, <2>2 DEF EraseCollection
  <2>6. View(c)' = View(c) /\ index'[c] = index[c]
    BY <1>3, <2>4, <2>5
  <2>7. \A b \in Blocks : owner[b] = c <=> owner'[b] = c
    BY <1>1, <2>4, <2>5, TagAssumption DEF ReleaseAll
  <2> QED
    BY <2>6, <2>7
<1>8. \/ \E t \in Threads, n \in Names : CreateCollection(t, n) \/ DeleteCollection(t, n)
      \/ \E t \in Threads, path \in Paths : LoadCollection(t, path)
  BY DEF ENext, GetCollection, Refused, StartSave, StartList, Inspect, UseHandle,
         ContinueCall, evars, engine
<1> QED
  BY <1>5, <1>6, <1>7, <1>8

\* A tag names one collection and is never handed out again, engine work under
\* the mutex is on registered collections, and every index agrees with its
\* records, whether it was built, grown or loaded (engine.cpp:79, 143-146, 166).
THEOREM RegistryIsSound == ESpec => []RegistrySound
<1>1. EIInv => RegistrySound
  BY RegistryKept
<1> QED
  BY <1>1, EInductive, PTL DEF ESpec

\* Every block in use is attributed to a registered collection that refers to it
\* exactly once: deletions and refused loads leave none behind
\* (engine.cpp:108-112, 170-188).
THEOREM NoBlockOrphaned == ESpec => []NoOrphanBlocks
<1>1. EIInv => NoOrphanBlocks
  BY BlocksKept
<1> QED
  BY <1>1, EInductive, PTL DEF ESpec

LEMMA OthersKeptApart == EInit /\ [][ENext]_evars => RegistryChangeIsolated
<1>1. ASSUME EIInv, [ENext]_evars
      PROVE  [collections' # collections =>
                 \A c \in Registered :
                     c \in {collections'[n] : n \in DOMAIN collections'} =>
                        /\ View(c)' = View(c) /\ index'[c] = index[c]
                        /\ \A b \in Blocks : owner[b] = c <=> owner'[b] = c]_evars
  <2>1. Registered' = {collections'[n] : n \in DOMAIN collections'}
    BY DEF Registered
  <2> QED
    BY <1>1, <2>1, OthersIsolated
<1> QED
  BY <1>1, EInductive, PTL DEF RegistryChangeIsolated

\* Registering or dropping a collection leaves the contents, the index and the
\* blocks of every other one alone (engine.cpp:110-112, 184).
THEOREM OthersUntouched == ESpec => RegistryChangeIsolated
  BY OthersKeptApart, PTL DEF ESpec

-----------------------------------------------------------------------------
(* What the collections' steps promise, inside the engine                   *)

\* A step of the engine registers or drops a collection, or leaves all records,
\* indexes, blocks and calls alone, or is a step of a call through a handle.
LEMMA EngineSteps ==
    ASSUME EIInv, [ENext]_evars
    PROVE  \/ collections' # collections /\ UNCHANGED <<op, mem>>
           \/ UNCHANGED <<records, record_count, index, mapped, owner, mem, op>>
           \/ UNCHANGED engine /\ Next
<1>1. ASSUME NEW n, NEW v, n \notin DOMAIN collections, collections' = Put(collections, n, v)
      PROVE  collections' # collections
  BY <1>1 DEF Put
<1>2. ASSUME NEW n, n \in DOMAIN collections, collections' = Erase(collections, n)
      PROVE  collections' # collections
  BY <1>2 DEF Erase
<1>3. ASSUME NEW t \in Threads, NEW n \in Names, CreateCollection(t, n)
      PROVE  collections' # collections /\ UNCHANGED <<op, mem>>
  BY <1>1, <1>3 DEF CreateCollection
<1>4. ASSUME NEW t \in Threads, NEW n \in Names, DeleteCollection(t, n)
      PROVE  collections' # collections /\ UNCHANGED <<op, mem>>
  BY <1>2, <1>4 DEF DeleteCollection, EraseCollection
<1>5. ASSUME NEW t \in Threads, NEW path \in Paths, LoadCollection(t, path)
      PROVE  \/ collections' # collections /\ UNCHANGED <<op, mem>>
             \/ UNCHANGED <<records, record_count, index, mapped, owner, mem, op>>
  BY <1>1, <1>5 DEF LoadCollection
<1>6. ASSUME NEW t \in Threads, ContinueCall(t) PROVE UNCHANGED engine /\ Next
  BY <1>6 DEF ContinueCall, Next
<1>7. ASSUME NEW t \in Threads, UseHandle(t) PROVE UNCHANGED engine /\ Next
  <2>1. handle[t] \in Tags
    BY <1>7 DEF UseHandle, EIInv, Directory, Registered
  <2> QED
    BY <1>7, <2>1 DEF UseHandle, Next
<1>8. ASSUME NEW t \in Threads,
             \/ \E n \in Names : GetCollection(t, n) \/ Refused(t, n)
             \/ \E n \in Names, path \in Paths : StartSave(t, n, path)
             \/ StartList(t) \/ Inspect(t)
      PROVE  UNCHANGED <<records, record_count, index, mapped, owner, mem, op>>
  BY <1>8 DEF GetCollection, Refused, StartSave, StartList, Inspect, evars, vars
<1>9. CASE ENext
  <2>1. PICK t \in Threads :
          \/ \E n \in Names : \/ CreateCollection(t, n) \/ GetCollection(t, n)
                              \/ Refused(t, n) \/ DeleteCollection(t, n)
                              \/ \E path \in Paths : StartSave(t, n, path)
          \/ StartList(t)
          \/ Inspect(t)
          \/ \E path \in Paths : LoadCollection(t, path)
          \/ UseHandle(t)
          \/ ContinueCall(t)
    BY <1>9 DEF ENext
  <2>2. ASSUME NEW n \in Names, CreateCollection(t, n) \/ DeleteCollection(t, n)
        PROVE  collections' # collections /\ UNCHANGED <<op, mem>>
    BY <1>3, <1>4, <2>2
  <2> QED
    BY <1>5, <1>6, <1>7, <1>8, <2>1, <2>2
<1>10. UNCHANGED evars => UNCHANGED <<records, record_count, index, mapped, owner, mem, op>>
  BY DEF evars, vars
<1> QED
  BY <1>9, <1>10

\* Through the engine, too, a reader sees one state.
LEMMA EngineReaders ==
    ASSUME EIInv, [ENext]_evars, NEW t \in Threads, op[t].pc = "read", op'[t] = op[t],
           NEW c \in Tags, op[t].c = c
    PROVE  View(c)' = View(c) /\ index'[c] = index[c]
<1>1. InCall(t, c) /\ InCall(t, c)'
  BY DEF InCall, Idle
<1>2. c \in Registered /\ c \in Registered'
  <2>1. EIInv'
    BY ENextEIInv
  <2> QED
    BY <1>1, <2>1 DEF EIInv, Attributed
<1>3. CASE collections' # collections
  BY <1>2, <1>3, OthersIsolated
<1>4. CASE UNCHANGED <<records, record_count, index, mapped, owner, mem, op>>
  BY <1>4 DEF View, VectorAt
<1>5. CASE Next
  BY <1>5, ReaderSame DEF EIInv
<1> QED
  BY <1>3, <1>4, <1>5, EngineSteps

LEMMA CallShrinks ==
    ASSUME EIInv, [ENext]_evars, NEW t \in Threads, op[t] # Idle, op'[t] # op[t]
    PROVE  StepsLeft(op'[t]) \in 0..StepsLeft(op[t]) - 1
<1>1. Next
  BY EngineSteps
<1> QED
  BY <1>1, CallsMove, ContinueShrinks DEF EIInv

LEMMA EngineRefines ==
    ASSUME EIInv, [ENext]_evars, collections' = collections
    PROVE  [S!Next]_S!vars
<1>1. CASE UNCHANGED <<records, record_count, index, mapped, owner, mem, op>>
  BY <1>1, UnreadRefines
<1>2. CASE Next
  BY <1>2, NextRefines DEF EIInv
<1>3. UNCHANGED <<records, record_count, index, mapped, owner, mem, op>> \/ Next
  BY EngineSteps
<1> QED
  BY <1>1, <1>2, <1>3

LEMMA ContinuesCall == ASSUME NEW t \in Threads, Continue(t) PROVE op[t] # Idle
  BY DEF Continue, Stage, StageFails, Rollback, ReleaseOld, Install, EraseRecord, EndRead, Idle

\* A thread that works for the engine is in no collection, and the mutex is held
\* by a thread.
Waiting == /\ mutex \in Threads \cup {NoTag}
           /\ \A t \in Threads : todo[t] = {} \/ op[t] = Idle

LEMMA ENextWaiting == ASSUME EIInv, Waiting, [ENext]_evars PROVE Waiting'
<1> USE DEF Waiting
<1>1. DOMAIN todo = Threads /\ DOMAIN op = Threads
  BY DEF EIInv, IInv, Types, Directory
<1>2. CASE UNCHANGED <<op, mutex, todo>>
  BY <1>2
<1>3. ASSUME NEW t \in Threads, StartList(t) \/ \E n \in Names, path \in Paths : StartSave(t, n, path)
      PROVE  Waiting'
  <2>1. op[t] = Idle /\ op' = op /\ mutex' = t
    BY <1>3 DEF StartList, StartSave, Enter
  <2>2. \A u \in Threads \ {t} : todo'[u] = todo[u]
    BY <1>1, <1>3 DEF StartList, StartSave
  <2> QED
    BY <2>1, <2>2
<1>4. ASSUME NEW t \in Threads, Inspect(t) PROVE Waiting'
  <2>1. PICK c \in todo[t] : /\ todo' = [todo EXCEPT ![t] = @ \ {c}]
                             /\ mutex' = IF todo[t] = {c} THEN NoTag ELSE mutex
                             /\ op' = op
    BY <1>4 DEF Inspect, vars
  <2>2. \A u \in Threads : todo'[u] \subseteq todo[u]
    BY <1>1, <2>1
  <2> QED
    BY <2>1, <2>2
<1>5. ASSUME NEW t \in Threads, UseHandle(t) \/ ContinueCall(t) PROVE Waiting'
  <2>1. UNCHANGED engine /\ (Apart(t) \/ UNCHANGED vars)
    BY <1>5, ContinueIInv, BeginIInv DEF UseHandle, ContinueCall, EIInv, Directory, Registered
  <2>2. todo[t] = {}
    BY <1>5, ContinuesCall DEF UseHandle, ContinueCall
  <2>3. \A u \in Threads \ {t} : op'[u] = op[u]
    BY <2>1 DEF Apart, StepOf, vars
  <2> QED
    BY <2>1, <2>2, <2>3 DEF engine
<1>6. ASSUME NEW t \in Threads,
             \/ \E n \in Names : \/ CreateCollection(t, n) \/ GetCollection(t, n)
                                 \/ Refused(t, n) \/ DeleteCollection(t, n)
             \/ \E path \in Paths : LoadCollection(t, path)
      PROVE  UNCHANGED <<op, mutex, todo>>
  BY <1>6 DEF CreateCollection, GetCollection, Refused, DeleteCollection, EraseCollection,
              LoadCollection, evars, vars, engine
<1>7. UNCHANGED evars => UNCHANGED <<op, mutex, todo>>
  BY DEF evars, vars, engine
<1> QED
  BY <1>2, <1>3, <1>4, <1>5, <1>6, <1>7 DEF ENext

\* Nobody waits for a thread that waits, for the registry or for a collection.
LEMMA NobodyWaits == ASSUME EIInv, Waiting PROVE NoWaitCycle
<1>1. mutex # NoTag => mutex \in Threads /\ todo[mutex] # {}
  BY DEF Waiting, EIInv, Directory
<1>2. \A t \in Threads : \A c \in todo[t] : \A u \in Writers(c) : todo[u] = {}
  BY DEF Waiting, Writers, InCall
<1>3. ASSUME NEW t \in Threads
      PROVE  \/ op[t].pc \in {"idle", "read", "erase", "stage", "release_old"}
             \/ op[t].pc = "rollback" /\ op[t].staged # << >>
             \/ op[t].pc = "install" /\ Current(t).id \in DOMAIN records[op[t].c]
  <2>1. CallSound(t) /\ op[t].pc \in Writing \cup {"idle", "read"}
    BY DEF EIInv, IInv, CallsSound, TypeOK
  <2> QED
    BY <2>1 DEF CallSound, Writing
<1> QED
  BY <1>1, <1>2, <1>3 DEF NoWaitCycle

LEMMA EWaiting == EInit /\ [][ENext]_evars => []Waiting
<1>1. EInit => Waiting
  BY DEF EInit, Waiting
<1>2. EIInv /\ Waiting /\ [ENext]_evars => Waiting'
  BY ENextWaiting
<1> QED
  BY <1>1, <1>2, EInductive, PTL

\* No circle of threads that wait for each other: the holder of the engine mutex
\* waits for writers of a collection, who wait for nobody (engine.cpp:118-124,
\* 146-155).
THEOREM NoDeadlock == ESpec => []NoWaitCycle
<1>1. EIInv /\ Waiting => NoWaitCycle
  BY NobodyWaits
<1> QED
  BY <1>1, EInductive, EWaiting, PTL DEF ESpec

\* What an engine call has still to read only gets less.
EngineCallsShrink == [][\A t \in Threads : todo[t] # {} => todo'[t] \subseteq todo[t]]_evars

LEMMA TodoShrinks ==
    ASSUME EIInv, [ENext]_evars, NEW t \in Threads, todo[t] # {}
    PROVE  todo'[t] \subseteq todo[t]
<1>1. DOMAIN todo = Threads
  BY DEF EIInv, Directory
<1>2. ASSUME NEW u \in Threads,
             StartList(u) \/ \E n \in Names, path \in Paths : StartSave(u, n, path)
      PROVE  todo'[t] \subseteq todo[t]
  <2>1. u # t
    BY <1>2 DEF StartList, StartSave, Enter
  <2> QED
    BY <1>1, <1>2, <2>1 DEF StartList, StartSave
<1>3. ASSUME NEW u \in Threads, Inspect(u) PROVE todo'[t] \subseteq todo[t]
  <2>1. PICK c : todo' = [todo EXCEPT ![u] = @ \ {c}]
    BY <1>3 DEF Inspect
  <2> QED
    BY <1>1, <2>1
<1>4. ASSUME NEW u \in Threads,
             \/ \E n \in Names : \/ CreateCollection(u, n) \/ GetCollection(u, n)
                                 \/ Refused(u, n) \/ DeleteCollection(u, n)
             \/ \E path \in Paths : LoadCollection(u, path)
             \/ UseHandle(u) \/ ContinueCall(u)
      PROVE  todo' = todo
  BY <1>4 DEF CreateCollection, GetCollection, Refused, DeleteCollection, EraseCollection,
              LoadCollection, UseHandle, ContinueCall, evars, engine
<1>5. CASE UNCHANGED evars
  BY <1>5 DEF evars, engine
<1>6. CASE ENext
  <2>1. PICK u \in Threads :
          \/ \E n \in Names : \/ CreateCollection(u, n) \/ GetCollection(u, n)
                              \/ Refused(u, n) \/ DeleteCollection(u, n)
                              \/ \E path \in Paths : StartSave(u, n, path)
          \/ StartList(u)
          \/ Inspect(u)
          \/ \E path \in Paths : LoadCollection(u, path)
          \/ UseHandle(u)
          \/ ContinueCall(u)
    BY <1>6 DEF ENext
  <2> QED
    BY <1>2, <1>3, <1>4, <2>1
<1> QED
  BY <1>5, <1>6

\* While the registry stays as it is, the stores of all collections move only as
\* VectorStore allows, whoever owned their blocks before: listing, saving and a
\* load that fails change no record (engine.cpp:116-188).
StoresMoveAlone == [][collections' = collections => [S!Next]_(S!vars)]_evars

\* The engine's steps, without its fairness, keep what the collections promise.
LEMMA EngineKeeps ==
    EInit /\ [][ENext]_evars =>
        ReadersStable /\ CallsShrink /\ EngineCallsShrink /\ StoresMoveAlone
<1>1. ASSUME EIInv, [ENext]_evars
      PROVE  [\A t \in Threads :
                 op[t].pc = "read" /\ op'[t] = op[t] =>
                     LET c == op[t].c
                     IN  View(c)' = View(c) /\ index'[c] = index[c]]_vars
  <2> SUFFICES ASSUME NEW t \in Threads, op[t].pc = "read", op'[t] = op[t]
               PROVE  /\ View(op[t].c)' = View(op[t].c)
                      /\ index'[op[t].c] = index[op[t].c]
    OBVIOUS
  <2>1. PICK c \in Tags : op[t].c = c
    BY <1>1, InCallAlone DEF Idle, EIInv
  <2>2. View(c)' = View(c) /\ index'[c] = index[c]
    BY <1>1, <2>1, EngineReaders
  <2>3. View(op[t].c)' = View(c)'
    BY <2>1 DEF View, VectorAt
  <2> QED
    BY <2>1, <2>2, <2>3
<1>2. ASSUME EIInv, [ENext]_evars
      PROVE  [\A t \in Threads :
                 op[t] # Idle /\ op'[t] # op[t] =>
                     StepsLeft(op'[t]) \in 0..StepsLeft(op[t]) - 1]_vars
  BY <1>2, CallShrinks
<1>3. ASSUME EIInv, [ENext]_evars
      PROVE  [\A t \in Threads : todo[t] # {} => todo'[t] \subseteq todo[t]]_evars
  BY <1>3, TodoShrinks
<1>4. ASSUME EIInv, [ENext]_evars
      PROVE  [collections' = collections => [S!Next]_S!vars]_evars
  BY <1>4, EngineRefines
<1>5. EInit /\ [][ENext]_evars => ReadersStable
  BY <1>1, EInductive, PTL DEF ReadersStable
<1>6. EInit /\ [][ENext]_evars => CallsShrink
  BY <1>2, EInductive, PTL DEF CallsShrink
<1>7. EInit /\ [][ENext]_evars => EngineCallsShrink
  BY <1>3, EInductive, PTL DEF EngineCallsShrink
<1>8. EInit /\ [][ENext]_evars => StoresMoveAlone
  BY <1>4, EInductive, PTL DEF StoresMoveAlone
<1> QED
  BY <1>5, <1>6, <1>7, <1>8

\* Readers see one state in the engine, too, while other threads create, load and
\* delete collections and their blocks change hands (engine.cpp:38-114, 158-195).
THEOREM ReadersUndisturbedInEngine == ESpec => ReadersStable
  BY EngineKeeps, PTL DEF ESpec

\* What the engine adds around the collections does not show in their stores, so
\* that batches stay atomic and removals exact under it (engine.cpp:116-188).
THEOREM StoresAtomicInEngine == ESpec => StoresMoveAlone
  BY EngineKeeps, PTL DEF ESpec

\* Every call through a handle takes a bounded number of steps in the engine, too,
\* and list and save read each of their collections once (engine.cpp:116-155).
THEOREM CallsEndInEngine == ESpec => CallsShrink /\ EngineCallsShrink
  BY EngineKeeps, PTL DEF ESpec

-----------------------------------------------------------------------------
(* Saving and loading                                                       *)

\* What a collection without a writer holds is what a reader copies out.
LEMMA AtRest ==
    ASSUME NEW c \in Tags
    PROVE  /\ Writers(c) = {} => Committed(c) = View(c)
           /\ Writers(c)' = {} => Committed(c)' = View(c)'
<1>1. Writers(c) = {} => Committed(c) = View(c)
  <2> SUFFICES ASSUME Writers(c) = {} PROVE Committed(c) = View(c)
    OBVIOUS
  <2>1. Settled(c) = DOMAIN records[c]
    BY DEF Settled, InTransit
  <2>2. Committed(c) = [id \in DOMAIN records[c] |-> View(c)[id]]
    BY <2>1 DEF Committed
  <2> QED
    BY <2>2 DEF View
<1>2. Writers(c)' = {} => Committed(c)' = View(c)'
  <2> SUFFICES ASSUME Writers(c)' = {} PROVE Committed(c)' = View(c)'
    OBVIOUS
  <2>1. Settled(c)' = DOMAIN records'[c]
    BY DEF Settled, InTransit
  <2>2. Committed(c)' = [id \in DOMAIN records'[c] |-> View(c)'[id]]
    BY <2>1 DEF Committed
  <2> QED
    BY <2>2 DEF View
<1> QED
  BY <1>1, <1>2

\* A collection made under the next tag holds what it is made of.
LEMMA FreshContents ==
    ASSUME EIInv, NEW c \in Tags, c = next_tag, UNCHANGED op,
           NEW mp, NEW recs, NEW ix, Fresh(mp, recs, ix),
           \A id \in DOMAIN recs : recs[id].block = Mapped
    PROVE  /\ Committed(c)' = [id \in DOMAIN recs |-> [vec |-> mp[id], meta |-> recs[id].meta]]
           /\ index'[c] = ix
<1>1. records'[c] = recs /\ index'[c] = ix /\ mapped'[c] = mp
  BY DEF Fresh, EIInv, IInv, Types
<1>2. Writers(c)' = {}
  BY NextTagFresh DEF Writers, InCall
<1>3. View(c)' = [id \in DOMAIN recs |-> [vec |-> mp[id], meta |-> recs[id].meta]]
  BY <1>1 DEF View, VectorAt
<1> QED
  BY <1>1, <1>2, <1>3, AtRest

\* A step that saves writes a state between two calls.
LEMMA SaveExact ==
    ASSUME EIInv, NEW t \in Threads, Inspect(t), NEW path \in Paths, files'[path] # files[path]
    PROVE  \E n \in DOMAIN collections :
              files'[path] = [name |-> n, view |-> Committed(collections[n]),
                              index |-> index[collections[n]]]
<1>1. PICK c \in todo[t] : /\ CanRead(c)
                           /\ \/ files' = [files EXCEPT ![saving[t]] = Snapshot(c)]
                              \/ UNCHANGED files
  BY DEF Inspect
<1>2. files'[path] = Snapshot(c)
  BY <1>1 DEF EIInv, Directory
<1>3. c \in Registered /\ c \in Tags
  BY <1>1 DEF EIInv, Directory, Registered
<1>4. NameOf(c) \in DOMAIN collections /\ collections[NameOf(c)] = c
  BY <1>3 DEF Registered, NameOf
<1>5. Committed(c) = View(c)
  BY <1>1, <1>3, AtRest DEF CanRead
<1> QED
  BY <1>2, <1>4, <1>5 DEF Snapshot

\* A step that registers a name does so for an empty collection, or for what was
\* saved under that name.
LEMMA LoadExact ==
    ASSUME EIInv, NEW t \in Threads, NEW c \in Tags,
           NEW n \in DOMAIN collections', n \notin DOMAIN collections, c = collections'[n],
           \/ \E x \in Names : CreateCollection(t, x)
           \/ \E path \in Paths : LoadCollection(t, path)
    PROVE  \/ Committed(c)' = EmptyMap /\ index'[c] = NoIndex
           \/ \E path \in Paths :
                 files[path] = [name |-> n, view |-> Committed(c)', index |-> index'[c]]
<1>1. ASSUME NEW x, collections' = Put(collections, x, next_tag) PROVE n = x /\ c = next_tag
  BY <1>1 DEF Put
<1>2. ASSUME NEW x \in Names, CreateCollection(t, x)
      PROVE  Committed(c)' = EmptyMap /\ index'[c] = NoIndex
  <2>1. c = next_tag /\ Fresh(EmptyMap, EmptyMap, NoIndex) /\ UNCHANGED op
    BY <1>1, <1>2 DEF CreateCollection
  <2>2. DOMAIN EmptyMap = {}
    BY DEF EmptyMap
  <2>3. /\ Committed(c)' = [id \in DOMAIN EmptyMap |->
                              [vec |-> EmptyMap[id], meta |-> EmptyMap[id].meta]]
        /\ index'[c] = NoIndex
    BY <2>1, <2>2, FreshContents
  <2> QED
    BY <2>2, <2>3 DEF EmptyMap
<1>3. ASSUME NEW path \in Paths, LoadCollection(t, path)
      PROVE  files[path] = [name |-> n, view |-> Committed(c)', index |-> index'[c]]
  <2> DEFINE f == files[path]
             mp == [id \in DOMAIN f.view |-> f.view[id].vec]
             recs == [id \in DOMAIN f.view |-> [block |-> Mapped, meta |-> f.view[id].meta]]
  <2>1. collections' # collections
    OBVIOUS
  <2>2. /\ f # NoFile /\ UNCHANGED op
        /\ Fresh(mp, recs, f.index) /\ collections' = Put(collections, f.name, next_tag)
    BY <1>3, <2>1 DEF LoadCollection
  <2>3. n = f.name /\ c = next_tag
    BY <1>1, <2>2
  <2>4. FileSound(f)
    BY <2>2 DEF EIInv, FilesSound
  <2>5. /\ DOMAIN recs = DOMAIN f.view
        /\ \A id \in DOMAIN f.view : /\ recs[id].block = Mapped /\ mp[id] = f.view[id].vec
                                     /\ recs[id].meta = f.view[id].meta
    OBVIOUS
  <2> HIDE DEF mp, recs, f
  <2>6. /\ Committed(c)' = [id \in DOMAIN recs |-> [vec |-> mp[id], meta |-> recs[id].meta]]
        /\ index'[c] = f.index
    BY <2>2, <2>3, <2>5, FreshContents
  <2>7. Committed(c)' = f.view
    BY <2>4, <2>5, <2>6 DEF FileSound
  <2> QED
    BY <2>3, <2>4, <2>6, <2>7 DEF FileSound, f
<1> QED
  BY <1>2, <1>3

\* A snapshot is a state of its collection between two calls, with the index that
\* belongs to it, and what is loaded is what was saved (engine.cpp:143-146,
\* 158-194; collection.cpp:423-452).
LEMMA SavesExactly == EInit /\ [][ENext]_evars => SavesAndLoadsExact
<1>1. ASSUME EIInv, ENext, NEW path \in Paths, files'[path] # files[path]
      PROVE  \E n \in DOMAIN collections :
                files'[path] = [name |-> n, view |-> Committed(collections[n]),
                                index |-> index[collections[n]]]
  <2>1. PICK t \in Threads : Inspect(t)
    BY <1>1 DEF ENext, CreateCollection, GetCollection, Refused, DeleteCollection,
                EraseCollection, StartSave, StartList, LoadCollection, UseHandle,
                ContinueCall, evars, engine
  <2> QED
    BY <1>1, <2>1, SaveExact
<1>2. ASSUME EIInv, ENext, NEW n \in DOMAIN collections' \ DOMAIN collections,
             NEW c \in Tags, c = collections'[n]
      PROVE  \/ Committed(c)' = EmptyMap /\ index'[c] = NoIndex
             \/ \E path \in Paths :
                   files[path] = [name |-> n, view |-> Committed(c)', index |-> index'[c]]
  <2>1. PICK t \in Threads : \/ \E x \in Names : CreateCollection(t, x)
                             \/ \E path \in Paths : LoadCollection(t, path)
    <3>1. \A x \in Names : collections' # Erase(collections, x)
      BY <1>2 DEF Erase
    <3> QED
      BY <1>2, <3>1 DEF ENext, GetCollection, Refused, DeleteCollection, EraseCollection,
                        StartSave, StartList, Inspect, UseHandle, ContinueCall, evars, engine
  <2> QED
    BY <1>2, <2>1, LoadExact
<1>3. ASSUME EIInv, [ENext]_evars
      PROVE  [/\ \A path \in Paths : files'[path] # files[path] =>
                    \E n \in DOMAIN collections :
                       files'[path] = [name |-> n, view |-> Committed(collections[n]),
                                       index |-> index[collections[n]]]
              /\ \A n \in DOMAIN collections' \ DOMAIN collections, c \in Tags :
                    c = collections'[n] =>
                       \/ Committed(c)' = EmptyMap /\ index'[c] = NoIndex
                       \/ \E path \in Paths :
                             files[path] = [name |-> n, view |-> Committed(c)',
                                            index |-> index'[c]]]_evars
  BY <1>1, <1>2, <1>3
<1> QED
  BY <1>3, EInductive, PTL DEF SavesAndLoadsExact

\* Saving copies out a state between two calls, never the middle of a batch, and
\* loading gives back what was saved (engine.cpp:143-146, 158-194).
THEOREM SaveLoadExact == ESpec => SavesAndLoadsExact
  BY SavesExactly, PTL DEF ESpec


-----------------------------------------------------------------------------
(* The bindings' inductive invariant                                        *)

\* A thread in a method works on the collection its handle points to, which is
\* registered until the core call begins.
Framed(t) ==
    frame[t] # NoFrame =>
        /\ frame[t].c \in Tags /\ frame[t].c = handle[t]
        /\ frame[t].k \in PyInts \cup {NoK}
        /\ todo[t] = {}
        /\ op[t] = Idle => frame[t].c \in Registered

\* No collection can hold more records than 32 bits count.
RecordsFit == IsFiniteSet(Ids) /\ Cardinality(Ids) =< UintMax

\* What may be given back to Python.
Sound(o) ==
    /\ o.type \in {"nothing", "value", "exception", "neighbours"}
    /\ o.type = "exception" /\ o.origin = "core" => "VectorVaultError" \in o.types
    /\ RecordsFit /\ o.type = "neighbours" => o.n = IF o.k < o.of THEN o.k ELSE o.of

BIInv ==
    /\ EIInv
    /\ gil \in Threads \cup {NoTag}
    /\ OneThreadInCore
    /\ frame = [t \in Threads |-> frame[t]]
    /\ \A t \in Threads : Framed(t)
    /\ Sound(outcome)

-----------------------------------------------------------------------------
(* What Python gets back                                                    *)

LEMMA CoreErrorSound == ASSUME NEW e \in ErrorCategory PROVE Sound(CoreError(e))
<1>1. e \in DOMAIN exception_map /\ "VectorVaultError" \in exception_map[e]
  BY DEF exception_map
<1> QED
  BY <1>1 DEF Sound, CoreError, Raised

LEMMA ValuesSound ==
    /\ Sound(Nothing) /\ Sound(Returned)
    /\ \A types : Sound(Raised("binding", types))
  BY DEF Sound, Nothing, Returned, Raised

\* The answer to a query, with k clamped to 32 bits, is as long as it would be
\* with k itself.
LEMMA ResultSound ==
    ASSUME BIInv, NEW t \in Threads PROVE Sound(Result(t))
<1>1. CASE op[t].pc \in {"stage", "rollback"}
  BY <1>1, CoreErrorSound DEF Result, ErrorCategory
<1>2. CASE op[t].pc \notin {"stage", "rollback"} /\ frame[t].k = NoK
  BY <1>2, ValuesSound DEF Result
<1>3. CASE op[t].pc \notin {"stage", "rollback"} /\ frame[t].k # NoK
  <2> DEFINE k == frame[t].k
             of == record_count[frame[t].c]
  <2>1. frame[t] # NoFrame
    BY <1>3 DEF NoFrame
  <2>2. frame[t].c \in Tags /\ k \in Int
    BY <1>3, <2>1, PyIntAssumption DEF BIInv, Framed
  <2>3. RecordsFit => of \in Nat /\ of =< UintMax
    <3> SUFFICES ASSUME RecordsFit PROVE of \in Nat /\ of =< UintMax
      OBVIOUS
    <3>1. of = Cardinality(DOMAIN records[frame[t].c])
          /\ DOMAIN records[frame[t].c] \subseteq Ids
      BY <2>2 DEF BIInv, EIInv, IInv, TypeOK
    <3>2. IsFiniteSet(DOMAIN records[frame[t].c])
          /\ Cardinality(DOMAIN records[frame[t].c]) =< Cardinality(Ids)
      BY <3>1, FS_Subset DEF RecordsFit
    <3>3. Cardinality(DOMAIN records[frame[t].c]) \in Nat /\ Cardinality(Ids) \in Nat
      BY <3>2, FS_CardinalityType DEF RecordsFit
    <3> QED
      BY <3>1, <3>2, <3>3, WidthAssumption DEF RecordsFit
  <2>4. Result(t) = [type |-> "neighbours", k |-> k, of |-> of,
                     n |-> IF k32(k) < of THEN k32(k) ELSE of]
    BY <1>3 DEF Result
  <2> HIDE DEF k, of
  <2>5. RecordsFit => (IF k32(k) < of THEN k32(k) ELSE of) = IF k < of THEN k ELSE of
    BY <2>2, <2>3, WidthAssumption DEF k32
  <2> QED
    BY <2>4, <2>5 DEF Sound
<1> QED
  BY <1>1, <1>2, <1>3

-----------------------------------------------------------------------------
(* The interpreter lock                                                     *)

\* Whoever has the lock is alone: the other threads are outside the core.
LEMMA OthersOutside ==
    ASSUME BIInv, NEW t \in Threads, gil = t PROVE \A u \in Threads \ {t} : ~InCore(u)
  BY DEF BIInv, OneThreadInCore

\* A step of the thread that has the lock keeps it alone.
LEMMA StaysAlone ==
    ASSUME BIInv, NEW t \in Threads, gil = t, gil' = t,
           \A u \in Threads \ {t} : op'[u] = op[u] /\ todo'[u] = todo[u]
    PROVE  OneThreadInCore'
<1>1. \A u \in Threads \ {t} : ~InCore(u)'
  BY OthersOutside DEF InCore
<1> QED
  BY <1>1 DEF OneThreadInCore

\* A step that leaves the engine alone and changes the frame of one thread.
LEMMA OutsideBIInv ==
    ASSUME BIInv, UNCHANGED evars, NEW t \in Threads, NEW f,
           gil' \in Threads \cup {NoTag}, OneThreadInCore',
           frame' = [frame EXCEPT ![t] = f],
           f # NoFrame => f = frame[t] \/ /\ f.c \in Registered /\ f.c = handle[t]
                                          /\ f.k \in PyInts \cup {NoK} /\ todo[t] = {},
           Sound(outcome')
    PROVE  BIInv'
<1>1. EIInv'
  BY EStutter DEF BIInv
<1>2. op' = op /\ todo' = todo /\ handle' = handle /\ Registered' = Registered
  BY DEF evars, vars, engine, Registered
<1>3. Registered \subseteq Tags
  BY DEF BIInv, EIInv, Directory, Registered
<1>4. /\ frame'[t] = f /\ \A u \in Threads \ {t} : frame'[u] = frame[u]
      /\ frame' = [u \in Threads |-> frame'[u]]
  BY DEF BIInv
<1>5. \A u \in Threads : Framed(u)'
  BY <1>2, <1>3, <1>4 DEF BIInv, Framed
<1> QED
  BY <1>1, <1>4, <1>5 DEF BIInv

LEMMA SameCore == ASSUME UNCHANGED evars PROVE \A t \in Threads : InCore(t)' = InCore(t)
  BY DEF evars, vars, engine, InCore

LEMMA OutsideAlone ==
    ASSUME BIInv, UNCHANGED <<evars, gil>> PROVE OneThreadInCore'
  BY SameCore DEF BIInv, OneThreadInCore

LEMMA TakeGilBIInv == ASSUME BIInv, NEW t \in Threads, TakeGil(t) PROVE BIInv'
<1>1. \A u \in Threads : ~InCore(u)
  BY EngineAssumption DEF BIInv, OneThreadInCore, TakeGil
<1>2. UNCHANGED evars /\ frame' = frame /\ gil' = t /\ outcome' = Nothing
  BY DEF TakeGil
<1>3. OneThreadInCore'
  BY <1>1, <1>2, SameCore DEF OneThreadInCore
<1>4. frame' = [frame EXCEPT ![t] = frame[t]]
  BY <1>2 DEF BIInv
<1> QED
  BY <1>2, <1>3, <1>4, ValuesSound, OutsideBIInv

LEMMA DropGilBIInv == ASSUME BIInv, NEW t \in Threads, DropGil(t) PROVE BIInv'
<1>1. UNCHANGED evars /\ frame' = frame /\ gil = t /\ ~InCore(t) /\ gil' = NoTag
      /\ outcome' = Nothing
  BY DEF DropGil
<1>2. \A u \in Threads : ~InCore(u)
  BY <1>1, OthersOutside
<1>3. OneThreadInCore'
  BY <1>1, <1>2, SameCore DEF OneThreadInCore
<1>4. frame' = [frame EXCEPT ![t] = frame[t]]
  BY <1>1 DEF BIInv
<1> QED
  BY <1>1, <1>3, <1>4, ValuesSound, OutsideBIInv

LEMMA MethodBIInv ==
    ASSUME BIInv, NEW t \in Threads, NEW k \in PyInts \cup {NoK}, Method(t, k) PROVE BIInv'
<1> DEFINE f == [c |-> handle[t], k |-> k]
<1>1. /\ UNCHANGED <<evars, gil>> /\ frame' = [frame EXCEPT ![t] = f]
      /\ handle[t] \in Registered /\ outcome' = Nothing /\ todo[t] = {}
  BY DEF Method, InPython, InCore
<1>2. f.c \in Registered /\ f.c = handle[t] /\ f.k \in PyInts \cup {NoK}
  BY <1>1
<1>3. gil' \in Threads \cup {NoTag} /\ OneThreadInCore'
  BY <1>1, OutsideAlone DEF BIInv
<1> HIDE DEF f
<1> QED
  BY <1>1, <1>2, <1>3, ValuesSound, OutsideBIInv

\* A method that fails before the core call begins.
LEMMA LeftBIInv ==
    ASSUME BIInv, NEW t \in Threads, NEW result, Sound(result), Leave(t, result),
           UNCHANGED <<evars, gil>>
    PROVE  BIInv'
<1>1. gil' \in Threads \cup {NoTag} /\ OneThreadInCore'
  BY OutsideAlone DEF BIInv
<1> QED
  BY <1>1, OutsideBIInv DEF Leave

LEMMA ConversionFailsBIInv ==
    ASSUME BIInv, NEW t \in Threads, ConversionFails(t) PROVE BIInv'
<1>1. \/ \E types : Leave(t, Raised("binding", types))
      \/ Leave(t, CoreError("InvalidArgument"))
  BY DEF ConversionFails
<1>2. Sound(CoreError("InvalidArgument"))
  BY CoreErrorSound DEF ErrorCategory
<1> QED
  BY <1>1, <1>2, ValuesSound, LeftBIInv DEF ConversionFails

LEMMA CoreRefusesBIInv ==
    ASSUME BIInv, NEW t \in Threads, CoreRefuses(t) PROVE BIInv'
<1>1. \E e \in ErrorCategory : Leave(t, CoreError(e))
  BY DEF CoreRefuses, ErrorCategory
<1> QED
  BY <1>1, CoreErrorSound, LeftBIInv DEF CoreRefuses

-----------------------------------------------------------------------------
(* Steps of the engine                                                      *)

\* A step of the thread that has the lock, on the engine, keeps the frames of
\* the others while their collections stay registered.
LEMMA InsideBIInv ==
    ASSUME BIInv, EIInv', NEW t \in Threads, gil = t, gil' = t,
           \A u \in Threads \ {t} : op'[u] = op[u] /\ todo'[u] = todo[u]
                                    /\ handle'[u] = handle[u],
           \A u \in Threads \ {t} : frame[u] # NoFrame /\ op[u] = Idle =>
                                       frame[u].c \in Registered',
           NEW f, frame' = [frame EXCEPT ![t] = f], Framed(t)', Sound(outcome')
    PROVE  BIInv'
<1>1. OneThreadInCore'
  BY StaysAlone
<1>2. /\ \A u \in Threads \ {t} : frame'[u] = frame[u]
      /\ frame' = [u \in Threads |-> frame'[u]]
  BY DEF BIInv
<1>3. \A u \in Threads : Framed(u)'
  BY <1>2 DEF BIInv, Framed
<1> QED
  BY <1>1, <1>2, <1>3 DEF BIInv

\* Core calls and returns touch neither the registry nor the handles.
LEMMA CallBIInv ==
    ASSUME BIInv, EIInv', NEW t \in Threads, gil = t, gil' = t, UNCHANGED engine,
           \A u \in Threads \ {t} : op'[u] = op[u],
           NEW result, Sound(result),
           IF op'[t] = Idle THEN Leave(t, result) ELSE outcome' = Nothing /\ UNCHANGED frame
    PROVE  BIInv'
<1>1. Registered' = Registered /\ todo' = todo /\ handle' = handle
  BY DEF engine, Registered
<1>2. \A u \in Threads \ {t} : frame[u] # NoFrame /\ op[u] = Idle =>
                                  frame[u].c \in Registered'
  BY <1>1 DEF BIInv, Framed
<1>3. CASE op'[t] = Idle
  <2>1. frame' = [frame EXCEPT ![t] = NoFrame] /\ outcome' = result
    BY <1>3 DEF Leave
  <2>2. Framed(t)'
    BY <2>1 DEF BIInv, Framed
  <2> QED
    BY <1>1, <1>2, <2>1, <2>2, InsideBIInv
<1>4. CASE op'[t] # Idle
  <2>1. frame' = frame /\ outcome' = Nothing
    BY <1>4
  <2>2. frame' = [frame EXCEPT ![t] = frame[t]]
    BY <2>1 DEF BIInv
  <2>3. Framed(t)'
    BY <1>1, <1>4, <2>1 DEF BIInv, Framed
  <2> QED
    BY <1>1, <1>2, <2>1, <2>2, <2>3, ValuesSound, InsideBIInv
<1> QED
  BY <1>3, <1>4

\* The core is called through the handle the method was called with.
LEMMA CallCoreUses == ASSUME BIInv, NEW t \in Threads, CallCore(t) PROVE UseHandle(t)
<1>1. /\ gil = t /\ frame[t] # NoFrame /\ op[t] = Idle /\ todo[t] = {}
      /\ UNCHANGED engine
  BY DEF CallCore, Converting, InCore
<1>2. frame[t].c = handle[t] /\ handle[t] \in Registered
  BY <1>1 DEF BIInv, Framed
<1>3. Begin(t, frame[t].c)
  BY DEF CallCore, Begin
<1> QED
  BY <1>1, <1>2, <1>3 DEF UseHandle

LEMMA CallCoreBIInv == ASSUME BIInv, NEW t \in Threads, CallCore(t) PROVE BIInv'
<1>1. EIInv'
  BY CallCoreUses, BeginEIInv DEF UseHandle, BIInv
<1>2. gil = t /\ gil' = t /\ UNCHANGED engine
  BY DEF CallCore, Converting
<1>3. \A u \in Threads \ {t} : op'[u] = op[u]
  <2>1. DOMAIN op = Threads
    BY DEF BIInv, EIInv, IInv, Types
  <2> QED
    BY <2>1 DEF CallCore, StartRead, StartInsert, StartRemove, BuildIndex
<1> QED
  BY <1>1, <1>2, <1>3, ValuesSound, CallBIInv DEF CallCore

LEMMA CoreStepBIInv == ASSUME BIInv, NEW t \in Threads, CoreStep(t) PROVE BIInv'
<1>1. ContinueCall(t) /\ UNCHANGED engine /\ gil' = gil
  BY DEF CoreStep, ContinueCall
<1>2. EIInv'
  BY <1>1, ContinueEIInv DEF BIInv
<1>3. op[t] # Idle
  BY <1>1 DEF ContinueCall, Continue, Stage, StageFails, Rollback, ReleaseOld, Install,
              EraseRecord, EndRead, Idle
<1>4. gil = t
  BY <1>3 DEF BIInv, OneThreadInCore, InCore
<1>5. \A u \in Threads \ {t} : op'[u] = op[u]
  <2>1. Apart(t)
    BY <1>1, ContinueIInv DEF ContinueCall, BIInv, EIInv
  <2> QED
    BY <2>1 DEF Apart, StepOf
<1>6. Sound(Result(t))
  BY ResultSound
<1> QED
  BY <1>1, <1>2, <1>4, <1>5, <1>6, CallBIInv DEF CoreStep

\* By the interpreter lock nobody is inside a collection that is deleted.
LEMMA PyDeletes ==
    ASSUME BIInv, NEW t \in Threads, InPython(t), NEW n, PyDelete(t, n)
    PROVE  DeleteCollection(t, n)
<1>1. gil = t /\ ~InCore(t)
  BY DEF InPython
<1>2. \A u \in Threads : ~InCore(u)
  BY <1>1, OthersOutside
<1>3. \A u \in Threads : ~InCall(u, collections[n])
  BY <1>2 DEF InCore, InCall
<1> QED
  BY <1>3 DEF PyDelete, DeleteCollection

\* The calls of Engine made by Python are calls of Engine as specified.
LEMMA EngineCallSteps == ASSUME BIInv, NEW t \in Threads, EngineCall(t) PROVE ENext
<1>1. \/ \E n \in Names : CreateCollection(t, n) \/ GetCollection(t, n) \/ PyDelete(t, n)
      \/ StartList(t)
      \/ \E n \in Names, path \in Paths : StartSave(t, n, path)
      \/ \E path \in Paths : LoadCollection(t, path)
  BY DEF EngineCall
<1>2. InPython(t)
  BY DEF EngineCall
<1> QED
  BY <1>1, <1>2, PyDeletes DEF ENext

\* They leave every collection registered whose method is having its arguments
\* converted: delete_collection by the contract of handles.
LEMMA EngineCallKeeps ==
    ASSUME BIInv, NEW t \in Threads, EngineCall(t), NEW u \in Threads,
           frame[u] # NoFrame, op[u] = Idle
    PROVE  frame[u].c \in Registered'
<1>1. frame[u].c \in Registered /\ todo[u] = {}
  BY DEF BIInv, Framed
<1>2. ASSUME NEW n, n \notin DOMAIN collections, collections' = Put(collections, n, next_tag)
      PROVE  frame[u].c \in Registered'
  BY <1>1, <1>2 DEF Registered, Put
<1>3. CASE collections' = collections
  BY <1>1, <1>3 DEF Registered
<1>4. CASE \E n \in Names : PyDelete(t, n)
  <2>1. PICK n \in Names : PyDelete(t, n)
    BY <1>4
  <2>2. frame[u].c # collections[n]
    BY <1>1, <2>1 DEF PyDelete, Preparing, InCore
  <2>3. collections' = Erase(collections, n)
    BY <2>1 DEF PyDelete, EraseCollection
  <2> QED
    BY <1>1, <2>2, <2>3 DEF Registered, Erase
<1>5. CASE \E n \in Names : CreateCollection(t, n)
  BY <1>2, <1>5 DEF CreateCollection
<1>6. CASE \E path \in Paths : LoadCollection(t, path)
  BY <1>2, <1>3, <1>6 DEF LoadCollection
<1>7. CASE \/ StartList(t)
           \/ \E n \in Names : GetCollection(t, n) \/ \E path \in Paths : StartSave(t, n, path)
  BY <1>3, <1>7 DEF StartList, GetCollection, StartSave
<1> QED
  BY <1>4, <1>5, <1>6, <1>7 DEF EngineCall

LEMMA EngineCallBIInv == ASSUME BIInv, NEW t \in Threads, EngineCall(t) PROVE BIInv'
<1>1. EIInv'
  BY EngineCallSteps, ENextEIInv DEF BIInv
<1>2. gil = t /\ gil' = t /\ frame[t] = NoFrame /\ frame' = frame
  BY DEF EngineCall, InPython
<1>3. /\ op' = op
      /\ \A u \in Threads \ {t} : todo'[u] = todo[u] /\ handle'[u] = handle[u]
  <2>1. DOMAIN todo = Threads /\ DOMAIN handle = Threads
    BY DEF BIInv, EIInv, Directory
  <2> QED
    BY <2>1 DEF EngineCall, CreateCollection, GetCollection, PyDelete, EraseCollection,
                StartList, StartSave, LoadCollection
<1>4. \A u \in Threads \ {t} : frame[u] # NoFrame /\ op[u] = Idle => frame[u].c \in Registered'
  BY EngineCallKeeps
<1>5. Sound(outcome')
  <2>1. \/ outcome' \in {Nothing, Returned}
        \/ \E e \in ErrorCategory : outcome' = CoreError(e)
    BY DEF EngineCall, ErrorCategory
  <2> QED
    BY <2>1, ValuesSound, CoreErrorSound
<1>6. frame' = [frame EXCEPT ![t] = NoFrame] /\ Framed(t)'
  BY <1>2 DEF BIInv, Framed
<1> QED
  BY <1>1, <1>2, <1>3, <1>4, <1>5, <1>6, InsideBIInv

LEMMA EngineRefusesBIInv ==
    ASSUME BIInv, NEW t \in Threads, EngineRefuses(t) PROVE BIInv'
<1>1. UNCHANGED <<evars, gil, frame>>
  BY DEF EngineRefuses, Refused
<1>2. \E e \in ErrorCategory : outcome' = CoreError(e)
  BY DEF EngineRefuses, ErrorCategory
<1>3. frame' = [frame EXCEPT ![t] = frame[t]]
  BY <1>1 DEF BIInv
<1>4. gil' \in Threads \cup {NoTag} /\ OneThreadInCore'
  BY <1>1, OutsideAlone DEF BIInv
<1> QED
  BY <1>1, <1>2, <1>3, <1>4, CoreErrorSound, OutsideBIInv

LEMMA EngineStepBIInv == ASSUME BIInv, NEW t \in Threads, EngineStep(t) PROVE BIInv'
<1>1. Inspect(t) /\ gil' = gil /\ frame' = frame
  BY DEF EngineStep
<1>2. EIInv'
  BY <1>1, InspectEIInv DEF BIInv
<1>3. todo[t] # {} /\ UNCHANGED <<vars, collections, handle>>
      /\ \E c : todo' = [todo EXCEPT ![t] = @ \ {c}]
  BY <1>1 DEF Inspect
<1>4. gil = t /\ frame[t] = NoFrame
  BY <1>3 DEF BIInv, OneThreadInCore, InCore, Framed
<1>5. \A u \in Threads \ {t} : op'[u] = op[u] /\ todo'[u] = todo[u] /\ handle'[u] = handle[u]
  BY <1>3 DEF vars, BIInv, EIInv, Directory
<1>6. \A u \in Threads \ {t} : frame[u] # NoFrame /\ op[u] = Idle => frame[u].c \in Registered'
  BY <1>3 DEF BIInv, Framed, Registered
<1>7. Sound(outcome')
  <2>1. outcome' \in {Nothing, Returned} \/ outcome' = CoreError("WriteFailure")
    BY DEF EngineStep
  <2> QED
    BY <2>1, ValuesSound, CoreErrorSound DEF ErrorCategory
<1>8. frame' = [frame EXCEPT ![t] = NoFrame] /\ Framed(t)'
  BY <1>1, <1>4 DEF BIInv, Framed
<1> QED
  BY <1>1, <1>2, <1>4, <1>5, <1>6, <1>7, <1>8, InsideBIInv

-----------------------------------------------------------------------------
(* The specification                                                        *)

LEMMA BInitBIInv == ASSUME BInit PROVE BIInv
<1>1. EIInv
  BY EInitEIInv DEF BInit
<1>2. OneThreadInCore
  BY DEF BInit, EInit, Init, OneThreadInCore, InCore
<1>3. /\ frame = [t \in Threads |-> frame[t]] /\ \A t \in Threads : Framed(t)
      /\ gil \in Threads \cup {NoTag} /\ Sound(outcome)
  BY ValuesSound DEF BInit, Framed
<1> QED
  BY <1>1, <1>2, <1>3 DEF BIInv

LEMMA BStutter == ASSUME BIInv, UNCHANGED bvars PROVE BIInv'
<1>1. UNCHANGED <<evars, gil, frame, outcome>>
  BY DEF bvars, binding
<1>2. EIInv' /\ OneThreadInCore'
  BY <1>1, EStutter, OutsideAlone DEF BIInv
<1>3. \A t \in Threads : Framed(t)'
  BY <1>1 DEF BIInv, Framed, evars, vars, engine, Registered
<1> QED
  BY <1>1, <1>2, <1>3 DEF BIInv, Sound

LEMMA BNextBIInv == ASSUME BIInv, [BNext]_bvars PROVE BIInv'
<1>1. ASSUME NEW t \in Threads,
             \/ TakeGil(t) \/ DropGil(t)
             \/ \E k \in PyInts \cup {NoK} : Method(t, k)
             \/ ConversionFails(t) \/ CoreRefuses(t) \/ CallCore(t) \/ CoreStep(t)
             \/ EngineCall(t) \/ EngineRefuses(t) \/ EngineStep(t)
      PROVE  BIInv'
  BY <1>1, TakeGilBIInv, DropGilBIInv, MethodBIInv, ConversionFailsBIInv, CoreRefusesBIInv,
     CallCoreBIInv, CoreStepBIInv, EngineCallBIInv, EngineRefusesBIInv, EngineStepBIInv
<1> QED
  BY <1>1, BStutter DEF BNext

\* Safety needs none of the fairness of BSpec.
LEMMA BInductive == BInit /\ [][BNext]_bvars => []BIInv
<1>1. BInit => BIInv
  BY BInitBIInv
<1>2. BIInv /\ [BNext]_bvars => BIInv'
  BY BNextBIInv
<1> QED
  BY <1>1, <1>2, PTL

-----------------------------------------------------------------------------
(* The theorems about the bindings                                          *)

\* The state of the binding; every failure of the core reaches Python as one of
\* the package's exceptions (docs/python-api.md:218).
THEOREM BTypeCorrect == BSpec => []BTypeOK
<1>1. BIInv => BTypeOK
  BY DEF BIInv, BTypeOK, Framed, Sound
<1> QED
  BY <1>1, BInductive, PTL DEF BSpec

\* Python threads are never inside the core together, however the interpreter
\* lock changes hands while arguments are converted, and nobody is inside a
\* collection when it is deleted (engine.cpp:100-114).
THEOREM AloneInCore == BSpec => []OneThreadInCore
<1>1. BIInv => OneThreadInCore
  BY DEF BIInv
<1> QED
  BY <1>1, BInductive, PTL DEF BSpec

\* A query returns min(k, record count) neighbours for every k Python can pass,
\* also beyond 32 bits (docs/python-api.md:161-162), as long as no collection can
\* hold more records than a uint32_t counts.
THEOREM KRespected == ASSUME RecordsFit PROVE BSpec => []QueryReturnsK
<1>1. BIInv => QueryReturnsK
  BY DEF BIInv, Sound, QueryReturnsK
<1> QED
  BY <1>1, BInductive, PTL DEF BSpec

\* A step of the binding is a step of the engine, or leaves the engine alone.
LEMMA BNextSteps == ASSUME BIInv, [BNext]_bvars PROVE [ENext]_evars
<1>1. ASSUME NEW t \in Threads,
             \/ TakeGil(t) \/ DropGil(t)
             \/ \E k \in PyInts \cup {NoK} : Method(t, k)
             \/ ConversionFails(t) \/ CoreRefuses(t) \/ EngineRefuses(t)
      PROVE  UNCHANGED evars
  BY <1>1 DEF TakeGil, DropGil, Method, ConversionFails, CoreRefuses, EngineRefuses, Refused
<1>2. ASSUME NEW t \in Threads, CallCore(t) \/ CoreStep(t) \/ EngineCall(t) \/ EngineStep(t)
      PROVE  ENext
  <2>1. UseHandle(t) \/ ContinueCall(t) \/ Inspect(t) \/ ENext
    BY <1>2, CallCoreUses, EngineCallSteps DEF CoreStep, EngineStep
  <2> QED
    BY <2>1 DEF ENext
<1>3. UNCHANGED bvars => UNCHANGED evars
  BY DEF bvars
<1> QED
  BY <1>1, <1>2, <1>3 DEF BNext

\* Under Python the engine does what Engine specifies, the contract of its
\* callers included: handles are used while their collection is registered, and
\* no collection is deleted while a call is in it (collection.hpp:201-204).
THEOREM EngineUnderPython == BSpec => EInit /\ [][ENext]_evars
<1>1. BInit => EInit
  BY DEF BInit
<1>2. BIInv /\ [BNext]_bvars => [ENext]_evars
  BY BNextSteps
<1> QED
  BY <1>1, <1>2, BInductive, PTL DEF BSpec

\* So a Python program finds the registry, the indexes and the blocks as sound
\* as Engine has them, whatever its threads do.
THEOREM SoundUnderPython == BSpec => [](RegistrySound /\ NoOrphanBlocks)
<1>1. EIInv => RegistrySound /\ NoOrphanBlocks
  BY RegistryKept, BlocksKept
<1> QED
  BY <1>1, EInductive, EngineUnderPython, PTL

\* What Engine promises of steps holds of Python programs as well: readers see one
\* state, batches are atomic, calls end, files hold what was stored, and registering
\* or dropping a collection touches no other (collection.hpp:84-92, engine.cpp:38-195).
THEOREM KeptUnderPython ==
    BSpec => /\ ReadersStable /\ StoresMoveAlone /\ RegistryChangeIsolated
             /\ CallsShrink /\ EngineCallsShrink /\ SavesAndLoadsExact
<1>1. EInit /\ [][ENext]_evars => RegistryChangeIsolated
  BY OthersKeptApart
<1>2. EInit /\ [][ENext]_evars => SavesAndLoadsExact
  BY SavesExactly
<1> QED
  BY <1>1, <1>2, EngineKeeps, EngineUnderPython, PTL

\* The interpreter lock and the locks of the core cannot block each other: a thread
\* that has the one finds the others free, whenever it comes to take them
\* (module.cpp:345-393, engine.cpp:118-124, 146-155).
THEOREM NoWaitUnderPython == BSpec => []CoreNeverWaits
<1>1. ASSUME BIInv, Waiting PROVE CoreNeverWaits
  <2> SUFFICES ASSUME NEW t \in Threads, gil = t
               PROVE  /\ ~InCore(t) => mutex = NoTag /\ \A c \in Tags : CanWrite(c)
                      /\ \A c \in todo[t] : CanRead(c)
    BY DEF CoreNeverWaits
  <2>1. \A u \in Threads \ {t} : ~InCore(u)
    BY <1>1, OthersOutside
  <2>2. ASSUME ~InCore(t) PROVE mutex = NoTag /\ \A c \in Tags : CanWrite(c)
    <3>1. \A u \in Threads : op[u] = Idle /\ todo[u] = {}
      BY <2>1, <2>2 DEF InCore
    <3>2. mutex = NoTag
      BY <1>1, <3>1 DEF Waiting, BIInv, EIInv, Directory
    <3> QED
      BY <3>1, <3>2 DEF CanWrite, InCall
  <2>3. ASSUME NEW c \in todo[t] PROVE CanRead(c)
    <3>1. \A u \in Threads : op[u] = Idle
      BY <1>1, <2>1, <2>3 DEF InCore, Waiting
    <3> QED
      BY <3>1 DEF CanRead, Writers, InCall
  <2> QED
    BY <2>2, <2>3
<1>2. BIInv /\ Waiting => CoreNeverWaits
  BY <1>1
<1>3. BSpec => []Waiting
  BY EWaiting, EngineUnderPython, PTL
<1> QED
  BY <1>2, <1>3, BInductive, PTL DEF BSpec
=============================================================================
