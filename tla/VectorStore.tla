----------------------------- MODULE VectorStore -----------------------------
(***************************************************************************)
(* What the record operations of a set of collections promise: each         *)
(* collection is a map from identifiers to values, the batch a caller asked *)
(* for is stored as a whole or not at all (the last record with an          *)
(* identifier wins), a removal takes one identifier away, and no operation  *)
(* on one collection changes what another holds.                            *)
(***************************************************************************)
EXTENDS Maps

CONSTANTS Threads,
          Tags,      \* the collections
          Batches    \* sequences of records [id, vec, meta] that may be stored

VARIABLES store,     \* collection -> identifier -> [vec, meta]
          pending    \* thread -> the insert it asked for, until it is decided

vars == <<store, pending>>

NoCall == [batch |-> << >>]

Ask(t) ==
    /\ pending[t] = NoCall
    /\ UNCHANGED store
    /\ pending'[t] \in [c: Tags, batch: Batches]
    /\ pending' = [pending EXCEPT ![t] = pending'[t]]

Decided(t) == pending[t] # NoCall /\ pending' = [pending EXCEPT ![t] = NoCall]

PutAll(t) ==
    /\ Decided(t)
    /\ store' = [store EXCEPT ![pending[t].c] = Overlay(@, pending[t].batch, 1)]

\* AllocationFailure: the store is as it was.
Refuse(t) == Decided(t) /\ UNCHANGED store

Remove(c, id) ==
    /\ id \in DOMAIN store[c]
    /\ store' = [store EXCEPT ![c] = Erase(@, id)]
    /\ UNCHANGED pending

Next == \/ \E t \in Threads : Ask(t) \/ PutAll(t) \/ Refuse(t)
        \/ \E c \in Tags : \E id \in DOMAIN store[c] : Remove(c, id)

\* A collection starts empty or with what was loaded from a snapshot.
Init == pending = [t \in Threads |-> NoCall]

Spec == Init /\ [][Next]_vars
=============================================================================
