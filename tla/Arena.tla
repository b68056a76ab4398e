-------------------------------- MODULE Arena --------------------------------
(***************************************************************************)
(* What the memory allocator promises to its callers, without saying how   *)
(* free space is found: a set of granted blocks inside an arena, no two of  *)
(* which share a byte.  A block may be granted wherever there is room, and  *)
(* a request is refused only when there is no room for it anywhere.         *)
(*                                                                          *)
(* A block lasts until it is released, alone or with all the blocks of its  *)
(* tag; `releasing' is the tag whose blocks are being released together     *)
(* (release_all holds the allocator's mutex meanwhile, so no other call     *)
(* takes effect), or NoTag.                                                 *)
(***************************************************************************)
EXTENDS Maps

CONSTANTS Size,        \* bytes in the arena
          Requests,    \* byte counts a caller may ask for
          Tags,        \* collection tags
          NoTag,
          Footprint(_) \* bytes of the arena that a request occupies

VARIABLES live,        \* offset of a granted block -> what was granted
          releasing

vars == <<live, releasing>>

Init == /\ live = EmptyMap
        /\ releasing = NoTag

\* n bytes from offset o lie in the arena and belong to no granted block.
Vacant(o, n) ==
    /\ o + n =< Size
    /\ \A x \in DOMAIN live :
          o + n =< x \/ x + live[x].rounded_bytes =< o

Grant(bytes, t) ==
    /\ releasing = NoTag
    /\ \E o \in 0..Size :
          /\ Vacant(o, Footprint(bytes))
          /\ live' = Put(live, o, [rounded_bytes   |-> Footprint(bytes),
                                   requested_bytes |-> bytes,
                                   tag             |-> t])
    /\ UNCHANGED releasing

Free(o) ==
    /\ o \in DOMAIN live
    /\ releasing \in {NoTag, live[o].tag}
    /\ live' = Erase(live, o)
    /\ UNCHANGED releasing

StartFreeAll(t) ==
    /\ releasing = NoTag
    /\ releasing' = t
    /\ UNCHANGED live

\* The release of a tag ends only when none of its blocks is left.
EndFreeAll ==
    /\ releasing # NoTag
    /\ \A x \in DOMAIN live : live[x].tag # releasing
    /\ releasing' = NoTag
    /\ UNCHANGED live

Next == \/ \E bytes \in Requests, t \in Tags : Grant(bytes, t)
        \/ \E o \in DOMAIN live : Free(o)
        \/ \E t \in Tags : StartFreeAll(t)
        \/ EndFreeAll

Spec == Init /\ [][Next]_vars
=============================================================================
