----------------------------- MODULE Allocator -----------------------------
(***************************************************************************)
(* What memory/heap/heap.h promises its callers: kmalloc returns memory    *)
(* nobody else holds and kfree gives it back.  live maps the address of    *)
(* each allocation to the number of bytes asked for.                       *)
(***************************************************************************)
EXTENDS Integers

CONSTANTS
  Addresses,   \* the addresses memory may have
  Requests     \* the sizes callers ask for

VARIABLE live

Bytes(ptr, size) == ptr .. ptr + size - 1

Init == live = [ptr \in {} |-> 0]

(* Returns fresh memory: it shares no byte with a live allocation.         *)
Malloc(ptr, size) ==
  /\ ptr \notin DOMAIN live
  /\ Bytes(ptr, size) \subseteq Addresses
  /\ \A other \in DOMAIN live :
       Bytes(ptr, size) \cap Bytes(other, live[other]) = {}
  /\ live' = [q \in DOMAIN live \cup {ptr} |-> IF q = ptr THEN size ELSE live[q]]

Free(ptr) == live' = [q \in DOMAIN live \ {ptr} |-> live[q]]

Next ==
  \/ \E ptr \in Addresses, size \in Requests : Malloc(ptr, size)
  \/ \E ptr \in DOMAIN live : Free(ptr)

Spec == Init /\ [][Next]_live

=============================================================================
