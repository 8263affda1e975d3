--------------------------- MODULE MCKernelHeap ---------------------------
(* Pages of 48 bytes with 12-byte headers: a page holds up to three        *)
(* blocks.  The kernel ends in page 1.                                     *)
EXTENDS KernelHeap

usable(addr, len)   == [addr |-> addr, len |-> len, type |-> 1]
reserved(addr, len) == [addr |-> addr, len |-> len, type |-> 2]

(* Two pages for the heap and paging, with a hole between them. *)
HoleMap == { usable(0, 96), reserved(96, 48), usable(144, 48) }

(* No page beyond the kernel. *)
FullMap == { usable(0, 48) }

BootMaps == { HoleMap, FullMap }
BigMaps  == { { usable(0, 192) } }
=============================================================================
