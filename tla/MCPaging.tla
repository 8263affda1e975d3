------------------------------ MODULE MCPaging ------------------------------
(* Pages of 4 bytes hold 4 words, so 16 pages fill the address space; the   *)
(* identity map is two and a half tables long, as 64 MB is 16 tables.       *)
EXTENDS Paging

usable(a, n) == [addr |-> a, len |-> n, type |-> 1]

(* RAM that ends at the identity map, inside it, above it; a hole behind    *)
(* the page the directory gets; too little RAM for the tables.              *)
FullMap   == { usable(0, 40) }
HighMap   == { usable(0, 44) }
HoleMap   == { usable(0, 16), usable(20, 24) }
LateHole  == { usable(0, 24), usable(28, 16) }
TinyMap   == { usable(0, 20) }

HoleMaps  == { HoleMap }
HighMaps  == { HighMap }
BootMaps  == { FullMap, HighMap, HoleMap, LateHole, TinyMap }

screen(a, n) == [addr |-> a, size |-> n]

(* Behind RAM, on a page and inside one, sharing a table with the identity  *)
(* map or not; and two whose loop ends in the last page or wraps.           *)
Screens == { screen(44, 4), screen(46, 7), screen(48, 6), screen(50, 7),
             screen(52, 6), screen(56, 5) }
OneScreen == { screen(48, 6) }
=============================================================================
