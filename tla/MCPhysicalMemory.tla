------------------------- MODULE MCPhysicalMemory -------------------------
(* Pages of 4 bytes, 8 page bits and a 64-byte address space: 16 pages,    *)
(* half of them past the bitmap, as 1 GB is a quarter of 4 GB.             *)
EXTENDS PhysicalMemory

usable(addr, len)   == [addr |-> addr, len |-> len, type |-> 1]
reserved(addr, len) == [addr |-> addr, len |-> len, type |-> 2]

(* Low memory, the BIOS area, high memory that ends inside a page.         *)
PcMap == { usable(0, 5), reserved(5, 3), usable(8, 22), reserved(30, 2) }

(* A hole between two usable regions, and two regions that overlap.        *)
HoleMap    == { usable(0, 16), reserved(16, 4), usable(20, 12) }
OverlapMap == { usable(4, 14), usable(12, 16) }

(* Too little memory for anything but the kernel.                          *)
TinyMap == { usable(0, 8) }

(* A usable region that starts inside a page.                              *)
UnalignedMap == { usable(0, 12), usable(14, 14) }

(* RAM above the 32-bit address space beside a reserved region below it.   *)
RamAbove4G == { usable(0, 16), reserved(16, 4), usable(20, 8), usable(64, 24) }

(* RAM past the last bit of the bitmap.                                    *)
RamAboveCap == { usable(0, 44) }

BigMaps    == { RamAboveCap }
BootMaps   == { PcMap, HoleMap, OverlapMap, TinyMap, UnalignedMap, RamAbove4G }
AlignedEnd == { 8, 12 }
AnyEnd     == { 8, 10 }
=============================================================================
