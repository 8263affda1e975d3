-------------------------- MODULE PhysicalMemory --------------------------
(***************************************************************************)
(* The physical page allocator, memory/pmm/pmm.c.                          *)
(*                                                                         *)
(* One bit per page says whether the page is in use.  pmm_init sets every  *)
(* bit, clears those of the usable regions of the Multiboot memory map and *)
(* sets those of the kernel image again.  pmm_alloc_page gives out the     *)
(* lowest page whose bit is clear and pmm_free_page clears a bit.          *)
(*                                                                         *)
(* Interrupt handlers never call the allocator, so each call is one step.  *)
(***************************************************************************)
EXTENDS Integers

CONSTANTS
  PAGE_SIZE,    \* bytes in a page (pmm.h:5)
  MAX_PAGES,    \* number of bits in page_bitmap (pmm.h:8)
  WORD,         \* number of uint32_t values, 2^32 in the build
  MemoryMaps,   \* the memory maps a boot loader may hand over
  KernelEnds    \* the values the linker symbol kernel_end may have

(* A region of the memory map; addr and len are 64 bits wide.              *)
Region(r) == /\ r.addr \in Nat
             /\ r.len \in Nat
             /\ r.type \in Nat

ASSUME SizesAssumption ==
  /\ PAGE_SIZE \in Nat \ {0}
  /\ MAX_PAGES \in Nat \ {0}
  /\ WORD \in Nat \ {0}

ASSUME BootAssumption ==
  /\ \A m \in MemoryMaps : \A r \in m : Region(r)
  /\ KernelEnds \subseteq PAGE_SIZE .. (MAX_PAGES * PAGE_SIZE)

VARIABLES
  mmap,         \* the memory map found at mbi->mmap_addr
  kernel_end,   \* address of the first byte after the kernel image
  phase,        \* "reset" before pmm_init, "ready" after it
  page_bitmap,  \* the bits of page_bitmap that are 1, as a set of pages
  overrun,      \* history: bits pmm_init cleared beyond the array's end
  handed        \* history: pages pmm_alloc_page gave out, not yet freed

vars == <<mmap, kernel_end, phase, page_bitmap, overrun, handed>>

-----------------------------------------------------------------------------
Pages == 0 .. MAX_PAGES - 1

Uint32(n) == n % WORD

addr_to_page(addr) == addr \div PAGE_SIZE

(* Mutant: the page the region ends in counts as usable.                   *)
BitsClearedInclusive(region) ==
  LET start == Uint32(region.addr)
      size  == Uint32(region.len)
  IN  IF region.type = 1
        THEN addr_to_page(start) .. addr_to_page(Uint32(start + size))
        ELSE {}

(* The bits one region of the map makes pmm_init clear: both 64-bit fields *)
(* are cut to 32 bits, and so is their sum.                                *)
BitsCleared(region) ==
  LET start == Uint32(region.addr)
      size  == Uint32(region.len)
  IN  IF region.type = 1
        THEN addr_to_page(start) .. addr_to_page(Uint32(start + size)) - 1
        ELSE {}

AllBitsCleared == UNION { BitsCleared(region) : region \in mmap }

(* The pages pmm_init reserves for the kernel: those below the page         *)
(* kernel_end lies in.                                                     *)
ReservedPages == { p \in Pages : p < addr_to_page(kernel_end) }

FreePages == Pages \ page_bitmap

-----------------------------------------------------------------------------
(* Mutant: the kernel is reserved before the usable regions are cleared.   *)
pmm_init_reserves_first ==
  /\ phase = "reset"
  /\ phase' = "ready"
  /\ page_bitmap' = (Pages \cup ReservedPages) \ AllBitsCleared
  /\ overrun' = AllBitsCleared \ Pages
  /\ UNCHANGED <<mmap, kernel_end, handed>>

pmm_init ==
  /\ phase = "reset"
  /\ phase' = "ready"
  /\ page_bitmap' = (Pages \ AllBitsCleared) \cup ReservedPages
  /\ overrun' = AllBitsCleared \ Pages
  /\ UNCHANGED <<mmap, kernel_end, handed>>

(* find_free_page: page is the first one whose bit is clear.               *)
find_free_page(page) ==
  /\ page \in FreePages
  /\ \A other \in FreePages : page <= other

(* Mutant: no bit is set. *)
pmm_alloc_page_sets_none(page) ==
  /\ phase = "ready"
  /\ find_free_page(page)
  /\ handed' = handed \cup {page}
  /\ UNCHANGED <<mmap, kernel_end, phase, page_bitmap, overrun>>

(* The page a call of pmm_alloc_page returns.                              *)
pmm_alloc_page(page) ==
  /\ phase = "ready"
  /\ find_free_page(page)
  /\ page_bitmap' = page_bitmap \cup {page}
  /\ handed' = handed \cup {page}
  /\ UNCHANGED <<mmap, kernel_end, phase, overrun>>

(* No bit is clear: the call returns 0 and changes nothing.                *)
pmm_alloc_page_fails ==
  /\ phase = "ready"
  /\ FreePages = {}
  /\ UNCHANGED vars

(* Mutants: the byte the bit is in is cleared whole; nothing is cleared.   *)
pmm_free_page_clears_byte(page) ==
  /\ phase = "ready"
  /\ page_bitmap' = { p \in page_bitmap : p \div 8 # page \div 8 }
  /\ handed' = handed \ {page}
  /\ UNCHANGED <<mmap, kernel_end, phase, overrun>>

pmm_free_page_clears_none(page) ==
  /\ phase = "ready"
  /\ handed' = handed \ {page}
  /\ UNCHANGED <<mmap, kernel_end, phase, page_bitmap, overrun>>

(* A holder of the page gives it back.                                     *)
pmm_free_page(page) ==
  /\ phase = "ready"
  /\ page_bitmap' = page_bitmap \ {page}
  /\ handed' = handed \ {page}
  /\ UNCHANGED <<mmap, kernel_end, phase, overrun>>

Init ==
  /\ mmap \in MemoryMaps
  /\ kernel_end \in KernelEnds
  /\ phase = "reset"
  /\ page_bitmap = {}          \* page_bitmap is in .bss
  /\ overrun = {}
  /\ handed = {}

Next ==
  \/ pmm_init
  \/ \E page \in Pages : pmm_alloc_page(page)
  \/ pmm_alloc_page_fails
  \/ \E page \in handed : pmm_free_page(page)

Spec == Init /\ [][Next]_vars

-----------------------------------------------------------------------------
(* Every byte of page p lies in one usable region of the map.              *)
PageIsUsable(p) ==
  \E r \in mmap : /\ r.type = 1
                 /\ r.addr <= p * PAGE_SIZE
                 /\ (p + 1) * PAGE_SIZE <= r.addr + r.len

(* The maps pmm_init reads without losing bits: usable regions start on a  *)
(* page boundary and end below 4 GB.                                       *)
MapFits ==
  \A r \in mmap : r.type = 1 => /\ r.addr % PAGE_SIZE = 0
                               /\ r.addr + r.len < WORD

(* The variables hold values of their C types.                             *)
TypeOK ==
  /\ mmap \in MemoryMaps
  /\ kernel_end \in KernelEnds
  /\ phase \in {"reset", "ready"}
  /\ page_bitmap \subseteq Pages
  /\ overrun \subseteq Int
  /\ handed \subseteq Pages

(* A page somebody holds keeps its bit set, whatever calls came in         *)
(* between: find_free_page (pmm.c:40-47) cannot give it out a second time. *)
HandedPagesAreMarked == handed \subseteq page_bitmap

(* No page that lies below kernel_end as a whole is given out, whatever    *)
(* regions of the map name it and whatever is freed: pmm_init reserves     *)
(* (pmm.c:78-83) behind all that it clears.  All of the image that can be  *)
(* given out is what it has in the page kernel_end lies inside of.         *)
WholeKernelPagesKept == \A p \in handed : kernel_end < (p + 1) * PAGE_SIZE

HandedMemoryIsUsable == \A p \in handed : PageIsUsable(p)

(* With a map that fits in 32 bits, the page numbers pmm_init computes     *)
(* (pmm.c:64-72) round inwards: every byte of a page given out is RAM the  *)
(* boot loader reported as usable, also when regions of the map overlap    *)
(* or leave holes.                                                         *)
HandedPagesAreUsable == MapFits => HandedMemoryIsUsable

(* No page is lost: with such a map, a whole usable page that is not       *)
(* reserved is either held by a client or free to be found, so             *)
(* pmm_alloc_page (pmm.c:92-94) fails only when clients hold all of them.  *)
NoPageLost ==
  phase = "ready" /\ MapFits =>
    \A p \in Pages \ ReservedPages :
      PageIsUsable(p) => (p \in page_bitmap <=> p \in handed)

(* pmm.c:78 says pmm_init reserves the kernel's memory: no byte of the     *)
(* image is in a page given out.  So it is for an image that ends with a   *)
(* page; linker.ld:35 puts kernel_end wherever .bss ends.                  *)
KernelMemoryReserved == \A p \in handed : kernel_end <= p * PAGE_SIZE

KernelEndsWithPage == kernel_end % PAGE_SIZE = 0

(* pmm.h:8 calls MAX_PAGES a safety cap: pmm_init touches no bit past it.  *)
BitmapNotOverrun == overrun = {}

=============================================================================
