------------------------------ MODULE Paging ------------------------------
(***************************************************************************)
(* Paging, memory/paging/paging.c, over the page allocator, in the order   *)
(* kernel_main starts them: pmm_init, heap_init, paging_init.              *)
(*                                                                         *)
(* Memory is a function from pages to their words.  A word of a page       *)
(* directory or table is the address of a page plus flags.  Pages that the *)
(* memory map does not report as usable may have no RAM behind them: what  *)
(* is written there is lost.  Once paging is on, the heap and the          *)
(* framebuffer are accessed through the MMU, which is external: it walks   *)
(* the tables as they lie in memory.                                       *)
(***************************************************************************)
EXTENDS Integers

CONSTANTS
  PAGE_SIZE, MAX_PAGES, WORD, MemoryMaps, KernelEnds,
  ENTRIES,        \* words in a page, 1024 in the build
  IDENTITY_END,   \* end of the identity map, 64 MB in the build
  Framebuffers,   \* where the boot loader may put the framebuffer
  Garbage         \* what a word of RAM may hold at boot

AllPages == 0 .. ENTRIES * ENTRIES - 1
Entry    == 0 .. ENTRIES - 1

PAGE_PRESENT  == 1
PAGE_WRITABLE == 2

ASSUME PagingAssumption ==
  /\ ENTRIES \in Nat \ {0} /\ MAX_PAGES \in Nat \ {0} /\ PAGE_SIZE \in Nat
  /\ PAGE_SIZE % 2 = 0 /\ PAGE_SIZE > PAGE_PRESENT + PAGE_WRITABLE
  /\ WORD = ENTRIES * ENTRIES * PAGE_SIZE
  /\ MAX_PAGES < ENTRIES * ENTRIES
  /\ KernelEnds \subseteq PAGE_SIZE .. MAX_PAGES * PAGE_SIZE
  /\ IDENTITY_END \in 1 .. WORD - 1
  /\ IDENTITY_END % PAGE_SIZE = 0
  /\ \A f \in Framebuffers : f.addr \in 0 .. WORD - 1 /\ f.size \in 1 .. WORD - 1
  /\ Garbage \subseteq 0 .. WORD - 1

VARIABLES
  mmap, kernel_end, phase, page_bitmap, overrun, handed,
  pc,           \* where kernel_main is
  fb,           \* the framebuffer: its address and size
  kernel_dir,   \* the page of the page directory
  addr,         \* the loop variable of paging_init
  mem,          \* what the words of every physical page read as
  holes,        \* pages without RAM: they read as at boot, whatever is written
  own,          \* history: pages paging.c took
  heap,         \* history: pages the heap took
  failed        \* history: pmm_alloc_page returned 0 to paging.c

Pmm == INSTANCE PhysicalMemory

pmmVars    == <<mmap, kernel_end, phase, page_bitmap, overrun, handed>>
pagingVars == <<pc, fb, kernel_dir, addr, mem, holes, own, heap, failed>>
vars == <<mmap, kernel_end, phase, page_bitmap, overrun, handed,
          pc, fb, kernel_dir, addr, mem, holes, own, heap, failed>>

-----------------------------------------------------------------------------
PageOf(a)   == a \div PAGE_SIZE               \* a word without its flags
PD_INDEX(a) == PageOf(a) \div ENTRIES
PT_INDEX(a) == PageOf(a) % ENTRIES
Present(word) == word % 2 = PAGE_PRESENT

Filled(word) == [i \in Entry |-> word]

(* kernel_dir->tables is the page behind kernel_dir->entries. *)
entries(m) == m[kernel_dir]
tables(m)  == m[kernel_dir + 1]

(* External: what memory m reads as once the words of new are written.     *)
Kept(m, new) == [p \in AllPages |-> IF p \in holes THEN m[p] ELSE new[p]]

(* Mutant: only the CPU's copy of the table's address is stored. *)
WithTableForCpu(m, i, page) ==
  Kept(m, [ [m EXCEPT ![page] = Filled(0)]
              EXCEPT ![kernel_dir][i] = page * PAGE_SIZE + PAGE_PRESENT + PAGE_WRITABLE ])

(* A zeroed table, stored in both arrays of the directory. *)
WithTable(m, i, page) ==
  Kept(m, [ [m EXCEPT ![page] = Filled(0)]
              EXCEPT ![kernel_dir + 1][i] = page * PAGE_SIZE,
                     ![kernel_dir][i] = page * PAGE_SIZE + PAGE_PRESENT + PAGE_WRITABLE ])

(* The entry of virtual address va, which map_page writes last. *)
WithEntry(m, va, pa) ==
  Kept(m, [m EXCEPT ![PageOf(tables(m)[PD_INDEX(va)])][PT_INDEX(va)] =
                        PageOf(pa) * PAGE_SIZE + PAGE_WRITABLE + PAGE_PRESENT])

(* The bounds of the loop over the framebuffer. *)
fb_start == PageOf(fb.addr) * PAGE_SIZE

(* Mutant: no page is added for a framebuffer that starts inside one. *)
fb_end_tight == Pmm!Uint32(fb_start + fb.size)

fb_end == Pmm!Uint32(fb_start + fb.size + PAGE_SIZE)

(* addr += 0x1000 *)
NextPage(a) == Pmm!Uint32(a + PAGE_SIZE)

(* Conditions of the two loops; mutant: # instead of <.                    *)
MapsIdentity(a) == a < IDENTITY_END
MapsFramebufferUnequal(a) == a # fb_end
MapsFramebuffer(a)        == a < fb_end

-----------------------------------------------------------------------------
pmm_init ==
  /\ Pmm!pmm_init
  /\ UNCHANGED pagingVars

(* The answer of pmm_alloc_page to paging.c, which does not test it. *)
Takes(page) ==
  \/ /\ page \in Pmm!Pages
     /\ Pmm!pmm_alloc_page(page)
     /\ own' = own \cup {page}
     /\ UNCHANGED failed
  \/ /\ page = 0
     /\ Pmm!pmm_alloc_page_fails
     /\ failed' = TRUE
     /\ UNCHANGED own

(* The heap writes headers, and callers their data, to the page it took;   *)
(* with no page left the header goes to address 0.                         *)
HeapWrites(page) ==
  \/ /\ page \in Pmm!Pages
     /\ Pmm!pmm_alloc_page(page)
     /\ heap' = heap \cup {page}
  \/ /\ page = 0
     /\ Pmm!pmm_alloc_page_fails
     /\ UNCHANGED heap

heap_init ==
  /\ phase = "ready" /\ pc = "heap"
  /\ \E page \in AllPages, word \in Garbage :
       /\ HeapWrites(page)
       /\ mem' = Kept(mem, [mem EXCEPT ![page] = Filled(word)])
  /\ pc' = "directory"
  /\ UNCHANGED <<fb, kernel_dir, addr, holes, own, failed>>

(* The two calls of pmm_alloc_page at the start of paging_init, and the    *)
(* memset of the structure, which is two pages long.                       *)
paging_init_directory ==
  /\ pc = "directory"
  /\ \E page \in AllPages : Takes(page) /\ kernel_dir' = page
  /\ pc' = "tables"
  /\ UNCHANGED <<fb, addr, mem, holes, heap>>

paging_init_tables ==
  /\ pc = "tables"
  /\ \E page \in AllPages : Takes(page)
  /\ mem' = Kept(mem, [mem EXCEPT ![kernel_dir] = Filled(0),
                                 ![kernel_dir + 1] = Filled(0)])
  /\ addr' = 0
  /\ pc' = "identity"
  /\ UNCHANGED <<fb, kernel_dir, holes, heap>>

(* map_page(kernel_dir, va, va, PAGE_WRITABLE) *)
map_page(va) ==
  LET i == PD_INDEX(va)
  IN  \/ /\ Present(entries(mem)[i])
         /\ mem' = WithEntry(mem, va, va)
         /\ UNCHANGED <<pmmVars, own, failed>>
      \/ /\ ~ Present(entries(mem)[i])
         /\ \E page \in AllPages :
              /\ Takes(page)
              /\ mem' = WithEntry(WithTable(mem, i, page), va, va)

paging_init_map_identity ==
  /\ pc = "identity" /\ MapsIdentity(addr)
  /\ map_page(addr)
  /\ addr' = NextPage(addr)
  /\ UNCHANGED <<pc, fb, kernel_dir, holes, heap>>

paging_init_identity_done ==
  /\ pc = "identity" /\ ~ MapsIdentity(addr)
  /\ pc' = "framebuffer"
  /\ addr' = fb_start
  /\ UNCHANGED <<pmmVars, fb, kernel_dir, mem, holes, own, heap, failed>>

paging_init_map_framebuffer ==
  /\ pc = "framebuffer" /\ MapsFramebuffer(addr)
  /\ map_page(addr)
  /\ addr' = NextPage(addr)
  /\ UNCHANGED <<pc, fb, kernel_dir, holes, heap>>

(* paging_load_directory and paging_enable *)
paging_init_enable ==
  /\ pc = "framebuffer" /\ ~ MapsFramebuffer(addr)
  /\ pc' = "on"
  /\ UNCHANGED <<pmmVars, fb, kernel_dir, addr, mem, holes, own, heap, failed>>

-----------------------------------------------------------------------------
(* External: the MMU finds the page of a virtual address, or none.         *)
NoPage == -1
Translate(va) ==
  LET pde == entries(mem)[PD_INDEX(va)]
      pte == mem[PageOf(pde)][PT_INDEX(va)]
  IN  IF Present(pde) /\ Present(pte) THEN PageOf(pte) ELSE NoPage

(* The handler of a page fault never returns (idt.c:155-161). *)
page_fault(va) ==
  /\ Translate(va) = NoPage
  /\ pc' = "fault"
  /\ UNCHANGED <<fb, kernel_dir, addr, mem, holes, own, failed>>

(* The heap grows by a page and writes to it. *)
heap_expand ==
  /\ pc = "on"
  /\ \E page \in AllPages, word \in Garbage :
       /\ HeapWrites(page)
       /\ \/ page_fault(page * PAGE_SIZE)
          \/ /\ Translate(page * PAGE_SIZE) # NoPage
             /\ mem' = Kept(mem, [mem EXCEPT ![Translate(page * PAGE_SIZE)] = Filled(word)])
             /\ UNCHANGED <<pc, fb, kernel_dir, addr, holes, own, failed>>

FramebufferBytes ==
  { a \in 0 .. WORD - 1 : fb.addr <= a /\ a < fb.addr + fb.size }

(* clear_screen and everything else drawn later; a draw that does not      *)
(* fault changes nothing here, as the framebuffer is no RAM.               *)
draw_faults ==
  /\ pc = "on"
  /\ \E va \in FramebufferBytes : page_fault(va)
  /\ UNCHANGED <<pmmVars, heap>>

draw ==
  /\ pc = "on"
  /\ \A va \in FramebufferBytes : Translate(va) # NoPage
  /\ UNCHANGED vars

Init ==
  /\ Pmm!Init
  /\ pc = "heap"
  /\ fb \in Framebuffers
  /\ kernel_dir = 0
  /\ addr = 0
  /\ \E word \in Garbage : mem = [p \in AllPages |-> Filled(word)]
  /\ holes \in {{}, AllPages \ Pmm!AllBitsCleared}
  /\ own = {} /\ heap = {}
  /\ failed = FALSE

(* The boot code runs alone: interrupt handlers allocate nothing.          *)
Boot ==
  \/ pmm_init
  \/ heap_init
  \/ paging_init_directory
  \/ paging_init_tables
  \/ paging_init_map_identity
  \/ paging_init_identity_done
  \/ paging_init_map_framebuffer
  \/ paging_init_enable

Next ==
  \/ Boot
  \/ heap_expand
  \/ draw_faults
  \/ draw

Spec == Init /\ [][Next]_vars
FairSpec == Spec /\ WF_vars(Boot)

-----------------------------------------------------------------------------
(* The framebuffers whose loop has an end below 4 GB to run to. *)
FramebufferFits == fb_start + fb.size + 2 * PAGE_SIZE <= WORD

(* The variables hold values of their C types. *)
TypeOK ==
  /\ pc \in {"heap", "directory", "tables", "identity", "framebuffer", "on", "fault"}
  /\ fb \in Framebuffers
  /\ kernel_dir \in AllPages
  /\ addr \in 0 .. WORD - 1
  /\ mem \in [AllPages -> [Entry -> 0 .. WORD - 1]]
  /\ holes \subseteq AllPages
  /\ own \subseteq AllPages /\ heap \subseteq AllPages
  /\ failed \in BOOLEAN

(* What paging_init (paging.c:93-105) is asked for: every page below       *)
(* IDENTITY_END and every page with a byte of the framebuffer, each mapped *)
(* to itself; one page behind the framebuffer may come with it.            *)
AskedPages == { p \in AllPages : p * PAGE_SIZE < IDENTITY_END }
                \cup { PageOf(a) : a \in FramebufferBytes }
Slack == PageOf(fb.addr + fb.size - 1) + 1

(* The page behind the directory's first, where its tables[] array lies,   *)
(* has RAM; the second call of pmm_alloc_page may have answered another.   *)
DirectoryInRam == kernel_dir + 1 \notin holes

(* Once paging is on the MMU sees exactly that map, whatever was in RAM at *)
(* boot and whatever the heap writes to its own pages later: no entry of a *)
(* table is stale and nobody's memory overlaps a table.                    *)
MapIsAsAsked ==
  pc \in {"on", "fault"} /\ ~ failed /\ DirectoryInRam /\ FramebufferFits =>
    \A p \in AllPages :
      /\ p \in AskedPages => Translate(p * PAGE_SIZE) = p
      /\ Translate(p * PAGE_SIZE) \in {p, NoPage}
      /\ Translate(p * PAGE_SIZE) = p => p \in AskedPages \cup {Slack}

(* The directory's two arrays (paging.c:70-72) name the same tables, each  *)
(* in a page of its own that the allocator gave to paging and that is      *)
(* neither the directory's nor the heap's.                                 *)
TablesAreOwn ==
  pc \in {"identity", "framebuffer", "on"} /\ ~ failed /\ DirectoryInRam =>
    /\ own \cap heap = {}
    /\ \A i \in Entry :
         Present(entries(mem)[i]) =>
           LET table == PageOf(entries(mem)[i])
           IN  /\ PageOf(tables(mem)[i]) = table
               /\ table \in own \ {kernel_dir, kernel_dir + 1}
               /\ \A j \in Entry \ {i} :
                    Present(entries(mem)[j]) => PageOf(entries(mem)[j]) # table

(* The loop over the framebuffer (paging.c:103) ends, and the kernel gets  *)
(* past paging_init, also when pages ran out.                              *)
PagingInitEnds == FramebufferFits => <>(pc = "on")

(* paging.c:93 says paging_init maps 0 to 64 MB to itself, and paging.c:90 *)
(* that the second page is for the tables[] portion map_page goes by: once *)
(* paging is on every page below IDENTITY_END is found at itself, whatever *)
(* the memory map is.                                                      *)
IdentityIsMapped ==
  pc = "on" /\ ~ failed =>
    \A p \in AllPages : p * PAGE_SIZE < IDENTITY_END => Translate(p * PAGE_SIZE) = p

(* pmm.h:8 lets RAM up to 1 GB be used: the heap never faults. *)
NoFault == pc # "fault"

=============================================================================
