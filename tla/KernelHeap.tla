---------------------------- MODULE KernelHeap ----------------------------
(***************************************************************************)
(* The kernel heap, memory/heap/heap.c, on top of the page allocator.      *)
(*                                                                         *)
(* The list that starts at first_block is a sequence of block headers in   *)
(* the order of their next pointers: at is the header's address, size the  *)
(* payload behind it.  kmalloc is one step per scan of the list, since a   *)
(* scan that finds nothing calls heap_expand and then kmalloc again.       *)
(***************************************************************************)
EXTENDS Integers, Sequences

CONSTANTS
  PAGE_SIZE, MAX_PAGES, WORD, MemoryMaps, KernelEnds,
  HDR,          \* sizeof(block_header_t), 12 in the build
  Requests,     \* sizes passed to kmalloc
  MaxGrown      \* bound: expansions of one kmalloc call that are counted

ASSUME HeapAssumption ==
  /\ PAGE_SIZE \in Nat /\ MAX_PAGES \in Nat \ {0} /\ WORD \in Nat
  /\ HDR \in Nat \ {0}
  /\ HDR % 4 = 0
  /\ PAGE_SIZE % 4 = 0
  /\ HDR < PAGE_SIZE /\ PAGE_SIZE < WORD
  /\ Requests \subseteq 0 .. WORD - 4
  /\ MaxGrown \in Nat

VARIABLES
  mmap, kernel_end, phase, page_bitmap, overrun, handed,
  heap,         \* "off" before heap_init, "on" after it, "lost" if it failed
  first_block,  \* the list of blocks
  call,         \* the kmalloc call that is running, or Idle
  live,         \* history: the allocations callers hold, address to bytes
  others,       \* history: pages the other users of the page allocator hold
  lowHeader     \* history: a block header was written at address 0

Pmm == INSTANCE PhysicalMemory

heapVars == <<heap, first_block, call, live, others, lowHeader>>
vars == <<mmap, kernel_end, phase, page_bitmap, overrun, handed,
          heap, first_block, call, live, others, lowHeader>>

-----------------------------------------------------------------------------
Idle == [asked |-> 0, size |-> 0, grown |-> 0, running |-> FALSE]

(* Mutant: the size is rounded down. *)
RoundDown(size) == size - (size % 4)

(* (size + 3) & ~3 in 32 bits *)
RoundUp(size) == LET sum == Pmm!Uint32(size + 3) IN sum - (sum % 4)

WholePage(addr) == [at |-> addr, size |-> PAGE_SIZE - HDR, free |-> TRUE]

Payload(block) == block.at + HDR      \* (void*)(curr + 1)

(* Mutant: the scan does not look at the free flag. *)
FitsAnyway(block, size) == block.size >= size

Fits(block, size) == block.free /\ block.size >= size

(* The block the scan of the list stops at. *)
FirstFit(i, size) ==
  /\ i \in DOMAIN first_block
  /\ Fits(first_block[i], size)
  /\ \A j \in 1 .. i - 1 : ~ Fits(first_block[j], size)

-----------------------------------------------------------------------------
pmm_init == Pmm!pmm_init /\ UNCHANGED heapVars

heap_init ==
  /\ phase = "ready"
  /\ heap = "off"
  /\ \E page \in Pmm!Pages :
       /\ Pmm!pmm_alloc_page(page)
       /\ first_block' = << WholePage(page * PAGE_SIZE) >>
  /\ heap' = "on"
  /\ UNCHANGED <<call, live, others, lowHeader>>

(* pmm_alloc_page returns 0, which nobody checks: the header is written at *)
(* address 0 and first_block is NULL.                                      *)
heap_init_without_memory ==
  /\ phase = "ready"
  /\ heap = "off"
  /\ Pmm!pmm_alloc_page_fails
  /\ heap' = "lost"
  /\ lowHeader' = TRUE
  /\ UNCHANGED <<first_block, call, live, others>>

(* A caller enters kmalloc, which rounds the size up. *)
kmalloc(size) ==
  /\ heap = "on"
  /\ ~ call.running
  /\ call' = [asked |-> size, size |-> RoundUp(size), grown |-> 0, running |-> TRUE]
  /\ UNCHANGED <<mmap, kernel_end, phase, page_bitmap, overrun, handed>>
  /\ UNCHANGED <<heap, first_block, live, others, lowHeader>>

(* The call returns the payload of block i. *)
Return(i) ==
  LET ptr == Payload(first_block[i])
  IN  /\ live' = [q \in DOMAIN live \cup {ptr} |->
                    IF q = ptr THEN call.asked ELSE live[q]]
      /\ call' = Idle
      /\ UNCHANGED <<mmap, kernel_end, phase, page_bitmap, overrun, handed>>
      /\ UNCHANGED <<heap, others, lowHeader>>

(* Mutant: the new header's bytes are forgotten in the size of the rest. *)
kmalloc_split_long(i) ==
  LET block == first_block[i]
      used  == [block EXCEPT !.free = FALSE, !.size = call.size]
      rest  == [at   |-> block.at + HDR + call.size,
                size |-> block.size - call.size,
                free |-> TRUE]
  IN  /\ call.running
      /\ FirstFit(i, call.size)
      /\ block.size > Pmm!Uint32(call.size + HDR)
      /\ first_block' = SubSeq(first_block, 1, i - 1) \o << used, rest >>
                          \o SubSeq(first_block, i + 1, Len(first_block))
      /\ Return(i)

(* The first block that fits is larger than the request and a header: the  *)
(* rest of it becomes a free block behind it in the list.                  *)
kmalloc_split(i) ==
  LET block == first_block[i]
      used  == [block EXCEPT !.free = FALSE, !.size = call.size]
      rest  == [at   |-> block.at + HDR + call.size,
                size |-> block.size - call.size - HDR,
                free |-> TRUE]
  IN  /\ call.running
      /\ FirstFit(i, call.size)
      /\ block.size > Pmm!Uint32(call.size + HDR)
      /\ first_block' = SubSeq(first_block, 1, i - 1) \o << used, rest >>
                          \o SubSeq(first_block, i + 1, Len(first_block))
      /\ Return(i)

(* The first block that fits has no room for another header. *)
kmalloc_whole(i) ==
  /\ call.running
  /\ FirstFit(i, call.size)
  /\ first_block[i].size <= Pmm!Uint32(call.size + HDR)
  /\ first_block' = [first_block EXCEPT ![i].free = FALSE]
  /\ Return(i)

(* Mutant: the new block is never linked into the list. *)
kmalloc_grow_unlinked ==
  /\ call.running
  /\ \A i \in DOMAIN first_block : ~ Fits(first_block[i], call.size)
  /\ \E page \in Pmm!Pages : Pmm!pmm_alloc_page(page)
  /\ call' = [call EXCEPT !.grown = IF @ < MaxGrown THEN @ + 1 ELSE @]
  /\ UNCHANGED <<heap, first_block, live, others, lowHeader>>

(* No block fits: heap_expand appends a page to the list, and kmalloc      *)
(* starts over.                                                            *)
kmalloc_grow ==
  /\ call.running
  /\ \A i \in DOMAIN first_block : ~ Fits(first_block[i], call.size)
  /\ \E page \in Pmm!Pages :
       /\ Pmm!pmm_alloc_page(page)
       /\ first_block' = Append(first_block, WholePage(page * PAGE_SIZE))
  /\ call' = [call EXCEPT !.grown = IF @ < MaxGrown THEN @ + 1 ELSE @]
  /\ UNCHANGED <<heap, live, others, lowHeader>>

(* The same without a page left: new_block is NULL, its header goes to     *)
(* address 0, and linking NULL leaves the list as it was.                  *)
kmalloc_grow_without_memory ==
  /\ call.running
  /\ \A i \in DOMAIN first_block : ~ Fits(first_block[i], call.size)
  /\ Pmm!pmm_alloc_page_fails
  /\ lowHeader' = TRUE
  /\ call' = [call EXCEPT !.grown = IF @ < MaxGrown THEN @ + 1 ELSE @]
  /\ UNCHANGED <<heap, first_block, live, others>>

(* kfree of an allocation the caller holds. *)
kfree(ptr) ==
  /\ ~ call.running
  /\ \E i \in DOMAIN first_block :
       /\ first_block[i].at = ptr - HDR
       /\ first_block' = [first_block EXCEPT ![i].free = TRUE]
  /\ live' = [q \in DOMAIN live \ {ptr} |-> live[q]]
  /\ UNCHANGED <<mmap, kernel_end, phase, page_bitmap, overrun, handed>>
  /\ UNCHANGED <<heap, call, others, lowHeader>>

(* paging_init and map_page take pages of their own, between heap calls. *)
paging_alloc_page ==
  /\ heap = "on"
  /\ ~ call.running
  /\ \E page \in Pmm!Pages :
       /\ Pmm!pmm_alloc_page(page)
       /\ others' = others \cup {page}
  /\ UNCHANGED <<heap, first_block, call, live, lowHeader>>

Init ==
  /\ Pmm!Init
  /\ heap = "off"
  /\ first_block = << >>
  /\ call = Idle
  /\ live = [ptr \in {} |-> 0]
  /\ others = {}
  /\ lowHeader = FALSE

(* The rest of a kmalloc call that has begun. *)
kmalloc_step ==
  \/ \E i \in DOMAIN first_block : kmalloc_split(i) \/ kmalloc_whole(i)
  \/ kmalloc_grow
  \/ kmalloc_grow_without_memory

Next ==
  \/ pmm_init
  \/ heap_init
  \/ heap_init_without_memory
  \/ \E size \in Requests : kmalloc(size)
  \/ kmalloc_step
  \/ \E ptr \in DOMAIN live : kfree(ptr)
  \/ paging_alloc_page

Spec == Init /\ [][Next]_vars

(* The kernel runs on: a kmalloc call that has begun takes its next step.  *)
FairSpec == Spec /\ WF_vars(kmalloc_step)

-----------------------------------------------------------------------------
PageOf(addr) == Pmm!addr_to_page(addr)
End(block) == block.at + HDR + block.size

BlockType == [at : Nat, size : Nat, free : BOOLEAN]

(* The variables hold values of their C types. *)
TypeOK ==
  /\ Pmm!TypeOK
  /\ heap \in {"off", "on", "lost"}
  /\ first_block \in Seq(BlockType)
  /\ call \in [asked : Nat, size : Nat, grown : 0 .. MaxGrown, running : BOOLEAN]
  /\ \A ptr \in DOMAIN live : ptr \in Nat /\ live[ptr] \in Nat
  /\ others \subseteq Pmm!Pages
  /\ lowHeader \in BOOLEAN

(* Splitting (heap.c:54-66) and growing (heap.c:23-38) leave no gap and no *)
(* overlap: the blocks of a page follow one another from its first byte to *)
(* its last, so the header of the next block is where the payload ends.    *)
BlocksTilePages ==
  /\ \A i \in DOMAIN first_block :
       LET block == first_block[i]
           limit == (PageOf(block.at) + 1) * PAGE_SIZE
       IN  \/ End(block) = limit
           \/ /\ End(block) < limit
              /\ i < Len(first_block)
              /\ first_block[i + 1].at = End(block)
  /\ \A i \in DOMAIN first_block :
       \/ first_block[i].at % PAGE_SIZE = 0
       \/ i > 1 /\ first_block[i].at = End(first_block[i - 1])
  /\ \A i, j \in DOMAIN first_block :
       first_block[i].at = first_block[j].at => i = j

(* What callers hold and what the list says agree: every allocation is the *)
(* payload of one used block that is large enough (heap.c:50-68), and      *)
(* every used block is somebody's, so kfree can bring all of them back.    *)
UsedBlocksAreLive ==
  /\ \A i \in DOMAIN first_block :
       first_block[i].free <=> Payload(first_block[i]) \notin DOMAIN live
  /\ \A ptr \in DOMAIN live : \E i \in DOMAIN first_block :
       /\ Payload(first_block[i]) = ptr
       /\ first_block[i].size >= live[ptr]

(* Every block lies in a page heap.c took from the page allocator, and     *)
(* none in a page that went to paging.c.                                   *)
HeapPagesAreOwn ==
  \A i \in DOMAIN first_block :
    /\ PageOf(first_block[i].at) \in handed \ others
    /\ first_block[i].at % 4 = 0

(* heap.c implements the promise of heap.h. *)
Promise == INSTANCE Allocator
             WITH Addresses <- 0 .. MAX_PAGES * PAGE_SIZE - 1
ImplementsAllocator == Promise!Spec

(* A call that asks for at most a page without its header returns as long  *)
(* as a page is left: one expansion makes room (heap.c:74-81).             *)
KmallocReturns ==
  (/\ call.running
   /\ call.size <= PAGE_SIZE - HDR
   /\ Pmm!FreePages # {}) ~> ~ call.running

(* heap.c:80 says kmalloc retries once after it has grown the heap. *)
KmallocRetriesOnce == call.grown <= 1

(* pmm.c:93 returns 0 for "No memory left"; heap.c writes no header there. *)
NoHeaderAtNull == ~ lowHeader

=============================================================================
