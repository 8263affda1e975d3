----------------------- MODULE PhysicalMemoryProofs -----------------------
(***************************************************************************)
(* Proofs about the page allocator, for every page size, bitmap size,      *)
(* memory map and kernel size.                                             *)
(***************************************************************************)
EXTENDS PhysicalMemory, TLAPS

(* The pages pmm_init leaves marked. *)
Reserved == (Pages \ AllBitsCleared) \cup ReservedPages

(* Once pmm_init has run, a bit is set because its page was never free or  *)
(* because somebody holds it; the two never coincide.                      *)
BitmapMeaning ==
  /\ phase = "reset" => handed = {}
  /\ phase = "ready" => /\ page_bitmap = Reserved \cup handed
                        /\ handed \cap Reserved = {}

IInv == TypeOK /\ BitmapMeaning

-----------------------------------------------------------------------------
(* Division by the page size, the only arithmetic of pmm.c.                *)
LEMMA PageBounds ==
  ASSUME NEW addr \in Nat, NEW p \in Int
  PROVE  /\ addr_to_page(addr) \in Int
         /\ addr_to_page(addr) <= p <=> addr < (p + 1) * PAGE_SIZE
         /\ p <= addr_to_page(addr) <=> p * PAGE_SIZE <= addr
<1> DEFINE q == addr \div PAGE_SIZE
           r == addr % PAGE_SIZE
<1>1. PAGE_SIZE \in Nat /\ PAGE_SIZE > 0
  BY SizesAssumption
<1>2. q \in Int /\ r \in Int /\ addr = q * PAGE_SIZE + r /\ 0 <= r /\ r < PAGE_SIZE
  BY <1>1, Z3
<1>3. ASSUME NEW a \in Int, NEW b \in Int, a <= b
      PROVE  a * PAGE_SIZE <= b * PAGE_SIZE
  BY <1>1, <1>3, Z3
<1>4. (q + 1) * PAGE_SIZE = q * PAGE_SIZE + PAGE_SIZE
  BY <1>1, <1>2, Z3
<1> HIDE DEF q, r
<1>5. q <= p <=> addr < (p + 1) * PAGE_SIZE
  <2>1. q <= p => (q + 1) * PAGE_SIZE <= (p + 1) * PAGE_SIZE
    <3>1. q <= p => q + 1 <= p + 1
      BY <1>2
    <3> QED BY <1>2, <1>3, <3>1
  <2>2. ~ (q <= p) => (p + 1) * PAGE_SIZE <= q * PAGE_SIZE
    <3>1. ~ (q <= p) => p + 1 <= q
      BY <1>2
    <3> QED BY <1>2, <1>3, <3>1
  <2>3. (p + 1) * PAGE_SIZE \in Int /\ q * PAGE_SIZE \in Int
    BY <1>1, <1>2
  <2> DEFINE m == (p + 1) * PAGE_SIZE
             n == q * PAGE_SIZE
  <2> HIDE DEF m, n
  <2> QED BY <1>1, <1>2, <1>4, <2>1, <2>2, <2>3 DEF m, n
<1>6. p <= q <=> p * PAGE_SIZE <= addr
  <2>1. p <= q => p * PAGE_SIZE <= q * PAGE_SIZE
    BY <1>2, <1>3
  <2>2. ~ (p <= q) => (q + 1) * PAGE_SIZE <= p * PAGE_SIZE
    <3>1. ~ (p <= q) => q + 1 <= p
      BY <1>2
    <3> QED BY <1>2, <1>3, <3>1
  <2>3. p * PAGE_SIZE \in Int /\ q * PAGE_SIZE \in Int
    BY <1>1, <1>2
  <2> QED BY <1>1, <1>2, <1>4, <2>1, <2>2, <2>3
<1> QED BY <1>2, <1>5, <1>6 DEF q, addr_to_page

LEMMA NoTruncation ==
  ASSUME NEW n \in Nat, n < WORD
  PROVE  Uint32(n) = n
BY SizesAssumption DEF Uint32

LEMMA AlignedPage ==
  ASSUME NEW addr \in Nat, addr % PAGE_SIZE = 0
  PROVE  addr_to_page(addr) * PAGE_SIZE = addr
<1> DEFINE q == addr \div PAGE_SIZE
           r == addr % PAGE_SIZE
<1>1. PAGE_SIZE \in Nat /\ PAGE_SIZE > 0
  BY SizesAssumption
<1>2. q \in Int /\ r \in Int /\ addr = q * PAGE_SIZE + r /\ r = 0
  BY <1>1, Z3
<1>3. q * PAGE_SIZE \in Int
  BY <1>1, <1>2
<1> HIDE DEF q, r
<1>4. q * PAGE_SIZE = addr
  BY <1>2, <1>3
<1> QED BY <1>4 DEF q, addr_to_page

(* In a map that fits, the bits pmm_init clears are those of the pages     *)
(* that lie in one usable region.                                          *)
LEMMA ClearedIsUsable ==
  ASSUME TypeOK, MapFits, NEW p \in Pages
  PROVE  p \in AllBitsCleared <=> PageIsUsable(p)
<1>1. ASSUME NEW r \in mmap, r.type = 1
      PROVE  p \in BitsCleared(r) <=> /\ r.addr <= p * PAGE_SIZE
                                      /\ (p + 1) * PAGE_SIZE <= r.addr + r.len
  <2>1. /\ r.addr \in Nat /\ r.len \in Nat
        /\ r.addr % PAGE_SIZE = 0 /\ r.addr + r.len < WORD
        /\ WORD \in Nat /\ PAGE_SIZE \in Nat /\ PAGE_SIZE > 0
    BY <1>1, SizesAssumption, BootAssumption DEF TypeOK, MapFits, Region
  <2>2. /\ Uint32(r.addr) = r.addr /\ Uint32(r.len) = r.len
        /\ Uint32(r.addr + r.len) = r.addr + r.len
    <3>1. /\ r.addr + r.len \in Nat
          /\ r.addr <= r.addr + r.len /\ r.len <= r.addr + r.len
      BY <2>1
    <3>2. r.addr < WORD /\ r.len < WORD
      BY <2>1, <3>1
    <3> QED BY <2>1, <3>1, <3>2, NoTruncation
  <2>3. p \in Int /\ p + 1 \in Int
    BY SizesAssumption DEF Pages
  <2>4. BitsCleared(r) = addr_to_page(r.addr) .. addr_to_page(r.addr + r.len) - 1
    BY <1>1, <2>2 DEF BitsCleared
  <2>5. addr_to_page(r.addr) <= p <=> r.addr <= p * PAGE_SIZE
    <3>1. addr_to_page(r.addr) * PAGE_SIZE = r.addr
      BY <2>1, AlignedPage
    <3>2. addr_to_page(r.addr) <= p <=> r.addr < (p + 1) * PAGE_SIZE
      BY <2>1, <2>3, PageBounds
    <3>3. (p + 1) * PAGE_SIZE = p * PAGE_SIZE + PAGE_SIZE
      BY <2>1, <2>3, Z3
    <3>4. addr_to_page(r.addr) \in Int
      BY <2>1, <2>3, PageBounds
    <3>5. addr_to_page(r.addr) <= p => addr_to_page(r.addr) * PAGE_SIZE <= p * PAGE_SIZE
      BY <2>1, <2>3, <3>4, Z3
    <3>6. p * PAGE_SIZE \in Int
      BY <2>1, <2>3
    <3> QED BY <2>1, <2>3, <3>1, <3>2, <3>3, <3>5, <3>6
  <2>6. p + 1 <= addr_to_page(r.addr + r.len)
          <=> (p + 1) * PAGE_SIZE <= r.addr + r.len
    BY <2>1, <2>3, PageBounds
  <2>7. addr_to_page(r.addr) \in Int /\ addr_to_page(r.addr + r.len) \in Int
    BY <2>1, <2>3, PageBounds
  <2> QED BY <2>3, <2>4, <2>5, <2>6, <2>7
<1>2. \A r \in mmap : r.type # 1 => BitsCleared(r) = {}
  BY DEF BitsCleared
<1>3. p \in AllBitsCleared <=> \E r \in mmap : p \in BitsCleared(r)
  BY DEF AllBitsCleared
<1> QED BY <1>1, <1>2, <1>3 DEF PageIsUsable

-----------------------------------------------------------------------------
LEMMA InitInv == Init => IInv
BY DEF Init, IInv, TypeOK, BitmapMeaning

(* What pmm_init computes from the map are page numbers. *)
LEMMA ClearedAreInts ==
  ASSUME mmap \in MemoryMaps
  PROVE  AllBitsCleared \subseteq Int
BY DEF AllBitsCleared, BitsCleared

LEMMA NextInv == IInv /\ [Next]_vars => IInv'
<1> SUFFICES ASSUME IInv, [Next]_vars PROVE IInv'
  OBVIOUS
<1> USE DEF IInv
<1>1. CASE pmm_init
  <2>1. TypeOK'
    BY <1>1, ClearedAreInts DEF pmm_init, TypeOK, ReservedPages
  <2>2. Reserved' = Reserved
    BY <1>1 DEF pmm_init, Reserved, AllBitsCleared, ReservedPages
  <2> QED BY <1>1, <2>1, <2>2 DEF pmm_init, BitmapMeaning, Reserved
<1>2. ASSUME NEW page \in Pages, pmm_alloc_page(page) PROVE IInv'
  <2>1. TypeOK'
    BY <1>2 DEF pmm_alloc_page, TypeOK
  <2>2. Reserved' = Reserved
    BY <1>2 DEF pmm_alloc_page, Reserved, AllBitsCleared, ReservedPages
  <2>3. page \notin page_bitmap
    BY <1>2 DEF pmm_alloc_page, find_free_page, FreePages
  <2> QED BY <1>2, <2>1, <2>2, <2>3 DEF pmm_alloc_page, BitmapMeaning
<1>3. CASE pmm_alloc_page_fails
  BY <1>3 DEF pmm_alloc_page_fails, vars, TypeOK, BitmapMeaning, Reserved,
              AllBitsCleared, ReservedPages
<1>4. ASSUME NEW page \in handed, pmm_free_page(page) PROVE IInv'
  <2>1. TypeOK'
    BY <1>4 DEF pmm_free_page, TypeOK
  <2>2. Reserved' = Reserved
    BY <1>4 DEF pmm_free_page, Reserved, AllBitsCleared, ReservedPages
  <2> QED BY <1>4, <2>1, <2>2 DEF pmm_free_page, BitmapMeaning
<1>5. CASE UNCHANGED vars
  BY <1>5 DEF vars, TypeOK, BitmapMeaning, Reserved, AllBitsCleared, ReservedPages
<1> QED BY <1>1, <1>2, <1>3, <1>4, <1>5 DEF Next

LEMMA Invariance == Spec => []IInv
BY InitInv, NextInv, PTL DEF Spec

(* The variables keep their types. *)
THEOREM TypeCorrect == Spec => []TypeOK
BY Invariance, PTL DEF IInv

(* A page somebody holds stays marked, so no second caller gets it.        *)
THEOREM HandedStayMarked == Spec => []HandedPagesAreMarked
<1>1. IInv => HandedPagesAreMarked
  BY DEF IInv, TypeOK, BitmapMeaning, HandedPagesAreMarked
<1> QED BY <1>1, Invariance, PTL

(* What is given out lies above the pages pmm_init reserves. *)
LEMMA HandedNotReserved ==
  ASSUME IInv, NEW p \in handed
  PROVE  /\ p \in Int
         /\ addr_to_page(kernel_end) <= p
<1>1. p \in Pages /\ p \notin ReservedPages
  BY DEF IInv, TypeOK, BitmapMeaning, Reserved
<1>2. kernel_end \in Nat
  BY BootAssumption, SizesAssumption DEF IInv, TypeOK
<1>3. p \in Int /\ addr_to_page(kernel_end) \in Int
  BY <1>1, <1>2, PageBounds, SizesAssumption DEF Pages
<1> QED BY <1>1, <1>3 DEF ReservedPages

(* No page that lies below kernel_end as a whole is ever given out.        *)
THEOREM WholePagesKept == Spec => []WholeKernelPagesKept
<1>1. ASSUME IInv, NEW p \in handed PROVE kernel_end < (p + 1) * PAGE_SIZE
  <2>1. kernel_end \in Nat
    BY <1>1, BootAssumption, SizesAssumption DEF IInv, TypeOK
  <2> QED BY <1>1, <2>1, HandedNotReserved, PageBounds
<1>2. IInv => WholeKernelPagesKept
  BY <1>1 DEF WholeKernelPagesKept
<1> QED BY <1>2, Invariance, PTL

(* An image that ends with a page is reserved to its last byte.            *)
THEOREM AlignedKernelReserved == Spec => [](KernelEndsWithPage => KernelMemoryReserved)
<1>1. ASSUME IInv, KernelEndsWithPage, NEW p \in handed
      PROVE  kernel_end <= p * PAGE_SIZE
  <2>1. kernel_end \in Nat
    BY <1>1, BootAssumption, SizesAssumption DEF IInv, TypeOK
  <2>2. p \in Int /\ addr_to_page(kernel_end) <= p /\ addr_to_page(kernel_end) \in Int
    BY <1>1, <2>1, HandedNotReserved, PageBounds
  <2>3. addr_to_page(kernel_end) * PAGE_SIZE = kernel_end
    BY <1>1, <2>1, AlignedPage DEF KernelEndsWithPage
  <2>4. PAGE_SIZE \in Nat
    BY SizesAssumption
  <2>5. addr_to_page(kernel_end) * PAGE_SIZE <= p * PAGE_SIZE
    BY <2>2, <2>4, Z3
  <2> QED BY <2>3, <2>5
<1>2. IInv => (KernelEndsWithPage => KernelMemoryReserved)
  BY <1>1 DEF KernelMemoryReserved
<1> QED BY <1>2, Invariance, PTL

(* In a map that fits 32 bits, every page given out is usable RAM.         *)
THEOREM HandedAreUsable == Spec => []HandedPagesAreUsable
<1>1. IInv => HandedPagesAreUsable
  <2> SUFFICES ASSUME IInv, MapFits, NEW p \in handed PROVE PageIsUsable(p)
    BY DEF HandedPagesAreUsable, HandedMemoryIsUsable
  <2>1. TypeOK /\ p \in Pages /\ p \in AllBitsCleared
    BY DEF IInv, TypeOK, BitmapMeaning, Reserved
  <2> QED BY <2>1, ClearedIsUsable
<1> QED BY <1>1, Invariance, PTL

(* In such a map every usable page that is not reserved is held or free.   *)
THEOREM NoPageIsLost == Spec => []NoPageLost
<1>1. IInv => NoPageLost
  <2> SUFFICES ASSUME IInv, MapFits, phase = "ready",
                      NEW p \in Pages \ ReservedPages, PageIsUsable(p)
               PROVE  p \in page_bitmap <=> p \in handed
    BY DEF NoPageLost
  <2>1. p \in AllBitsCleared
    BY ClearedIsUsable DEF IInv
  <2> QED BY <2>1 DEF IInv, BitmapMeaning, Reserved
<1> QED BY <1>1, Invariance, PTL

=============================================================================
