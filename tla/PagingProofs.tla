---------------------------- MODULE PagingProofs ----------------------------
(***************************************************************************)
(* Proofs about paging, for every size of page and table, every memory map *)
(* and every framebuffer.                                                  *)
(***************************************************************************)
EXTENDS Paging, TLAPS

MemType == [AllPages -> [Entry -> 0 .. WORD - 1]]

(* The page that entry k of the i-th table maps, and back. *)
Number(i, k) == i * ENTRIES + k
Pd(p) == p \div ENTRIES
Pt(p) == p % ENTRIES

(* The words map_page and its new tables are made of. *)
Flagged(p) == p * PAGE_SIZE + PAGE_PRESENT + PAGE_WRITABLE

(* The allocator neither gives out a page without RAM nor has one to give. *)
HolesUnused ==
  /\ holes \cap handed = {} /\ holes \cap Pmm!AllBitsCleared = {}
  /\ phase = "ready" => holes \cap Pmm!Pages \subseteq page_bitmap

(* The tables of the directory in pages d and d + 1 of memory m are pages  *)
(* among mine, one for each entry, and map pages to themselves.            *)
SoundMap(m, d, mine) ==
  /\ \A i \in Entry :
       Present(m[d][i]) =>
         LET table == PageOf(m[d][i])
         IN  /\ table \in mine /\ table # d /\ table # d + 1
             /\ m[d + 1][i] = table * PAGE_SIZE
             /\ \A k \in Entry :
                  m[table][k] = 0 \/ m[table][k] = Flagged(Number(i, k))
  /\ \A i, j \in Entry :
       Present(m[d][i]) /\ Present(m[d][j]) /\ PageOf(m[d][i]) = PageOf(m[d][j]) => i = j

(* Memory m maps page p. *)
Has(m, d, p) ==
  LET word == m[d][Pd(p)]
  IN  Present(word) /\ Present(m[PageOf(word)][Pt(p)])

(* Pages the allocator gave out stay marked, and page 0 is the kernel's. *)
PagesMarked ==
  /\ own \subseteq handed /\ heap \subseteq handed /\ own \cap heap = {}
  /\ 0 \notin handed
  /\ phase = "reset" => handed = {} /\ pc = "heap"
  /\ phase = "ready" => handed \subseteq page_bitmap /\ 0 \in page_bitmap

(* Pages are given out in ascending order, so the page behind the          *)
(* directory's first is never the heap's, whoever's it is.                 *)
DirectoryPlaced ==
  /\ pc = "heap" => heap = {}
  /\ pc = "directory" => \A h \in heap, p \in Pmm!FreePages : h < p
  /\ pc = "tables" /\ ~ failed =>
       /\ kernel_dir \in own /\ kernel_dir + 1 \notin heap
       /\ \A p \in Pmm!FreePages : kernel_dir < p
  /\ pc \in {"identity", "framebuffer", "on", "fault"} /\ ~ failed =>
       /\ kernel_dir \in own /\ kernel_dir + 1 \notin heap
       /\ kernel_dir + 1 \in page_bitmap

TablesSound ==
  pc \in {"identity", "framebuffer", "on", "fault"} /\ ~ failed /\ DirectoryInRam =>
    SoundMap(mem, kernel_dir, own)

(* addr is the start of the first page the loop has not mapped. *)
First(a) == PageOf(a)
IdentityDone ==
  pc = "identity" /\ ~ failed /\ DirectoryInRam =>
    /\ addr = First(addr) * PAGE_SIZE /\ addr <= IDENTITY_END
    /\ \A p \in AllPages : Has(mem, kernel_dir, p) <=> p < First(addr)

FramebufferDone ==
  pc \in {"framebuffer", "on", "fault"} /\ ~ failed /\ DirectoryInRam /\ FramebufferFits =>
    /\ addr = First(addr) * PAGE_SIZE
    /\ First(fb.addr) <= First(addr)
    /\ addr < fb_end + PAGE_SIZE
    /\ pc # "framebuffer" => ~ MapsFramebuffer(addr)
    /\ \A p \in AllPages :
         Has(mem, kernel_dir, p) <=>
           \/ p * PAGE_SIZE < IDENTITY_END
           \/ First(fb.addr) <= p /\ p < First(addr)

IInv ==
  /\ TypeOK /\ Pmm!TypeOK
  /\ PagesMarked /\ DirectoryPlaced /\ TablesSound
  /\ IdentityDone /\ FramebufferDone
  /\ HolesUnused

-----------------------------------------------------------------------------
(* Division, for pages in memory and for entries in tables. *)
LEMMA Multiple ==
  ASSUME NEW d \in Nat, NEW p \in Int
  PROVE  /\ p * d \in Int /\ (p + 1) * d = p * d + d
         /\ p \in Nat => p * d \in Nat
<1>1. p * d \in Int /\ (p + 1) * d = p * d + d
  BY Z3
<1>2. p \in Nat => p * d \in Nat
  BY Z3
<1> QED BY <1>1, <1>2

LEMMA MultipleMonotone ==
  ASSUME NEW d \in Nat, NEW p \in Int, NEW q \in Int, p <= q
  PROVE  p * d <= q * d
<1>1. (q - p) \in Nat
  OBVIOUS
<1>2. (q - p) * d \in Nat
  BY <1>1, Z3
<1>3. (q - p) * d = q * d - p * d
  BY Z3
<1>4. p * d \in Int
  BY Multiple
<1>5. q * d \in Int
  BY Multiple
<1> QED BY <1>2, <1>3, <1>4, <1>5

LEMMA Division ==
  ASSUME NEW d \in Nat, d > 0, NEW a \in Nat
  PROVE  /\ a \div d \in Nat /\ a % d \in 0 .. d - 1
         /\ a = (a \div d) * d + (a % d)
         /\ (a \div d) * d <= a /\ a < (a \div d) * d + d
<1>0. a \div d \in Int /\ a % d \in 0 .. d - 1
  OBVIOUS
<1>1. a = (a \div d) * d + (a % d)
  BY Z3
<1>2. a \div d \in Nat
  BY Z3
<1>3. (a \div d) * d \in Int
  BY <1>0
<1> DEFINE m == (a \div d) * d
           r == a % d
<1>4. a = m + r /\ m \in Int /\ r \in 0 .. d - 1
  BY <1>0, <1>1, <1>3
<1> HIDE DEF m, r
<1>5. m <= a /\ a < m + d
  BY <1>4
<1> QED BY <1>0, <1>1, <1>2, <1>5 DEF m, r

LEMMA Quotient ==
  ASSUME NEW d \in Nat, d > 0, NEW q \in Nat, NEW a \in Nat, q * d <= a, a < q * d + d
  PROVE  a \div d = q /\ a % d = a - q * d
<1> DEFINE p == a \div d
           r == a % d
           qd == q * d
           pd == p * d
<1>1. p \in Nat /\ r \in 0 .. d - 1 /\ a = pd + r /\ pd <= a /\ a < pd + d
  BY Division
<1>2. qd \in Int /\ pd \in Int /\ (q + 1) * d = qd + d /\ (p + 1) * d = pd + d
  BY <1>1, Multiple
<1>3. p + 1 <= q => (p + 1) * d <= qd
  BY <1>1, MultipleMonotone
<1>4. q + 1 <= p => (q + 1) * d <= pd
  BY <1>1, MultipleMonotone
<1>5. qd <= a /\ a < qd + d
  OBVIOUS
<1> HIDE DEF p, r, qd, pd
<1>6. ~ (p + 1 <= q) /\ ~ (q + 1 <= p)
  BY <1>1, <1>2, <1>3, <1>4, <1>5
<1>7. p = q
  BY <1>1, <1>6
<1>8. pd = qd
  BY <1>7 DEF pd, qd
<1>9. r = a - qd
  BY <1>1, <1>2, <1>8
<1> QED BY <1>7, <1>9 DEF p, r, qd

LEMMA Sizes ==
  /\ ENTRIES \in Nat /\ ENTRIES > 0 /\ PAGE_SIZE \in Nat /\ PAGE_SIZE > 3 /\ PAGE_SIZE % 2 = 0
  /\ MAX_PAGES \in Nat /\ MAX_PAGES > 0
  /\ ENTRIES * ENTRIES \in Nat /\ MAX_PAGES < ENTRIES * ENTRIES
  /\ WORD \in Nat /\ WORD > 0 /\ WORD = (ENTRIES * ENTRIES) * PAGE_SIZE
  /\ IDENTITY_END \in 1 .. WORD - 1 /\ IDENTITY_END % PAGE_SIZE = 0
  /\ Garbage \subseteq 0 .. WORD - 1
  /\ \A f \in Framebuffers : f.addr \in 0 .. WORD - 1 /\ f.size \in 1 .. WORD - 1
<1>1. /\ ENTRIES \in Nat /\ ENTRIES > 0 /\ PAGE_SIZE \in Nat /\ PAGE_SIZE > 3 /\ PAGE_SIZE % 2 = 0
      /\ MAX_PAGES \in Nat /\ MAX_PAGES > 0
      /\ MAX_PAGES < ENTRIES * ENTRIES /\ WORD = (ENTRIES * ENTRIES) * PAGE_SIZE
  BY PagingAssumption DEF PAGE_PRESENT, PAGE_WRITABLE
<1>2. ENTRIES * ENTRIES \in Nat
  BY <1>1, Multiple
<1>3. WORD \in Nat
  BY <1>1, <1>2, Multiple
<1>4. IDENTITY_END \in 1 .. WORD - 1 /\ IDENTITY_END % PAGE_SIZE = 0
  BY PagingAssumption
<1>5. WORD > 0
  BY <1>3, <1>4
<1> QED BY <1>1, <1>2, <1>3, <1>4, <1>5, PagingAssumption

(* Pages and the entries that map them. *)
LEMMA PageTypes ==
  ASSUME NEW p \in AllPages
  PROVE  /\ p \in Nat /\ Pd(p) \in Entry /\ Pt(p) \in Entry /\ p = Number(Pd(p), Pt(p))
         /\ p * PAGE_SIZE \in 0 .. WORD - 1 /\ p * PAGE_SIZE + PAGE_SIZE <= WORD
<1>1. p \in Nat /\ p < ENTRIES * ENTRIES
  BY Sizes DEF AllPages
<1> DEFINE q == p \div ENTRIES
<1>2. /\ q \in Nat /\ p % ENTRIES \in 0 .. ENTRIES - 1
      /\ p = q * ENTRIES + (p % ENTRIES) /\ q * ENTRIES <= p
  BY <1>1, Sizes, Division
<1> HIDE DEF q
<1>3. q < ENTRIES
  <2>1. ENTRIES <= q => ENTRIES * ENTRIES <= q * ENTRIES
    BY <1>2, Sizes, MultipleMonotone
  <2>2. q * ENTRIES \in Int
    BY <1>2, Sizes, Multiple
  <2> QED BY <1>1, <1>2, <2>1, <2>2, Sizes
<1>4. p * PAGE_SIZE \in Nat /\ p * PAGE_SIZE + PAGE_SIZE <= WORD
  <2>1. (p + 1) * PAGE_SIZE <= (ENTRIES * ENTRIES) * PAGE_SIZE
    BY <1>1, Sizes, MultipleMonotone
  <2> QED BY <1>1, <2>1, Sizes, Multiple
<1>5. p * PAGE_SIZE \in 0 .. WORD - 1
  BY <1>4, Sizes
<1>6. q \in Entry /\ p % ENTRIES \in Entry
  BY <1>2, <1>3, Sizes DEF Entry
<1> QED BY <1>1, <1>2, <1>4, <1>5, <1>6 DEF q, Pd, Pt, Number

LEMMA EntryPage ==
  ASSUME NEW i \in Entry, NEW k \in Entry
  PROVE  /\ Number(i, k) \in AllPages
         /\ Pd(Number(i, k)) = i /\ Pt(Number(i, k)) = k
<1>1. i \in Nat /\ k \in Nat /\ i + 1 <= ENTRIES /\ k < ENTRIES
  BY Sizes DEF Entry
<1> DEFINE m == i * ENTRIES
<1>2. m \in Nat /\ (i + 1) * ENTRIES = m + ENTRIES
  BY <1>1, Sizes, Multiple
<1>3. (i + 1) * ENTRIES <= ENTRIES * ENTRIES
  BY <1>1, Sizes, MultipleMonotone
<1>4. (m + k) \div ENTRIES = i /\ (m + k) % ENTRIES = (m + k) - m
  <2>1. m + k \in Nat /\ m <= m + k /\ m + k < m + ENTRIES
    <3> HIDE DEF m
    <3> QED BY <1>1, <1>2, Sizes
  <2> QED BY <1>1, <2>1, Sizes, Quotient
<1> HIDE DEF m
<1>5. m + k \in AllPages /\ (m + k) - m = k
  BY <1>1, <1>2, <1>3, Sizes DEF AllPages
<1> QED BY <1>4, <1>5 DEF m, Number, Pd, Pt

LEMMA WordPage ==
  ASSUME NEW a \in 0 .. WORD - 1
  PROVE  /\ PageOf(a) \in AllPages
         /\ PageOf(a) * PAGE_SIZE <= a /\ a < PageOf(a) * PAGE_SIZE + PAGE_SIZE
<1> DEFINE q == a \div PAGE_SIZE
           m == q * PAGE_SIZE
<1>1. a \in Nat /\ a < WORD
  BY Sizes
<1>2. q \in Nat /\ m <= a /\ a < m + PAGE_SIZE
  BY <1>1, Sizes, Division
<1>3. m \in Int
  BY <1>2, Sizes, Multiple
<1>4. ENTRIES * ENTRIES <= q => WORD <= m
  BY <1>2, Sizes, MultipleMonotone
<1> HIDE DEF q, m
<1>5. q \in 0 .. ENTRIES * ENTRIES - 1
  BY <1>1, <1>2, <1>3, <1>4, Sizes
<1> QED BY <1>2, <1>5 DEF q, m, PageOf, AllPages

LEMMA PageIs ==
  ASSUME NEW p \in Nat, NEW a \in Nat, p * PAGE_SIZE <= a, a < p * PAGE_SIZE + PAGE_SIZE
  PROVE  PageOf(a) = p
BY Sizes, Quotient DEF PageOf

LEMMA PageStart ==
  ASSUME NEW p \in Nat
  PROVE  PageOf(p * PAGE_SIZE) = p
<1>1. p * PAGE_SIZE \in Nat
  BY Sizes, Multiple
<1> DEFINE m == p * PAGE_SIZE
<1>2. m <= m /\ m < m + PAGE_SIZE
  <2> HIDE DEF m
  <2> QED BY <1>1, Sizes DEF m
<1> QED BY <1>1, <1>2, PageIs

(* The words with flags: their page, their flags and their size. *)
LEMMA FlaggedWord ==
  ASSUME NEW p \in AllPages
  PROVE  /\ Flagged(p) \in 0 .. WORD - 1 /\ PageOf(Flagged(p)) = p /\ Present(Flagged(p))
         /\ Flagged(p) = p * PAGE_SIZE + PAGE_WRITABLE + PAGE_PRESENT
<1> DEFINE m == p * PAGE_SIZE
<1>1. p \in Nat /\ m \in 0 .. WORD - 1 /\ m + PAGE_SIZE <= WORD
  BY PageTypes
<1>2. Flagged(p) = m + 1 + 2 /\ Flagged(p) = m + 2 + 1
  <2> HIDE DEF m
  <2>1. m + 1 + 2 = m + 2 + 1
    BY <1>1, Sizes
  <2> QED BY <2>1 DEF m, Flagged, PAGE_PRESENT, PAGE_WRITABLE
<1>3. m % 2 = 0
  <2>1. PICK h \in Int : PAGE_SIZE = 2 * h
    <3>1. PAGE_SIZE = 2 * (PAGE_SIZE \div 2) /\ PAGE_SIZE \div 2 \in Int
      BY Sizes
    <3> QED BY <3>1
  <2>2. p * (2 * h) = 2 * (p * h) /\ p * h \in Int
    BY <1>1, Z3
  <2>3. \A n \in Int : (2 * n) % 2 = 0
    OBVIOUS
  <2> QED BY <2>1, <2>2, <2>3
<1>4. m <= m + 3 /\ m + 3 < m + PAGE_SIZE /\ m + 3 \in Nat
  <2> HIDE DEF m
  <2> QED BY <1>1, Sizes
<1>5. PageOf(m + 3) = p
  BY <1>1, <1>4, PageIs
<1>6. m + 1 + 2 = m + 3 /\ m + 3 \in 0 .. WORD - 1 /\ (m + 3) % 2 = 1
  <2> HIDE DEF m
  <2> QED BY <1>1, <1>3, Sizes
<1> HIDE DEF m
<1>7. Flagged(p) = m + 3
  BY <1>2, <1>6
<1>8. Flagged(p) = m + PAGE_WRITABLE + PAGE_PRESENT
  BY <1>2 DEF PAGE_PRESENT, PAGE_WRITABLE
<1> QED BY <1>5, <1>6, <1>7, <1>8 DEF Present, PAGE_PRESENT, m

LEMMA ZeroWord == ~ Present(0) /\ 0 \in 0 .. WORD - 1
BY Sizes DEF Present, PAGE_PRESENT

-----------------------------------------------------------------------------
(* Writes to memory keep its type. *)
LEMMA FilledType == \A word \in 0 .. WORD - 1 : Filled(word) \in [Entry -> 0 .. WORD - 1]
BY DEF Filled

LEMMA WriteType ==
  ASSUME NEW m \in MemType, NEW p, NEW k, NEW word \in 0 .. WORD - 1
  PROVE  [m EXCEPT ![p][k] = word] \in MemType
BY DEF MemType

LEMMA FillType ==
  ASSUME NEW m \in MemType, NEW p, NEW word \in 0 .. WORD - 1
  PROVE  [m EXCEPT ![p] = Filled(word)] \in MemType
BY FilledType DEF MemType

(* A write that changes no page without RAM is stored as it is. *)
LEMMA KeptType ==
  ASSUME NEW m \in MemType, NEW new \in MemType
  PROVE  Kept(m, new) \in MemType
BY DEF Kept, MemType

LEMMA KeptWhole ==
  ASSUME NEW m \in MemType, NEW new \in MemType, \A p \in AllPages \cap holes : new[p] = m[p]
  PROVE  Kept(m, new) = new
<1>1. Kept(m, new) \in [AllPages -> [Entry -> 0 .. WORD - 1]]
  BY KeptType DEF MemType
<1>2. new \in [AllPages -> [Entry -> 0 .. WORD - 1]]
  BY DEF MemType
<1>3. \A p \in AllPages : Kept(m, new)[p] = new[p]
  BY DEF Kept
<1> QED BY <1>1, <1>2, <1>3

(* One page filled: either the write is stored or it is lost. *)
LEMMA KeptFill ==
  ASSUME NEW m \in MemType, NEW q \in AllPages, NEW word \in 0 .. WORD - 1
  PROVE  LET t == [m EXCEPT ![q] = Filled(word)]
         IN  /\ Kept(m, t) \in MemType
             /\ Kept(m, t) = t \/ Kept(m, t) = m
<1> DEFINE t == [m EXCEPT ![q] = Filled(word)]
<1>1. t \in MemType
  BY FillType
<1>2. \A p \in AllPages : p # q => t[p] = m[p]
  BY DEF MemType
<1>3. q \notin holes => Kept(m, t) = t
  <2> HIDE DEF t
  <2> QED BY <1>1, <1>2, KeptWhole
<1>4. q \in holes => Kept(m, t) = m
  <2> HIDE DEF t
  <2>1. ASSUME q \in holes PROVE \A p \in AllPages : Kept(m, t)[p] = m[p]
    BY <1>2, <2>1 DEF Kept
  <2>2. Kept(m, t) \in [AllPages -> [Entry -> 0 .. WORD - 1]]
    BY <1>1, KeptType DEF MemType
  <2>3. m \in [AllPages -> [Entry -> 0 .. WORD - 1]]
    BY DEF MemType
  <2> QED BY <2>1, <2>2, <2>3
<1> QED BY <1>1, <1>3, <1>4, KeptType

(* What map_page writes, in a directory at any page d. *)
PutTable(m, d, i, page) ==
  [ [m EXCEPT ![page] = Filled(0)]
      EXCEPT ![d + 1][i] = page * PAGE_SIZE,
             ![d][i] = page * PAGE_SIZE + PAGE_PRESENT + PAGE_WRITABLE ]
PutEntry(m, d, v) ==
  [m EXCEPT ![PageOf(m[d + 1][Pd(v)])][Pt(v)] = Flagged(v)]

LEMMA PutTableType ==
  ASSUME NEW m \in MemType, NEW d, NEW i, NEW page \in AllPages
  PROVE  PutTable(m, d, i, page) \in MemType
<1> DEFINE a == [m EXCEPT ![page] = Filled(0)]
           b == [a EXCEPT ![d + 1][i] = page * PAGE_SIZE]
           c == [b EXCEPT ![d][i] = page * PAGE_SIZE + PAGE_PRESENT + PAGE_WRITABLE]
<1>1. a \in MemType
  BY FillType, ZeroWord
<1>2. b \in MemType
  BY <1>1, WriteType, PageTypes
<1>3. c \in MemType
  BY <1>2, WriteType, FlaggedWord DEF Flagged
<1>4. PutTable(m, d, i, page) = c
  BY DEF PutTable
<1> QED BY <1>3, <1>4

LEMMA PutEntryType ==
  ASSUME NEW m \in MemType, NEW d, NEW v \in AllPages
  PROVE  PutEntry(m, d, v) \in MemType
BY WriteType, FlaggedWord DEF PutEntry

(* A write outside the directory and its tables leaves the map alone. *)
LEMMA OtherWrite ==
  ASSUME NEW m \in MemType, NEW d \in AllPages, NEW mine, SoundMap(m, d, mine),
         d + 1 \in AllPages, NEW page, page \notin mine, page # d, page # d + 1, NEW word
  PROVE  LET t == [m EXCEPT ![page] = word]
         IN  /\ SoundMap(t, d, mine)
             /\ \A p \in AllPages : Has(t, d, p) <=> Has(m, d, p)
<1> DEFINE t == [m EXCEPT ![page] = word]
<1>1. \A p \in AllPages : p # page => t[p] = m[p]
  BY DEF MemType
<1> HIDE DEF t
<1>2. t[d] = m[d] /\ t[d + 1] = m[d + 1]
  BY <1>1
<1>3. \A i \in Entry : m[d][i] \in 0 .. WORD - 1 /\ PageOf(m[d][i]) \in AllPages
  BY WordPage DEF MemType
<1>4. \A i \in Entry : Present(m[d][i]) => t[PageOf(m[d][i])] = m[PageOf(m[d][i])]
  BY <1>1, <1>3 DEF SoundMap
<1>5. SoundMap(t, d, mine)
  BY <1>2, <1>4 DEF SoundMap
<1>6. ASSUME NEW p \in AllPages PROVE Has(t, d, p) <=> Has(m, d, p)
  <2>1. Pd(p) \in Entry
    BY PageTypes
  <2> QED BY <1>2, <1>4, <2>1 DEF Has
<1> QED BY <1>5, <1>6 DEF t

(* A new table changes no translation. *)
LEMMA NewTable ==
  ASSUME NEW m \in MemType, NEW d \in AllPages, NEW mine, SoundMap(m, d, mine),
         d + 1 \in AllPages, NEW i \in Entry, ~ Present(m[d][i]),
         NEW page \in AllPages, page \notin mine, page # d, page # d + 1
  PROVE  LET t == PutTable(m, d, i, page)
         IN  /\ t \in MemType /\ SoundMap(t, d, mine \cup {page}) /\ Present(t[d][i])
             /\ \A p \in AllPages : Has(t, d, p) <=> Has(m, d, p)
<1> DEFINE t == PutTable(m, d, i, page)
           start == page * PAGE_SIZE
           pde == Flagged(page)
<1>0. d # d + 1 /\ d \in Int
  BY PageTypes
<1>1. t \in MemType
  BY PutTableType
<1>2. /\ \A p \in AllPages : p # page /\ p # d /\ p # d + 1 => t[p] = m[p]
      /\ t[page] = Filled(0)
      /\ \A j \in Entry : j # i => t[d][j] = m[d][j] /\ t[d + 1][j] = m[d + 1][j]
      /\ t[d][i] = pde /\ t[d + 1][i] = start
  BY <1>0 DEF MemType, PutTable, Flagged
<1>3. PageOf(pde) = page /\ Present(pde)
  BY FlaggedWord
<1> HIDE DEF t, pde, start
<1>4. \A k \in Entry : t[page][k] = 0
  BY <1>2 DEF Filled
<1>5. \A j \in Entry : PageOf(m[d][j]) \in AllPages
  BY WordPage DEF MemType
<1>6. ASSUME NEW j \in Entry, j # i, Present(m[d][j])
      PROVE  /\ t[d][j] = m[d][j] /\ t[d + 1][j] = m[d + 1][j]
             /\ PageOf(m[d][j]) # page /\ t[PageOf(m[d][j])] = m[PageOf(m[d][j])]
  <2>1. PageOf(m[d][j]) \in mine /\ PageOf(m[d][j]) # d /\ PageOf(m[d][j]) # d + 1
    BY <1>6 DEF SoundMap
  <2> QED BY <1>2, <1>5, <1>6, <2>1
<1>7. ASSUME NEW j \in Entry, Present(t[d][j])
      PROVE  LET table == PageOf(t[d][j])
             IN  /\ table \in mine \cup {page} /\ table # d /\ table # d + 1
                 /\ t[d + 1][j] = table * PAGE_SIZE
                 /\ \A k \in Entry :
                      t[table][k] = 0 \/ t[table][k] = Flagged(Number(j, k))
  <2>1. CASE j = i
    BY <1>2, <1>3, <1>4, <2>1 DEF start
  <2>2. CASE j # i
    <3>1. Present(m[d][j])
      BY <1>2, <1>7, <2>2
    <3> QED BY <1>6, <2>2, <3>1 DEF SoundMap
  <2> QED BY <2>1, <2>2
<1>8. ASSUME NEW j \in Entry, NEW k \in Entry, Present(t[d][j]), Present(t[d][k]),
             PageOf(t[d][j]) = PageOf(t[d][k])
      PROVE  j = k
  <2>1. CASE j # i /\ k # i
    <3>1. t[d][j] = m[d][j] /\ t[d][k] = m[d][k]
      BY <1>2, <2>1
    <3> QED BY <1>8, <3>1 DEF SoundMap
  <2>2. CASE j = i /\ k # i
    <3>1. t[d][k] = m[d][k] /\ t[d][j] = pde
      BY <1>2, <2>2
    <3> QED BY <1>3, <1>6, <1>8, <2>2, <3>1
  <2>3. CASE j # i /\ k = i
    <3>1. t[d][j] = m[d][j] /\ t[d][k] = pde
      BY <1>2, <2>3
    <3> QED BY <1>3, <1>6, <1>8, <2>3, <3>1
  <2> QED BY <2>1, <2>2, <2>3
<1>9. SoundMap(t, d, mine \cup {page})
  BY <1>7, <1>8 DEF SoundMap
<1>10. ASSUME NEW p \in AllPages PROVE Has(t, d, p) <=> Has(m, d, p)
  <2>1. Pd(p) \in Entry /\ Pt(p) \in Entry
    BY PageTypes
  <2>2. CASE Pd(p) = i
    <3>1. ~ Has(m, d, p)
      BY <2>2 DEF Has
    <3>2. t[PageOf(t[d][i])][Pt(p)] = 0
      BY <1>2, <1>3, <1>4, <2>1
    <3> QED BY <2>2, <3>1, <3>2, ZeroWord DEF Has
  <2>3. CASE Pd(p) # i
    <3>1. t[d][Pd(p)] = m[d][Pd(p)]
      BY <1>2, <2>1, <2>3
    <3> QED BY <1>6, <2>1, <2>3, <3>1 DEF Has
  <2> QED BY <2>2, <2>3
<1> QED BY <1>1, <1>2, <1>3, <1>9, <1>10 DEF t

(* The entry of page v adds v, and nothing else, to the map. *)
LEMMA NewEntry ==
  ASSUME NEW m \in MemType, NEW d \in AllPages, NEW mine, SoundMap(m, d, mine),
         d + 1 \in AllPages, NEW v \in AllPages, Present(m[d][Pd(v)])
  PROVE  LET t == PutEntry(m, d, v)
         IN  /\ t \in MemType /\ SoundMap(t, d, mine)
             /\ \A p \in AllPages : Has(t, d, p) <=> Has(m, d, p) \/ p = v
<1> DEFINE i == Pd(v)
           k == Pt(v)
           table == PageOf(m[d][i])
           t == PutEntry(m, d, v)
           pte == Flagged(v)
<1>1. i \in Entry /\ k \in Entry /\ v = Number(i, k)
  BY PageTypes
<1>2. /\ table \in mine /\ table # d /\ table # d + 1
      /\ m[d + 1][i] = table * PAGE_SIZE
  BY <1>1 DEF SoundMap
<1>3. \A j \in Entry : PageOf(m[d][j]) \in AllPages
  BY WordPage DEF MemType
<1>4. PageOf(m[d + 1][i]) = table
  <2>1. table \in Nat
    BY <1>1, <1>3, PageTypes
  <2> QED BY <1>2, <2>1, PageStart
<1>5. t \in MemType
  BY PutEntryType
<1>6. t = [m EXCEPT ![table][k] = pte]
  BY <1>4 DEF PutEntry
<1>7. pte = Flagged(Number(i, k)) /\ Present(pte)
  BY <1>1, FlaggedWord
<1>8. table \in AllPages
  BY <1>1, <1>3
<1> HIDE DEF t, table, pte, i, k
<1>9. /\ \A p \in AllPages : p # table => t[p] = m[p]
      /\ t[table][k] = pte
      /\ \A n \in Entry : n # k => t[table][n] = m[table][n]
  BY <1>1, <1>6, <1>8 DEF MemType
<1>10. t[d] = m[d] /\ t[d + 1] = m[d + 1]
  BY <1>2, <1>9
<1>11. \A j \in Entry : Present(m[d][j]) /\ j # i => PageOf(m[d][j]) # table
  BY <1>1 DEF SoundMap, i, table
<1>12. ASSUME NEW j \in Entry, Present(m[d][j]), NEW n \in Entry
       PROVE  /\ t[PageOf(m[d][j])][n] = 0 \/ t[PageOf(m[d][j])][n] = Flagged(Number(j, n))
              /\ j # i \/ n # k => t[PageOf(m[d][j])][n] = m[PageOf(m[d][j])][n]
  <2>1. /\ m[PageOf(m[d][j])][n] = 0 \/ m[PageOf(m[d][j])][n] = Flagged(Number(j, n))
    BY <1>12 DEF SoundMap
  <2>2. CASE j # i
    BY <1>3, <1>9, <1>11, <1>12, <2>1, <2>2
  <2>3. CASE j = i /\ n # k
    BY <1>9, <2>1, <2>3 DEF table
  <2>4. CASE j = i /\ n = k
    BY <1>7, <1>9, <2>4 DEF table
  <2> QED BY <2>2, <2>3, <2>4
<1>13. SoundMap(t, d, mine)
  BY <1>10, <1>12 DEF SoundMap
<1>14. ASSUME NEW p \in AllPages PROVE Has(t, d, p) <=> Has(m, d, p) \/ p = v
  <2> DEFINE j == Pd(p)
             n == Pt(p)
  <2>1. j \in Entry /\ n \in Entry /\ p = Number(j, n)
    BY PageTypes
  <2>2. CASE p = v
    <3>1. j = i /\ n = k
      BY <2>2 DEF i, k
    <3>2. Present(t[d][j]) /\ t[PageOf(t[d][j])][n] = pte
      BY <1>9, <1>10, <3>1 DEF table, i
    <3> QED BY <1>7, <2>2, <3>2 DEF Has
  <2>3. CASE p # v
    <3>1. j # i \/ n # k
      BY <1>1, <2>1, <2>3
    <3>2. Present(m[d][j]) => t[PageOf(m[d][j])][n] = m[PageOf(m[d][j])][n]
      BY <1>12, <2>1, <3>1
    <3> QED BY <1>10, <2>3, <3>2 DEF Has
  <2> QED BY <2>2, <2>3
<1> QED BY <1>5, <1>13, <1>14 DEF t

-----------------------------------------------------------------------------
(* The page allocator's answers. *)
LEMMA PageTaken ==
  ASSUME Pmm!TypeOK, PagesMarked, HolesUnused, NEW page \in Pmm!Pages,
         Pmm!pmm_alloc_page(page)
  PROVE  /\ page \in AllPages /\ page \notin page_bitmap /\ page \notin handed /\ page # 0
         /\ phase = "ready" /\ phase' = "ready" /\ Pmm!TypeOK'
         /\ handed' = handed \cup {page} /\ page_bitmap' = page_bitmap \cup {page}
         /\ page \in Pmm!FreePages /\ Pmm!FreePages' = Pmm!FreePages \ {page}
         /\ \A p \in Pmm!FreePages : page <= p
         /\ page \notin holes
<1>1. /\ phase = "ready" /\ page \in Pmm!FreePages /\ \A p \in Pmm!FreePages : page <= p
      /\ page_bitmap' = page_bitmap \cup {page} /\ handed' = handed \cup {page}
      /\ UNCHANGED <<mmap, kernel_end, phase, overrun>>
  BY DEF Pmm!pmm_alloc_page, Pmm!find_free_page
<1>2. page \notin page_bitmap /\ page \notin handed /\ page # 0
  BY <1>1 DEF Pmm!FreePages, PagesMarked
<1>3. Pmm!TypeOK'
  BY <1>1 DEF Pmm!TypeOK
<1>4. page \in AllPages
  BY Sizes DEF Pmm!Pages, AllPages
<1>5. Pmm!FreePages' = Pmm!FreePages \ {page}
  BY <1>1 DEF Pmm!FreePages
<1>6. page \notin holes
  BY <1>1, <1>2 DEF HolesUnused
<1> QED BY <1>1, <1>2, <1>3, <1>4, <1>5, <1>6

LEMMA OwnTaken ==
  ASSUME TypeOK, Pmm!TypeOK, PagesMarked, HolesUnused, NEW page \in AllPages, Takes(page),
         pc # "heap", heap' = heap
  PROVE  /\ Pmm!TypeOK' /\ PagesMarked' /\ own' \subseteq AllPages /\ failed' \in BOOLEAN
         /\ page_bitmap \subseteq page_bitmap' /\ own \subseteq own'
         /\ ~ failed' => /\ ~ failed
                         /\ page \in Pmm!FreePages /\ page \notin page_bitmap
                         /\ page \notin own /\ page \notin heap
                         /\ own' = own \cup {page} /\ page_bitmap' = page_bitmap \cup {page}
                         /\ Pmm!FreePages' = Pmm!FreePages \ {page}
                         /\ \A p \in Pmm!FreePages : page <= p
                         /\ page \notin holes
<1>1. CASE /\ page \in Pmm!Pages /\ Pmm!pmm_alloc_page(page)
           /\ own' = own \cup {page} /\ UNCHANGED failed
  <2>1. /\ page \notin page_bitmap /\ page \notin handed /\ page # 0
        /\ phase = "ready" /\ phase' = "ready" /\ Pmm!TypeOK'
        /\ handed' = handed \cup {page} /\ page_bitmap' = page_bitmap \cup {page}
        /\ page \in Pmm!FreePages /\ Pmm!FreePages' = Pmm!FreePages \ {page}
        /\ \A p \in Pmm!FreePages : page <= p
        /\ page \notin holes
    BY <1>1, PageTaken
  <2>2. PagesMarked'
    BY <1>1, <2>1 DEF PagesMarked
  <2> QED BY <1>1, <2>1, <2>2 DEF TypeOK, PagesMarked
<1>2. CASE Pmm!pmm_alloc_page_fails /\ failed' = TRUE /\ UNCHANGED own
  <2>1. phase = "ready" /\ UNCHANGED <<mmap, kernel_end, phase, page_bitmap, overrun, handed>>
    BY <1>2 DEF Pmm!pmm_alloc_page_fails, Pmm!vars
  <2>2. Pmm!TypeOK' /\ PagesMarked'
    BY <1>2, <2>1 DEF Pmm!TypeOK, PagesMarked
  <2> QED BY <1>2, <2>1, <2>2 DEF TypeOK
<1> QED BY <1>1, <1>2 DEF Takes

(* map_page's writes, in the terms above: none is lost where there is RAM. *)
LEMMA Writes ==
  ASSUME NEW va \in 0 .. WORD - 1
  PROVE  PD_INDEX(va) = Pd(PageOf(va)) /\ PT_INDEX(va) = Pt(PageOf(va))
BY DEF PD_INDEX, PT_INDEX, Pd, Pt

LEMMA EntryWritten ==
  ASSUME NEW va \in 0 .. WORD - 1, NEW m \in MemType
  PROVE  /\ WithEntry(m, va, va) \in MemType
         /\ PageOf(m[kernel_dir + 1][Pd(PageOf(va))]) \notin holes =>
              WithEntry(m, va, va) = PutEntry(m, kernel_dir, PageOf(va))
<1> DEFINE new == PutEntry(m, kernel_dir, PageOf(va))
           table == PageOf(m[kernel_dir + 1][Pd(PageOf(va))])
<1>1. PageOf(va) \in AllPages
  BY WordPage
<1>2. Flagged(PageOf(va)) = PageOf(va) * PAGE_SIZE + PAGE_WRITABLE + PAGE_PRESENT
  BY <1>1, FlaggedWord
<1>3. WithEntry(m, va, va) = Kept(m, new)
  BY <1>2, Writes DEF WithEntry, PutEntry, tables
<1>4. new \in MemType
  BY <1>1, PutEntryType
<1>5. \A p \in AllPages : p # table => new[p] = m[p]
  BY DEF PutEntry, MemType
<1> HIDE DEF new, table
<1>6. table \notin holes => Kept(m, new) = new
  BY <1>4, <1>5, KeptWhole
<1> QED BY <1>3, <1>4, <1>6, KeptType DEF new, table

LEMMA TableWritten ==
  ASSUME NEW m \in MemType, NEW i, NEW page \in AllPages
  PROVE  /\ WithTable(m, i, page) \in MemType
         /\ {page, kernel_dir, kernel_dir + 1} \cap holes = {} =>
              WithTable(m, i, page) = PutTable(m, kernel_dir, i, page)
<1> DEFINE new == PutTable(m, kernel_dir, i, page)
<1>1. WithTable(m, i, page) = Kept(m, new)
  BY DEF WithTable, PutTable
<1>2. new \in MemType
  BY PutTableType
<1>3. \A p \in AllPages : p # page /\ p # kernel_dir /\ p # kernel_dir + 1 => new[p] = m[p]
  BY DEF PutTable, MemType
<1> HIDE DEF new
<1>4. {page, kernel_dir, kernel_dir + 1} \cap holes = {} => Kept(m, new) = new
  BY <1>2, <1>3, KeptWhole
<1> QED BY <1>1, <1>2, <1>4, KeptType DEF new

LEMMA DirectoryTypes ==
  ASSUME IInv, ~ failed, DirectoryInRam, pc \in {"identity", "framebuffer", "on", "fault"}
  PROVE  /\ mem \in MemType /\ kernel_dir \in AllPages /\ kernel_dir + 1 \in AllPages
         /\ kernel_dir \in own /\ kernel_dir + 1 \in page_bitmap /\ kernel_dir + 1 \notin heap
         /\ kernel_dir # 0 /\ kernel_dir + 1 # 0 /\ SoundMap(mem, kernel_dir, own)
         /\ own \cap holes = {} /\ kernel_dir + 1 \notin holes
<1>1. /\ mem \in MemType /\ kernel_dir \in AllPages
      /\ kernel_dir \in own /\ kernel_dir + 1 \in page_bitmap /\ kernel_dir + 1 \notin heap
      /\ SoundMap(mem, kernel_dir, own) /\ page_bitmap \subseteq Pmm!Pages
      /\ own \subseteq handed /\ 0 \notin handed
  BY DEF IInv, TypeOK, MemType, Pmm!TypeOK, DirectoryPlaced, TablesSound, PagesMarked
<1>2. kernel_dir + 1 \in AllPages /\ kernel_dir + 1 # 0
  BY <1>1, Sizes DEF Pmm!Pages, AllPages
<1>3. own \cap holes = {} /\ kernel_dir + 1 \notin holes
  BY <1>1 DEF IInv, HolesUnused, DirectoryInRam
<1> QED BY <1>1, <1>2, <1>3

(* The table that a present entry names is where its tables[] entry says.  *)
LEMMA TableOfEntry ==
  ASSUME NEW m \in MemType, NEW d \in AllPages, NEW mine, SoundMap(m, d, mine),
         NEW i \in Entry, Present(m[d][i])
  PROVE  PageOf(m[d + 1][i]) \in mine
<1>1. PageOf(m[d][i]) \in mine /\ m[d + 1][i] = PageOf(m[d][i]) * PAGE_SIZE
  BY DEF SoundMap
<1>2. PageOf(m[d][i]) \in Nat
  BY WordPage, PageTypes DEF MemType
<1> QED BY <1>1, <1>2, PageStart

(* map_page adds one page to the map, in a table that may be new. *)
LEMMA MapPageAdds ==
  ASSUME IInv, pc \in {"identity", "framebuffer"}, map_page(addr), heap' = heap, pc' = pc
  PROVE  /\ Pmm!TypeOK' /\ PagesMarked' /\ own' \subseteq AllPages /\ failed' \in BOOLEAN
         /\ mem' \in MemType
         /\ ~ failed' /\ DirectoryInRam =>
              /\ ~ failed /\ kernel_dir \in own' /\ kernel_dir + 1 \in page_bitmap'
              /\ SoundMap(mem', kernel_dir, own')
              /\ \A p \in AllPages :
                   Has(mem', kernel_dir, p) <=> Has(mem, kernel_dir, p) \/ p = PageOf(addr)
<1> DEFINE d == kernel_dir
           v == PageOf(addr)
           i == PD_INDEX(addr)
<1>1. /\ addr \in 0 .. WORD - 1 /\ mem \in MemType /\ own \subseteq AllPages /\ failed \in BOOLEAN
      /\ TypeOK /\ Pmm!TypeOK /\ PagesMarked /\ HolesUnused /\ d \in AllPages /\ pc # "heap"
  BY DEF IInv, TypeOK, MemType
<1>2. v \in AllPages /\ i = Pd(v) /\ i \in Entry
  BY <1>1, WordPage, Writes, PageTypes
<1>3. entries(mem)[i] = mem[d][i]
  BY DEF entries
<1>4. CASE Present(entries(mem)[i]) /\ mem' = WithEntry(mem, addr, addr)
             /\ UNCHANGED <<pmmVars, own, failed>>
  <2>1. mem' \in MemType
    BY <1>1, <1>4, EntryWritten
  <2>3. Pmm!TypeOK' /\ PagesMarked'
    BY <1>1, <1>4 DEF pmmVars, Pmm!TypeOK, PagesMarked
  <2>4. ASSUME ~ failed', DirectoryInRam
        PROVE  /\ ~ failed /\ d \in own' /\ d + 1 \in page_bitmap' /\ SoundMap(mem', d, own')
               /\ \A p \in AllPages : Has(mem', d, p) <=> Has(mem, d, p) \/ p = v
    <3>1. ~ failed /\ own' = own /\ page_bitmap' = page_bitmap
      BY <1>4, <2>4 DEF pmmVars
    <3>2. /\ d \in own /\ d + 1 \in page_bitmap /\ d + 1 \in AllPages /\ SoundMap(mem, d, own)
          /\ own \cap holes = {}
      BY <2>4, <3>1, DirectoryTypes
    <3>3. Present(mem[d][Pd(v)])
      BY <1>2, <1>3, <1>4
    <3>5. mem' = PutEntry(mem, d, v)
      BY <1>1, <1>2, <1>4, <3>2, <3>3, TableOfEntry, EntryWritten
    <3>4. /\ SoundMap(PutEntry(mem, d, v), d, own)
          /\ \A p \in AllPages : Has(PutEntry(mem, d, v), d, p) <=> Has(mem, d, p) \/ p = v
      BY <1>1, <1>2, <3>2, <3>3, NewEntry
    <3> QED BY <3>1, <3>2, <3>4, <3>5
  <2> QED BY <1>1, <1>4, <2>1, <2>3, <2>4
<1>5. CASE /\ ~ Present(entries(mem)[i])
           /\ \E page \in AllPages :
                /\ Takes(page)
                /\ mem' = WithEntry(WithTable(mem, i, page), addr, addr)
  <2>1. PICK page \in AllPages :
          Takes(page) /\ mem' = WithEntry(WithTable(mem, i, page), addr, addr)
    BY <1>5
  <2> DEFINE m == PutTable(mem, d, i, page)
  <2>2. mem' \in MemType
    BY <1>1, <2>1, TableWritten, EntryWritten
  <2>3. m \in MemType
    BY <1>1, PutTableType
  <2>5. /\ Pmm!TypeOK' /\ PagesMarked' /\ own' \subseteq AllPages /\ failed' \in BOOLEAN
        /\ page_bitmap \subseteq page_bitmap' /\ own \subseteq own'
        /\ ~ failed' => /\ ~ failed /\ page \notin page_bitmap
                        /\ page \notin own /\ own' = own \cup {page} /\ page \notin holes
    BY <1>1, <2>1, OwnTaken
  <2>6. ASSUME ~ failed', DirectoryInRam
        PROVE  /\ ~ failed /\ d \in own' /\ d + 1 \in page_bitmap' /\ SoundMap(mem', d, own')
               /\ \A p \in AllPages : Has(mem', d, p) <=> Has(mem, d, p) \/ p = v
    <3>1. /\ ~ failed /\ page \notin page_bitmap /\ page \notin own /\ own' = own \cup {page}
          /\ page \notin holes
      BY <2>5, <2>6
    <3>2. /\ d \in own /\ d + 1 \in page_bitmap /\ d + 1 \in AllPages /\ SoundMap(mem, d, own)
          /\ own \cap holes = {} /\ d + 1 \notin holes
      BY <2>6, <3>1, DirectoryTypes
    <3>3. page # d /\ page # d + 1 /\ ~ Present(mem[d][i])
      BY <1>3, <1>5, <3>1, <3>2
    <3>4. /\ SoundMap(m, d, own') /\ Present(m[d][i])
          /\ \A p \in AllPages : Has(m, d, p) <=> Has(mem, d, p)
      BY <1>1, <1>2, <3>1, <3>2, <3>3, NewTable
    <3>6. WithTable(mem, i, page) = m
      BY <1>1, <3>1, <3>2, TableWritten
    <3> HIDE DEF m
    <3>7. own' \cap holes = {}
      BY <3>1, <3>2
    <3>8. mem' = PutEntry(m, d, v)
      BY <1>1, <1>2, <2>1, <2>3, <3>4, <3>6, <3>7, TableOfEntry, EntryWritten
    <3>5. /\ SoundMap(PutEntry(m, d, v), d, own')
          /\ \A p \in AllPages : Has(PutEntry(m, d, v), d, p) <=> Has(m, d, p) \/ p = v
      BY <1>1, <1>2, <2>3, <3>2, <3>4, NewEntry
    <3> QED BY <2>5, <3>1, <3>2, <3>4, <3>5, <3>8
  <2> QED BY <2>2, <2>5, <2>6
<1> QED BY <1>4, <1>5 DEF map_page

-----------------------------------------------------------------------------
(* The loops' bounds and steps. *)
LEMMA NextPageIs ==
  ASSUME NEW a \in 0 .. WORD - 1, a = First(a) * PAGE_SIZE, a + PAGE_SIZE < WORD
  PROVE  /\ NextPage(a) = a + PAGE_SIZE /\ First(NextPage(a)) = First(a) + 1
         /\ NextPage(a) = First(NextPage(a)) * PAGE_SIZE
<1> DEFINE n == First(a)
<1>1. n \in Nat
  BY WordPage, PageTypes DEF First
<1>2. (n + 1) * PAGE_SIZE = n * PAGE_SIZE + PAGE_SIZE
  BY <1>1, Sizes, Multiple
<1>3. a + PAGE_SIZE \in Nat /\ NextPage(a) = a + PAGE_SIZE
  BY Sizes DEF NextPage, Pmm!Uint32
<1>4. NextPage(a) = (n + 1) * PAGE_SIZE
  BY <1>2, <1>3
<1>5. First(NextPage(a)) = n + 1
  BY <1>1, <1>4, PageStart DEF First
<1> QED BY <1>3, <1>4, <1>5

LEMMA NextPageType == ASSUME NEW a \in 0 .. WORD - 1 PROVE NextPage(a) \in 0 .. WORD - 1
BY Sizes DEF NextPage, Pmm!Uint32

(* Multiples of the page size compare as their pages do. *)
LEMMA Compare ==
  ASSUME NEW p \in Nat, NEW q \in Nat
  PROVE  p * PAGE_SIZE < q * PAGE_SIZE <=> p < q
<1>1. /\ p * PAGE_SIZE \in Int /\ q * PAGE_SIZE \in Int
      /\ (p + 1) * PAGE_SIZE = p * PAGE_SIZE + PAGE_SIZE
  BY Sizes, Multiple
<1>2. q <= p => q * PAGE_SIZE <= p * PAGE_SIZE
  BY Sizes, MultipleMonotone
<1>3. p + 1 <= q => (p + 1) * PAGE_SIZE <= q * PAGE_SIZE
  BY Sizes, MultipleMonotone
<1> DEFINE x == p * PAGE_SIZE
           y == q * PAGE_SIZE
           z == (p + 1) * PAGE_SIZE
<1>4. /\ x \in Int /\ y \in Int /\ z = x + PAGE_SIZE
      /\ q <= p => y <= x
      /\ p + 1 <= q => z <= y
  BY <1>1, <1>2, <1>3
<1> HIDE DEF x, y, z
<1>5. x < y <=> p < q
  BY <1>4, Sizes
<1> QED BY <1>5 DEF x, y

(* The identity map ends on a page. *)
LEMMA IdentityEnd ==
  /\ First(IDENTITY_END) \in Nat
  /\ IDENTITY_END = First(IDENTITY_END) * PAGE_SIZE
<1>1. IDENTITY_END \in Nat /\ IDENTITY_END % PAGE_SIZE = 0
  BY Sizes
<1> DEFINE q == IDENTITY_END \div PAGE_SIZE
<1>2. q \in Nat /\ IDENTITY_END = q * PAGE_SIZE + (IDENTITY_END % PAGE_SIZE)
  BY <1>1, Sizes, Division
<1>3. q * PAGE_SIZE \in Int
  BY <1>2, Sizes, Multiple
<1>4. IDENTITY_END = q * PAGE_SIZE
  <2> HIDE DEF q
  <2> QED BY <1>1, <1>2, <1>3
<1> QED BY <1>2, <1>4 DEF First, PageOf

(* A loop variable below an end on a page stays at most there. *)
LEMMA NextIdentity ==
  ASSUME NEW a \in 0 .. WORD - 1, a = First(a) * PAGE_SIZE, a < IDENTITY_END
  PROVE  a + PAGE_SIZE <= IDENTITY_END /\ a + PAGE_SIZE < WORD
<1> DEFINE n == First(a)
           e == First(IDENTITY_END)
<1>1. n \in Nat /\ e \in Nat /\ IDENTITY_END = e * PAGE_SIZE
  BY WordPage, PageTypes, IdentityEnd DEF First
<1>2. n < e
  BY <1>1, Compare
<1>3. (n + 1) * PAGE_SIZE <= e * PAGE_SIZE /\ (n + 1) * PAGE_SIZE = n * PAGE_SIZE + PAGE_SIZE
  <2>1. n + 1 <= e
    BY <1>1, <1>2
  <2> QED BY <1>1, <2>1, Sizes, MultipleMonotone, Multiple
<1> HIDE DEF n, e
<1>4. a + PAGE_SIZE <= IDENTITY_END
  BY <1>1, <1>3 DEF n
<1> QED BY <1>4, Sizes

LEMMA FramebufferBounds ==
  ASSUME fb \in Framebuffers
  PROVE  /\ fb.addr \in 0 .. WORD - 1 /\ fb.size \in 1 .. WORD - 1
         /\ First(fb.addr) \in AllPages /\ fb_start = First(fb.addr) * PAGE_SIZE
         /\ fb_start \in 0 .. WORD - 1 /\ First(fb_start) = First(fb.addr)
         /\ fb_start <= fb.addr /\ fb.addr < fb_start + PAGE_SIZE
         /\ FramebufferFits => /\ fb_end = fb_start + fb.size + PAGE_SIZE
                               /\ fb_end \in Nat /\ fb_end + PAGE_SIZE <= WORD
<1>1. fb.addr \in 0 .. WORD - 1 /\ fb.size \in 1 .. WORD - 1
  BY Sizes
<1>2. /\ First(fb.addr) \in AllPages /\ First(fb.addr) \in Nat
      /\ fb_start = First(fb.addr) * PAGE_SIZE
      /\ fb_start \in 0 .. WORD - 1
      /\ fb_start <= fb.addr /\ fb.addr < fb_start + PAGE_SIZE
  BY <1>1, WordPage, PageTypes DEF First, fb_start
<1>3. First(fb_start) = First(fb.addr)
  BY <1>2, PageStart DEF First
<1>4. ASSUME FramebufferFits
      PROVE  fb_end = fb_start + fb.size + PAGE_SIZE /\ fb_end \in Nat /\ fb_end + PAGE_SIZE <= WORD
  <2>1. fb_start + fb.size + 2 * PAGE_SIZE <= WORD
    BY <1>4 DEF FramebufferFits
  <2>2. /\ fb_start + fb.size + PAGE_SIZE \in Nat
        /\ fb_start + fb.size + PAGE_SIZE < WORD
        /\ fb_start + fb.size + PAGE_SIZE + PAGE_SIZE <= WORD
    BY <1>1, <1>2, <2>1, Sizes
  <2>3. \A n \in Nat : n < WORD => Pmm!Uint32(n) = n
    BY Sizes DEF Pmm!Uint32
  <2> QED BY <2>2, <2>3 DEF fb_end
<1> QED BY <1>1, <1>2, <1>3, <1>4

(* What the loops map is what was asked for, and the page behind it.       *)
LEMMA MappedIsAsked ==
  ASSUME fb \in Framebuffers, FramebufferFits, addr \in 0 .. WORD - 1,
         addr = First(addr) * PAGE_SIZE, addr >= fb_end, addr < fb_end + PAGE_SIZE,
         NEW p \in AllPages
  PROVE  LET mapped == \/ p * PAGE_SIZE < IDENTITY_END
                       \/ First(fb.addr) <= p /\ p < First(addr)
         IN  /\ p \in AskedPages => mapped
             /\ mapped => p \in AskedPages \cup {Slack}
<1> DEFINE f == First(fb.addr)
           n == First(addr)
           last == fb.addr + fb.size - 1
           l == PageOf(last)
           x == p * PAGE_SIZE
<1>1. /\ fb.addr \in 0 .. WORD - 1 /\ fb.size \in 1 .. WORD - 1
      /\ f \in Nat /\ fb_start = f * PAGE_SIZE /\ fb_start \in Nat
      /\ fb_start <= fb.addr /\ fb.addr < fb_start + PAGE_SIZE
      /\ fb_end = fb_start + fb.size + PAGE_SIZE /\ fb_end + PAGE_SIZE <= WORD
  BY FramebufferBounds, PageTypes
<1>2. n \in Nat /\ p \in Nat /\ x \in 0 .. WORD - 1 /\ addr = n * PAGE_SIZE
  BY WordPage, PageTypes DEF First
<1>3. last \in 0 .. WORD - 1
  BY <1>1, Sizes
<1>4. l \in Nat /\ l * PAGE_SIZE <= last /\ last < l * PAGE_SIZE + PAGE_SIZE
  BY <1>3, WordPage, PageTypes
<1>5. ASSUME NEW a \in FramebufferBytes, p = PageOf(a) PROVE f <= p /\ p < n
  <2>1. a \in 0 .. WORD - 1 /\ fb.addr <= a /\ a < fb.addr + fb.size
    BY DEF FramebufferBytes
  <2>2. x <= a /\ a < x + PAGE_SIZE
    BY <1>5, <2>1, WordPage
  <2>3. x < addr
    <3> HIDE DEF x, f, n, last, l
    <3> QED BY <1>1, <1>2, <2>1, <2>2, Sizes
  <2>4. p < n
    BY <1>2, <2>3, Compare
  <2>5. ~ (p < f)
    <3>1. (p + 1) * PAGE_SIZE = x + PAGE_SIZE
      BY <1>2, Sizes, Multiple
    <3>2. p + 1 <= f => (p + 1) * PAGE_SIZE <= fb_start
      BY <1>1, <1>2, Sizes, MultipleMonotone
    <3> HIDE DEF x, f, n, last, l
    <3> QED BY <1>1, <1>2, <2>1, <2>2, <3>1, <3>2, Sizes
  <2> QED BY <1>1, <1>2, <2>4, <2>5
<1>6. p \in AskedPages => x < IDENTITY_END \/ (f <= p /\ p < n)
  BY <1>5 DEF AskedPages
<1>7. ASSUME f <= p, p < n PROVE p \in AskedPages \cup {Slack}
  <2>1. CASE p <= l
    <3> DEFINE a == IF x <= fb.addr THEN fb.addr ELSE x
    <3>1. l * PAGE_SIZE >= x
      BY <1>2, <1>4, <2>1, Sizes, MultipleMonotone
    <3>2. f * PAGE_SIZE <= x
      BY <1>1, <1>2, <1>7, Sizes, MultipleMonotone
    <3>3. l * PAGE_SIZE \in Int
      BY <1>4, Sizes, Multiple
    <3>4. /\ a \in 0 .. WORD - 1 /\ fb.addr <= a /\ a < fb.addr + fb.size
          /\ x <= a /\ a < x + PAGE_SIZE
      <4> HIDE DEF x, f, l, n
      <4> QED BY <1>1, <1>2, <1>4, <3>1, <3>2, <3>3, Sizes
    <3> HIDE DEF a
    <3>5. PageOf(a) = p
      BY <1>2, <3>4, Sizes, PageIs
    <3>6. a \in FramebufferBytes
      BY <3>4 DEF FramebufferBytes
    <3> QED BY <3>5, <3>6 DEF AskedPages
  <2>2. CASE p > l
    <3>1. x < addr
      BY <1>2, <1>7, Compare
    <3>2. (l + 1) * PAGE_SIZE = l * PAGE_SIZE + PAGE_SIZE
      BY <1>4, Sizes, Multiple
    <3>3. (l + 2) * PAGE_SIZE = l * PAGE_SIZE + PAGE_SIZE + PAGE_SIZE
      <4>1. ((l + 1) + 1) * PAGE_SIZE = (l + 1) * PAGE_SIZE + PAGE_SIZE
        BY <1>4, Sizes, Multiple
      <4>2. (l + 1) + 1 = l + 2
        BY <1>4
      <4>3. l * PAGE_SIZE \in Int
        BY <1>4, Sizes, Multiple
      <4> QED BY <3>2, <4>1, <4>2, <4>3
    <3>4. l + 2 <= p => (l + 2) * PAGE_SIZE <= x
      BY <1>2, <1>4, Sizes, MultipleMonotone
    <3>5. (n - 1) * PAGE_SIZE + PAGE_SIZE = addr /\ x <= (n - 1) * PAGE_SIZE
      <4>1. ((n - 1) + 1) * PAGE_SIZE = (n - 1) * PAGE_SIZE + PAGE_SIZE
        BY <1>2, Sizes, Multiple
      <4>2. (n - 1) + 1 = n /\ p <= n - 1 /\ n - 1 \in Int
        BY <1>2, <1>7
      <4>3. x <= (n - 1) * PAGE_SIZE
        BY <1>2, <4>2, Sizes, MultipleMonotone
      <4> QED BY <1>2, <4>1, <4>2, <4>3
    <3>6. l * PAGE_SIZE \in Int /\ (n - 1) * PAGE_SIZE \in Int
      BY <1>2, <1>4, Sizes, Multiple
    <3>7. ~ (l + 2 <= p)
      <4> HIDE DEF x, f, l, n
      <4> QED BY <1>1, <1>2, <1>4, <3>3, <3>4, <3>5, <3>6, Sizes
    <3>8. p = l + 1
      BY <1>2, <1>4, <2>2, <3>7
    <3> QED BY <3>8 DEF Slack
  <2> QED BY <1>2, <1>4, <2>1, <2>2
<1>8. x < IDENTITY_END => p \in AskedPages
  BY DEF AskedPages
<1> QED BY <1>6, <1>7, <1>8

-----------------------------------------------------------------------------
(* No step gives out a page without RAM. *)
LEMMA HolesStay ==
  ASSUME HolesUnused, Next
  PROVE  HolesUnused'
<1>1. CASE pmm_init
  <2>1. /\ page_bitmap' = (Pmm!Pages \ Pmm!AllBitsCleared) \cup Pmm!ReservedPages
        /\ UNCHANGED <<mmap, handed, holes>>
    BY <1>1 DEF pmm_init, Pmm!pmm_init, pagingVars
  <2>2. Pmm!AllBitsCleared' = Pmm!AllBitsCleared
    BY <2>1 DEF Pmm!AllBitsCleared
  <2> QED BY <2>1, <2>2 DEF HolesUnused
<1>2. ASSUME NEW page, page \in Pmm!Pages, Pmm!pmm_alloc_page(page), UNCHANGED holes
      PROVE  HolesUnused'
  <2>1. /\ phase = "ready" /\ page \notin page_bitmap
        /\ page_bitmap' = page_bitmap \cup {page} /\ handed' = handed \cup {page}
        /\ UNCHANGED <<mmap, phase>>
    BY <1>2 DEF Pmm!pmm_alloc_page, Pmm!find_free_page, Pmm!FreePages
  <2>2. Pmm!AllBitsCleared' = Pmm!AllBitsCleared
    BY <2>1 DEF Pmm!AllBitsCleared
  <2> QED BY <1>2, <2>1, <2>2 DEF HolesUnused
<1>3. ASSUME UNCHANGED <<mmap, phase, page_bitmap, handed, holes>>
      PROVE  HolesUnused'
  <2>1. Pmm!AllBitsCleared' = Pmm!AllBitsCleared
    BY <1>3 DEF Pmm!AllBitsCleared
  <2> QED BY <1>3, <2>1 DEF HolesUnused
<1>4. Pmm!pmm_alloc_page_fails /\ UNCHANGED holes => HolesUnused'
  BY <1>3 DEF Pmm!pmm_alloc_page_fails, Pmm!vars
<1>5. ASSUME NEW page, Takes(page) \/ HeapWrites(page), UNCHANGED holes PROVE HolesUnused'
  BY <1>2, <1>4, <1>5 DEF Takes, HeapWrites
<1>6. CASE heap_init \/ paging_init_directory \/ paging_init_tables
  BY <1>5, <1>6 DEF heap_init, paging_init_directory, paging_init_tables
<1>7. map_page(addr) /\ UNCHANGED holes => HolesUnused'
  BY <1>3, <1>5 DEF map_page, pmmVars
<1>8. CASE paging_init_map_identity \/ paging_init_map_framebuffer
  BY <1>7, <1>8 DEF paging_init_map_identity, paging_init_map_framebuffer
<1>9. CASE paging_init_identity_done \/ paging_init_enable \/ draw_faults
  BY <1>3, <1>9 DEF paging_init_identity_done, paging_init_enable, draw_faults, page_fault,
                    pmmVars
<1>10. CASE heap_expand
  BY <1>5, <1>10 DEF heap_expand, page_fault
<1>11. CASE draw
  BY <1>3, <1>11 DEF draw, vars
<1> QED BY <1>1, <1>6, <1>8, <1>9, <1>10, <1>11 DEF Next, Boot

(* What each step of the start-up does to the invariant. *)
LEMMA InitInv == Init => IInv
<1> SUFFICES ASSUME Init PROVE IInv
  OBVIOUS
<1> USE DEF Init, Pmm!Init
<1>1. kernel_dir \in AllPages /\ addr \in 0 .. WORD - 1 /\ holes \subseteq AllPages
  BY Sizes DEF AllPages
<1>2. mem \in [AllPages -> [Entry -> 0 .. WORD - 1]]
  <2>1. PICK word \in Garbage : mem = [p \in AllPages |-> Filled(word)]
    OBVIOUS
  <2>2. Filled(word) \in [Entry -> 0 .. WORD - 1]
    BY Sizes, FilledType
  <2> QED BY <2>1, <2>2
<1>3. TypeOK /\ Pmm!TypeOK
  BY <1>1, <1>2 DEF TypeOK, Pmm!TypeOK
<1>4. PagesMarked /\ DirectoryPlaced /\ TablesSound /\ IdentityDone /\ FramebufferDone
  BY DEF PagesMarked, DirectoryPlaced, TablesSound, IdentityDone, FramebufferDone
<1>5. HolesUnused
  BY DEF HolesUnused
<1> QED BY <1>3, <1>4, <1>5 DEF IInv

(* After pmm_init page 0 is the kernel's. *)
LEMMA PmmInitKeeps == ASSUME IInv, pmm_init PROVE IInv'
<1>1. /\ phase = "reset" /\ phase' = "ready"
      /\ page_bitmap' = (Pmm!Pages \ Pmm!AllBitsCleared) \cup Pmm!ReservedPages
      /\ overrun' = Pmm!AllBitsCleared \ Pmm!Pages
      /\ UNCHANGED <<mmap, kernel_end, handed>> /\ UNCHANGED pagingVars
  BY DEF pmm_init, Pmm!pmm_init
<1>2. pc = "heap" /\ handed = {} /\ TypeOK /\ Pmm!TypeOK /\ PagesMarked /\ DirectoryPlaced
  BY <1>1 DEF IInv, PagesMarked
<1>3. 0 \in Pmm!ReservedPages
  <2>1. kernel_end \in KernelEnds /\ kernel_end \in PAGE_SIZE .. MAX_PAGES * PAGE_SIZE
    BY <1>2, PagingAssumption DEF Pmm!TypeOK
  <2>2. kernel_end \in Nat /\ PAGE_SIZE <= kernel_end
    BY <2>1, Sizes, Multiple
  <2> DEFINE q == kernel_end \div PAGE_SIZE
  <2>3. q \in Nat /\ kernel_end < q * PAGE_SIZE + PAGE_SIZE
    BY <2>2, Sizes, Division
  <2>4. q = 0 => q * PAGE_SIZE = 0
    BY Sizes
  <2> HIDE DEF q
  <2>5. 0 < q
    BY <2>2, <2>3, <2>4, Sizes
  <2>6. 0 \in Pmm!Pages
    BY Sizes DEF Pmm!Pages
  <2> QED BY <2>5, <2>6 DEF Pmm!ReservedPages, Pmm!addr_to_page, q
<1>4. Pmm!AllBitsCleared \subseteq Int
  BY DEF Pmm!AllBitsCleared, Pmm!BitsCleared
<1>5. Pmm!TypeOK'
  BY <1>1, <1>2, <1>4 DEF Pmm!TypeOK, Pmm!ReservedPages
<1>6. TypeOK'
  BY <1>1, <1>2 DEF TypeOK, pagingVars
<1>7. PagesMarked'
  BY <1>1, <1>2, <1>3 DEF PagesMarked, pagingVars
<1>8. DirectoryPlaced' /\ TablesSound' /\ IdentityDone' /\ FramebufferDone'
  BY <1>1, <1>2 DEF DirectoryPlaced, TablesSound, IdentityDone, FramebufferDone, pagingVars
<1>9. HolesUnused'
  BY HolesStay DEF IInv, Next, Boot
<1> QED BY <1>5, <1>6, <1>7, <1>8, <1>9 DEF IInv

LEMMA HeapInitKeeps == ASSUME IInv, heap_init PROVE IInv'
<1>1. PICK page \in AllPages, word \in Garbage :
        HeapWrites(page) /\ mem' = Kept(mem, [mem EXCEPT ![page] = Filled(word)])
  BY DEF heap_init
<1>2. /\ phase = "ready" /\ pc = "heap" /\ pc' = "directory"
      /\ UNCHANGED <<fb, kernel_dir, addr, holes, own, failed>>
  BY DEF heap_init
<1>3. TypeOK /\ Pmm!TypeOK /\ PagesMarked /\ HolesUnused /\ heap = {}
  BY <1>2 DEF IInv, DirectoryPlaced
<1>4. mem' \in MemType
  BY <1>1, <1>3, KeptFill, Sizes DEF TypeOK, MemType
<1>7. HolesUnused'
  BY HolesStay DEF IInv, Next, Boot
<1>5. CASE page \in Pmm!Pages /\ Pmm!pmm_alloc_page(page) /\ heap' = heap \cup {page}
  <2>1. /\ page \in AllPages /\ page \notin handed /\ page # 0
        /\ phase' = "ready" /\ Pmm!TypeOK'
        /\ handed' = handed \cup {page} /\ page_bitmap' = page_bitmap \cup {page}
        /\ Pmm!FreePages' = Pmm!FreePages \ {page}
        /\ \A p \in Pmm!FreePages : page <= p
    BY <1>3, <1>5, PageTaken
  <2>2. PagesMarked'
    BY <1>2, <1>3, <1>5, <2>1 DEF PagesMarked
  <2>3. \A h \in heap', p \in Pmm!FreePages' : h < p
    <3>1. page \in Int /\ Pmm!FreePages \subseteq Int
      <4>1. Pmm!FreePages \subseteq Int
        BY Sizes DEF Pmm!FreePages, Pmm!Pages
      <4> QED BY <2>1, <4>1, PageTypes
    <3>2. \A p \in Pmm!FreePages' : page <= p /\ p # page /\ p \in Int
      BY <2>1, <3>1
    <3> QED BY <1>3, <1>5, <3>1, <3>2
  <2>4. TypeOK'
    BY <1>2, <1>3, <1>4, <1>5, <2>1 DEF TypeOK, MemType
  <2> QED BY <1>2, <1>7, <2>1, <2>2, <2>3, <2>4 DEF IInv, DirectoryPlaced, TablesSound, IdentityDone,
                                             FramebufferDone
<1>6. CASE Pmm!pmm_alloc_page_fails /\ UNCHANGED heap
  <2>1. UNCHANGED <<mmap, kernel_end, phase, page_bitmap, overrun, handed>>
    BY <1>6 DEF Pmm!pmm_alloc_page_fails, Pmm!vars
  <2>2. Pmm!TypeOK' /\ PagesMarked'
    BY <1>2, <1>3, <1>6, <2>1 DEF Pmm!TypeOK, PagesMarked
  <2>3. TypeOK'
    BY <1>2, <1>3, <1>4, <1>6 DEF TypeOK, MemType
  <2> QED BY <1>2, <1>3, <1>6, <1>7, <2>2, <2>3 DEF IInv, DirectoryPlaced, TablesSound, IdentityDone,
                                             FramebufferDone
<1> QED BY <1>1, <1>5, <1>6 DEF HeapWrites

LEMMA DirectoryKeeps == ASSUME IInv, paging_init_directory PROVE IInv'
<1>1. PICK page \in AllPages : Takes(page) /\ kernel_dir' = page
  BY DEF paging_init_directory
<1>2. pc = "directory" /\ pc' = "tables" /\ UNCHANGED <<fb, addr, mem, holes, heap>>
  BY DEF paging_init_directory
<1>3. /\ TypeOK /\ Pmm!TypeOK /\ PagesMarked /\ HolesUnused
      /\ \A h \in heap, p \in Pmm!FreePages : h < p
  BY <1>2 DEF IInv, DirectoryPlaced
<1>4. /\ Pmm!TypeOK' /\ PagesMarked' /\ own' \subseteq AllPages /\ failed' \in BOOLEAN
      /\ ~ failed' => /\ page \in Pmm!FreePages /\ own' = own \cup {page}
                      /\ Pmm!FreePages' = Pmm!FreePages \ {page}
                      /\ \A p \in Pmm!FreePages : page <= p
  BY <1>1, <1>2, <1>3, OwnTaken
<1>5. TypeOK'
  BY <1>1, <1>2, <1>3, <1>4 DEF TypeOK
<1>6. ASSUME ~ failed'
      PROVE  /\ page \in own' /\ page + 1 \notin heap'
             /\ \A p \in Pmm!FreePages' : page < p
  <2>1. Pmm!FreePages \subseteq Int /\ heap \subseteq Int
    BY <1>3, Sizes DEF Pmm!FreePages, Pmm!Pages, TypeOK, AllPages
  <2>2. \A h \in heap : h < page
    BY <1>3, <1>4, <1>6
  <2>3. page \in Int
    BY <1>4, <1>6, <2>1
  <2>4. page + 1 \notin heap
    BY <2>1, <2>2, <2>3
  <2>5. \A p \in Pmm!FreePages' : page <= p /\ p # page /\ p \in Int
    BY <1>4, <1>6, <2>1
  <2> QED BY <1>2, <1>4, <1>6, <2>3, <2>4, <2>5
<1>7. DirectoryPlaced'
  BY <1>1, <1>2, <1>6 DEF DirectoryPlaced
<1>8. HolesUnused'
  BY HolesStay DEF IInv, Next, Boot
<1> QED BY <1>2, <1>4, <1>5, <1>7, <1>8 DEF IInv, TablesSound, IdentityDone, FramebufferDone

(* The page behind the directory's is marked: if it was free, it is the    *)
(* one the second call gets.                                               *)
LEMMA TablesKeeps == ASSUME IInv, paging_init_tables PROVE IInv'
<1>1. PICK page \in AllPages : Takes(page)
  BY DEF paging_init_tables
<1>2. /\ pc = "tables" /\ pc' = "identity" /\ addr' = 0
      /\ mem' = Kept(mem, [mem EXCEPT ![kernel_dir] = Filled(0),
                                  ![kernel_dir + 1] = Filled(0)])
      /\ UNCHANGED <<fb, kernel_dir, holes, heap>>
  BY DEF paging_init_tables
<1>3. TypeOK /\ Pmm!TypeOK /\ PagesMarked /\ HolesUnused /\ kernel_dir \in AllPages /\ mem \in MemType
  BY DEF IInv, TypeOK, MemType
<1>4. /\ Pmm!TypeOK' /\ PagesMarked' /\ own' \subseteq AllPages /\ failed' \in BOOLEAN
      /\ own \subseteq own'
      /\ ~ failed' => /\ ~ failed
                      /\ page \in Pmm!FreePages /\ page_bitmap' = page_bitmap \cup {page}
                      /\ \A p \in Pmm!FreePages : page <= p
  BY <1>1, <1>2, <1>3, OwnTaken
<1> DEFINE m == [mem EXCEPT ![kernel_dir] = Filled(0)]
           new == [m EXCEPT ![kernel_dir + 1] = Filled(0)]
<1>5. m \in MemType /\ mem' = Kept(mem, new)
  BY <1>2, <1>3, FillType, ZeroWord
<1>18. new \in MemType
  BY <1>5, FillType, ZeroWord
<1>6. mem' \in MemType
  <2> HIDE DEF new
  <2> QED BY <1>3, <1>5, <1>18, KeptType
<1>7. 0 \in 0 .. WORD - 1
  BY Sizes
<1>8. TypeOK'
  BY <1>2, <1>3, <1>4, <1>6, <1>7 DEF TypeOK, MemType
<1>9. kernel_dir # kernel_dir + 1 /\ kernel_dir \in Int
  BY <1>3, PageTypes
<1>10. ASSUME ~ failed' PROVE \A i \in Entry : mem'[kernel_dir][i] = 0
  <2>1. kernel_dir \notin holes
    BY <1>2, <1>4, <1>10 DEF IInv, DirectoryPlaced, PagesMarked, HolesUnused
  <2>2. new[kernel_dir] = Filled(0)
    BY <1>3, <1>9 DEF MemType
  <2> HIDE DEF new
  <2>3. mem'[kernel_dir] = Filled(0)
    BY <1>3, <1>5, <2>1, <2>2 DEF Kept
  <2> QED BY <2>3 DEF Filled
<1>11. ~ failed' => SoundMap(mem', kernel_dir, own')
  BY <1>10, ZeroWord DEF SoundMap
<1>12. ~ failed' => \A p \in AllPages : ~ Has(mem', kernel_dir, p)
  BY <1>10, ZeroWord, PageTypes DEF Has
<1>13. ASSUME ~ failed'
       PROVE  /\ kernel_dir \in own' /\ kernel_dir + 1 \notin heap'
              /\ kernel_dir + 1 \in page_bitmap'
  <2>1. /\ kernel_dir \in own /\ kernel_dir + 1 \notin heap
        /\ \A p \in Pmm!FreePages : kernel_dir < p
    BY <1>2, <1>4, <1>13 DEF IInv, DirectoryPlaced
  <2>2. /\ page \in Pmm!FreePages /\ page_bitmap' = page_bitmap \cup {page}
        /\ \A p \in Pmm!FreePages : page <= p
    BY <1>4, <1>13
  <2>3. Pmm!FreePages \subseteq Int /\ kernel_dir < page
    BY <2>1, <2>2, Sizes DEF Pmm!FreePages, Pmm!Pages
  <2>4. kernel_dir + 1 \in Pmm!Pages
    <3>1. page \in Pmm!Pages /\ kernel_dir + 1 <= page /\ kernel_dir + 1 >= 0
      BY <1>3, <1>9, <2>2, <2>3, Sizes DEF Pmm!FreePages, Pmm!Pages, AllPages
    <3> QED BY <1>9, <3>1, Sizes DEF Pmm!Pages
  <2>5. CASE kernel_dir + 1 \in Pmm!FreePages
    <3>1. page <= kernel_dir + 1
      BY <2>2, <2>5
    <3>2. page = kernel_dir + 1
      BY <1>9, <2>2, <2>3, <3>1
    <3> QED BY <1>2, <1>4, <2>1, <2>2, <3>2
  <2>6. CASE kernel_dir + 1 \notin Pmm!FreePages
    BY <1>2, <1>4, <2>1, <2>2, <2>4, <2>6 DEF Pmm!FreePages
  <2> QED BY <2>5, <2>6
<1>14. DirectoryPlaced'
  BY <1>2, <1>13 DEF DirectoryPlaced
<1>15. TablesSound'
  BY <1>2, <1>11 DEF TablesSound
<1>16. IdentityDone'
  <2>1. First(0) = 0 /\ 0 = First(0) * PAGE_SIZE
    <3>1. 0 * PAGE_SIZE = 0
      BY Sizes
    <3>2. PageOf(0 * PAGE_SIZE) = 0
      BY PageStart
    <3> QED BY <3>1, <3>2 DEF First
  <2>2. \A p \in AllPages : ~ (p < 0)
    BY PageTypes
  <2>3. 0 <= IDENTITY_END
    BY Sizes
  <2> QED BY <1>2, <1>12, <2>1, <2>2, <2>3 DEF IdentityDone
<1>17. FramebufferDone' /\ HolesUnused'
  BY <1>2, HolesStay DEF FramebufferDone, IInv, Next, Boot
<1> QED BY <1>4, <1>8, <1>14, <1>15, <1>16, <1>17 DEF IInv

LEMMA MapPagePlaces ==
  ASSUME IInv, pc \in {"identity", "framebuffer"}, map_page(addr),
         UNCHANGED <<pc, kernel_dir, heap>>
  PROVE  DirectoryPlaced'
<1>1. TypeOK /\ Pmm!TypeOK /\ PagesMarked /\ HolesUnused /\ DirectoryPlaced
  BY DEF IInv
<1>2. \A page \in AllPages :
        Takes(page) => /\ page_bitmap \subseteq page_bitmap' /\ own \subseteq own'
                       /\ ~ failed' => ~ failed
  BY <1>1, OwnTaken
<1>3. /\ page_bitmap \subseteq page_bitmap' /\ own \subseteq own'
      /\ ~ failed' => ~ failed
  BY <1>2 DEF map_page, pmmVars
<1> QED BY <1>1, <1>3 DEF DirectoryPlaced

LEMMA MapIdentityKeeps == ASSUME IInv, paging_init_map_identity PROVE IInv'
<1>1. /\ pc = "identity" /\ addr < IDENTITY_END /\ map_page(addr) /\ addr' = NextPage(addr)
      /\ UNCHANGED <<pc, fb, kernel_dir, holes, heap>>
  BY DEF paging_init_map_identity, MapsIdentity
<1>2. TypeOK /\ addr \in 0 .. WORD - 1 /\ kernel_dir \in AllPages
  BY DEF IInv, TypeOK
<1>3. /\ Pmm!TypeOK' /\ PagesMarked' /\ own' \subseteq AllPages /\ failed' \in BOOLEAN
      /\ mem' \in MemType
      /\ ~ failed' /\ DirectoryInRam =>
           /\ ~ failed /\ kernel_dir \in own' /\ kernel_dir + 1 \in page_bitmap'
           /\ SoundMap(mem', kernel_dir, own')
           /\ \A p \in AllPages :
                Has(mem', kernel_dir, p) <=> Has(mem, kernel_dir, p) \/ p = PageOf(addr)
  BY <1>1, MapPageAdds
<1>9. DirectoryInRam' <=> DirectoryInRam
  BY <1>1 DEF DirectoryInRam
<1>4. TypeOK'
  BY <1>1, <1>2, <1>3, NextPageType DEF TypeOK, MemType
<1>5. DirectoryPlaced'
  BY <1>1, MapPagePlaces DEF DirectoryPlaced, IInv
<1>6. TablesSound'
  BY <1>1, <1>3, <1>9 DEF TablesSound
<1>7. IdentityDone'
  <2> SUFFICES ASSUME ~ failed', DirectoryInRam
               PROVE  /\ addr' = First(addr') * PAGE_SIZE /\ addr' <= IDENTITY_END
                      /\ \A p \in AllPages : Has(mem', kernel_dir, p) <=> p < First(addr')
    BY <1>1, <1>9 DEF IdentityDone
  <2>1. /\ addr = First(addr) * PAGE_SIZE
        /\ \A p \in AllPages : Has(mem, kernel_dir, p) <=> p < First(addr)
    BY <1>1, <1>3 DEF IInv, IdentityDone
  <2>2. addr + PAGE_SIZE <= IDENTITY_END /\ addr + PAGE_SIZE < WORD
    BY <1>1, <1>2, <2>1, NextIdentity
  <2>3. /\ addr' = addr + PAGE_SIZE /\ First(addr') = First(addr) + 1
        /\ addr' = First(addr') * PAGE_SIZE
    BY <1>1, <1>2, <2>1, <2>2, NextPageIs
  <2>4. ASSUME NEW p \in AllPages PROVE Has(mem', kernel_dir, p) <=> p < First(addr')
    <3>1. p \in Nat /\ First(addr) \in Nat
      BY <1>2, WordPage, PageTypes DEF First
    <3>2. p < First(addr') <=> (p < First(addr) \/ p = First(addr))
      BY <2>3, <3>1
    <3> QED BY <1>3, <2>1, <3>2 DEF First
  <2> QED BY <2>2, <2>3, <2>4
<1>8. FramebufferDone' /\ HolesUnused'
  BY <1>1, HolesStay DEF FramebufferDone, IInv, Next, Boot
<1> QED BY <1>3, <1>4, <1>5, <1>6, <1>7, <1>8 DEF IInv

LEMMA IdentityDoneKeeps == ASSUME IInv, paging_init_identity_done PROVE IInv'
<1>1. /\ pc = "identity" /\ ~ (addr < IDENTITY_END) /\ pc' = "framebuffer" /\ addr' = fb_start
      /\ UNCHANGED <<pmmVars, fb, kernel_dir, mem, holes, own, heap, failed>>
  BY DEF paging_init_identity_done, MapsIdentity
<1>2. /\ TypeOK /\ fb \in Framebuffers /\ addr \in 0 .. WORD - 1
  BY DEF IInv, TypeOK
<1>3. /\ fb_start = First(fb.addr) * PAGE_SIZE /\ First(fb.addr) \in AllPages
      /\ fb_start \in 0 .. WORD - 1 /\ First(fb_start) = First(fb.addr)
      /\ fb.size \in 1 .. WORD - 1
      /\ FramebufferFits => fb_end = fb_start + fb.size + PAGE_SIZE /\ fb_end \in Nat
  BY <1>2, FramebufferBounds
<1>4. TypeOK'
  BY <1>1, <1>2, <1>3 DEF TypeOK
<1>5. Pmm!TypeOK' /\ PagesMarked'
  BY <1>1 DEF IInv, Pmm!TypeOK, PagesMarked, pmmVars
<1>6. DirectoryPlaced' /\ TablesSound'
  BY <1>1 DEF IInv, DirectoryPlaced, TablesSound, DirectoryInRam, pmmVars
<1>7. fb_end' = fb_end /\ (FramebufferFits' <=> FramebufferFits)
      /\ (DirectoryInRam' <=> DirectoryInRam)
  BY <1>1 DEF fb_end, fb_start, FramebufferFits, DirectoryInRam
<1>8. FramebufferDone'
  <2> SUFFICES ASSUME ~ failed, DirectoryInRam, FramebufferFits
               PROVE  /\ addr' = First(addr') * PAGE_SIZE
                      /\ First(fb.addr) <= First(addr')
                      /\ addr' < fb_end + PAGE_SIZE
                      /\ \A p \in AllPages :
                           Has(mem, kernel_dir, p) <=>
                             \/ p * PAGE_SIZE < IDENTITY_END
                             \/ First(fb.addr) <= p /\ p < First(addr')
    BY <1>1, <1>7 DEF FramebufferDone
  <2>1. /\ addr = First(addr) * PAGE_SIZE /\ addr <= IDENTITY_END
        /\ \A p \in AllPages : Has(mem, kernel_dir, p) <=> p < First(addr)
    BY <1>1 DEF IInv, IdentityDone
  <2>2. addr = IDENTITY_END
    BY <1>1, <1>2, <2>1, Sizes
  <2>3. First(fb.addr) \in Nat /\ First(addr) \in Nat
    BY <1>2, <1>3, WordPage, PageTypes DEF First
  <2>4. fb_start < fb_end + PAGE_SIZE
    BY <1>3, Sizes
  <2>5. ASSUME NEW p \in AllPages
        PROVE  /\ Has(mem, kernel_dir, p) <=> p * PAGE_SIZE < IDENTITY_END
               /\ ~ (First(fb.addr) <= p /\ p < First(fb.addr))
    <3>1. p \in Nat /\ (p * PAGE_SIZE < First(addr) * PAGE_SIZE <=> p < First(addr))
      BY <2>3, PageTypes, Compare
    <3>2. ~ (First(fb.addr) <= p /\ p < First(fb.addr))
      BY <2>3, <3>1
    <3> QED BY <2>1, <2>2, <3>1, <3>2
  <2>6. First(fb.addr) <= First(fb.addr)
    BY <2>3
  <2> QED BY <1>1, <1>3, <2>4, <2>5, <2>6
<1>9. IdentityDone' /\ HolesUnused'
  BY <1>1, HolesStay DEF IdentityDone, IInv, Next, Boot
<1> QED BY <1>4, <1>5, <1>6, <1>8, <1>9 DEF IInv

LEMMA MapFramebufferKeeps == ASSUME IInv, paging_init_map_framebuffer PROVE IInv'
<1>1. /\ pc = "framebuffer" /\ addr < fb_end /\ map_page(addr) /\ addr' = NextPage(addr)
      /\ UNCHANGED <<pc, fb, kernel_dir, holes, heap>>
  BY DEF paging_init_map_framebuffer, MapsFramebuffer
<1>2. TypeOK /\ fb \in Framebuffers /\ addr \in 0 .. WORD - 1 /\ kernel_dir \in AllPages
  BY DEF IInv, TypeOK
<1>3. /\ Pmm!TypeOK' /\ PagesMarked' /\ own' \subseteq AllPages /\ failed' \in BOOLEAN
      /\ mem' \in MemType
      /\ ~ failed' /\ DirectoryInRam =>
           /\ ~ failed /\ kernel_dir \in own' /\ kernel_dir + 1 \in page_bitmap'
           /\ SoundMap(mem', kernel_dir, own')
           /\ \A p \in AllPages :
                Has(mem', kernel_dir, p) <=> Has(mem, kernel_dir, p) \/ p = PageOf(addr)
  BY <1>1, MapPageAdds
<1>4. TypeOK'
  BY <1>1, <1>2, <1>3, NextPageType DEF TypeOK, MemType
<1>5. DirectoryPlaced'
  BY <1>1, MapPagePlaces DEF DirectoryPlaced, IInv
<1>6. TablesSound'
  BY <1>1, <1>3 DEF TablesSound, DirectoryInRam
<1>7. fb_end' = fb_end /\ (FramebufferFits' <=> FramebufferFits)
      /\ (DirectoryInRam' <=> DirectoryInRam)
  BY <1>1 DEF fb_end, fb_start, FramebufferFits, DirectoryInRam
<1>8. FramebufferDone'
  <2> SUFFICES ASSUME ~ failed', DirectoryInRam, FramebufferFits
               PROVE  /\ addr' = First(addr') * PAGE_SIZE
                      /\ First(fb.addr) <= First(addr')
                      /\ addr' < fb_end + PAGE_SIZE
                      /\ \A p \in AllPages :
                           Has(mem', kernel_dir, p) <=>
                             \/ p * PAGE_SIZE < IDENTITY_END
                             \/ First(fb.addr) <= p /\ p < First(addr')
    BY <1>1, <1>7 DEF FramebufferDone
  <2>1. /\ addr = First(addr) * PAGE_SIZE /\ First(fb.addr) <= First(addr)
        /\ \A p \in AllPages :
             Has(mem, kernel_dir, p) <=>
               \/ p * PAGE_SIZE < IDENTITY_END
               \/ First(fb.addr) <= p /\ p < First(addr)
    BY <1>1, <1>3 DEF IInv, FramebufferDone
  <2>2. fb_end \in Nat /\ fb_end + PAGE_SIZE <= WORD /\ First(fb.addr) \in Nat
    BY <1>2, FramebufferBounds, PageTypes
  <2>3. addr + PAGE_SIZE < WORD
    BY <1>1, <1>2, <2>2, Sizes
  <2>4. /\ addr' = addr + PAGE_SIZE /\ First(addr') = First(addr) + 1
        /\ addr' = First(addr') * PAGE_SIZE
    BY <1>1, <1>2, <2>1, <2>3, NextPageIs
  <2>5. First(addr) \in Nat
    BY <1>2, WordPage, PageTypes DEF First
  <2>6. ASSUME NEW p \in AllPages
        PROVE  Has(mem', kernel_dir, p) <=>
                 \/ p * PAGE_SIZE < IDENTITY_END
                 \/ First(fb.addr) <= p /\ p < First(addr')
    <3>1. p \in Nat
      BY PageTypes
    <3>2. (First(fb.addr) <= p /\ p < First(addr')) <=>
            (First(fb.addr) <= p /\ p < First(addr)) \/ p = First(addr)
      BY <2>1, <2>2, <2>4, <2>5, <3>1
    <3> QED BY <1>3, <2>1, <3>2 DEF First
  <2>7. addr' < fb_end + PAGE_SIZE
    BY <1>1, <1>2, <2>2, <2>4, Sizes
  <2>8. First(fb.addr) <= First(addr')
    BY <2>1, <2>2, <2>4, <2>5
  <2> QED BY <2>4, <2>6, <2>7, <2>8
<1>9. IdentityDone' /\ HolesUnused'
  BY <1>1, HolesStay DEF IdentityDone, IInv, Next, Boot
<1> QED BY <1>3, <1>4, <1>5, <1>6, <1>8, <1>9 DEF IInv

LEMMA EnableKeeps == ASSUME IInv, paging_init_enable PROVE IInv'
<1>1. /\ pc = "framebuffer" /\ ~ MapsFramebuffer(addr) /\ pc' = "on"
      /\ UNCHANGED <<pmmVars, fb, kernel_dir, addr, mem, holes, own, heap, failed>>
  BY DEF paging_init_enable
<1>2. TypeOK'
  BY <1>1 DEF IInv, TypeOK
<1>3. Pmm!TypeOK' /\ PagesMarked' /\ DirectoryPlaced' /\ TablesSound'
  BY <1>1 DEF IInv, Pmm!TypeOK, PagesMarked, DirectoryPlaced, TablesSound, DirectoryInRam, pmmVars
<1>4. fb_end' = fb_end /\ (FramebufferFits' <=> FramebufferFits)
      /\ (MapsFramebuffer(addr)' <=> MapsFramebuffer(addr))
      /\ (DirectoryInRam' <=> DirectoryInRam)
  BY <1>1 DEF DirectoryInRam, fb_end, fb_start, FramebufferFits, MapsFramebuffer
<1>5. FramebufferDone'
  BY <1>1, <1>4 DEF IInv, FramebufferDone
<1>6. IdentityDone' /\ HolesUnused'
  BY <1>1, HolesStay DEF IdentityDone, IInv, Next, Boot
<1> QED BY <1>2, <1>3, <1>5, <1>6 DEF IInv

-----------------------------------------------------------------------------
(* What the MMU makes of the map. *)
LEMMA TranslateIs ==
  ASSUME mem \in MemType, kernel_dir \in AllPages, NEW va \in 0 .. WORD - 1
  PROVE  /\ Translate(va) # NoPage <=> Has(mem, kernel_dir, PageOf(va))
         /\ Translate(va) # NoPage => Translate(va) \in AllPages
         /\ SoundMap(mem, kernel_dir, own) /\ Has(mem, kernel_dir, PageOf(va))
              => Translate(va) = PageOf(va)
<1> DEFINE v == PageOf(va)
           pde == mem[kernel_dir][Pd(v)]
           pte == mem[PageOf(pde)][Pt(v)]
<1>1. /\ v \in AllPages /\ Pd(v) \in Entry /\ Pt(v) \in Entry /\ v = Number(Pd(v), Pt(v))
      /\ PD_INDEX(va) = Pd(v) /\ PT_INDEX(va) = Pt(v)
  BY WordPage, PageTypes DEF PD_INDEX, PT_INDEX, Pd, Pt
<1>2. pde \in 0 .. WORD - 1
  BY <1>1 DEF MemType
<1>3. PageOf(pde) \in AllPages
  BY <1>2, WordPage
<1>4. pte \in 0 .. WORD - 1
  BY <1>1, <1>3 DEF MemType
<1>5. PageOf(pte) # NoPage /\ PageOf(pte) \in AllPages
  BY <1>4, WordPage, PageTypes DEF NoPage
<1>6. Translate(va) = IF Present(pde) /\ Present(pte) THEN PageOf(pte) ELSE NoPage
  BY <1>1 DEF Translate, entries
<1>7. Has(mem, kernel_dir, v) <=> Present(pde) /\ Present(pte)
  BY DEF Has
<1>8. ASSUME SoundMap(mem, kernel_dir, own), Has(mem, kernel_dir, v) PROVE PageOf(pte) = v
  <2>1. pte = 0 \/ pte = Flagged(v)
    BY <1>1, <1>7, <1>8 DEF SoundMap
  <2> QED BY <1>1, <1>7, <1>8, <2>1, ZeroWord, FlaggedWord
<1> HIDE DEF v, pde, pte
<1>9. Translate(va) # NoPage <=> Has(mem, kernel_dir, v)
  BY <1>5, <1>6, <1>7
<1>10. SoundMap(mem, kernel_dir, own) /\ Has(mem, kernel_dir, v) => Translate(va) = v
  BY <1>6, <1>7, <1>8
<1>11. Translate(va) # NoPage => Translate(va) \in AllPages
  BY <1>5, <1>6
<1> QED BY <1>9, <1>10, <1>11 DEF v

(* Once paging is on, a step that leaves the map alone keeps it. *)
LEMMA MapKept ==
  ASSUME IInv, pc = "on", pc' \in {"on", "fault"},
         UNCHANGED <<fb, kernel_dir, addr, holes, own, failed>>,
         ~ failed /\ DirectoryInRam =>
           /\ SoundMap(mem', kernel_dir, own)
           /\ \A p \in AllPages : Has(mem', kernel_dir, p) <=> Has(mem, kernel_dir, p)
  PROVE  TablesSound' /\ IdentityDone' /\ FramebufferDone'
<1>1. fb_end' = fb_end /\ (FramebufferFits' <=> FramebufferFits)
      /\ (MapsFramebuffer(addr)' <=> MapsFramebuffer(addr))
      /\ (DirectoryInRam' <=> DirectoryInRam)
  BY DEF DirectoryInRam, fb_end, fb_start, FramebufferFits, MapsFramebuffer
<1>2. FramebufferDone'
  BY <1>1 DEF IInv, FramebufferDone
<1>3. TablesSound' /\ IdentityDone'
  BY <1>1 DEF TablesSound, IdentityDone
<1> QED BY <1>2, <1>3

(* The heap's page is mapped to itself, if at all, and is no table. *)
LEMMA HeapExpandKeeps == ASSUME IInv, heap_expand PROVE IInv'
<1>1. PICK page \in AllPages, word \in Garbage :
        /\ HeapWrites(page)
        /\ \/ page_fault(page * PAGE_SIZE)
           \/ /\ Translate(page * PAGE_SIZE) # NoPage
              /\ mem' = Kept(mem, [mem EXCEPT ![Translate(page * PAGE_SIZE)] = Filled(word)])
              /\ UNCHANGED <<pc, fb, kernel_dir, addr, holes, own, failed>>
  BY DEF heap_expand
<1>2. pc = "on"
  BY DEF heap_expand
<1>3. /\ TypeOK /\ Pmm!TypeOK /\ PagesMarked /\ HolesUnused /\ kernel_dir \in AllPages /\ mem \in MemType
      /\ page * PAGE_SIZE \in 0 .. WORD - 1 /\ PageOf(page * PAGE_SIZE) = page
  BY PageTypes, PageStart DEF IInv, TypeOK, MemType
<1>4. UNCHANGED <<fb, kernel_dir, addr, holes, own, failed>> /\ pc' \in {"on", "fault"}
  BY <1>1, <1>2 DEF page_fault
<1>5. /\ Pmm!TypeOK' /\ PagesMarked' /\ heap' \subseteq AllPages
      /\ page_bitmap \subseteq page_bitmap' /\ page \notin own
      /\ page \in heap' \/ page = 0
      /\ page \notin page_bitmap \/ page = 0
      /\ heap' = heap \/ (heap' = heap \cup {page} /\ page \notin page_bitmap)
  <2>1. CASE page \in Pmm!Pages /\ Pmm!pmm_alloc_page(page) /\ heap' = heap \cup {page}
    <3>1. /\ page \notin page_bitmap /\ page \notin handed /\ page # 0
          /\ phase' = "ready" /\ Pmm!TypeOK'
          /\ handed' = handed \cup {page} /\ page_bitmap' = page_bitmap \cup {page}
      BY <1>3, <2>1, PageTaken
    <3>2. phase = "ready"
      BY <2>1 DEF Pmm!pmm_alloc_page
    <3>3. PagesMarked'
      BY <1>3, <1>4, <2>1, <3>1, <3>2 DEF PagesMarked
    <3> QED BY <1>3, <2>1, <3>1, <3>3 DEF PagesMarked, TypeOK
  <2>2. CASE page = 0 /\ Pmm!pmm_alloc_page_fails /\ UNCHANGED heap
    <3>1. UNCHANGED <<mmap, kernel_end, phase, page_bitmap, overrun, handed>>
      BY <2>2 DEF Pmm!pmm_alloc_page_fails, Pmm!vars
    <3>2. Pmm!TypeOK' /\ PagesMarked'
      BY <1>2, <1>3, <1>4, <2>2, <3>1 DEF Pmm!TypeOK, PagesMarked
    <3> QED BY <1>3, <2>2, <3>1, <3>2 DEF PagesMarked, TypeOK
  <2> QED BY <1>1, <2>1, <2>2 DEF HeapWrites
<1>6. mem' \in MemType
  <2>1. CASE page_fault(page * PAGE_SIZE)
    BY <1>3, <2>1 DEF page_fault
  <2>2. CASE /\ Translate(page * PAGE_SIZE) # NoPage
             /\ mem' = Kept(mem, [mem EXCEPT ![Translate(page * PAGE_SIZE)] = Filled(word)])
    <3>1. Translate(page * PAGE_SIZE) \in AllPages
      BY <1>3, <2>2, TranslateIs
    <3>2. \A q \in AllPages : Kept(mem, [mem EXCEPT ![q] = Filled(word)]) \in MemType
      BY <1>3, KeptFill, Sizes
    <3> QED BY <2>2, <3>1, <3>2
  <2> QED BY <1>1, <2>1, <2>2
<1>7. TypeOK'
  BY <1>3, <1>4, <1>5, <1>6 DEF TypeOK, MemType
<1>8. DirectoryPlaced'
  BY <1>2, <1>4, <1>5 DEF IInv, DirectoryPlaced
<1>9. ASSUME ~ failed, DirectoryInRam
      PROVE  /\ SoundMap(mem', kernel_dir, own)
             /\ \A p \in AllPages : Has(mem', kernel_dir, p) <=> Has(mem, kernel_dir, p)
  <2>1. /\ kernel_dir + 1 \in AllPages /\ kernel_dir \in own /\ kernel_dir + 1 \in page_bitmap
        /\ kernel_dir # 0 /\ kernel_dir + 1 # 0 /\ SoundMap(mem, kernel_dir, own)
    BY <1>2, <1>9, DirectoryTypes
  <2>2. CASE mem' = mem
    BY <2>1, <2>2
  <2>3. CASE /\ Translate(page * PAGE_SIZE) # NoPage
             /\ mem' = Kept(mem, [mem EXCEPT ![Translate(page * PAGE_SIZE)] = Filled(word)])
    <3>1. mem' = Kept(mem, [mem EXCEPT ![page] = Filled(word)])
      BY <1>3, <2>1, <2>3, TranslateIs
    <3>2. page # kernel_dir /\ page # kernel_dir + 1
      BY <1>5, <2>1
    <3>3. mem' = [mem EXCEPT ![page] = Filled(word)] \/ mem' = mem
      BY <1>3, <3>1, KeptFill, Sizes
    <3>4. CASE mem' = [mem EXCEPT ![page] = Filled(word)]
      BY <1>3, <1>5, <2>1, <3>2, <3>4, OtherWrite
    <3> QED BY <2>2, <3>3, <3>4
  <2> QED BY <1>1, <2>2, <2>3 DEF page_fault
<1>10. TablesSound' /\ IdentityDone' /\ FramebufferDone'
  BY <1>2, <1>4, <1>9, MapKept
<1>11. HolesUnused'
  BY HolesStay DEF IInv, Next
<1> QED BY <1>5, <1>7, <1>8, <1>10, <1>11 DEF IInv

(* A fault changes no memory. *)
LEMMA DrawFaultsKeeps == ASSUME IInv, draw_faults PROVE IInv'
<1>1. /\ pc = "on" /\ pc' = "fault"
      /\ UNCHANGED <<fb, kernel_dir, addr, mem, holes, own, failed>>
      /\ UNCHANGED <<pmmVars, heap>>
  BY DEF draw_faults, page_fault
<1>2. TypeOK'
  BY <1>1 DEF IInv, TypeOK
<1>3. Pmm!TypeOK' /\ PagesMarked' /\ DirectoryPlaced'
  BY <1>1 DEF IInv, Pmm!TypeOK, PagesMarked, DirectoryPlaced, pmmVars
<1>4. ~ failed /\ DirectoryInRam => SoundMap(mem', kernel_dir, own)
  BY <1>1, DirectoryTypes
<1>5. TablesSound' /\ IdentityDone' /\ FramebufferDone'
  BY <1>1, <1>4, MapKept
<1>6. HolesUnused'
  BY HolesStay DEF IInv, Next
<1> QED BY <1>2, <1>3, <1>5, <1>6 DEF IInv

-----------------------------------------------------------------------------
LEMMA StepInv == IInv /\ [Next]_vars => IInv'
<1> SUFFICES ASSUME IInv, [Next]_vars PROVE IInv'
  OBVIOUS
<1>1. CASE Boot
  BY <1>1, PmmInitKeeps, HeapInitKeeps, DirectoryKeeps, TablesKeeps, MapIdentityKeeps,
     IdentityDoneKeeps, MapFramebufferKeeps, EnableKeeps DEF Boot
<1>2. CASE heap_expand
  BY <1>2, HeapExpandKeeps
<1>3. CASE draw_faults
  BY <1>3, DrawFaultsKeeps
<1>4. CASE UNCHANGED vars
  <2>1. TypeOK' /\ Pmm!TypeOK'
    BY <1>4 DEF IInv, vars, TypeOK, Pmm!TypeOK
  <2>2. PagesMarked' /\ DirectoryPlaced'
    BY <1>4 DEF IInv, vars, PagesMarked, DirectoryPlaced, Pmm!FreePages, Pmm!Pages
  <2>3. TablesSound' /\ IdentityDone'
    BY <1>4 DEF IInv, vars, TablesSound, IdentityDone, DirectoryInRam
  <2>4. fb_end' = fb_end /\ (FramebufferFits' <=> FramebufferFits)
        /\ (MapsFramebuffer(addr)' <=> MapsFramebuffer(addr))
        /\ (DirectoryInRam' <=> DirectoryInRam)
    BY <1>4 DEF vars, DirectoryInRam, fb_end, fb_start, FramebufferFits, MapsFramebuffer
  <2>5. FramebufferDone'
    BY <1>4, <2>4 DEF IInv, vars, FramebufferDone
  <2>6. HolesUnused'
    BY <1>4 DEF IInv, vars, HolesUnused, Pmm!AllBitsCleared, Pmm!Pages
  <2> QED BY <2>1, <2>2, <2>3, <2>5, <2>6 DEF IInv
<1> QED BY <1>1, <1>2, <1>3, <1>4 DEF Next, draw

LEMMA Invariant == Spec => []IInv
BY InitInv, StepInv, PTL DEF Spec

-----------------------------------------------------------------------------
(* The variables of paging_init hold values of their C types, whatever the *)
(* memory map, the framebuffer and the contents of RAM are.                *)
THEOREM TypeCorrect == Spec => []TypeOK
<1>1. IInv => TypeOK
  BY DEF IInv
<1> QED BY <1>1, Invariant, PTL

(* The two arrays of the directory name the same tables, each in a page of *)
(* paging's own, one for every entry (paging.c:30-38, 60-76, 85-91).       *)
THEOREM TablesOwn == Spec => []TablesAreOwn
<1>1. ASSUME IInv PROVE TablesAreOwn
  <2> SUFFICES ASSUME pc \in {"identity", "framebuffer", "on"}, ~ failed, DirectoryInRam
               PROVE  /\ own \cap heap = {}
                      /\ \A i \in Entry :
                           Present(entries(mem)[i]) =>
                             LET table == PageOf(entries(mem)[i])
                             IN  /\ PageOf(tables(mem)[i]) = table
                                 /\ table \in own \ {kernel_dir, kernel_dir + 1}
                                 /\ \A j \in Entry \ {i} :
                                      Present(entries(mem)[j]) => PageOf(entries(mem)[j]) # table
    BY DEF TablesAreOwn
  <2>1. mem \in MemType /\ kernel_dir \in AllPages /\ SoundMap(mem, kernel_dir, own)
    BY <1>1, DirectoryTypes
  <2>2. own \cap heap = {}
    BY <1>1 DEF IInv, PagesMarked
  <2>3. ASSUME NEW i \in Entry, Present(mem[kernel_dir][i])
        PROVE  PageOf(mem[kernel_dir + 1][i]) = PageOf(mem[kernel_dir][i])
    <3>1. mem[kernel_dir + 1][i] = PageOf(mem[kernel_dir][i]) * PAGE_SIZE
      BY <2>1, <2>3 DEF SoundMap
    <3>2. PageOf(mem[kernel_dir][i]) \in Nat
      BY <2>1, WordPage, PageTypes DEF MemType
    <3> QED BY <3>1, <3>2, PageStart
  <2> QED BY <2>1, <2>2, <2>3 DEF SoundMap, entries, tables
<1> QED BY <1>1, Invariant, PTL

(* Once paging is on, the MMU finds every page asked for at itself and no  *)
(* page it was not asked for but the one behind the framebuffer            *)
(* (paging.c:56-82, 93-105), whatever the heap writes afterwards.          *)
THEOREM MapAsAsked == Spec => []MapIsAsAsked
<1>1. ASSUME IInv PROVE MapIsAsAsked
  <2> SUFFICES ASSUME pc \in {"on", "fault"}, ~ failed, DirectoryInRam, FramebufferFits,
                      NEW p \in AllPages
               PROVE  /\ p \in AskedPages => Translate(p * PAGE_SIZE) = p
                      /\ Translate(p * PAGE_SIZE) \in {p, NoPage}
                      /\ Translate(p * PAGE_SIZE) = p => p \in AskedPages \cup {Slack}
    BY DEF MapIsAsAsked
  <2>1. /\ mem \in MemType /\ kernel_dir \in AllPages /\ SoundMap(mem, kernel_dir, own)
        /\ fb \in Framebuffers /\ addr \in 0 .. WORD - 1
    BY <1>1, DirectoryTypes DEF IInv, TypeOK
  <2>2. /\ addr = First(addr) * PAGE_SIZE /\ addr < fb_end + PAGE_SIZE
        /\ ~ (addr < fb_end)
        /\ Has(mem, kernel_dir, p) <=>
             \/ p * PAGE_SIZE < IDENTITY_END
             \/ First(fb.addr) <= p /\ p < First(addr)
    BY <1>1 DEF IInv, FramebufferDone, MapsFramebuffer
  <2>3. addr >= fb_end
    BY <2>1, <2>2, FramebufferBounds, Sizes
  <2>4. /\ p \in AskedPages => Has(mem, kernel_dir, p)
        /\ Has(mem, kernel_dir, p) => p \in AskedPages \cup {Slack}
    BY <2>1, <2>2, <2>3, MappedIsAsked
  <2>5. p * PAGE_SIZE \in 0 .. WORD - 1 /\ PageOf(p * PAGE_SIZE) = p /\ p # NoPage
    BY PageTypes, PageStart DEF NoPage
  <2>6. /\ Translate(p * PAGE_SIZE) # NoPage <=> Has(mem, kernel_dir, p)
        /\ Has(mem, kernel_dir, p) => Translate(p * PAGE_SIZE) = p
    BY <2>1, <2>5, TranslateIs
  <2> QED BY <2>4, <2>5, <2>6
<1> QED BY <1>1, Invariant, PTL

=============================================================================
