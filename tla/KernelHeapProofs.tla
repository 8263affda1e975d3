-------------------------- MODULE KernelHeapProofs --------------------------
(***************************************************************************)
(* Proofs about the heap, for every size of page, header and request and   *)
(* every memory map.                                                       *)
(***************************************************************************)
EXTENDS KernelHeap, SequenceTheorems, TLAPS

Start(p)     == p * PAGE_SIZE
Limit(block) == (PageOf(block.at) + 1) * PAGE_SIZE

(* The blocks of a list keep inside their pages, which are among own, and  *)
(* even an empty payload has an address there.                             *)
PlacedIn(list, own) ==
  \A i \in DOMAIN list :
    /\ list[i].at % 4 = 0 /\ list[i].size % 4 = 0
    /\ Payload(list[i]) < Limit(list[i])
    /\ End(list[i]) <= Limit(list[i])
    /\ PageOf(list[i].at) \in own

(* No two blocks share a byte, headers included. *)
ApartIn(list) ==
  \A i, j \in DOMAIN list :
    i # j => End(list[i]) <= list[j].at \/ End(list[j]) <= list[i].at

(* The first parts of BlocksTilePages, of any list. *)
TilesIn(list) ==
  /\ \A i \in DOMAIN list :
       \/ End(list[i]) = Limit(list[i])
       \/ /\ End(list[i]) < Limit(list[i])
          /\ i < Len(list)
          /\ list[i + 1].at = End(list[i])
  /\ \A i \in DOMAIN list :
       \/ list[i].at % PAGE_SIZE = 0
       \/ i > 1 /\ list[i].at = End(list[i - 1])

(* UsedBlocksAreLive, of any list and any allocations. *)
LiveIn(list, allocations) ==
  /\ \A i \in DOMAIN list :
       list[i].free <=> Payload(list[i]) \notin DOMAIN allocations
  /\ \A ptr \in DOMAIN allocations : \E i \in DOMAIN list :
       /\ Payload(list[i]) = ptr
       /\ list[i].size >= allocations[ptr]

Sound(list, own) ==
  list \in Seq(BlockType) /\ PlacedIn(list, own) /\ ApartIn(list) /\ TilesIn(list)

(* A page the allocator will give out is nobody's yet. *)
PagesMarked ==
  /\ others \subseteq handed
  /\ phase = "reset" => handed = {}
  /\ phase = "ready" => handed \subseteq page_bitmap

(* The call under way asks for what it was given, rounded up. *)
CallIsRounded ==
  call.running =>
    /\ heap = "on"
    /\ call.asked \in Requests /\ call.asked <= call.size /\ call.size % 4 = 0

NothingYet ==
  /\ heap # "off" => phase = "ready"
  /\ heap # "on" => first_block = << >> /\ live = [ptr \in {} |-> 0]

IInv ==
  /\ TypeOK
  /\ PagesMarked /\ CallIsRounded /\ NothingYet
  /\ Sound(first_block, handed \ others)
  /\ LiveIn(first_block, live)

-----------------------------------------------------------------------------
(* Pages and their first bytes. *)
LEMMA Sizes ==
  /\ PAGE_SIZE \in Nat /\ PAGE_SIZE > 0 /\ PAGE_SIZE % 4 = 0 /\ PAGE_SIZE < WORD
  /\ HDR \in Nat /\ HDR > 0 /\ HDR % 4 = 0 /\ HDR < PAGE_SIZE
  /\ WORD \in Nat /\ MAX_PAGES \in Nat
  /\ Requests \subseteq 0 .. WORD - 4 /\ MaxGrown \in Nat
BY HeapAssumption

LEMMA StartStep ==
  ASSUME NEW p \in Int
  PROVE  /\ Start(p) \in Int
         /\ Start(p + 1) = Start(p) + PAGE_SIZE
         /\ p \in Nat => Start(p) \in Nat
<1>1. p * PAGE_SIZE \in Int
  BY Sizes
<1>2. (p + 1) * PAGE_SIZE = p * PAGE_SIZE + PAGE_SIZE
  BY Sizes, Z3
<1>3. p \in Nat => p * PAGE_SIZE \in Nat
  BY Sizes, Z3
<1> QED BY <1>1, <1>2, <1>3 DEF Start

LEMMA StartMonotone ==
  ASSUME NEW p \in Int, NEW q \in Int, p <= q
  PROVE  Start(p) <= Start(q)
<1>1. q - p \in Nat
  OBVIOUS
<1>2. (q - p) * PAGE_SIZE \in Nat
  BY <1>1, Sizes, Z3
<1>3. (q - p) * PAGE_SIZE = q * PAGE_SIZE - p * PAGE_SIZE
  BY Sizes, Z3
<1>4. p * PAGE_SIZE \in Int /\ q * PAGE_SIZE \in Int
  BY Sizes
<1> QED BY <1>2, <1>3, <1>4 DEF Start

LEMMA StartAligned ==
  ASSUME NEW p \in Int
  PROVE  Start(p) % 4 = 0
<1>1. PICK k \in Int : PAGE_SIZE = 4 * k
  <2>1. PAGE_SIZE = 4 * (PAGE_SIZE \div 4) /\ PAGE_SIZE \div 4 \in Int
    BY Sizes
  <2> QED BY <2>1
<1>2. p * (4 * k) = 4 * (p * k) /\ p * k \in Int
  BY <1>1, Z3
<1>3. \A n \in Int : (4 * n) % 4 = 0
  OBVIOUS
<1> QED BY <1>1, <1>2, <1>3 DEF Start

(* The page an address lies in. *)
LEMMA PageBounds ==
  ASSUME NEW a \in Nat
  PROVE  /\ PageOf(a) \in Nat
         /\ Start(PageOf(a)) <= a /\ a < Start(PageOf(a)) + PAGE_SIZE
<1>1. /\ a \div PAGE_SIZE \in Int /\ a % PAGE_SIZE \in 0 .. PAGE_SIZE - 1
      /\ a = (a \div PAGE_SIZE) * PAGE_SIZE + (a % PAGE_SIZE)
  BY Sizes, Z3
<1>2. a \div PAGE_SIZE \in Nat
  BY Sizes, Z3
<1>3. (a \div PAGE_SIZE) * PAGE_SIZE \in Int
  BY <1>1, Sizes
<1> DEFINE q == a \div PAGE_SIZE
           m == q * PAGE_SIZE
           r == a % PAGE_SIZE
<1>4. r \in 0 .. PAGE_SIZE - 1 /\ a = m + r /\ m \in Int /\ q \in Nat /\ Start(q) = m
  BY <1>1, <1>2, <1>3 DEF Start
<1>5. PageOf(a) = q
  BY DEF PageOf, Pmm!addr_to_page
<1> HIDE DEF q, m, r
<1> QED BY <1>4, <1>5, Sizes

LEMMA PageIs ==
  ASSUME NEW a \in Nat, NEW p \in Int, Start(p) <= a, a < Start(p) + PAGE_SIZE
  PROVE  PageOf(a) = p
<1> DEFINE q == PageOf(a)
<1>1. /\ q \in Int /\ Start(q) <= a /\ a < Start(q) + PAGE_SIZE
      /\ Start(q) \in Int /\ Start(p) \in Int
  BY PageBounds, StartStep
<1> HIDE DEF q
<1>2. ASSUME q < p PROVE FALSE
  <2>1. q + 1 <= p /\ q + 1 \in Int
    BY <1>1, <1>2
  <2>2. Start(q + 1) <= Start(p) /\ Start(q + 1) = Start(q) + PAGE_SIZE
    BY <1>1, <2>1, StartMonotone, StartStep
  <2> QED BY <1>1, <2>2, Sizes
<1>3. ASSUME p < q PROVE FALSE
  <2>1. p + 1 <= q /\ p + 1 \in Int
    BY <1>1, <1>3
  <2>2. Start(p + 1) <= Start(q) /\ Start(p + 1) = Start(p) + PAGE_SIZE
    BY <1>1, <2>1, StartMonotone, StartStep
  <2> QED BY <1>1, <2>2, Sizes
<1> QED BY <1>1, <1>2, <1>3 DEF q

LEMMA PageOfStart ==
  ASSUME NEW p \in Nat
  PROVE  PageOf(Start(p)) = p
<1>1. Start(p) \in Nat
  BY StartStep
<1> QED BY <1>1, PageIs, Sizes

LEMMA Truncation ==
  ASSUME NEW n \in Nat, n < WORD
  PROVE  Pmm!Uint32(n) = n
BY Sizes DEF Pmm!Uint32

(* kmalloc's rounding gives at least what was asked for. *)
LEMMA Rounding ==
  ASSUME NEW size \in Requests
  PROVE  RoundUp(size) \in Nat /\ size <= RoundUp(size) /\ RoundUp(size) % 4 = 0
<1>1. size \in Nat /\ size + 3 \in Nat /\ size + 3 < WORD
  BY Sizes
<1>2. Pmm!Uint32(size + 3) = size + 3
  BY <1>1, Truncation
<1>3. RoundUp(size) = (size + 3) - ((size + 3) % 4)
  BY <1>2 DEF RoundUp
<1> QED BY <1>1, <1>3

(* A list with two blocks in the place of its i-th. *)
Spliced(s, i, v) == SubSeq(s, 1, i - 1) \o v \o SubSeq(s, i + 1, Len(s))

LEMMA Splicing ==
  ASSUME NEW s \in Seq(BlockType), NEW i \in 1 .. Len(s),
         NEW v \in Seq(BlockType), Len(v) = 2
  PROVE  LET t == Spliced(s, i, v)
         IN  /\ t \in Seq(BlockType) /\ Len(t) = Len(s) + 1
             /\ t[i] = v[1] /\ t[i + 1] = v[2]
             /\ \A k \in 1 .. Len(s) + 1 :
                  (k < i => t[k] = s[k]) /\ (k > i + 1 => t[k] = s[k - 1])
<1> DEFINE n == Len(s)
           u == SubSeq(s, 1, i - 1)
           w == SubSeq(s, i + 1, n)
           x == u \o v
           t == Spliced(s, i, v)
<1>1. n \in Nat /\ i \in 1 .. n /\ \A k \in 1 .. n : s[k] \in BlockType
  BY LenProperties
<1>2. /\ u \in Seq(BlockType) /\ Len(u) = i - 1
      /\ \A k \in 1 .. i - 1 : u[k] = s[k]
  <2>1. \A k \in 1 .. i - 1 : s[k] \in BlockType
    BY <1>1
  <2>2. /\ u \in Seq(BlockType) /\ Len(u) = IF 1 <= i - 1 THEN i - 1 - 1 + 1 ELSE 0
        /\ \A k \in 1 .. i - 1 - 1 + 1 : u[k] = s[1 + k - 1]
    BY <1>1, <2>1, SubSeqProperties
  <2> QED BY <1>1, <2>2
<1>3. /\ w \in Seq(BlockType) /\ Len(w) = n - i
      /\ \A k \in 1 .. n - i : w[k] = s[i + k]
  <2>1. \A k \in i + 1 .. n : s[k] \in BlockType
    BY <1>1
  <2>2. /\ w \in Seq(BlockType) /\ Len(w) = IF i + 1 <= n THEN n - (i + 1) + 1 ELSE 0
        /\ \A k \in 1 .. n - (i + 1) + 1 : w[k] = s[(i + 1) + k - 1]
    BY <1>1, <2>1, SubSeqProperties
  <2> QED BY <1>1, <2>2
<1>4. t = x \o w
  BY DEF Spliced
<1> HIDE DEF n, u, w, x, t
<1>5. /\ x \in Seq(BlockType) /\ Len(x) = i + 1
      /\ \A k \in 1 .. i + 1 : x[k] = IF k <= i - 1 THEN u[k] ELSE v[k - (i - 1)]
  <2>1. /\ x \in Seq(BlockType) /\ Len(x) = Len(u) + Len(v)
        /\ \A k \in 1 .. Len(u) + Len(v) :
             x[k] = IF k <= Len(u) THEN u[k] ELSE v[k - Len(u)]
    BY <1>2, ConcatProperties DEF x
  <2>2. Len(u) + Len(v) = i + 1
    BY <1>1, <1>2
  <2> QED BY <1>2, <2>1, <2>2
<1>6. /\ t \in Seq(BlockType) /\ Len(t) = n + 1
      /\ \A k \in 1 .. n + 1 : t[k] = IF k <= i + 1 THEN x[k] ELSE w[k - (i + 1)]
  <2>2. /\ t \in Seq(BlockType) /\ Len(t) = Len(x) + Len(w)
        /\ \A k \in 1 .. Len(x) + Len(w) :
             t[k] = IF k <= Len(x) THEN x[k] ELSE w[k - Len(x)]
    BY <1>3, <1>4, <1>5, ConcatProperties
  <2>1. Len(x) + Len(w) = n + 1
    BY <1>1, <1>3, <1>5
  <2> QED BY <1>5, <2>1, <2>2
<1>7. ASSUME NEW k \in 1 .. n + 1
      PROVE  t[k] = IF k < i THEN s[k] ELSE IF k = i THEN v[1]
                    ELSE IF k = i + 1 THEN v[2] ELSE s[k - 1]
  <2>1. CASE k < i
    <3>1. k <= i + 1 /\ k <= i - 1 /\ k \in 1 .. i + 1 /\ k \in 1 .. i - 1
      BY <1>1, <2>1
    <3>2. t[k] = x[k]
      BY <1>6, <3>1
    <3>3. x[k] = u[k]
      BY <1>5, <3>1
    <3> QED BY <1>2, <2>1, <3>1, <3>2, <3>3
  <2>2. CASE k = i
    <3>1. k - (i - 1) = 1 /\ ~ (k <= i - 1) /\ k \in 1 .. i + 1 /\ k <= i + 1 /\ ~ (k < i)
      BY <1>1, <2>2
    <3>2. t[k] = x[k]
      BY <1>6, <3>1
    <3>3. x[k] = v[k - (i - 1)]
      BY <1>5, <3>1
    <3> QED BY <2>2, <3>1, <3>2, <3>3
  <2>3. CASE k = i + 1
    <3>1. /\ k - (i - 1) = 2 /\ ~ (k <= i - 1) /\ k \in 1 .. i + 1
          /\ k <= i + 1 /\ ~ (k < i) /\ k # i
      BY <1>1, <2>3
    <3>2. t[k] = x[k]
      BY <1>6, <3>1
    <3>3. x[k] = v[k - (i - 1)]
      BY <1>5, <3>1
    <3> QED BY <2>3, <3>1, <3>2, <3>3
  <2>4. CASE k > i + 1
    <3>1. /\ k - (i + 1) \in 1 .. n - i /\ i + (k - (i + 1)) = k - 1
          /\ ~ (k <= i + 1) /\ ~ (k < i) /\ k # i /\ k # i + 1
      BY <1>1, <2>4
    <3>2. t[k] = w[k - (i + 1)]
      BY <1>6, <3>1
    <3>3. w[k - (i + 1)] = s[i + (k - (i + 1))]
      BY <1>3, <3>1
    <3> QED BY <3>1, <3>2, <3>3
  <2>5. k < i \/ k = i \/ k = i + 1 \/ k > i + 1
    BY <1>1
  <2> QED BY <2>1, <2>2, <2>3, <2>4, <2>5
<1>8. i \in 1 .. n + 1 /\ i + 1 \in 1 .. n + 1
  BY <1>1
<1>9. ~ (i < i) /\ ~ (i + 1 < i) /\ i + 1 # i
  BY <1>1
<1>10. t[i] = v[1]
  BY <1>7, <1>8, <1>9
<1>11. t[i + 1] = v[2]
  BY <1>7, <1>8, <1>9
<1>12. ASSUME NEW k \in 1 .. n + 1 PROVE (k < i => t[k] = s[k]) /\ (k > i + 1 => t[k] = s[k - 1])
  <2>1. k > i + 1 => ~ (k < i) /\ k # i /\ k # i + 1
    BY <1>1
  <2> QED BY <1>7, <2>1
<1> QED BY <1>6, <1>10, <1>11, <1>12 DEF n, t

-----------------------------------------------------------------------------
(* Blocks and the limits of their pages. *)
LEMMA BlockBounds ==
  ASSUME NEW b \in BlockType
  PROVE  /\ b.at \in Nat /\ b.size \in Nat /\ b.free \in BOOLEAN
         /\ Payload(b) = b.at + HDR /\ End(b) = b.at + HDR + b.size
         /\ Limit(b) \in Int /\ Limit(b) = Start(PageOf(b.at)) + PAGE_SIZE
         /\ Limit(b) - PAGE_SIZE <= b.at /\ b.at < Limit(b)
<1>1. b.at \in Nat /\ b.size \in Nat /\ b.free \in BOOLEAN
  BY DEF BlockType
<1>2. /\ PageOf(b.at) \in Nat
      /\ Start(PageOf(b.at)) <= b.at /\ b.at < Start(PageOf(b.at)) + PAGE_SIZE
  BY <1>1, PageBounds
<1>3. /\ Start(PageOf(b.at)) \in Int
      /\ Start(PageOf(b.at) + 1) = Start(PageOf(b.at)) + PAGE_SIZE
  BY <1>2, StartStep
<1>4. Limit(b) = Start(PageOf(b.at) + 1)
  BY DEF Limit, Start
<1> QED BY <1>1, <1>2, <1>3, <1>4, Sizes DEF Payload, End

LEMMA SamePage ==
  ASSUME NEW b \in BlockType, NEW c \in BlockType,
         Limit(b) - PAGE_SIZE <= c.at, c.at < Limit(b)
  PROVE  PageOf(c.at) = PageOf(b.at) /\ Limit(c) = Limit(b)
<1>1. PageOf(b.at) \in Int /\ Start(PageOf(b.at)) \in Int
  BY BlockBounds, PageBounds, StartStep
<1>2. PageOf(c.at) = PageOf(b.at)
  BY <1>1, BlockBounds, PageIs, Sizes
<1> QED BY <1>2 DEF Limit

(* Blocks that share no byte have addresses of their own. *)
LEMMA OneAddressEach ==
  ASSUME NEW s \in Seq(BlockType), ApartIn(s), NEW i \in DOMAIN s, NEW j \in DOMAIN s,
         s[i].at = s[j].at
  PROVE  i = j
<1>1. s[i] \in BlockType /\ s[j] \in BlockType
  OBVIOUS
<1>2. SUFFICES ASSUME i # j PROVE FALSE
  OBVIOUS
<1>3. End(s[i]) <= s[j].at \/ End(s[j]) <= s[i].at
  BY <1>2 DEF ApartIn
<1>4. /\ s[i].at \in Nat /\ s[i].size \in Nat /\ End(s[i]) = s[i].at + HDR + s[i].size
      /\ s[j].at \in Nat /\ s[j].size \in Nat /\ End(s[j]) = s[j].at + HDR + s[j].size
  BY <1>1, BlockBounds
<1> QED BY <1>3, <1>4, Sizes

LEMMA SameHeader ==
  ASSUME NEW x \in Nat, NEW y \in Nat, x + HDR = y + HDR
  PROVE  x = y
BY Sizes

LEMMA OnePayloadEach ==
  ASSUME NEW s \in Seq(BlockType), ApartIn(s), NEW i \in DOMAIN s, NEW j \in DOMAIN s,
         Payload(s[i]) = Payload(s[j])
  PROVE  i = j
<1>1. s[i] \in BlockType /\ s[j] \in BlockType
  OBVIOUS
<1>2. s[i].at \in Nat /\ s[j].at \in Nat
  BY <1>1, BlockBounds
<1>3. s[i].at = s[j].at
  BY <1>2, Sizes DEF Payload
<1> QED BY <1>3, OneAddressEach

-----------------------------------------------------------------------------
(* The two headers kmalloc leaves when it splits a block. *)
UsedPart(b, size) == [b EXCEPT !.free = FALSE, !.size = size]
RestPart(b, size) == [at   |-> b.at + HDR + size,
                      size |-> b.size - size - HDR,
                      free |-> TRUE]

LEMMA Multiples ==
  ASSUME NEW x \in Int, NEW y \in Int, NEW z \in Int, x % 4 = 0, y % 4 = 0, z % 4 = 0
  PROVE  (x + y + z) % 4 = 0 /\ (x - y - z) % 4 = 0
OBVIOUS

(* They fill the block they came from, and the second one has a payload. *)
LEMMA SplitParts ==
  ASSUME NEW b \in BlockType, b.at % 4 = 0, b.size % 4 = 0, End(b) <= Limit(b),
         NEW size \in Nat, size % 4 = 0, b.size > size + HDR
  PROVE  LET used == UsedPart(b, size)
             rest == RestPart(b, size)
         IN  /\ used \in BlockType /\ rest \in BlockType
             /\ used.at = b.at /\ End(used) = rest.at /\ End(rest) = End(b)
             /\ b.at < rest.at /\ rest.at < End(b)
             /\ PageOf(rest.at) = PageOf(b.at)
             /\ Limit(used) = Limit(b) /\ Limit(rest) = Limit(b)
             /\ Payload(rest) < Limit(b) /\ End(used) < Limit(b)
             /\ used.size = size /\ ~ used.free /\ rest.free
             /\ rest.at % 4 = 0 /\ rest.size % 4 = 0
<1> DEFINE used == UsedPart(b, size)
           rest == RestPart(b, size)
<1>1. /\ b.at \in Nat /\ b.size \in Nat /\ b.free \in BOOLEAN
      /\ End(b) = b.at + HDR + b.size /\ Limit(b) \in Int
      /\ Limit(b) - PAGE_SIZE <= b.at
  BY BlockBounds
<1>4. used \in BlockType /\ used.at = b.at /\ used.size = size /\ ~ used.free
  BY DEF BlockType, UsedPart
<1>5. b.at + HDR + size \in Nat /\ b.size - size - HDR \in Nat
  BY <1>1, Sizes
<1>6. /\ rest \in BlockType /\ rest.at = b.at + HDR + size
      /\ rest.size = b.size - size - HDR /\ rest.free
  BY <1>5 DEF BlockType, RestPart
<1>7. rest.at % 4 = 0 /\ rest.size % 4 = 0
  <2>1. (b.at + HDR + size) % 4 = 0 /\ (b.size - size - HDR) % 4 = 0
    BY <1>1, Sizes, Multiples
  <2> QED BY <1>6, <2>1
<1> HIDE DEF used, rest
<1>8. End(used) = b.at + HDR + size /\ End(rest) = rest.at + HDR + rest.size
  BY <1>4, <1>6, BlockBounds
<1>9. Payload(rest) = rest.at + HDR
  BY <1>6, BlockBounds
<1>10. Limit(b) - PAGE_SIZE <= rest.at /\ rest.at < Limit(b)
  BY <1>1, <1>6, Sizes
<1>11. PageOf(rest.at) = PageOf(b.at) /\ Limit(rest) = Limit(b)
  BY <1>6, <1>10, SamePage
<1>12. Limit(used) = Limit(b)
  BY <1>4 DEF Limit
<1>13. End(used) = rest.at /\ End(rest) = End(b)
  BY <1>1, <1>6, <1>8, Sizes
<1>14. b.at < rest.at /\ rest.at < End(b) /\ Payload(rest) < Limit(b) /\ End(used) < Limit(b)
  BY <1>1, <1>6, <1>8, <1>9, Sizes
<1> QED BY <1>4, <1>6, <1>7, <1>11, <1>12, <1>13, <1>14 DEF used, rest

(* What splitting the i-th block makes of the list: every new block lies   *)
(* in an old one, of which it is the whole or, at i and i + 1, a part.     *)
Split(s, i, size) ==
  Spliced(s, i, << UsedPart(s[i], size), RestPart(s[i], size) >>)
Whole(i, k) == IF k <= i THEN k ELSE k - 1

LEMMA SplitShape ==
  ASSUME NEW s, NEW own, Sound(s, own), NEW i \in DOMAIN s,
         NEW size \in Nat, size % 4 = 0, s[i].size > size + HDR
  PROVE  LET t == Split(s, i, size)
         IN  /\ t \in Seq(BlockType) /\ Len(t) = Len(s) + 1
             /\ \A k \in DOMAIN t : k # i /\ k # i + 1 => t[k] = s[Whole(i, k)]
             /\ i \in DOMAIN t /\ t[i] = UsedPart(s[i], size)
             /\ i + 1 \in DOMAIN t /\ t[i + 1] = RestPart(s[i], size)
             /\ \A k \in DOMAIN t :
                  /\ Whole(i, k) \in DOMAIN s
                  /\ t[k].at % 4 = 0 /\ t[k].size % 4 = 0
                  /\ s[Whole(i, k)].at <= t[k].at /\ End(t[k]) <= End(s[Whole(i, k)])
                  /\ PageOf(t[k].at) = PageOf(s[Whole(i, k)].at)
                  /\ Limit(t[k]) = Limit(s[Whole(i, k)])
                  /\ Payload(t[k]) < Limit(t[k])
<1> DEFINE used == UsedPart(s[i], size)
           rest == RestPart(s[i], size)
           t == Split(s, i, size)
           n == Len(s)
<1>1. s \in Seq(BlockType) /\ PlacedIn(s, own)
  BY DEF Sound
<1>2. n \in Nat /\ DOMAIN s = 1 .. n /\ i \in 1 .. n /\ \A k \in 1 .. n : s[k] \in BlockType
  BY <1>1
<1>3. /\ s[i].at % 4 = 0 /\ s[i].size % 4 = 0 /\ End(s[i]) <= Limit(s[i])
      /\ s[i] \in BlockType
  BY <1>1, <1>2 DEF PlacedIn
<1>4. /\ used \in BlockType /\ rest \in BlockType
      /\ used.at = s[i].at /\ End(used) = rest.at /\ End(rest) = End(s[i])
      /\ s[i].at < rest.at /\ rest.at < End(s[i])
      /\ PageOf(rest.at) = PageOf(s[i].at)
      /\ Limit(used) = Limit(s[i]) /\ Limit(rest) = Limit(s[i])
      /\ Payload(rest) < Limit(s[i]) /\ End(used) < Limit(s[i])
      /\ used.size = size /\ ~ used.free /\ rest.free
      /\ rest.at % 4 = 0 /\ rest.size % 4 = 0
  BY <1>3, SplitParts
<1>5. t = Spliced(s, i, << used, rest >>)
  BY DEF Split
<1> HIDE DEF used, rest, t
<1>6. /\ t \in Seq(BlockType) /\ Len(t) = n + 1
      /\ t[i] = used /\ t[i + 1] = rest
      /\ \A k \in 1 .. n + 1 :
           (k < i => t[k] = s[k]) /\ (k > i + 1 => t[k] = s[k - 1])
  <2>1. s \in Seq(BlockType) /\ i \in 1 .. Len(s) /\ used \in BlockType /\ rest \in BlockType
    BY <1>1, <1>2, <1>4
  <2> DEFINE v == << used, rest >>
  <2>2. v \in Seq(BlockType) /\ Len(v) = 2 /\ v[1] = used /\ v[2] = rest
    BY <2>1
  <2>4. t = Spliced(s, i, v)
    BY <1>5
  <2> HIDE DEF v
  <2>3. /\ t \in Seq(BlockType) /\ Len(t) = Len(s) + 1
        /\ t[i] = used /\ t[i + 1] = rest
        /\ \A k \in 1 .. Len(s) + 1 :
             (k < i => t[k] = s[k]) /\ (k > i + 1 => t[k] = s[k - 1])
    BY <2>1, <2>2, <2>4, Splicing
  <2> QED BY <2>3
<1>7. DOMAIN t = 1 .. n + 1 /\ i \in DOMAIN t /\ i + 1 \in DOMAIN t
  BY <1>2, <1>6
<1>8. t[i] = used /\ t[i + 1] = rest
  BY <1>6
<1>9. ASSUME NEW k \in DOMAIN t, k # i, k # i + 1 PROVE t[k] = s[Whole(i, k)]
  <2>1. k < i \/ k > i + 1
    BY <1>2, <1>7, <1>9
  <2>2. CASE k < i
    BY <1>2, <1>6, <1>7, <2>2 DEF Whole
  <2>3. CASE k > i + 1
    <3>1. ~ (k < i) /\ ~ (k <= i)
      BY <1>2, <1>7, <2>3
    <3> QED BY <1>6, <1>7, <1>9, <3>1 DEF Whole
  <2> QED BY <2>1, <2>2, <2>3
<1>10. ASSUME NEW k \in DOMAIN t
       PROVE  /\ Whole(i, k) \in DOMAIN s
              /\ t[k].at % 4 = 0 /\ t[k].size % 4 = 0
              /\ s[Whole(i, k)].at <= t[k].at /\ End(t[k]) <= End(s[Whole(i, k)])
              /\ PageOf(t[k].at) = PageOf(s[Whole(i, k)].at)
              /\ Limit(t[k]) = Limit(s[Whole(i, k)])
              /\ Payload(t[k]) < Limit(t[k])
  <2>1. Whole(i, k) \in 1 .. n
    BY <1>2, <1>7 DEF Whole
  <2>2. CASE k = i
    <3>1. Whole(i, k) = i
      BY <1>2, <2>2 DEF Whole
    <3>2. /\ s[i].at \in Nat /\ s[i].size \in Nat /\ End(s[i]) = s[i].at + HDR + s[i].size
          /\ Payload(s[i]) < Limit(s[i])
      BY <1>1, <1>3, BlockBounds DEF PlacedIn
    <3>3. End(used) <= End(s[i]) /\ s[i].at <= used.at /\ Payload(used) = Payload(s[i])
      <4>1. End(used) \in Int /\ End(s[i]) \in Int /\ End(used) < End(s[i])
        <5>1. used.at \in Nat /\ used.size \in Nat /\ End(used) = used.at + HDR + used.size
          BY <1>4, BlockBounds
        <5> QED BY <1>4, <3>2, <5>1, Sizes
      <4> QED BY <1>4, <3>2, <4>1 DEF Payload
    <3>4. used.at % 4 = 0 /\ used.size % 4 = 0 /\ PageOf(used.at) = PageOf(s[i].at)
      BY <1>3, <1>4
    <3>5. Payload(used) < Limit(used)
      BY <1>4, <3>2, <3>3
    <3> QED BY <1>2, <1>4, <1>8, <2>1, <2>2, <3>1, <3>3, <3>4, <3>5
  <2>3. CASE k = i + 1
    <3>1. Whole(i, k) = i
      BY <1>2, <2>3 DEF Whole
    <3>2. s[i].at \in Nat /\ s[i].size \in Nat /\ End(s[i]) = s[i].at + HDR + s[i].size
      BY <1>3, BlockBounds
    <3>3. rest.at \in Nat
      BY <1>4, BlockBounds
    <3>4. End(rest) <= End(s[i]) /\ s[i].at <= rest.at
      <4>1. End(rest) = End(s[i]) /\ End(s[i]) \in Int /\ s[i].at < rest.at
        BY <1>4, <3>2, Sizes
      <4> QED BY <3>2, <3>3, <4>1
    <3> QED BY <1>2, <1>4, <1>8, <2>1, <2>3, <3>1, <3>4
  <2>4. CASE k # i /\ k # i + 1
    <3>1. t[k] = s[Whole(i, k)] /\ s[Whole(i, k)] \in BlockType
      BY <1>2, <1>9, <2>1, <2>4
    <3>2. /\ t[k].at \in Nat /\ t[k].size \in Nat /\ End(t[k]) = t[k].at + HDR + t[k].size
      BY <3>1, BlockBounds
    <3>3. /\ t[k].at % 4 = 0 /\ t[k].size % 4 = 0 /\ Payload(t[k]) < Limit(t[k])
      BY <1>1, <1>2, <2>1, <3>1 DEF PlacedIn
    <3>4. t[k].at <= t[k].at /\ End(t[k]) <= End(t[k])
      BY <3>2, Sizes
    <3> QED BY <1>2, <2>1, <3>1, <3>3, <3>4
  <2> QED BY <2>2, <2>3, <2>4
<1> QED BY <1>6, <1>7, <1>8, <1>9, <1>10 DEF t, used, rest

(* kmalloc's split leaves a sound list. *)
LEMMA SplitKeeps ==
  ASSUME NEW s, NEW own, Sound(s, own), NEW i \in DOMAIN s,
         NEW size \in Nat, size % 4 = 0, s[i].size > size + HDR
  PROVE  Sound(Split(s, i, size), own)
<1> DEFINE used == UsedPart(s[i], size)
           rest == RestPart(s[i], size)
           t == Split(s, i, size)
           w(k) == Whole(i, k)
<1>1. /\ s \in Seq(BlockType) /\ PlacedIn(s, own) /\ ApartIn(s) /\ TilesIn(s)
      /\ DOMAIN s = 1 .. Len(s) /\ Len(s) \in Nat /\ i \in 1 .. Len(s)
      /\ \A k \in DOMAIN s : s[k] \in BlockType
  BY DEF Sound
<1>2. /\ t \in Seq(BlockType) /\ Len(t) = Len(s) + 1
      /\ \A k \in DOMAIN t : k # i /\ k # i + 1 => t[k] = s[w(k)]
      /\ i \in DOMAIN t /\ t[i] = used
      /\ i + 1 \in DOMAIN t /\ t[i + 1] = rest
      /\ \A k \in DOMAIN t :
           /\ w(k) \in DOMAIN s
           /\ t[k].at % 4 = 0 /\ t[k].size % 4 = 0
           /\ s[w(k)].at <= t[k].at /\ End(t[k]) <= End(s[w(k)])
           /\ PageOf(t[k].at) = PageOf(s[w(k)].at) /\ Limit(t[k]) = Limit(s[w(k)])
           /\ Payload(t[k]) < Limit(t[k])
  BY SplitShape
<1>3. /\ used.at = s[i].at /\ End(used) = rest.at /\ End(rest) = End(s[i])
      /\ Limit(used) = Limit(s[i]) /\ Limit(rest) = Limit(s[i]) /\ End(used) < Limit(s[i])
  <2>1. /\ s[i].at % 4 = 0 /\ s[i].size % 4 = 0 /\ End(s[i]) <= Limit(s[i])
        /\ s[i] \in BlockType
    BY <1>1 DEF PlacedIn
  <2> QED BY <2>1, SplitParts
<1> HIDE DEF used, rest, t
<1>4. DOMAIN t = 1 .. Len(s) + 1 /\ \A k \in DOMAIN t : t[k] \in BlockType
  BY <1>1, <1>2
<1>5. \A k \in DOMAIN t :
        /\ t[k].at \in Int /\ End(t[k]) \in Int /\ Limit(t[k]) \in Int
        /\ s[w(k)].at \in Int /\ End(s[w(k)]) \in Int
  <2> SUFFICES ASSUME NEW k \in DOMAIN t
               PROVE  /\ t[k].at \in Int /\ End(t[k]) \in Int /\ Limit(t[k]) \in Int
                      /\ s[w(k)].at \in Int /\ End(s[w(k)]) \in Int
    OBVIOUS
  <2>1. t[k] \in BlockType /\ s[w(k)] \in BlockType
    BY <1>1, <1>2, <1>4
  <2>2. \A b \in BlockType : b.at \in Int /\ End(b) \in Int /\ Limit(b) \in Int
    BY BlockBounds, Sizes
  <2> QED BY <2>1, <2>2
<1>6. PlacedIn(t, own)
  <2> SUFFICES ASSUME NEW k \in DOMAIN t
               PROVE  /\ t[k].at % 4 = 0 /\ t[k].size % 4 = 0
                      /\ Payload(t[k]) < Limit(t[k]) /\ End(t[k]) <= Limit(t[k])
                      /\ PageOf(t[k].at) \in own
    BY DEF PlacedIn
  <2>1. /\ End(t[k]) <= End(s[w(k)]) /\ End(s[w(k)]) <= Limit(s[w(k)])
        /\ PageOf(s[w(k)].at) \in own
    BY <1>1, <1>2 DEF PlacedIn
  <2>2. End(t[k]) <= Limit(t[k])
    BY <1>2, <1>5, <2>1
  <2> QED BY <1>2, <2>1, <2>2
<1>7. ApartIn(t)
  <2> SUFFICES ASSUME NEW j \in DOMAIN t, NEW k \in DOMAIN t, j # k
               PROVE  End(t[j]) <= t[k].at \/ End(t[k]) <= t[j].at
    BY DEF ApartIn
  <2>1. CASE w(j) = w(k)
    <3>1. (j = i /\ k = i + 1) \/ (k = i /\ j = i + 1)
      BY <1>1, <1>4, <2>1 DEF Whole
    <3>2. End(t[i]) = t[i + 1].at /\ End(t[i]) \in Int
      BY <1>2, <1>3, <1>5
    <3>3. End(t[i]) <= t[i + 1].at
      BY <3>2
    <3> QED BY <3>1, <3>3
  <2>2. CASE w(j) # w(k)
    <3>1. End(s[w(j)]) <= s[w(k)].at \/ End(s[w(k)]) <= s[w(j)].at
      BY <1>1, <1>2, <2>2 DEF ApartIn
    <3>2. /\ s[w(j)].at <= t[j].at /\ End(t[j]) <= End(s[w(j)])
          /\ s[w(k)].at <= t[k].at /\ End(t[k]) <= End(s[w(k)])
      BY <1>2
    <3>3. /\ t[j].at \in Int /\ End(t[j]) \in Int /\ s[w(j)].at \in Int /\ End(s[w(j)]) \in Int
          /\ t[k].at \in Int /\ End(t[k]) \in Int /\ s[w(k)].at \in Int /\ End(s[w(k)]) \in Int
      BY <1>5
    <3> QED BY <3>1, <3>2, <3>3
  <2> QED BY <2>1, <2>2
<1>8. ASSUME NEW k \in DOMAIN t
      PROVE  \/ End(t[k]) = Limit(t[k])
             \/ /\ End(t[k]) < Limit(t[k])
                /\ k < Len(t)
                /\ t[k + 1].at = End(t[k])
  <2>1. CASE k = i
    <3>1. k < Len(t)
      BY <1>1, <1>2, <2>1
    <3> QED BY <1>2, <1>3, <2>1, <3>1
  <2>2. CASE k # i
    <3>1. End(t[k]) = End(s[w(k)]) /\ Limit(t[k]) = Limit(s[w(k)])
      <4>1. CASE k = i + 1
        <5>1. w(k) = i
          BY <1>1, <4>1 DEF Whole
        <5> QED BY <1>2, <1>3, <4>1, <5>1
      <4> QED BY <1>2, <2>2, <4>1
    <3>2. \/ End(s[w(k)]) = Limit(s[w(k)])
          \/ /\ End(s[w(k)]) < Limit(s[w(k)])
             /\ w(k) < Len(s)
             /\ s[w(k) + 1].at = End(s[w(k)])
      BY <1>1, <1>2 DEF TilesIn
    <3>3. CASE w(k) < Len(s) /\ s[w(k) + 1].at = End(s[w(k)]) /\ End(s[w(k)]) < Limit(s[w(k)])
      <4>1. k + 1 \in DOMAIN t /\ k < Len(t) /\ w(k + 1) = w(k) + 1
        BY <1>1, <1>2, <1>4, <2>2, <3>3 DEF Whole
      <4>2. t[k + 1].at = s[w(k + 1)].at
        <5>1. CASE k + 1 = i
          <6>1. w(k + 1) = i
            BY <1>1, <5>1 DEF Whole
          <6> QED BY <1>2, <1>3, <5>1, <6>1
        <5>2. CASE k + 1 # i
          <6>1. k + 1 # i + 1
            BY <1>1, <1>4, <2>2
          <6> QED BY <1>2, <4>1, <5>2, <6>1
        <5> QED BY <5>1, <5>2
      <4> QED BY <3>1, <3>3, <4>1, <4>2
    <3> QED BY <3>1, <3>2, <3>3
  <2> QED BY <2>1, <2>2
<1>9. ASSUME NEW k \in DOMAIN t
      PROVE  t[k].at % PAGE_SIZE = 0 \/ (k > 1 /\ t[k].at = End(t[k - 1]))
  <2>1. CASE k = i + 1
    <3>1. k > 1 /\ k - 1 = i
      BY <1>1, <2>1
    <3> QED BY <1>2, <1>3, <2>1, <3>1
  <2>2. CASE k # i + 1
    <3>1. t[k].at = s[w(k)].at
      <4>1. CASE k = i
        <5>1. w(k) = i
          BY <1>1, <4>1 DEF Whole
        <5> QED BY <1>2, <1>3, <4>1, <5>1
      <4> QED BY <1>2, <2>2, <4>1
    <3>2. s[w(k)].at % PAGE_SIZE = 0 \/ (w(k) > 1 /\ s[w(k)].at = End(s[w(k) - 1]))
      BY <1>1, <1>2 DEF TilesIn
    <3>3. CASE w(k) > 1 /\ s[w(k)].at = End(s[w(k) - 1])
      <4>1. k > 1 /\ k - 1 \in DOMAIN t /\ w(k - 1) = w(k) - 1
        BY <1>1, <1>2, <1>4, <2>2, <3>3 DEF Whole
      <4>2. End(t[k - 1]) = End(s[w(k - 1)])
        <5>1. CASE k - 1 = i + 1
          <6>1. w(k - 1) = i
            BY <1>1, <5>1 DEF Whole
          <6> QED BY <1>2, <1>3, <5>1, <6>1
        <5>2. CASE k - 1 # i + 1
          <6>1. k - 1 # i
            BY <1>1, <1>4, <2>2
          <6> QED BY <1>2, <4>1, <5>2, <6>1
        <5> QED BY <5>1, <5>2
      <4> QED BY <3>1, <3>3, <4>1, <4>2
    <3> QED BY <3>1, <3>2, <3>3
  <2> QED BY <2>1, <2>2
<1>10. TilesIn(t)
  BY <1>8, <1>9 DEF TilesIn
<1> QED BY <1>2, <1>6, <1>7, <1>10 DEF Sound, t

(* What kmalloc writes to live when it returns ptr. *)
Given(allocations, ptr, asked) ==
  [q \in DOMAIN allocations \cup {ptr} |-> IF q = ptr THEN asked ELSE allocations[q]]

(* The used half of the split block is the caller's, the rest is nobody's. *)
LEMMA SplitLives ==
  ASSUME NEW s, NEW own, Sound(s, own), NEW i \in DOMAIN s,
         NEW size \in Nat, size % 4 = 0, s[i].size > size + HDR,
         NEW l, LiveIn(s, l), NEW asked \in Nat, asked <= size
  PROVE  LiveIn(Split(s, i, size), Given(l, Payload(s[i]), asked))
<1> DEFINE t == Split(s, i, size)
           w(k) == Whole(i, k)
           ptr == Payload(s[i])
           m == Given(l, ptr, asked)
           used == UsedPart(s[i], size)
           rest == RestPart(s[i], size)
<1>1. /\ s \in Seq(BlockType) /\ PlacedIn(s, own) /\ ApartIn(s)
      /\ DOMAIN s = 1 .. Len(s) /\ Len(s) \in Nat /\ i \in 1 .. Len(s)
      /\ \A k \in DOMAIN s : s[k] \in BlockType
  BY DEF Sound
<1>2. /\ t \in Seq(BlockType) /\ Len(t) = Len(s) + 1
      /\ \A k \in DOMAIN t : k # i /\ k # i + 1 => t[k] = s[w(k)]
      /\ i \in DOMAIN t /\ t[i] = used
      /\ i + 1 \in DOMAIN t /\ t[i + 1] = rest
      /\ \A k \in DOMAIN t : w(k) \in DOMAIN s
  BY SplitShape
<1>3. /\ used.at = s[i].at /\ used.size = size /\ ~ used.free /\ rest.free
      /\ rest \in BlockType /\ s[i].at < rest.at /\ rest.at < End(s[i])
  <2>1. /\ s[i].at % 4 = 0 /\ s[i].size % 4 = 0 /\ End(s[i]) <= Limit(s[i])
        /\ s[i] \in BlockType
    BY <1>1 DEF PlacedIn
  <2> QED BY <2>1, SplitParts
<1>4. DOMAIN m = DOMAIN l \cup {ptr} /\ m[ptr] = asked /\ \A q \in DOMAIN l : q # ptr => m[q] = l[q]
  BY DEF Given
<1> HIDE DEF t, m, used, rest
<1>5. DOMAIN t = 1 .. Len(s) + 1
  BY <1>1, <1>2
<1>6. \A j \in DOMAIN s : Payload(s[j]) = ptr => j = i
  BY <1>1, OnePayloadEach
<1>7. \A j \in DOMAIN s : Payload(s[j]) # Payload(rest)
  <2> SUFFICES ASSUME NEW j \in DOMAIN s, Payload(s[j]) = Payload(rest) PROVE FALSE
    OBVIOUS
  <2>1. /\ s[j].at \in Nat /\ s[j].size \in Nat /\ End(s[j]) = s[j].at + HDR + s[j].size
        /\ s[i].at \in Nat /\ s[i].size \in Nat /\ End(s[i]) = s[i].at + HDR + s[i].size
        /\ rest.at \in Nat
    BY <1>1, <1>3, BlockBounds
  <2>2. s[j].at = rest.at
    <3>1. s[j].at + HDR = rest.at + HDR
      BY DEF Payload
    <3> QED BY <2>1, <3>1, SameHeader
  <2>3. j # i
    BY <1>3, <2>1, <2>2
  <2>4. End(s[j]) <= s[i].at \/ End(s[i]) <= s[j].at
    BY <1>1, <2>3 DEF ApartIn
  <2> QED BY <1>3, <2>1, <2>2, <2>4, Sizes
<1>8. Payload(rest) \notin DOMAIN m
  <2>1. Payload(rest) \notin DOMAIN l
    BY <1>7 DEF LiveIn
  <2>2. Payload(rest) # ptr
    BY <1>1, <1>7
  <2> QED BY <1>4, <2>1, <2>2
<1>9. Payload(used) = ptr
  BY <1>3 DEF Payload
<1>10. ASSUME NEW k \in DOMAIN t PROVE t[k].free <=> Payload(t[k]) \notin DOMAIN m
  <2>1. CASE k = i
    BY <1>2, <1>3, <1>4, <1>9, <2>1
  <2>2. CASE k = i + 1
    BY <1>2, <1>3, <1>8, <2>2
  <2>3. CASE k # i /\ k # i + 1
    <3>1. t[k] = s[w(k)] /\ w(k) \in DOMAIN s /\ w(k) # i
      BY <1>1, <1>2, <1>5, <2>3 DEF Whole
    <3>2. Payload(s[w(k)]) # ptr
      BY <1>6, <3>1
    <3>3. s[w(k)].free <=> Payload(s[w(k)]) \notin DOMAIN l
      BY <3>1 DEF LiveIn
    <3> QED BY <1>4, <3>1, <3>2, <3>3
  <2> QED BY <2>1, <2>2, <2>3
<1>11. ASSUME NEW q \in DOMAIN m
       PROVE  \E k \in DOMAIN t : Payload(t[k]) = q /\ t[k].size >= m[q]
  <2>1. CASE q = ptr
    BY <1>2, <1>3, <1>4, <1>9, <2>1
  <2>2. CASE q # ptr
    <3>1. q \in DOMAIN l /\ m[q] = l[q]
      BY <1>4, <2>2
    <3>2. PICK j \in DOMAIN s : Payload(s[j]) = q /\ s[j].size >= l[q]
      BY <3>1 DEF LiveIn
    <3>3. j # i
      BY <2>2, <3>2
    <3> DEFINE k == IF j < i THEN j ELSE j + 1
    <3>4. k \in DOMAIN t /\ k # i /\ k # i + 1 /\ w(k) = j
      BY <1>1, <1>5, <3>3 DEF Whole
    <3> HIDE DEF k
    <3>5. t[k] = s[j]
      BY <1>2, <3>4
    <3> QED BY <3>1, <3>2, <3>4, <3>5
  <2> QED BY <2>1, <2>2
<1> QED BY <1>10, <1>11 DEF LiveIn, t, m

-----------------------------------------------------------------------------
(* A list with another value in the free flag of its i-th block. *)
Reflag(s, i, flag) == [s EXCEPT ![i].free = flag]

LEMMA ReflagShape ==
  ASSUME NEW s \in Seq(BlockType), NEW i \in DOMAIN s, NEW flag \in BOOLEAN
  PROVE  LET t == Reflag(s, i, flag)
         IN  /\ t \in Seq(BlockType) /\ Len(t) = Len(s) /\ DOMAIN t = DOMAIN s
             /\ t[i].free = flag
             /\ \A k \in DOMAIN s : k # i => t[k] = s[k]
             /\ \A k \in DOMAIN s :
                  /\ t[k].at = s[k].at /\ t[k].size = s[k].size
                  /\ End(t[k]) = End(s[k]) /\ Limit(t[k]) = Limit(s[k])
                  /\ Payload(t[k]) = Payload(s[k])
<1> DEFINE t == Reflag(s, i, flag)
<1>1. s[i] \in BlockType
  OBVIOUS
<1> DEFINE b == [s[i] EXCEPT !.free = flag]
<1>2. b \in BlockType /\ b.free = flag /\ b.at = s[i].at /\ b.size = s[i].size
  BY <1>1 DEF BlockType
<1>3. t = [s EXCEPT ![i] = b]
  BY DEF Reflag
<1> HIDE DEF b, t
<1>4. t \in Seq(BlockType) /\ Len(t) = Len(s) /\ DOMAIN t = DOMAIN s
  BY <1>2, <1>3
<1>5. t[i] = b /\ \A k \in DOMAIN s : k # i => t[k] = s[k]
  BY <1>3
<1>6. \A k \in DOMAIN s : t[k].at = s[k].at /\ t[k].size = s[k].size
  BY <1>2, <1>5
<1> QED BY <1>2, <1>4, <1>5, <1>6 DEF t, End, Limit, Payload

LEMMA ReflagKeeps ==
  ASSUME NEW s, NEW own, Sound(s, own), NEW i \in DOMAIN s, NEW flag \in BOOLEAN
  PROVE  Sound(Reflag(s, i, flag), own)
<1> DEFINE t == Reflag(s, i, flag)
<1>1. /\ s \in Seq(BlockType) /\ PlacedIn(s, own) /\ ApartIn(s) /\ TilesIn(s)
      /\ DOMAIN s = 1 .. Len(s) /\ Len(s) \in Nat
  BY DEF Sound
<1>2. /\ t \in Seq(BlockType) /\ Len(t) = Len(s) /\ DOMAIN t = DOMAIN s
      /\ \A k \in DOMAIN s :
           /\ t[k].at = s[k].at /\ t[k].size = s[k].size
           /\ End(t[k]) = End(s[k]) /\ Limit(t[k]) = Limit(s[k])
           /\ Payload(t[k]) = Payload(s[k])
  BY <1>1, ReflagShape
<1> HIDE DEF t
<1>3. PlacedIn(t, own)
  BY <1>1, <1>2 DEF PlacedIn
<1>4. ApartIn(t)
  BY <1>1, <1>2 DEF ApartIn
<1>5. \A k \in DOMAIN s : /\ k < Len(s) => k + 1 \in DOMAIN s
                          /\ k > 1 => k - 1 \in DOMAIN s
  BY <1>1
<1>6. TilesIn(t)
  BY <1>1, <1>2, <1>5 DEF TilesIn
<1> QED BY <1>2, <1>3, <1>4, <1>6 DEF Sound, t

(* A block handed out whole becomes the caller's. *)
LEMMA TakeLives ==
  ASSUME NEW s, NEW own, Sound(s, own), NEW i \in DOMAIN s, NEW l, LiveIn(s, l),
         NEW asked \in Nat, asked <= s[i].size
  PROVE  LiveIn(Reflag(s, i, FALSE), Given(l, Payload(s[i]), asked))
<1> DEFINE t == Reflag(s, i, FALSE)
           ptr == Payload(s[i])
           m == Given(l, ptr, asked)
<1>1. s \in Seq(BlockType) /\ ApartIn(s)
  BY DEF Sound
<1>2. /\ DOMAIN t = DOMAIN s /\ t[i].free = FALSE
      /\ \A k \in DOMAIN s : k # i => t[k] = s[k]
      /\ \A k \in DOMAIN s : t[k].size = s[k].size /\ Payload(t[k]) = Payload(s[k])
  <2>1. \A flag \in BOOLEAN :
          LET u == Reflag(s, i, flag)
          IN  /\ DOMAIN u = DOMAIN s /\ u[i].free = flag
              /\ \A k \in DOMAIN s : k # i => u[k] = s[k]
              /\ \A k \in DOMAIN s : u[k].size = s[k].size /\ Payload(u[k]) = Payload(s[k])
    BY <1>1, ReflagShape
  <2>2. FALSE \in BOOLEAN
    OBVIOUS
  <2> QED BY <2>1, <2>2, Zenon
<1>3. DOMAIN m = DOMAIN l \cup {ptr} /\ m[ptr] = asked /\ \A q \in DOMAIN l : q # ptr => m[q] = l[q]
  BY DEF Given
<1> HIDE DEF t, m
<1>4. \A j \in DOMAIN s : Payload(s[j]) = ptr => j = i
  BY <1>1, OnePayloadEach
<1>5. ASSUME NEW k \in DOMAIN s PROVE t[k].free <=> Payload(t[k]) \notin DOMAIN m
  <2>1. CASE k = i
    BY <1>2, <1>3, <2>1
  <2>2. CASE k # i
    BY <1>2, <1>3, <1>4, <2>2 DEF LiveIn
  <2> QED BY <2>1, <2>2
<1>6. ASSUME NEW q \in DOMAIN m
      PROVE  \E k \in DOMAIN s : Payload(t[k]) = q /\ t[k].size >= m[q]
  <2>1. CASE q = ptr
    BY <1>2, <1>3, <2>1
  <2>2. CASE q # ptr
    BY <1>2, <1>3, <2>2 DEF LiveIn
  <2> QED BY <2>1, <2>2
<1> QED BY <1>2, <1>5, <1>6 DEF LiveIn, t, m

(* A block given back is nobody's. *)
LEMMA FreeLives ==
  ASSUME NEW s, NEW own, Sound(s, own), NEW i \in DOMAIN s, NEW l, LiveIn(s, l)
  PROVE  LiveIn(Reflag(s, i, TRUE), [q \in DOMAIN l \ {Payload(s[i])} |-> l[q]])
<1> DEFINE t == Reflag(s, i, TRUE)
           ptr == Payload(s[i])
           m == [q \in DOMAIN l \ {ptr} |-> l[q]]
<1>1. s \in Seq(BlockType) /\ ApartIn(s)
  BY DEF Sound
<1>2. /\ DOMAIN t = DOMAIN s /\ t[i].free = TRUE
      /\ \A k \in DOMAIN s : k # i => t[k] = s[k]
      /\ \A k \in DOMAIN s : t[k].size = s[k].size /\ Payload(t[k]) = Payload(s[k])
  <2>1. \A flag \in BOOLEAN :
          LET u == Reflag(s, i, flag)
          IN  /\ DOMAIN u = DOMAIN s /\ u[i].free = flag
              /\ \A k \in DOMAIN s : k # i => u[k] = s[k]
              /\ \A k \in DOMAIN s : u[k].size = s[k].size /\ Payload(u[k]) = Payload(s[k])
    BY <1>1, ReflagShape
  <2>2. TRUE \in BOOLEAN
    OBVIOUS
  <2> QED BY <2>1, <2>2, Zenon
<1>3. DOMAIN m = DOMAIN l \ {ptr} /\ \A q \in DOMAIN m : m[q] = l[q]
  OBVIOUS
<1> HIDE DEF t, m
<1>4. \A j \in DOMAIN s : Payload(s[j]) = ptr => j = i
  BY <1>1, OnePayloadEach
<1>5. ASSUME NEW k \in DOMAIN s PROVE t[k].free <=> Payload(t[k]) \notin DOMAIN m
  <2>1. CASE k = i
    BY <1>2, <1>3, <2>1
  <2>2. CASE k # i
    BY <1>2, <1>3, <1>4, <2>2 DEF LiveIn
  <2> QED BY <2>1, <2>2
<1>6. ASSUME NEW q \in DOMAIN m
      PROVE  \E k \in DOMAIN s : Payload(t[k]) = q /\ t[k].size >= m[q]
  BY <1>2, <1>3 DEF LiveIn
<1> QED BY <1>2, <1>5, <1>6 DEF LiveIn, t, m

-----------------------------------------------------------------------------
(* heap_expand: a page more at the end of the list. *)
Grown(s, p) == Append(s, WholePage(Start(p)))

LEMMA NewPage ==
  ASSUME NEW p \in Nat
  PROVE  LET b == WholePage(Start(p))
         IN  /\ b \in BlockType /\ b.at = Start(p) /\ b.at % 4 = 0 /\ b.size % 4 = 0
             /\ PageOf(b.at) = p /\ Payload(b) < Limit(b) /\ End(b) = Limit(b)
             /\ Limit(b) = Start(p) + PAGE_SIZE /\ b.at % PAGE_SIZE = 0 /\ b.free = TRUE
<1> DEFINE b == WholePage(Start(p))
<1>1. Start(p) \in Nat /\ PageOf(Start(p)) = p
  BY StartStep, PageOfStart
<1>2. /\ b \in BlockType /\ b.at = Start(p) /\ b.size = PAGE_SIZE - HDR /\ b.free = TRUE
  BY <1>1, Sizes DEF WholePage, BlockType
<1> HIDE DEF b
<1>3. b.at % 4 = 0
  BY <1>2, StartAligned
<1>4. b.size % 4 = 0
  <2>1. (PAGE_SIZE - HDR - 0) % 4 = 0
    BY Sizes, Multiples
  <2> QED BY <1>2, <2>1, Sizes
<1>5. /\ Payload(b) = b.at + HDR /\ End(b) = b.at + HDR + b.size
      /\ Limit(b) = Start(PageOf(b.at)) + PAGE_SIZE
  BY <1>2, BlockBounds
<1>6. Payload(b) < Limit(b) /\ End(b) = Limit(b) /\ Limit(b) = Start(p) + PAGE_SIZE
  BY <1>1, <1>2, <1>5, Sizes
<1>7. Start(p) % PAGE_SIZE = 0
  <2>1. Start(p) \div PAGE_SIZE = p
    BY <1>1 DEF PageOf, Pmm!addr_to_page
  <2>2. /\ Start(p) % PAGE_SIZE \in Nat
        /\ Start(p) = (Start(p) \div PAGE_SIZE) * PAGE_SIZE + (Start(p) % PAGE_SIZE)
    <3>1. ASSUME NEW a \in Nat
          PROVE  a % PAGE_SIZE \in Nat /\ a = (a \div PAGE_SIZE) * PAGE_SIZE + (a % PAGE_SIZE)
      BY Sizes, Z3
    <3> QED BY <1>1, <3>1
  <2>3. Start(p) = Start(p) + (Start(p) % PAGE_SIZE)
    BY <2>1, <2>2 DEF Start
  <2> QED BY <1>1, <2>2, <2>3
<1> QED BY <1>1, <1>2, <1>3, <1>4, <1>6, <1>7 DEF b

LEMMA GrownShape ==
  ASSUME NEW s \in Seq(BlockType), NEW p \in Nat
  PROVE  LET t == Grown(s, p)
         IN  /\ t \in Seq(BlockType) /\ DOMAIN t = 1 .. Len(s) + 1 /\ Len(t) = Len(s) + 1
             /\ DOMAIN s = 1 .. Len(s) /\ Len(s) \in Nat
             /\ t[Len(s) + 1] = WholePage(Start(p))
             /\ \A k \in DOMAIN s : t[k] = s[k] /\ s[k] \in BlockType
<1> DEFINE b == WholePage(Start(p))
<1>1. b \in BlockType
  BY NewPage
<1>2. Grown(s, p) = Append(s, b)
  BY DEF Grown
<1> HIDE DEF b
<1>3. DOMAIN s = 1 .. Len(s) /\ Len(s) \in Nat /\ \A k \in DOMAIN s : s[k] \in BlockType
  OBVIOUS
<1>4. /\ Append(s, b) \in Seq(BlockType) /\ Len(Append(s, b)) = Len(s) + 1
      /\ Append(s, b)[Len(s) + 1] = b
      /\ \A k \in 1 .. Len(s) : Append(s, b)[k] = s[k]
  BY <1>1, AppendProperties
<1>5. DOMAIN Append(s, b) = 1 .. Len(s) + 1
  BY <1>4
<1> QED BY <1>2, <1>3, <1>4, <1>5 DEF b

(* Blocks of different pages share no byte. *)
LEMMA OtherPage ==
  ASSUME NEW b \in BlockType, End(b) <= Limit(b), NEW p \in Nat, PageOf(b.at) # p
  PROVE  End(b) <= Start(p) \/ Start(p) + PAGE_SIZE <= b.at
<1> DEFINE q == PageOf(b.at)
<1>1. /\ b.at \in Nat /\ End(b) \in Int /\ Limit(b) = Start(q) + PAGE_SIZE
      /\ Limit(b) - PAGE_SIZE <= b.at /\ Limit(b) \in Int
  BY BlockBounds, Sizes
<1>2. q \in Nat
  BY <1>1, PageBounds
<1> HIDE DEF q
<1>3. /\ Start(q) \in Int /\ Start(p) \in Int
      /\ Start(q + 1) = Start(q) + PAGE_SIZE /\ Start(p + 1) = Start(p) + PAGE_SIZE
  BY <1>2, StartStep
<1>4. CASE q < p
  <2>1. Start(q + 1) <= Start(p)
    BY <1>2, <1>4, StartMonotone
  <2> QED BY <1>1, <1>3, <2>1, Sizes
<1>5. CASE p < q
  <2>1. Start(p + 1) <= Start(q)
    BY <1>2, <1>5, StartMonotone
  <2> QED BY <1>1, <1>3, <2>1, Sizes
<1> QED BY <1>2, <1>4, <1>5 DEF q

LEMMA GrowKeeps ==
  ASSUME NEW s, NEW own, Sound(s, own), NEW p \in Nat, p \notin own
  PROVE  Sound(Grown(s, p), own \cup {p})
<1> DEFINE t == Grown(s, p)
           b == WholePage(Start(p))
           n == Len(s) + 1
<1>1. s \in Seq(BlockType) /\ PlacedIn(s, own) /\ ApartIn(s) /\ TilesIn(s)
  BY DEF Sound
<1>2. /\ t \in Seq(BlockType) /\ DOMAIN t = 1 .. n /\ Len(t) = n
      /\ DOMAIN s = 1 .. Len(s) /\ Len(s) \in Nat /\ t[n] = b
      /\ \A k \in DOMAIN s : t[k] = s[k] /\ s[k] \in BlockType
  BY <1>1, GrownShape
<1>3. /\ b \in BlockType /\ b.at = Start(p) /\ b.at % 4 = 0 /\ b.size % 4 = 0
      /\ PageOf(b.at) = p /\ Payload(b) < Limit(b) /\ End(b) = Limit(b)
      /\ Limit(b) = Start(p) + PAGE_SIZE /\ b.at % PAGE_SIZE = 0
  BY NewPage
<1> HIDE DEF t, b
<1>4. \A k \in DOMAIN t : k # n => k \in DOMAIN s
  BY <1>2
<1>5. n \notin DOMAIN s
  BY <1>2
<1>6. PlacedIn(t, own \cup {p})
  <2> SUFFICES ASSUME NEW k \in DOMAIN t
               PROVE  /\ t[k].at % 4 = 0 /\ t[k].size % 4 = 0
                      /\ Payload(t[k]) < Limit(t[k]) /\ End(t[k]) <= Limit(t[k])
                      /\ PageOf(t[k].at) \in own \cup {p}
    BY DEF PlacedIn
  <2>1. CASE k = n
    <3>1. Limit(b) \in Int
      BY <1>3, BlockBounds
    <3>2. End(b) <= Limit(b)
      BY <1>3, <3>1
    <3> QED BY <1>2, <1>3, <2>1, <3>2
  <2>2. CASE k # n
    BY <1>1, <1>2, <1>4, <2>2 DEF PlacedIn
  <2> QED BY <2>1, <2>2
<1>7. \A k \in DOMAIN s : End(s[k]) <= b.at \/ End(b) <= s[k].at
  <2> SUFFICES ASSUME NEW k \in DOMAIN s PROVE End(s[k]) <= b.at \/ End(b) <= s[k].at
    OBVIOUS
  <2>1. s[k] \in BlockType /\ End(s[k]) <= Limit(s[k]) /\ PageOf(s[k].at) \in own
    BY <1>1, <1>2 DEF PlacedIn
  <2>2. End(s[k]) <= Start(p) \/ Start(p) + PAGE_SIZE <= s[k].at
    BY <2>1, OtherPage
  <2> QED BY <1>3, <2>2
<1>8. ApartIn(t)
  <2> SUFFICES ASSUME NEW j \in DOMAIN t, NEW k \in DOMAIN t, j # k
               PROVE  End(t[j]) <= t[k].at \/ End(t[k]) <= t[j].at
    BY DEF ApartIn
  <2>1. CASE j = n
    BY <1>2, <1>4, <1>7, <2>1
  <2>2. CASE k = n
    BY <1>2, <1>4, <1>7, <2>2
  <2>3. CASE j # n /\ k # n
    BY <1>1, <1>2, <1>4, <2>3 DEF ApartIn
  <2> QED BY <2>1, <2>2, <2>3
<1>9. ASSUME NEW k \in DOMAIN t
      PROVE  \/ End(t[k]) = Limit(t[k])
             \/ /\ End(t[k]) < Limit(t[k])
                /\ k < Len(t)
                /\ t[k + 1].at = End(t[k])
  <2>1. CASE k = n
    BY <1>2, <1>3, <2>1
  <2>2. CASE k # n
    <3>1. k \in DOMAIN s /\ t[k] = s[k]
      BY <1>2, <1>4, <2>2
    <3>2. \/ End(s[k]) = Limit(s[k])
          \/ End(s[k]) < Limit(s[k]) /\ k < Len(s) /\ s[k + 1].at = End(s[k])
      BY <1>1, <3>1 DEF TilesIn
    <3>3. k < Len(s) => k < Len(t) /\ t[k + 1] = s[k + 1]
      BY <1>2, <3>1
    <3> QED BY <3>1, <3>2, <3>3
  <2> QED BY <2>1, <2>2
<1>10. ASSUME NEW k \in DOMAIN t
       PROVE  t[k].at % PAGE_SIZE = 0 \/ (k > 1 /\ t[k].at = End(t[k - 1]))
  <2>1. CASE k = n
    BY <1>2, <1>3, <2>1
  <2>2. CASE k # n
    <3>1. k \in DOMAIN s /\ t[k] = s[k]
      BY <1>2, <1>4, <2>2
    <3>2. s[k].at % PAGE_SIZE = 0 \/ (k > 1 /\ s[k].at = End(s[k - 1]))
      BY <1>1, <3>1 DEF TilesIn
    <3>3. k > 1 => t[k - 1] = s[k - 1]
      BY <1>2, <3>1
    <3> QED BY <3>1, <3>2, <3>3
  <2> QED BY <2>1, <2>2
<1>11. TilesIn(t)
  BY <1>9, <1>10 DEF TilesIn
<1> QED BY <1>2, <1>6, <1>8, <1>11 DEF Sound, t

LEMMA GrowLives ==
  ASSUME NEW s, NEW own, Sound(s, own), NEW p \in Nat, p \notin own, NEW l, LiveIn(s, l)
  PROVE  LiveIn(Grown(s, p), l)
<1> DEFINE t == Grown(s, p)
           b == WholePage(Start(p))
           n == Len(s) + 1
<1>1. s \in Seq(BlockType) /\ PlacedIn(s, own)
  BY DEF Sound
<1>2. /\ DOMAIN t = 1 .. n /\ DOMAIN s = 1 .. Len(s) /\ Len(s) \in Nat /\ t[n] = b
      /\ \A k \in DOMAIN s : t[k] = s[k] /\ s[k] \in BlockType
  BY <1>1, GrownShape
<1>3. b \in BlockType /\ PageOf(b.at) = p /\ b.free = TRUE
  BY NewPage
<1> HIDE DEF t, b
<1>4. \A k \in DOMAIN s : Payload(s[k]) # Payload(b)
  <2> SUFFICES ASSUME NEW k \in DOMAIN s, Payload(s[k]) = Payload(b) PROVE FALSE
    OBVIOUS
  <2>1. s[k].at \in Nat /\ b.at \in Nat
    BY <1>2, <1>3, BlockBounds
  <2>2. s[k].at + HDR = b.at + HDR
    BY DEF Payload
  <2>3. s[k].at = b.at
    BY <2>1, <2>2, SameHeader
  <2> QED BY <1>1, <1>3, <2>3 DEF PlacedIn
<1>5. ASSUME NEW k \in DOMAIN t PROVE t[k].free <=> Payload(t[k]) \notin DOMAIN l
  <2>1. CASE k = n
    BY <1>2, <1>3, <1>4, <2>1 DEF LiveIn
  <2>2. CASE k # n
    <3>1. k \in DOMAIN s /\ t[k] = s[k]
      BY <1>2, <2>2
    <3> QED BY <3>1 DEF LiveIn
  <2> QED BY <2>1, <2>2
<1>6. ASSUME NEW q \in DOMAIN l
      PROVE  \E k \in DOMAIN t : Payload(t[k]) = q /\ t[k].size >= l[q]
  <2>1. PICK k \in DOMAIN s : Payload(s[k]) = q /\ s[k].size >= l[q]
    BY DEF LiveIn
  <2>2. k \in DOMAIN t /\ t[k] = s[k]
    BY <1>2
  <2> QED BY <2>1, <2>2
<1> QED BY <1>5, <1>6 DEF LiveIn, t

-----------------------------------------------------------------------------
(* What each call does to the invariant. *)
LEMMA PageTaken ==
  ASSUME IInv, NEW page \in Pmm!Pages, Pmm!pmm_alloc_page(page)
  PROVE  /\ page \in Nat /\ page \notin handed /\ page \notin others
         /\ Pmm!TypeOK' /\ phase' = "ready" /\ phase = "ready"
         /\ handed' = handed \cup {page} /\ handed' \subseteq page_bitmap'
<1>1. Pmm!TypeOK /\ others \subseteq handed /\ (phase = "ready" => handed \subseteq page_bitmap)
  BY DEF IInv, TypeOK, PagesMarked
<1>2. /\ phase = "ready" /\ page \notin page_bitmap
      /\ page_bitmap' = page_bitmap \cup {page} /\ handed' = handed \cup {page}
      /\ UNCHANGED <<mmap, kernel_end, phase, overrun>>
  BY DEF Pmm!pmm_alloc_page, Pmm!find_free_page, Pmm!FreePages
<1>3. Pmm!TypeOK'
  BY <1>1, <1>2 DEF Pmm!TypeOK
<1>4. page \in Nat
  BY Sizes DEF Pmm!Pages
<1> QED BY <1>1, <1>2, <1>3, <1>4

(* The call after heap_expand: only the count of the expansions moved. *)
Counted(c) == [c EXCEPT !.grown = IF @ < MaxGrown THEN @ + 1 ELSE @]

LEMMA CountedType ==
  ASSUME NEW c \in [asked : Nat, size : Nat, grown : 0 .. MaxGrown, running : BOOLEAN]
  PROVE  /\ Counted(c) \in [asked : Nat, size : Nat, grown : 0 .. MaxGrown, running : BOOLEAN]
         /\ Counted(c).asked = c.asked /\ Counted(c).size = c.size
         /\ Counted(c).running = c.running
BY Sizes DEF Counted

LEMMA InitInv == Init => IInv
<1> SUFFICES ASSUME Init PROVE IInv
  OBVIOUS
<1> USE DEF Init, Pmm!Init
<1>1. TypeOK
  <2>1. first_block \in Seq(BlockType) /\ DOMAIN live = {}
    OBVIOUS
  <2>2. Idle \in [asked : Nat, size : Nat, grown : 0 .. MaxGrown, running : BOOLEAN]
    BY Sizes DEF Idle
  <2> QED BY <2>1, <2>2 DEF TypeOK, Pmm!TypeOK
<1>2. PagesMarked /\ CallIsRounded /\ NothingYet
  BY DEF PagesMarked, CallIsRounded, NothingYet, Idle
<1>3. first_block = << >> /\ DOMAIN first_block = {} /\ first_block \in Seq(BlockType)
  OBVIOUS
<1>4. Sound(first_block, handed \ others)
  BY <1>3 DEF Sound, PlacedIn, ApartIn, TilesIn
<1>5. LiveIn(first_block, live)
  BY <1>3 DEF LiveIn
<1> QED BY <1>1, <1>2, <1>4, <1>5 DEF IInv

LEMMA PmmInitKeeps == ASSUME IInv, pmm_init PROVE IInv'
<1>1. /\ phase = "reset" /\ phase' = "ready"
      /\ page_bitmap' = (Pmm!Pages \ Pmm!AllBitsCleared) \cup Pmm!ReservedPages
      /\ overrun' = Pmm!AllBitsCleared \ Pmm!Pages
      /\ UNCHANGED <<mmap, kernel_end, handed>> /\ UNCHANGED heapVars
  BY DEF pmm_init, Pmm!pmm_init
<1> USE DEF IInv, heapVars
<1>2. Pmm!AllBitsCleared \subseteq Int
  BY DEF Pmm!AllBitsCleared, Pmm!BitsCleared
<1>3. TypeOK'
  BY <1>1, <1>2 DEF TypeOK, Pmm!TypeOK, Pmm!ReservedPages
<1>4. PagesMarked' /\ CallIsRounded' /\ NothingYet'
  BY <1>1 DEF PagesMarked, CallIsRounded, NothingYet
<1> QED BY <1>1, <1>3, <1>4

LEMMA HeapInitKeeps == ASSUME IInv, heap_init PROVE IInv'
<1>1. PICK page \in Pmm!Pages :
        /\ Pmm!pmm_alloc_page(page)
        /\ first_block' = << WholePage(page * PAGE_SIZE) >>
  BY DEF heap_init
<1>2. /\ page \in Nat /\ page \notin handed /\ page \notin others
      /\ Pmm!TypeOK' /\ phase' = "ready" /\ phase = "ready"
      /\ handed' = handed \cup {page} /\ handed' \subseteq page_bitmap'
  BY <1>1, PageTaken
<1>3. heap = "off" /\ heap' = "on" /\ UNCHANGED <<call, live, others, lowHeader>>
  BY DEF heap_init
<1>4. first_block = << >> /\ live = [ptr \in {} |-> 0]
  BY <1>3 DEF IInv, NothingYet
<1>5. first_block' = Grown(first_block, page)
  BY <1>1, <1>4 DEF Grown, Start
<1>6. Sound(Grown(first_block, page), (handed \ others) \cup {page})
  BY <1>2, GrowKeeps DEF IInv
<1>7. handed' \ others' = (handed \ others) \cup {page}
  BY <1>2, <1>3
<1>8. Sound(first_block, handed \ others)'
  BY <1>5, <1>6, <1>7
<1>9. LiveIn(first_block, live)'
  <2>1. LiveIn(Grown(first_block, page), live)
    BY <1>2, GrowLives DEF IInv
  <2> QED BY <1>3, <1>5, <2>1
<1>10. TypeOK'
  <2>1. first_block' \in Seq(BlockType)
    BY <1>8 DEF Sound
  <2> QED BY <1>2, <1>3, <2>1 DEF IInv, TypeOK
<1>11. PagesMarked' /\ CallIsRounded' /\ NothingYet'
  BY <1>2, <1>3 DEF IInv, PagesMarked, CallIsRounded, NothingYet
<1> QED BY <1>8, <1>9, <1>10, <1>11 DEF IInv

LEMMA HeapInitFailsKeeps == ASSUME IInv, heap_init_without_memory PROVE IInv'
<1>1. /\ phase = "ready" /\ heap = "off" /\ heap' = "lost" /\ lowHeader' = TRUE
      /\ UNCHANGED <<mmap, kernel_end, phase, page_bitmap, overrun, handed>>
      /\ UNCHANGED <<first_block, call, live, others>>
  BY DEF heap_init_without_memory, Pmm!pmm_alloc_page_fails, Pmm!vars
<1> USE DEF IInv
<1>2. TypeOK'
  BY <1>1 DEF TypeOK, Pmm!TypeOK
<1>3. PagesMarked' /\ CallIsRounded' /\ NothingYet'
  BY <1>1 DEF PagesMarked, CallIsRounded, NothingYet
<1> QED BY <1>1, <1>2, <1>3

LEMMA KmallocKeeps == ASSUME IInv, NEW size \in Requests, kmalloc(size) PROVE IInv'
<1>1. /\ heap = "on"
      /\ call' = [asked |-> size, size |-> RoundUp(size), grown |-> 0, running |-> TRUE]
      /\ UNCHANGED <<mmap, kernel_end, phase, page_bitmap, overrun, handed>>
      /\ UNCHANGED <<heap, first_block, live, others, lowHeader>>
  BY DEF kmalloc
<1>2. /\ RoundUp(size) \in Nat /\ size <= RoundUp(size) /\ RoundUp(size) % 4 = 0
      /\ size \in Nat /\ 0 \in 0 .. MaxGrown
  BY Rounding, Sizes
<1> USE DEF IInv
<1>3. TypeOK'
  BY <1>1, <1>2 DEF TypeOK, Pmm!TypeOK
<1>4. PagesMarked' /\ CallIsRounded' /\ NothingYet'
  BY <1>1, <1>2 DEF PagesMarked, CallIsRounded, NothingYet
<1> QED BY <1>1, <1>3, <1>4

(* A kmalloc call that returns the payload of block i. *)
LEMMA ReturnKeeps ==
  ASSUME IInv, NEW i \in DOMAIN first_block, call.running, Return(i),
         Sound(first_block', handed \ others),
         LiveIn(first_block', Given(live, Payload(first_block[i]), call.asked))
  PROVE  IInv'
<1> DEFINE ptr == Payload(first_block[i])
<1>1. /\ live' = Given(live, ptr, call.asked) /\ call' = Idle
      /\ UNCHANGED <<mmap, kernel_end, phase, page_bitmap, overrun, handed>>
      /\ UNCHANGED <<heap, others, lowHeader>>
  BY DEF Return, Given
<1>2. Sound(first_block, handed \ others)' /\ LiveIn(first_block, live)'
  BY <1>1
<1>3. ptr \in Nat /\ call.asked \in Nat
  <2>1. first_block[i] \in BlockType
    BY DEF IInv, Sound
  <2> QED BY <2>1, Sizes DEF BlockType, Payload, IInv, TypeOK
<1> HIDE DEF ptr
<1>4. \A q \in DOMAIN live' : q \in Nat /\ live'[q] \in Nat
  BY <1>1, <1>3 DEF Given, IInv, TypeOK
<1>5. call' \in [asked : Nat, size : Nat, grown : 0 .. MaxGrown, running : BOOLEAN]
  BY <1>1, Sizes DEF Idle
<1>6. TypeOK'
  BY <1>1, <1>2, <1>4, <1>5 DEF IInv, TypeOK, Pmm!TypeOK, Sound
<1>7. PagesMarked' /\ CallIsRounded' /\ NothingYet'
  BY <1>1 DEF IInv, PagesMarked, CallIsRounded, NothingYet, Idle
<1> QED BY <1>2, <1>6, <1>7 DEF IInv

LEMMA SplitStepKeeps ==
  ASSUME IInv, NEW i \in DOMAIN first_block, kmalloc_split(i) PROVE IInv'
<1> DEFINE s == first_block
           size == call.size
<1>1. /\ call.running /\ s[i].size > Pmm!Uint32(size + HDR) /\ s[i].size >= size /\ Return(i)
  BY DEF kmalloc_split, FirstFit, Fits
<1>2. /\ s \in Seq(BlockType) /\ PlacedIn(s, handed \ others) /\ s[i] \in BlockType
      /\ size \in Nat /\ call.asked \in Nat
      /\ call.asked <= size /\ size % 4 = 0 /\ LiveIn(s, live)
  BY <1>1 DEF IInv, Sound, TypeOK, CallIsRounded
<1>3. s[i].size > size + HDR
  <2>1. /\ s[i].at \in Nat /\ s[i].size \in Nat /\ End(s[i]) = s[i].at + HDR + s[i].size
        /\ Limit(s[i]) \in Int /\ Limit(s[i]) - PAGE_SIZE <= s[i].at /\ End(s[i]) <= Limit(s[i])
    BY <1>2, BlockBounds DEF PlacedIn
  <2>2. size + HDR \in Nat /\ size + HDR < WORD
    BY <1>1, <1>2, <2>1, Sizes
  <2>3. Pmm!Uint32(size + HDR) = size + HDR
    BY <2>2, Truncation
  <2> QED BY <1>1, <2>3
<1>4. first_block' = Split(s, i, size)
  BY DEF kmalloc_split, Split, Spliced, UsedPart, RestPart
<1> HIDE DEF s, size
<1>5. i \in DOMAIN s /\ Sound(s, handed \ others)
  BY DEF s, IInv
<1>6. Sound(first_block', handed \ others)
  BY <1>2, <1>3, <1>4, <1>5, SplitKeeps
<1>7. LiveIn(first_block', Given(live, Payload(s[i]), call.asked))
  BY <1>2, <1>3, <1>4, <1>5, SplitLives
<1> QED BY <1>1, <1>6, <1>7, ReturnKeeps DEF s

LEMMA WholeStepKeeps ==
  ASSUME IInv, NEW i \in DOMAIN first_block, kmalloc_whole(i) PROVE IInv'
<1>1. /\ call.running /\ first_block[i].size >= call.size /\ Return(i)
      /\ first_block' = Reflag(first_block, i, FALSE)
  BY DEF kmalloc_whole, FirstFit, Fits, Reflag
<1>2. /\ first_block[i].size \in Nat /\ call.size \in Nat /\ call.asked \in Nat
      /\ call.asked <= call.size
      /\ Sound(first_block, handed \ others) /\ LiveIn(first_block, live)
  <2>1. first_block[i] \in BlockType
    BY DEF IInv, Sound
  <2> QED BY <1>1, <2>1 DEF IInv, TypeOK, CallIsRounded, BlockType
<1>3. call.asked <= first_block[i].size
  BY <1>1, <1>2
<1>4. Sound(first_block', handed \ others)
  BY <1>1, <1>2, ReflagKeeps
<1>5. LiveIn(first_block', Given(live, Payload(first_block[i]), call.asked))
  BY <1>1, <1>2, <1>3, TakeLives
<1> QED BY <1>1, <1>4, <1>5, ReturnKeeps

LEMMA GrowStepKeeps == ASSUME IInv, kmalloc_grow PROVE IInv'
<1>1. PICK page \in Pmm!Pages :
        /\ Pmm!pmm_alloc_page(page)
        /\ first_block' = Append(first_block, WholePage(page * PAGE_SIZE))
  BY DEF kmalloc_grow
<1>2. /\ page \in Nat /\ page \notin handed /\ page \notin others
      /\ Pmm!TypeOK' /\ phase' = "ready" /\ phase = "ready"
      /\ handed' = handed \cup {page} /\ handed' \subseteq page_bitmap'
  BY <1>1, PageTaken
<1>3. /\ call.running /\ UNCHANGED <<heap, live, others, lowHeader>>
      /\ call' = [call EXCEPT !.grown = IF @ < MaxGrown THEN @ + 1 ELSE @]
  BY DEF kmalloc_grow
<1>4. first_block' = Grown(first_block, page)
  BY <1>1 DEF Grown, Start
<1>5. Sound(Grown(first_block, page), (handed \ others) \cup {page})
  BY <1>2, GrowKeeps DEF IInv
<1>6. handed' \ others' = (handed \ others) \cup {page}
  BY <1>2, <1>3
<1>7. Sound(first_block, handed \ others)'
  BY <1>4, <1>5, <1>6
<1>8. LiveIn(first_block, live)'
  <2>1. LiveIn(Grown(first_block, page), live)
    BY <1>2, GrowLives DEF IInv
  <2> QED BY <1>3, <1>4, <2>1
<1>9. call' = Counted(call)
  BY <1>3 DEF Counted
<1>10. TypeOK'
  <2>1. first_block' \in Seq(BlockType)
    BY <1>7 DEF Sound
  <2> QED BY <1>2, <1>3, <1>9, <2>1, CountedType DEF IInv, TypeOK
<1>11. PagesMarked' /\ CallIsRounded' /\ NothingYet'
  <2>1. heap = "on"
    BY <1>3 DEF IInv, CallIsRounded
  <2> QED BY <1>2, <1>3, <1>9, <2>1, CountedType DEF IInv, TypeOK, PagesMarked, CallIsRounded, NothingYet
<1> QED BY <1>7, <1>8, <1>10, <1>11 DEF IInv

LEMMA GrowFailsKeeps == ASSUME IInv, kmalloc_grow_without_memory PROVE IInv'
<1>1. /\ call.running /\ lowHeader' = TRUE /\ call' = Counted(call)
      /\ UNCHANGED <<mmap, kernel_end, phase, page_bitmap, overrun, handed>>
      /\ UNCHANGED <<heap, first_block, live, others>>
  BY DEF kmalloc_grow_without_memory, Pmm!pmm_alloc_page_fails, Pmm!vars, Counted
<1> USE DEF IInv
<1>2. TypeOK'
  BY <1>1, CountedType DEF TypeOK, Pmm!TypeOK
<1>3. PagesMarked' /\ CallIsRounded' /\ NothingYet'
  BY <1>1, CountedType DEF TypeOK, PagesMarked, CallIsRounded, NothingYet
<1> QED BY <1>1, <1>2, <1>3

LEMMA KfreeKeeps == ASSUME IInv, NEW ptr \in DOMAIN live, kfree(ptr) PROVE IInv'
<1>1. PICK i \in DOMAIN first_block :
        first_block[i].at = ptr - HDR /\ first_block' = Reflag(first_block, i, TRUE)
  BY DEF kfree, Reflag
<1>2. /\ live' = [q \in DOMAIN live \ {ptr} |-> live[q]]
      /\ UNCHANGED <<mmap, kernel_end, phase, page_bitmap, overrun, handed>>
      /\ UNCHANGED <<heap, call, others, lowHeader>>
  BY DEF kfree
<1>3. Payload(first_block[i]) = ptr
  <2>1. ptr \in Nat
    BY DEF IInv, TypeOK
  <2>2. (ptr - HDR) + HDR = ptr
    BY <2>1, Sizes
  <2> QED BY <1>1, <2>2 DEF Payload
<1>4. Sound(first_block, handed \ others)'
  <2>1. Sound(Reflag(first_block, i, TRUE), handed \ others)
    BY ReflagKeeps DEF IInv
  <2> QED BY <1>1, <1>2, <2>1
<1>5. LiveIn(first_block, live)'
  <2>1. LiveIn(Reflag(first_block, i, TRUE), [q \in DOMAIN live \ {Payload(first_block[i])} |-> live[q]])
    BY FreeLives DEF IInv
  <2> QED BY <1>1, <1>2, <1>3, <2>1
<1>6. TypeOK'
  BY <1>2, <1>4 DEF IInv, TypeOK, Pmm!TypeOK, Sound
<1>7. PagesMarked' /\ CallIsRounded' /\ NothingYet'
  <2>1. heap = "on"
    BY DEF IInv, NothingYet
  <2> QED BY <1>2, <2>1 DEF IInv, PagesMarked, CallIsRounded, NothingYet
<1> QED BY <1>4, <1>5, <1>6, <1>7 DEF IInv

LEMMA PagingKeeps == ASSUME IInv, paging_alloc_page PROVE IInv'
<1>1. PICK page \in Pmm!Pages : Pmm!pmm_alloc_page(page) /\ others' = others \cup {page}
  BY DEF paging_alloc_page
<1>2. /\ page \in Nat /\ page \notin handed /\ page \notin others
      /\ Pmm!TypeOK' /\ phase' = "ready" /\ phase = "ready"
      /\ handed' = handed \cup {page} /\ handed' \subseteq page_bitmap'
  BY <1>1, PageTaken
<1>3. heap = "on" /\ UNCHANGED <<heap, first_block, call, live, lowHeader>>
  BY DEF paging_alloc_page
<1>4. handed' \ others' = handed \ others
  BY <1>1, <1>2
<1>5. Sound(first_block, handed \ others)' /\ LiveIn(first_block, live)'
  BY <1>3, <1>4 DEF IInv
<1>6. TypeOK'
  BY <1>1, <1>2, <1>3 DEF IInv, TypeOK
<1>7. PagesMarked' /\ CallIsRounded' /\ NothingYet'
  BY <1>1, <1>2, <1>3 DEF IInv, PagesMarked, CallIsRounded, NothingYet
<1> QED BY <1>5, <1>6, <1>7 DEF IInv

LEMMA StepInv == IInv /\ [Next]_vars => IInv'
<1> SUFFICES ASSUME IInv, [Next]_vars PROVE IInv'
  OBVIOUS
<1>1. CASE pmm_init
  BY <1>1, PmmInitKeeps
<1>2. CASE heap_init
  BY <1>2, HeapInitKeeps
<1>3. CASE heap_init_without_memory
  BY <1>3, HeapInitFailsKeeps
<1>4. CASE \E size \in Requests : kmalloc(size)
  BY <1>4, KmallocKeeps
<1>5. CASE kmalloc_step
  BY <1>5, SplitStepKeeps, WholeStepKeeps, GrowStepKeeps, GrowFailsKeeps DEF kmalloc_step
<1>6. CASE \E ptr \in DOMAIN live : kfree(ptr)
  BY <1>6, KfreeKeeps
<1>7. CASE paging_alloc_page
  BY <1>7, PagingKeeps
<1>8. CASE UNCHANGED vars
  BY <1>8 DEF vars, IInv, TypeOK, Pmm!TypeOK, PagesMarked, CallIsRounded, NothingYet
<1> QED BY <1>1, <1>2, <1>3, <1>4, <1>5, <1>6, <1>7, <1>8 DEF Next

-----------------------------------------------------------------------------
(* The variables keep the types C gives them, whatever a caller asks for.  *)
THEOREM TypeCorrect == Spec => []TypeOK
<1>1. IInv => TypeOK
  BY DEF IInv
<1> QED BY InitInv, StepInv, <1>1, PTL DEF Spec

LEMMA Invariant == Spec => []IInv
BY InitInv, StepInv, PTL DEF Spec

(* Splitting and growing leave no gap and no overlap in any page: the      *)
(* blocks fill it from its first byte to its last (heap.c:23-66).          *)
THEOREM BlocksTile == Spec => []BlocksTilePages
<1>1. ASSUME IInv PROVE BlocksTilePages
  <2>1. \A i, j \in DOMAIN first_block : first_block[i].at = first_block[j].at => i = j
    BY <1>1, OneAddressEach DEF IInv, Sound
  <2>2. TilesIn(first_block)
    BY <1>1 DEF IInv, Sound
  <2> QED BY <2>1, <2>2 DEF BlocksTilePages, TilesIn, Limit
<1> QED BY Invariant, <1>1, PTL

(* The free flags say exactly which payloads callers hold, and each holder *)
(* has a block at least as large as it asked for (heap.c:50-92).           *)
THEOREM UsedAreLive == Spec => []UsedBlocksAreLive
<1>1. IInv => UsedBlocksAreLive
  BY DEF IInv, LiveIn, UsedBlocksAreLive
<1> QED BY Invariant, <1>1, PTL

(* The heap writes its headers only into pages it got from the page        *)
(* allocator, never into one that went to paging.c, and always aligned.    *)
THEOREM PagesAreOwn == Spec => []HeapPagesAreOwn
<1>1. IInv => HeapPagesAreOwn
  BY DEF IInv, Sound, PlacedIn, HeapPagesAreOwn
<1> QED BY Invariant, <1>1, PTL

-----------------------------------------------------------------------------
(* The bytes of a block's payload are addresses the allocator may give     *)
(* out, and no other block has them.                                       *)
LEMMA PayloadBytes ==
  ASSUME IInv, NEW i \in DOMAIN first_block, NEW asked \in Nat,
         asked <= first_block[i].size
  PROVE  LET ptr == Payload(first_block[i])
         IN  /\ ptr \in 0 .. MAX_PAGES * PAGE_SIZE - 1
             /\ Promise!Bytes(ptr, asked) \subseteq 0 .. MAX_PAGES * PAGE_SIZE - 1
<1> DEFINE b == first_block[i]
           top == MAX_PAGES * PAGE_SIZE
           q == PageOf(b.at)
           ptr == Payload(b)
<1>1. /\ b \in BlockType /\ Payload(b) < Limit(b) /\ End(b) <= Limit(b)
      /\ q \in Pmm!Pages
  BY DEF IInv, Sound, PlacedIn, TypeOK, Pmm!TypeOK
<1>2. /\ b.at \in Nat /\ b.size \in Nat /\ ptr = b.at + HDR
      /\ End(b) = b.at + HDR + b.size /\ Limit(b) \in Int
  BY <1>1, BlockBounds
<1>3. Limit(b) <= top
  <2>1. q + 1 \in Int /\ MAX_PAGES \in Int /\ q + 1 <= MAX_PAGES
    BY <1>1, Sizes DEF Pmm!Pages
  <2>2. Start(q + 1) <= Start(MAX_PAGES)
    BY <2>1, StartMonotone
  <2> QED BY <2>2 DEF Start, Limit
<1>4. top \in Int
  BY Sizes
<1> HIDE DEF b, top, q, ptr
<1>5. ptr \in Nat /\ ptr < top /\ ptr + asked <= top
  <2>1. asked <= b.size
    BY DEF b
  <2>2. ptr < Limit(b)
    BY <1>1 DEF ptr
  <2> QED BY <1>1, <1>2, <1>3, <1>4, <2>1, <2>2, Sizes
<1>6. ptr \in 0 .. top - 1 /\ (ptr .. ptr + asked - 1) \subseteq 0 .. top - 1
  BY <1>4, <1>5
<1> QED BY <1>6 DEF b, top, ptr, Promise!Bytes

LEMMA PayloadsApart ==
  ASSUME IInv, NEW i \in DOMAIN first_block, NEW j \in DOMAIN first_block, i # j,
         NEW m \in Nat, m <= first_block[i].size,
         NEW n \in Nat, n <= first_block[j].size
  PROVE  Promise!Bytes(Payload(first_block[i]), m)
           \cap Promise!Bytes(Payload(first_block[j]), n) = {}
<1> DEFINE b == first_block[i]
           c == first_block[j]
           x == Payload(b)
           y == Payload(c)
<1>1. b \in BlockType /\ c \in BlockType /\ (End(b) <= c.at \/ End(c) <= b.at)
  BY DEF IInv, Sound, ApartIn
<1>2. /\ b.at \in Nat /\ b.size \in Nat /\ x = b.at + HDR /\ End(b) = b.at + HDR + b.size
      /\ c.at \in Nat /\ c.size \in Nat /\ y = c.at + HDR /\ End(c) = c.at + HDR + c.size
  BY <1>1, BlockBounds
<1>3. m <= b.size /\ n <= c.size
  OBVIOUS
<1> HIDE DEF b, c, x, y
<1>4. x \in Nat /\ y \in Nat /\ (x + m <= y \/ y + n <= x)
  BY <1>1, <1>2, <1>3, Sizes
<1>5. (x .. x + m - 1) \cap (y .. y + n - 1) = {}
  BY <1>4
<1> QED BY <1>5 DEF b, c, x, y, Promise!Bytes

(* A call that returns the free block i is a step of the promise.          *)
LEMMA ReturnIsMalloc ==
  ASSUME IInv, NEW i \in DOMAIN first_block, call.running,
         FirstFit(i, call.size), Return(i)
  PROVE  Promise!Next
<1> DEFINE ptr == Payload(first_block[i])
<1>1. /\ call.asked \in Requests /\ call.asked \in Nat /\ call.asked <= first_block[i].size
  <2>1. /\ call.asked \in Requests /\ call.asked \in Nat /\ call.size \in Nat
        /\ call.asked <= call.size
    BY DEF IInv, CallIsRounded, TypeOK
  <2>2. first_block[i] \in BlockType /\ call.size <= first_block[i].size
    <3>1. first_block[i] \in BlockType
      BY DEF IInv, Sound
    <3> QED BY <2>1, <3>1 DEF FirstFit, Fits, BlockType
  <2>3. first_block[i].size \in Nat
    BY <2>2 DEF BlockType
  <2> QED BY <2>1, <2>2, <2>3
<1>2. ptr \notin DOMAIN live
  BY DEF FirstFit, Fits, IInv, LiveIn
<1>3. /\ ptr \in 0 .. MAX_PAGES * PAGE_SIZE - 1
      /\ Promise!Bytes(ptr, call.asked) \subseteq 0 .. MAX_PAGES * PAGE_SIZE - 1
  BY <1>1, PayloadBytes
<1>4. ASSUME NEW other \in DOMAIN live
      PROVE  Promise!Bytes(ptr, call.asked) \cap Promise!Bytes(other, live[other]) = {}
  <2>1. PICK j \in DOMAIN first_block :
          Payload(first_block[j]) = other /\ first_block[j].size >= live[other]
    BY DEF IInv, LiveIn
  <2>2. live[other] \in Nat /\ first_block[j].size \in Nat
    <3>1. first_block[j] \in BlockType
      BY DEF IInv, Sound
    <3> QED BY <3>1 DEF IInv, TypeOK, BlockType
  <2>3. i # j /\ live[other] <= first_block[j].size
    BY <1>2, <2>1, <2>2
  <2> QED BY <1>1, <2>1, <2>2, <2>3, PayloadsApart
<1>5. live' = [q \in DOMAIN live \cup {ptr} |-> IF q = ptr THEN call.asked ELSE live[q]]
  BY DEF Return
<1> HIDE DEF ptr
<1>6. Promise!Malloc(ptr, call.asked)
  BY <1>2, <1>3, <1>4, <1>5 DEF Promise!Malloc
<1> QED BY <1>1, <1>3, <1>6 DEF Promise!Next

(* heap.c keeps the promise of heap.h: kmalloc returns only memory nobody  *)
(* holds, as much as was asked for, and kfree takes back what was given.   *)
THEOREM HeapImplementsAllocator == Spec => ImplementsAllocator
<1>1. Init => Promise!Init
  BY DEF Init, Promise!Init
<1>2. IInv /\ [Next]_vars => [Promise!Next]_live
  <2> SUFFICES ASSUME IInv, [Next]_vars PROVE Promise!Next \/ UNCHANGED live
    OBVIOUS
  <2>1. CASE pmm_init
    BY <2>1 DEF pmm_init, heapVars
  <2>2. CASE heap_init \/ heap_init_without_memory
    BY <2>2 DEF heap_init, heap_init_without_memory
  <2>3. CASE \E size \in Requests : kmalloc(size)
    BY <2>3 DEF kmalloc
  <2>4. CASE \E i \in DOMAIN first_block : kmalloc_split(i) \/ kmalloc_whole(i)
    BY <2>4, ReturnIsMalloc DEF kmalloc_split, kmalloc_whole
  <2>5. CASE kmalloc_grow \/ kmalloc_grow_without_memory
    BY <2>5 DEF kmalloc_grow, kmalloc_grow_without_memory
  <2>6. CASE \E ptr \in DOMAIN live : kfree(ptr)
    BY <2>6 DEF kfree, Promise!Next, Promise!Free
  <2>7. CASE paging_alloc_page
    BY <2>7 DEF paging_alloc_page
  <2>8. CASE UNCHANGED vars
    BY <2>8 DEF vars
  <2> QED BY <2>1, <2>2, <2>3, <2>4, <2>5, <2>6, <2>7, <2>8 DEF Next, kmalloc_step
<1> QED BY Invariant, <1>1, <1>2, PTL DEF Spec, ImplementsAllocator, Promise!Spec

=============================================================================
