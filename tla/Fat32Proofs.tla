---------------------------- MODULE Fat32Proofs ----------------------------
(***************************************************************************)
(* Proofs about the file system, for every geometry, every sound volume    *)
(* and every crash.                                                        *)
(***************************************************************************)
EXTENDS Fat32, FiniteSetTheorems, SequenceTheorems, WellFoundedInduction, TLAPS

FileTypes ==
  [name : Names \cup {""}, first : Nat, size : Nat, current : Nat, pos : Nat,
   calls : Nat, dirty : BOOLEAN, seen : Seq(Nat), wrote : Seq(Nat)]

OpTypes ==
  [kind : {"idle", "read", "write", "mark", "hung"}, size : Nat, done : Nat,
   sector : 0 .. sectors_per_cluster - 1, cluster : Nat]

Types ==
  /\ fat \in [FatIndex -> 0 .. FAT32_EOC]
  /\ data \in [DataClusters -> [1 .. ClusterBytes -> Nat]]
  /\ root \in Seq(Entries)
  /\ mounted \in BOOLEAN
  /\ file \in FileTypes
  /\ op \in OpTypes /\ op.done <= op.size
  /\ writes \in 0 .. MaxWrites
  /\ content \in [Names -> [known : BOOLEAN, bytes : Seq(Nat)]]

-----------------------------------------------------------------------------
(* A chain that is being written: as a sound one, but its last cluster may *)
(* still have to be marked.                                                *)
Marked(cluster) == fat[cluster] # FREE \/ (op.kind = "mark" /\ cluster = op.cluster)

(* The file the caller holds has a slot, and its chain meets no other's.   *)
OpenChain ==
  LET chain == ChainIn(fat, file.first)
  IN  /\ \A k \in 0 .. LastCluster :
           chain[k] # 0 => Marked(chain[k]) /\ chain[k] # 2
      /\ \A j, k \in 0 .. LastCluster : chain[k] # 0 /\ chain[j] = chain[k] => j = k

OpenSlot ==
  \E i \in DOMAIN root :
    /\ FirstOf(root, file.name, i)
    /\ \A j \in DOMAIN root \ {i} :
         root[j].kind = "file" => Disjoint(fat, file.first, root[j].first)

(* Where the caller's file stands: in its chain, or in a cluster that has  *)
(* just been taken, or behind the end.                                     *)
CurrentPlaced ==
  /\ file.current = 0 => file.first = 0
  /\ file.current \in DataClusters =>
       \/ file.current \in ChainClusters(fat, file.first)
       \/ op.kind = "mark" /\ file.current = op.cluster
       \/ fat[file.current] = FAT32_EOC

MarkPending ==
  op.kind = "mark" => /\ op.cluster \in FatIndex /\ op.cluster >= 2
                      /\ fat[op.cluster] = FREE
                      /\ file.current = op.cluster

ChainInv ==
  /\ Types
  /\ fat[2] # FREE
  /\ EmptiesTrail(root)
  /\ SoundRoot(fat, root)
  /\ IsOpen => OpenChain /\ OpenSlot /\ CurrentPlaced
  /\ ~ IsOpen => file = Closed /\ op = Idle
  /\ MarkPending

(* Clusters 0 and 1 belong to nobody: the FAT starts with an end mark, and *)
(* nothing leads to cluster 1.                                             *)
Reserved ==
  /\ Ends(fat[0]) /\ \A e \in FatIndex : fat[e] # 1
  /\ \A i \in DOMAIN root : root[i].first # 1
  /\ file.first # 1 /\ file.current # 1

-----------------------------------------------------------------------------
(* The caller's file stands at the c-th cluster of its chain, or at what   *)
(* the FAT has behind the one before.                                      *)
StandsAt(c) ==
  IF c = 0 THEN file.current = file.first
  ELSE LET before == ChainIn(fat, file.first)[c - 1]
       IN  before # 0 /\ file.current = fat[before]

OpenKnown ==
  content[file.name].known =>
    /\ ~ file.dirty
    /\ \A i \in DOMAIN root : FirstOf(root, file.name, i) =>
         root[i].first = file.first /\ root[i].size = file.size

NotYetUsed ==
  file.calls = 0 => /\ op = Idle /\ ~ file.dirty
                    /\ file.pos = 0 /\ file.seen = << >> /\ file.wrote = << >>
                    /\ file.current = file.first

ReadSoFar ==
  ~ file.dirty =>
    /\ Len(file.seen) = file.pos /\ file.pos <= file.size
    /\ content[file.name].known => StoredIn(fat, data, file.first, file.seen)

WroteSoFar == file.dirty => StoredIn(fat, data, file.first, file.wrote)

Reading ==
  op.kind = "read" =>
    /\ ~ file.dirty
    /\ op.done = file.pos /\ op.done <= op.size
    /\ content[file.name].known =>
         \/ op.done = op.size
         \/ file.pos = file.size
         \/ \E c \in 0 .. LastCluster : StandsAt(c) /\ op.done = c * ClusterBytes

Writing ==
  op.kind \in {"write", "mark"} =>
    /\ file.dirty
    /\ op.done = Len(file.wrote) /\ op.done <= op.size
    /\ op.sector > 0 => file.current \in DataClusters
    /\ op.kind = "mark" => file.first = file.current /\ op.done = 0 /\ op.sector = 0
    /\ \E c \in 0 .. LastCluster :
         /\ StandsAt(c)
         /\ op.done < op.size =>
              op.done = c * ClusterBytes + op.sector * bytes_per_sector

DataInv ==
  /\ KnownFiles(fat, data, root, content)
  /\ IsOpen => OpenKnown /\ NotYetUsed /\ ReadSoFar /\ WroteSoFar
  /\ IsOpen => file.calls \in 0 .. 1
  /\ Reading /\ Writing

-----------------------------------------------------------------------------
(* Induction over the natural numbers, for sets. *)
LEMMA SetInduction ==
  ASSUME NEW S, 0 \in S, \A n \in Nat : n \in S => n + 1 \in S
  PROVE  Nat \subseteq S
<1> DEFINE T == Nat \ S
<1> SUFFICES ASSUME T # {} PROVE FALSE
  OBVIOUS
<1>1. \E x \in T : \A y \in T : ~ (<<y, x>> \in OpToRel(<, Nat))
  <2>1. T \subseteq Nat
    OBVIOUS
  <2> HIDE DEF T
  <2> QED BY <2>1, NatLessThanWellFounded, WFMin, Zenon
<1>2. PICK x \in T : \A y \in T : ~ (<<y, x>> \in OpToRel(<, Nat))
  BY <1>1, Zenon
<1>3. \A y \in T : ~ (y < x)
  <2> SUFFICES ASSUME NEW y \in T, y < x PROVE FALSE
    BY Zenon
  <2>1. <<y, x>> \in Nat \X Nat /\ <<y, x>>[1] = y /\ <<y, x>>[2] = x
    OBVIOUS
  <2>2. <<y, x>> \in OpToRel(<, Nat)
    BY <2>1, Zenon DEF OpToRel
  <2> QED BY <2>2, <1>2, Zenon
<1>4. x # 0 /\ x - 1 \in Nat
  OBVIOUS
<1>5. x - 1 \in S
  BY <1>3, <1>4
<1> QED BY <1>4, <1>5, x - 1 + 1 = x

-----------------------------------------------------------------------------
LEMMA Geometry ==
  /\ LastCluster \in Nat /\ LastCluster > 1
  /\ 0 \notin DataClusters /\ 2 \in DataClusters /\ DataClusters \subseteq Nat
<1>1. LastCluster \in Nat /\ LastCluster > 1
  BY VolumeAssumption, Zenon
<1> QED BY <1>1 DEF DataClusters

(* The recursive definition of a chain defines one. *)
Follows(at, table, first) ==
  at = [k \in 0 .. LastCluster |->
          IF k = 0 THEN IF first \in DataClusters THEN first ELSE 0
          ELSE IF at[k - 1] # 0 /\ table[at[k - 1]] \in DataClusters
                 THEN table[at[k - 1]] ELSE 0]

(* The same up to the n-th cluster. *)
FollowsTo(at, n, table, first) ==
  /\ at[0] = IF first \in DataClusters THEN first ELSE 0
  /\ \A k \in 1 .. n :
       at[k] = IF at[k - 1] # 0 /\ table[at[k - 1]] \in DataClusters
                 THEN table[at[k - 1]] ELSE 0

LEMMA ChainExists ==
  ASSUME NEW table, NEW first, NEW n \in Nat
  PROVE  \E at \in [0 .. n -> {0} \cup DataClusters] : FollowsTo(at, n, table, first)
<1> DEFINE V == {0} \cup DataClusters
           S == { m \in Nat : \E at \in [0 .. m -> V] : FollowsTo(at, m, table, first) }
<1>1. 0 \in S
  <2> DEFINE at == [k \in 0 .. 0 |-> IF first \in DataClusters THEN first ELSE 0]
  <2>1. at \in [0 .. 0 -> V]
    OBVIOUS
  <2>2. FollowsTo(at, 0, table, first)
    BY DEF FollowsTo
  <2> QED BY <2>1, <2>2
<1>2. ASSUME NEW m \in Nat, m \in S PROVE m + 1 \in S
  <2>1. PICK at \in [0 .. m -> V] : FollowsTo(at, m, table, first)
    BY <1>2
  <2> DEFINE next == IF at[m] # 0 /\ table[at[m]] \in DataClusters THEN table[at[m]] ELSE 0
             longer == [k \in 0 .. m + 1 |-> IF k = m + 1 THEN next ELSE at[k]]
  <2>2. next \in V
    OBVIOUS
  <2> HIDE DEF next
  <2>3. longer \in [0 .. m + 1 -> V]
    BY <2>2
  <2>4. /\ \A k \in 0 .. m : longer[k] = at[k]
        /\ longer[m + 1] = next
    OBVIOUS
  <2> HIDE DEF longer
  <2>5. longer[0] = IF first \in DataClusters THEN first ELSE 0
    BY <2>4, <2>1 DEF FollowsTo
  <2>6. ASSUME NEW k \in 1 .. m + 1
        PROVE  longer[k] = IF longer[k - 1] # 0 /\ table[longer[k - 1]] \in DataClusters
                             THEN table[longer[k - 1]] ELSE 0
    <3>1. k - 1 \in 0 .. m /\ longer[k - 1] = at[k - 1]
      BY <2>4
    <3>2. CASE k = m + 1
      <4>1. k - 1 = m /\ longer[k] = next
        BY <3>2, <2>4
      <4> QED BY <4>1, <3>1 DEF next
    <3>3. CASE k \in 1 .. m
      <4>1. longer[k] = at[k]
        BY <3>3, <2>4
      <4>2. at[k] = IF at[k - 1] # 0 /\ table[at[k - 1]] \in DataClusters
                      THEN table[at[k - 1]] ELSE 0
        BY <3>3, <2>1 DEF FollowsTo
      <4> QED BY <4>1, <4>2, <3>1
    <3> QED BY <3>2, <3>3
  <2> QED BY <2>3, <2>5, <2>6 DEF FollowsTo
<1> HIDE DEF S
<1>3. Nat \subseteq S
  BY <1>1, <1>2, SetInduction
<1> QED BY <1>3 DEF S

LEMMA ChainFollows ==
  ASSUME NEW table, NEW first
  PROVE  /\ ChainIn(table, first) \in [0 .. LastCluster -> {0} \cup DataClusters]
         /\ FollowsTo(ChainIn(table, first), LastCluster, table, first)
<1>1. LastCluster \in Nat
  BY Geometry
<1>2. PICK at \in [0 .. LastCluster -> {0} \cup DataClusters] :
         FollowsTo(at, LastCluster, table, first)
  BY <1>1, ChainExists
<1>3. Follows(at, table, first)
  <2>1. \A k \in 0 .. LastCluster :
          at[k] = IF k = 0 THEN IF first \in DataClusters THEN first ELSE 0
                  ELSE IF at[k - 1] # 0 /\ table[at[k - 1]] \in DataClusters
                         THEN table[at[k - 1]] ELSE 0
    BY <1>1, <1>2 DEF FollowsTo
  <2> QED BY <2>1 DEF Follows
<1>4. Follows(ChainIn(table, first), table, first)
  BY <1>3, Zenon DEF ChainIn, Follows
<1> DEFINE chain == ChainIn(table, first)
<1> HIDE DEF chain
<1>5. \A k \in 0 .. LastCluster :
        chain[k] = IF k = 0 THEN IF first \in DataClusters THEN first ELSE 0
                   ELSE IF chain[k - 1] # 0 /\ table[chain[k - 1]] \in DataClusters
                          THEN table[chain[k - 1]] ELSE 0
  <2>1. chain = [k \in 0 .. LastCluster |->
           IF k = 0 THEN IF first \in DataClusters THEN first ELSE 0
           ELSE IF chain[k - 1] # 0 /\ table[chain[k - 1]] \in DataClusters
                  THEN table[chain[k - 1]] ELSE 0]
    BY <1>4, Zenon DEF Follows, chain
  <2> QED BY <2>1, Zenon
<1>6. DOMAIN chain = 0 .. LastCluster
  BY <1>4, Zenon DEF Follows, chain
<1>7. \A k \in 0 .. LastCluster : chain[k] \in {0} \cup DataClusters
  BY <1>5
<1>8. chain = [k \in 0 .. LastCluster |-> chain[k]]
  BY <1>4, Zenon DEF Follows, chain
<1>9. chain \in [0 .. LastCluster -> {0} \cup DataClusters]
  BY <1>7, <1>8
<1>10. FollowsTo(chain, LastCluster, table, first)
  <2>1. chain[0] = IF first \in DataClusters THEN first ELSE 0
    BY <1>5, <1>1
  <2>2. \A k \in 1 .. LastCluster : chain[k] = IF chain[k - 1] # 0 /\ table[chain[k - 1]] \in DataClusters
                          THEN table[chain[k - 1]] ELSE 0
    <3>1. \A k \in 1 .. LastCluster : k \in 0 .. LastCluster /\ k # 0
      BY <1>1
    <3> QED BY <3>1, <1>5
  <2> QED BY <2>1, <2>2 DEF FollowsTo
<1> QED BY <1>9, <1>10 DEF chain

(* Where a chain is over it stays over, and each cluster is the entry of   *)
(* the one before.                                                         *)
LEMMA ChainStep ==
  ASSUME NEW table, NEW first, NEW k \in 0 .. LastCluster
  PROVE  LET chain == ChainIn(table, first)
         IN  /\ chain[k] \in {0} \cup DataClusters
             /\ k = 0 => chain[k] = IF first \in DataClusters THEN first ELSE 0
             /\ k > 0 => /\ k - 1 \in 0 .. LastCluster
                         /\ chain[k] = IF chain[k - 1] # 0 /\ table[chain[k - 1]] \in DataClusters
                                         THEN table[chain[k - 1]] ELSE 0
<1>1. LastCluster \in Nat
  BY Geometry
<1>2. k > 0 => k \in 1 .. LastCluster /\ k - 1 \in 0 .. LastCluster
  BY <1>1
<1>3. k = 0 \/ k > 0
  OBVIOUS
<1> QED BY <1>2, <1>3, ChainFollows DEF FollowsTo

(* Two tables that lead on alike from every cluster of a chain have it in  *)
(* common.                                                                 *)
LEMMA ChainAgrees ==
  ASSUME NEW table, NEW other, NEW first,
         \A k \in 0 .. LastCluster :
           LET cluster == ChainIn(table, first)[k]
           IN  cluster # 0 => \/ other[cluster] = table[cluster]
                              \/ other[cluster] \notin DataClusters /\ table[cluster] \notin DataClusters
  PROVE  ChainIn(other, first) = ChainIn(table, first)
<1>1. LastCluster \in Nat
  BY Geometry
<1> DEFINE a == ChainIn(table, first)
           b == ChainIn(other, first)
           S == { n \in Nat : n > LastCluster \/ a[n] = b[n] }
<1>2. 0 \in S
  <2>1. 0 \in 0 .. LastCluster
    BY <1>1
  <2> QED BY <2>1, ChainStep
<1>3. ASSUME NEW n \in Nat, n \in S PROVE n + 1 \in S
  <2>1. CASE n + 1 > LastCluster
    BY <2>1
  <2>2. CASE n + 1 \in 0 .. LastCluster
    <3>1. n \in 0 .. LastCluster /\ (n + 1) - 1 = n /\ n + 1 > 0
      BY <2>2, <1>1
    <3>2. a[n] = b[n]
      BY <3>1, <1>3, <1>1
    <3>3. a[n + 1] = IF a[n] # 0 /\ table[a[n]] \in DataClusters THEN table[a[n]] ELSE 0
      BY <2>2, <3>1, ChainStep
    <3>4. b[n + 1] = IF b[n] # 0 /\ other[b[n]] \in DataClusters THEN other[b[n]] ELSE 0
      BY <2>2, <3>1, ChainStep
    <3>5. a[n] # 0 => \/ other[a[n]] = table[a[n]]
                      \/ other[a[n]] \notin DataClusters /\ table[a[n]] \notin DataClusters
      BY <3>1
    <3> HIDE DEF a, b
    <3>6. a[n + 1] = b[n + 1]
      BY <3>2, <3>3, <3>4, <3>5
    <3> QED BY <3>6
  <2> QED BY <2>1, <2>2, <1>1
<1>4. \A k \in 0 .. LastCluster : a[k] = b[k]
  <2> HIDE DEF a, b
  <2> SUFFICES Nat \subseteq S
    BY <1>1
  <2> HIDE DEF S
  <2> QED BY <1>2, <1>3, SetInduction
<1>5. a \in [0 .. LastCluster -> {0} \cup DataClusters] /\ b \in [0 .. LastCluster -> {0} \cup DataClusters]
  BY ChainFollows
<1> HIDE DEF a, b
<1>6. /\ a = [k \in 0 .. LastCluster |-> a[k]]
      /\ b = [k \in 0 .. LastCluster |-> b[k]]
  BY <1>5, Zenon
<1>7. [k \in 0 .. LastCluster |-> a[k]] = [k \in 0 .. LastCluster |-> b[k]]
  BY <1>4, Zenon
<1>8. a = b
  BY <1>6, <1>7, Zenon
<1> QED BY <1>8 DEF a, b

(* The chain of a first cluster that is none, or that leads nowhere.       *)
LEMMA ShortChain ==
  ASSUME NEW table, NEW first,
         first \in DataClusters => table[first] \notin DataClusters
  PROVE  \A k \in 0 .. LastCluster :
           ChainIn(table, first)[k] = IF k = 0 /\ first \in DataClusters THEN first ELSE 0
<1>1. LastCluster \in Nat /\ 0 \notin DataClusters
  BY Geometry
<1> DEFINE a == ChainIn(table, first)
           S == { n \in Nat : n + 1 > LastCluster \/ a[n + 1] = 0 }
<1>2. a[0] = IF first \in DataClusters THEN first ELSE 0
  BY <1>1, ChainStep
<1>3. 0 \in S
  <2>1. CASE LastCluster < 1
    BY <2>1
  <2>2. CASE 1 \in 0 .. LastCluster
    <3>1. a[1] = IF a[0] # 0 /\ table[a[0]] \in DataClusters THEN table[a[0]] ELSE 0
      BY <2>2, ChainStep
    <3> HIDE DEF a
    <3>2. a[1] = 0
      BY <3>1, <1>2
    <3> QED BY <3>2
  <2> QED BY <2>1, <2>2, <1>1
<1>4. ASSUME NEW n \in Nat, n \in S PROVE n + 1 \in S
  <2>1. CASE n + 1 + 1 > LastCluster
    BY <2>1
  <2>2. CASE n + 1 + 1 \in 0 .. LastCluster
    <3>1. n + 1 \in 0 .. LastCluster /\ (n + 1 + 1) - 1 = n + 1 /\ n + 1 + 1 > 0
      BY <2>2, <1>1
    <3>2. a[n + 1] = 0
      BY <3>1, <1>4, <1>1
    <3>3. a[n + 1 + 1] = IF a[n + 1] # 0 /\ table[a[n + 1]] \in DataClusters THEN table[a[n + 1]] ELSE 0
      BY <2>2, <3>1, ChainStep
    <3> HIDE DEF a
    <3> QED BY <3>2, <3>3
  <2> QED BY <2>1, <2>2, <1>1
<1>5. Nat \subseteq S
  <2> HIDE DEF S
  <2> QED BY <1>3, <1>4, SetInduction
<1>6. ASSUME NEW k \in 0 .. LastCluster
      PROVE  a[k] = IF k = 0 /\ first \in DataClusters THEN first ELSE 0
  <2> HIDE DEF a
  <2>1. CASE k = 0
    BY <2>1, <1>2
  <2>2. CASE k - 1 \in Nat
    <3>1. k - 1 \in S /\ (k - 1) + 1 = k
      BY <2>2, <1>5
    <3> QED BY <3>1, <2>2, <1>1
  <2> QED BY <2>1, <2>2, <1>1
<1> QED BY <1>6

(* A chain without loops is over before its last place: there are not      *)
(* enough clusters.                                                        *)
LEMMA ChainIsOver ==
  ASSUME NEW table, NEW first,
         \A j, k \in 0 .. LastCluster :
           ChainIn(table, first)[k] # 0 /\ ChainIn(table, first)[j] = ChainIn(table, first)[k] => j = k
  PROVE  ChainIn(table, first)[LastCluster] = 0
<1>1. LastCluster \in Nat /\ LastCluster > 1 /\ 0 \notin DataClusters
  BY Geometry
<1> DEFINE a == ChainIn(table, first)
           S == { n \in Nat : n > LastCluster \/ a[LastCluster - n] # 0 }
<1> SUFFICES ASSUME a[LastCluster] # 0 PROVE FALSE
  OBVIOUS
<1>2. 0 \in S
  BY <1>1
<1>3. ASSUME NEW n \in Nat, n \in S PROVE n + 1 \in S
  <2>1. CASE n + 1 > LastCluster
    BY <2>1
  <2>2. CASE n + 1 \in 0 .. LastCluster
    <3>1. /\ LastCluster - n \in 0 .. LastCluster /\ LastCluster - n > 0
          /\ (LastCluster - n) - 1 = LastCluster - (n + 1)
      BY <2>2, <1>1
    <3>2. a[LastCluster - n] # 0
      BY <1>3, <3>1, <1>1
    <3>3. a[LastCluster - n] =
            IF a[LastCluster - (n + 1)] # 0 /\ table[a[LastCluster - (n + 1)]] \in DataClusters
              THEN table[a[LastCluster - (n + 1)]] ELSE 0
      BY <3>1, ChainStep
    <3> HIDE DEF a
    <3> QED BY <3>2, <3>3
  <2> QED BY <2>1, <2>2, <1>1
<1>4. Nat \subseteq S
  <2> HIDE DEF S
  <2> QED BY <1>2, <1>3, SetInduction
<1>5. \A k \in 0 .. LastCluster : a[k] # 0
  <2> HIDE DEF a
  <2> TAKE k \in 0 .. LastCluster
  <2>1. LastCluster - k \in Nat /\ LastCluster - (LastCluster - k) = k /\ ~ (LastCluster - k > LastCluster)
    BY <1>1
  <2>2. LastCluster - k \in S
    BY <2>1, <1>4
  <2> QED BY <2>1, <2>2
<1>6. a \in [0 .. LastCluster -> {0} \cup DataClusters]
  BY ChainFollows
<1>7. \A j, k \in 0 .. LastCluster : a[j] = a[k] => j = k
  BY <1>5
<1> HIDE DEF a
<1>8. a \in [0 .. LastCluster -> DataClusters]
  BY <1>5, <1>6
<1>9. /\ IsFiniteSet(0 .. LastCluster) /\ Cardinality(0 .. LastCluster) = LastCluster + 1
      /\ IsFiniteSet(DataClusters) /\ Cardinality(DataClusters) = LastCluster - 1
  BY <1>1, FS_Interval DEF DataClusters
<1>10. Cardinality(DataClusters) < Cardinality(0 .. LastCluster)
  BY <1>1, <1>9
<1> DEFINE Places == 0 .. LastCluster
<1>11. /\ IsFiniteSet(Places) /\ IsFiniteSet(DataClusters)
       /\ Cardinality(DataClusters) < Cardinality(Places)
       /\ a \in [Places -> DataClusters]
  BY <1>8, <1>9, <1>10
<1>12. \A j, k \in Places : a[j] = a[k] => j = k
  BY <1>7
<1> HIDE DEF Places
<1>13. \E x, y \in Places : x # y /\ a[x] = a[y]
  BY <1>11, FS_PigeonHole, SMT
<1> QED BY <1>12, <1>13, Zenon

-----------------------------------------------------------------------------
LEMMA Bytes == ClusterBytes \in Nat /\ ClusterBytes > 0
<1>1. /\ bytes_per_sector \in Nat /\ bytes_per_sector > 0
      /\ sectors_per_cluster \in Nat /\ sectors_per_cluster > 0
  <2>1. bytes_per_sector \in Nat \ {0} /\ sectors_per_cluster \in Nat \ {0}
    BY VolumeAssumption, Zenon
  <2> QED BY <2>1
<1>2. \A a, b \in Nat : a > 0 /\ b > 0 => a * b \in Nat /\ a * b > 0
  BY Z3
<1> QED BY <1>1, <1>2 DEF ClusterBytes

LEMMA Sectors ==
  /\ bytes_per_sector \in Nat /\ bytes_per_sector > 0
  /\ sectors_per_cluster \in Nat /\ sectors_per_cluster > 0
<1>1. bytes_per_sector \in Nat \ {0} /\ sectors_per_cluster \in Nat \ {0}
  BY VolumeAssumption, Zenon
<1> QED BY <1>1

LEMMA Wanted ==
  ASSUME file.size \in Nat, file.pos \in Nat, op.size \in Nat, op.done \in Nat,
         ~ ReadIsOver
  PROVE  /\ wanted \in 0 .. ClusterBytes
         /\ wanted <= op.size - op.done /\ wanted <= file.size - file.pos
         /\ \/ wanted = ClusterBytes
            \/ wanted = op.size - op.done
            \/ wanted = file.size - file.pos
<1> DEFINE a == op.size - op.done
           b == file.size - file.pos
           P(n) == /\ n <= a /\ n <= b
                   /\ n = ClusterBytes \/ n = a \/ n = b
<1>1. a \in Nat /\ b \in Nat
  BY DEF ReadIsOver
<1>2. \E n \in 0 .. ClusterBytes : P(n)
  <2> HIDE DEF a, b
  <2>1. CASE a <= b /\ a <= ClusterBytes
    <3>1. a \in 0 .. ClusterBytes /\ P(a)
      BY <2>1, <1>1, Bytes
    <3> QED BY <3>1
  <2>2. CASE b <= a /\ b <= ClusterBytes
    <3>1. b \in 0 .. ClusterBytes /\ P(b)
      BY <2>2, <1>1, Bytes
    <3> QED BY <3>1
  <2>3. CASE ClusterBytes <= a /\ ClusterBytes <= b
    <3>1. ClusterBytes \in 0 .. ClusterBytes /\ P(ClusterBytes)
      BY <2>3, <1>1, Bytes
    <3> QED BY <3>1
  <2> QED BY <2>1, <2>2, <2>3, <1>1, Bytes
<1>3. wanted = CHOOSE n \in 0 .. ClusterBytes : P(n)
  BY DEF wanted
<1> HIDE DEF P
<1>4. wanted \in 0 .. ClusterBytes /\ P(wanted)
  BY <1>2, <1>3, Zenon
<1> QED BY <1>4 DEF P

(* In a root directory with its empty slots at the end, every file is      *)
(* found.                                                                  *)
LEMMA FilesAreFound ==
  ASSUME root \in Seq(Entries), EmptiesTrail(root)
  PROVE  /\ Files = { i \in DOMAIN root : root[i].kind = "file" }
         /\ \A name, i : SlotOf(name, i) <=> /\ i \in DOMAIN root
                                            /\ root[i].kind = "file" /\ root[i].name = name
         /\ \A name, i : FirstSlotOf(name, i) <=> i \in DOMAIN root /\ FirstOf(root, name, i)
<1> DEFINE n == Len(root)
<1>1. n \in Nat /\ DOMAIN root = 1 .. n
  OBVIOUS
<1> HIDE DEF n
<1>2. ASSUME NEW i \in DOMAIN root, root[i].kind = "file" PROVE Reachable(i)
  <2> SUFFICES ASSUME NEW j \in 1 .. i, root[j].kind = "empty" PROVE FALSE
    BY DEF Reachable
  <2>1. j \in DOMAIN root /\ (j < i \/ j = i)
    BY <1>1
  <2> QED BY <2>1, <1>2 DEF EmptiesTrail
<1>3. \A name, i : SlotOf(name, i) <=> /\ i \in DOMAIN root
                                      /\ root[i].kind = "file" /\ root[i].name = name
  BY <1>2, Zenon DEF SlotOf
<1>4. \A name, i : FirstSlotOf(name, i) <=> i \in DOMAIN root /\ FirstOf(root, name, i)
  <2> TAKE name, i
  <2>1. ASSUME i \in DOMAIN root, NEW j \in 1 .. i - 1 PROVE j \in DOMAIN root
    BY <2>1, <1>1
  <2>2. i \in DOMAIN root => \A j \in 1 .. i - 1 :
          SlotOf(name, j) <=> root[j].kind = "file" /\ root[j].name = name
    BY <2>1, <1>3, Zenon
  <2> QED BY <2>2, <1>3, Zenon DEF FirstSlotOf, FirstOf
<1>5. Files = { i \in DOMAIN root : root[i].kind = "file" }
  BY <1>2, Zenon DEF Files
<1> QED BY <1>3, <1>4, <1>5

(* Every data cluster has an entry, and no entry is an end mark by its     *)
(* number.                                                                 *)
LEMMA EntryNumbers ==
  /\ DataClusters \subseteq FatIndex /\ FatIndex \subseteq Nat /\ 0 \in FatIndex
  /\ \A e \in FatIndex : ~ Ends(e)
<1>1. /\ num_fats \in Nat \ {0} /\ FatEntries \in Nat /\ FatEntries > LastCluster
      /\ EOC_MIN \in Nat /\ EOC_MIN > num_fats * FatEntries
  BY VolumeAssumption, Zenon
<1>2. \A a, b \in Nat : a > 0 => a * b \in Nat /\ a * b >= b
  BY Z3
<1>3. num_fats * FatEntries \in Nat /\ num_fats * FatEntries >= FatEntries
  BY <1>1, <1>2
<1> DEFINE all == num_fats * FatEntries
<1>4. /\ all \in Nat /\ all > LastCluster /\ EOC_MIN > all /\ EOC_MIN \in Nat
      /\ FatIndex = 0 .. all - 1
  BY <1>1, <1>3, Geometry DEF FatIndex
<1> HIDE DEF all
<1> QED BY <1>4, Geometry DEF DataClusters, Ends

LEMMA EndMarks ==
  /\ FAT32_EOC \in Nat /\ Ends(FAT32_EOC) /\ FAT32_EOC # FREE
  /\ FAT32_EOC \notin DataClusters
<1>1. EOC_MIN \in Nat /\ FAT32_EOC \in Nat /\ FAT32_EOC >= EOC_MIN
  BY VolumeAssumption, Zenon
<1>2. Ends(FAT32_EOC)
  BY <1>1 DEF Ends
<1> QED BY <1>1, <1>2, EntryNumbers DEF FREE

-----------------------------------------------------------------------------
LEMMA ClosedType == Closed \in FileTypes
<1>1. << >> \in Seq(Nat) /\ "" \in Names \cup {""} /\ 0 \in Nat /\ FALSE \in BOOLEAN
  OBVIOUS
<1> QED BY <1>1, Zenon DEF Closed, FileTypes

LEMMA IdleType ==
  /\ Idle \in OpTypes /\ Idle.done <= Idle.size
  /\ Hung \in OpTypes /\ Hung.done <= Hung.size
<1>1. 0 \in 0 .. sectors_per_cluster - 1
  BY Sectors
<1>2. Idle \in OpTypes
  BY <1>1 DEF Idle, OpTypes
<1>3. Hung \in OpTypes
  BY <1>1 DEF Idle, Hung, OpTypes
<1>4. Idle.done <= Idle.size /\ Hung.done <= Hung.size
  BY DEF Idle, Hung
<1> QED BY <1>2, <1>3, <1>4

LEMMA CallType ==
  ASSUME NEW size \in Nat, NEW kind \in {"read", "write"}
  PROVE  LET call == [Idle EXCEPT !.kind = kind, !.size = size]
         IN  /\ call \in OpTypes
             /\ call.kind = kind /\ call.size = size /\ call.done = 0 /\ call.sector = 0
             /\ call.done <= call.size
<1> DEFINE call == [Idle EXCEPT !.kind = kind, !.size = size]
<1>1. call \in OpTypes
  BY IdleType, Zenon DEF OpTypes
<1>2. call.size = size /\ call.done = 0 /\ call.sector = 0
  BY DEF Idle
<1>3. call.kind = kind
  BY Zenon DEF Idle
<1>4. call.done <= call.size
  BY <1>2
<1> QED BY <1>1, <1>2, <1>3, <1>4

LEMMA InitTypes == Init => Types
<1> SUFFICES ASSUME Init PROVE Types
  OBVIOUS
<1>1. PICK v \in Volumes : fat = v.fat /\ data = v.data /\ root = v.root /\ content = v.content
  BY DEF Init
<1>2. /\ fat \in [FatIndex -> 0 .. FAT32_EOC]
      /\ data \in [DataClusters -> [1 .. ClusterBytes -> Nat]]
      /\ root \in Seq(Entries)
      /\ content \in [Names -> [known : BOOLEAN, bytes : Seq(Nat)]]
  BY <1>1, VolumesAssumption, Zenon
<1>3. file \in FileTypes
  BY ClosedType, Zenon DEF Init
<1>4. op \in OpTypes /\ op.done <= op.size
  BY IdleType, Zenon DEF Init
<1>5. mounted \in BOOLEAN /\ writes \in 0 .. MaxWrites
  <2>1. MaxWrites \in Nat
    BY VolumeAssumption, Zenon
  <2>2. mounted = FALSE /\ writes = 0
    BY Zenon DEF Init
  <2>3. writes \in 0 .. MaxWrites
    BY <2>1, <2>2
  <2> QED BY <2>2, <2>3, Zenon
<1> QED BY <1>2, <1>3, <1>4, <1>5, Zenon DEF Types

LEMMA Fields ==
  ASSUME NEW f \in FileTypes, NEW o \in OpTypes
  PROVE  /\ f.name \in Names \cup {""} /\ f.first \in Nat /\ f.size \in Nat
         /\ f.current \in Nat /\ f.pos \in Nat /\ f.calls \in Nat
         /\ f.dirty \in BOOLEAN /\ f.seen \in Seq(Nat) /\ f.wrote \in Seq(Nat)
         /\ o.size \in Nat /\ o.done \in Nat /\ o.cluster \in Nat
         /\ o.sector \in 0 .. sectors_per_cluster - 1
         /\ o.kind \in {"idle", "read", "write", "mark", "hung"}
BY Zenon DEF FileTypes, OpTypes

(* What write_sector writes: n bytes from the offset from of a cluster.    *)
LEMMA SectorBytes ==
  ASSUME op \in OpTypes, op.done <= op.size
  PROVE  LET left == op.size - op.done
             n    == IF left < bytes_per_sector THEN left ELSE bytes_per_sector
             from == op.sector * bytes_per_sector
         IN  /\ n \in 0 .. bytes_per_sector /\ n <= left /\ op.done + n \in Nat
             /\ from \in Nat /\ from + bytes_per_sector <= ClusterBytes
             /\ op.sector = sectors_per_cluster - 1 => from + bytes_per_sector = ClusterBytes
<1>1. op.size \in Nat /\ op.done \in Nat /\ op.sector \in 0 .. sectors_per_cluster - 1
  BY DEF OpTypes
<1>2. \A a, b, c \in Nat : c < a => /\ c * b \in Nat /\ c * b + b = (c + 1) * b
                                   /\ c * b + b <= a * b
  BY Z3
<1> DEFINE from == op.sector * bytes_per_sector
<1>3. from \in Nat /\ from + bytes_per_sector <= ClusterBytes
  BY <1>1, <1>2, Sectors DEF ClusterBytes
<1>4. op.sector = sectors_per_cluster - 1 => from + bytes_per_sector = ClusterBytes
  <2>1. op.sector < sectors_per_cluster
    BY <1>1, Sectors
  <2>2. from + bytes_per_sector = (op.sector + 1) * bytes_per_sector
    BY <1>1, <1>2, <2>1, Sectors
  <2>3. op.sector = sectors_per_cluster - 1 => op.sector + 1 = sectors_per_cluster
    BY <1>1, Sectors
  <2>4. sectors_per_cluster * bytes_per_sector = bytes_per_sector * sectors_per_cluster
    BY Sectors, Z3
  <2> QED BY <2>2, <2>3, <2>4, Zenon DEF ClusterBytes
<1> HIDE DEF from
<1> QED BY <1>1, <1>3, <1>4, Sectors DEF from

LEMMA SectorTypes ==
  ASSUME Types, write_sector
  PROVE  Types'
<1> DEFINE left == op.size - op.done
           n    == IF left < bytes_per_sector THEN left ELSE bytes_per_sector
           from == op.sector * bytes_per_sector
           last == op.sector = sectors_per_cluster - 1
           old  == data[file.current]
           new  == [b \in 1 .. ClusterBytes |->
                     IF b \in from + 1 .. from + n
                       THEN BufferByte(writes, op.done + b - from) ELSE old[b]]
           more == [i \in 1 .. n |-> BufferByte(writes, op.done + i)]
<1>1. /\ file \in FileTypes /\ op \in OpTypes /\ op.done <= op.size /\ mounted \in BOOLEAN
      /\ root \in Seq(Entries) /\ writes \in 0 .. MaxWrites
      /\ fat \in [FatIndex -> 0 .. FAT32_EOC]
      /\ data \in [DataClusters -> [1 .. ClusterBytes -> Nat]]
      /\ content \in [Names -> [known : BOOLEAN, bytes : Seq(Nat)]]
  BY Zenon DEF Types
<1>2. /\ n \in 0 .. bytes_per_sector /\ n <= left /\ op.done + n \in Nat
      /\ from \in Nat /\ from + bytes_per_sector <= ClusterBytes
  BY <1>1, SectorBytes
<1>3. /\ op.size \in Nat /\ op.done \in Nat /\ file.pos \in Nat
      /\ file.wrote \in Seq(Nat) /\ op.sector \in 0 .. sectors_per_cluster - 1
  BY <1>1, Fields, Zenon
<1>4. /\ file.current \in DataClusters
      /\ data' = [data EXCEPT ![file.current] = new]
      /\ op' = [op EXCEPT !.done = @ + n, !.sector = IF last THEN 0 ELSE @ + 1]
      /\ file' = [file EXCEPT !.pos = @ + n, !.wrote = @ \o more,
                              !.current = IF last THEN fat[@] ELSE @]
      /\ UNCHANGED <<fat, root, mounted, writes, content>>
  BY <1>1 DEF write_sector
<1>5. writes \in Nat
  BY <1>1
<1>6. fat[file.current] \in Nat /\ file.current \in Nat
  BY <1>1, <1>4, EntryNumbers
<1> HIDE DEF n, from
<1>7. new \in [1 .. ClusterBytes -> Nat]
  <2>1. old \in [1 .. ClusterBytes -> Nat]
    BY <1>1, <1>4
  <2> HIDE DEF old
  <2>2. ASSUME NEW b \in 1 .. ClusterBytes, b \in from + 1 .. from + n
        PROVE  BufferByte(writes, op.done + b - from) \in Nat
    BY <1>2, <1>3, <1>5, <2>2, Bytes, Sectors DEF BufferByte
  <2> QED BY <2>1, <2>2
<1>8. data' \in [DataClusters -> [1 .. ClusterBytes -> Nat]]
  <2> HIDE DEF new
  <2> QED BY <1>1, <1>4, <1>7
<1>9. more \in Seq(Nat)
  BY <1>2, <1>3, <1>5, Sectors DEF BufferByte
<1>10. file' \in FileTypes
  <2>1. file.pos + n \in Nat
    BY <1>2, <1>3, Sectors
  <2>2. file.wrote \o more \in Seq(Nat)
    <3> HIDE DEF more
    <3> QED BY <1>3, <1>9, ConcatProperties, Zenon
  <2>3. (IF last THEN fat[file.current] ELSE file.current) \in Nat
    BY <1>6
  <2> HIDE DEF more, last
  <2> QED BY <1>1, <1>4, <2>1, <2>2, <2>3, Zenon DEF FileTypes
<1>11. op' \in OpTypes /\ op'.done <= op'.size
  <2>1. op.done + n \in Nat /\ op.done + n <= op.size
    BY <1>2, <1>3, Sectors
  <2>2. (IF last THEN 0 ELSE op.sector + 1) \in 0 .. sectors_per_cluster - 1
    BY <1>3, Sectors
  <2> HIDE DEF last
  <2>3. op'.done = op.done + n /\ op'.size = op.size
    BY <1>1, <1>4 DEF OpTypes
  <2>4. op' \in OpTypes
    BY <1>1, <1>4, <2>1, <2>2, Zenon DEF OpTypes
  <2> QED BY <2>1, <2>3, <2>4
<1> QED BY <1>1, <1>4, <1>8, <1>10, <1>11, Zenon DEF Types

(* Clusters 0 and 1 and those of the volume have entries. *)
LEMMA LowClusters ==
  ASSUME NEW cluster \in Nat, cluster <= LastCluster
  PROVE  /\ cluster \in FatIndex
         /\ cluster \in DataClusters \/ cluster = 0 \/ cluster = 1
<1>1. LastCluster \in Nat /\ LastCluster > 1
  BY Geometry
<1>2. cluster \in DataClusters \/ cluster = 0 \/ cluster = 1
  BY <1>1 DEF DataClusters
<1>3. /\ num_fats \in Nat \ {0} /\ FatEntries \in Nat /\ FatEntries > LastCluster
  BY VolumeAssumption, Zenon
<1>4. num_fats * FatEntries >= FatEntries /\ num_fats * FatEntries \in Nat
  BY <1>3, Z3
<1>5. cluster \in FatIndex
  BY <1>1, <1>3, <1>4 DEF FatIndex
<1> QED BY <1>2, <1>5

(* Whatever a cluster holds, it is bytes. *)
LEMMA BytesRead ==
  ASSUME data \in [DataClusters -> [1 .. ClusterBytes -> Nat]],
         NEW cluster, NEW bytes \in BytesAt(cluster)
  PROVE  bytes \in [1 .. ClusterBytes -> Nat]
<1>1. CASE cluster \in DataClusters
  BY <1>1 DEF BytesAt
<1>2. CASE cluster \notin DataClusters
  <2>1. bytes \in [1 .. ClusterBytes -> {0, 255}]
    BY <1>2, Zenon DEF BytesAt
  <2>2. \A x \in {0, 255} : x \in Nat
    OBVIOUS
  <2> QED BY <2>1, <2>2
<1> QED BY <1>1, <1>2

LEMMA NextTypes == ASSUME Types, [Next]_vars PROVE Types'
<1>1. /\ file \in FileTypes /\ op \in OpTypes /\ op.done <= op.size /\ mounted \in BOOLEAN
      /\ root \in Seq(Entries) /\ writes \in 0 .. MaxWrites
      /\ fat \in [FatIndex -> 0 .. FAT32_EOC]
      /\ data \in [DataClusters -> [1 .. ClusterBytes -> Nat]]
      /\ content \in [Names -> [known : BOOLEAN, bytes : Seq(Nat)]]
  BY Zenon DEF Types
<1>2. CASE UNCHANGED vars
  BY <1>1, <1>2, Zenon DEF vars, disk, Types
<1>3. CASE fat32_init
  BY <1>1, <1>3, Zenon DEF fat32_init, disk, Types
<1>4. ASSUME NEW name \in Names, fat32_create_file(name) PROVE Types'
  <2>1. PICK i \in DOMAIN root :
          root' = [root EXCEPT ![i] = [kind |-> "file", name |-> name, first |-> 0, size |-> 0]]
    BY <1>4, Zenon DEF fat32_create_file
  <2>2. [kind |-> "file", name |-> name, first |-> 0, size |-> 0] \in Entries
    BY DEF Entries
  <2>3. root' \in Seq(Entries)
    BY <2>1, <2>2, <1>1
  <2>4. [known |-> TRUE, bytes |-> << >>] \in [known : BOOLEAN, bytes : Seq(Nat)]
    OBVIOUS
  <2>5. content' \in [Names -> [known : BOOLEAN, bytes : Seq(Nat)]]
    <3> HIDE DEF Types
    <3>1. content' = content \/ content' = [content EXCEPT ![name] = [known |-> TRUE, bytes |-> << >>]]
      BY <1>4, Zenon DEF fat32_create_file
    <3> QED BY <3>1, <2>4, <1>1, Zenon
  <2> QED BY <1>1, <1>4, <2>3, <2>5, Zenon DEF fat32_create_file, Types
<1>5. ASSUME NEW name \in Names, fat32_create_file_full(name) PROVE Types'
  BY <1>1, <1>5, Zenon DEF fat32_create_file_full, vars, disk, Types
<1>6. ASSUME NEW name \in Names, fat32_open(name) PROVE Types'
  <2>1. PICK i \in DOMAIN root :
          file' = [Closed EXCEPT !.name = name, !.first = root[i].first,
                                 !.current = root[i].first, !.size = root[i].size]
    BY <1>6, Zenon DEF fat32_open
  <2>2. root[i] \in Entries
    BY <1>1
  <2>3. root[i].first \in Nat /\ root[i].size \in Nat
    BY <2>2 DEF Entries
  <2>4. file' \in FileTypes
    BY <2>1, <2>3, ClosedType DEF FileTypes
  <2> QED BY <1>1, <1>6, <2>4, Zenon DEF fat32_open, disk, Types
<1>7. ASSUME NEW size \in Sizes, fat32_read(size) PROVE Types'
  <2>1. size \in Nat
    BY VolumeAssumption, Zenon
  <2>2. file' \in FileTypes
    <3>1. file' = [file EXCEPT !.calls = @ + 1]
      BY <1>7, Zenon DEF fat32_read
    <3>2. file.calls \in Nat
      BY <1>1, Fields, Zenon
    <3>3. file.calls + 1 \in Nat
      BY <3>2
    <3> QED BY <1>1, <3>1, <3>3, Zenon DEF FileTypes
  <2>3. op' \in OpTypes /\ op'.done <= op'.size
    <3>1. op' = [Idle EXCEPT !.kind = "read", !.size = size]
      BY <1>7, Zenon DEF fat32_read
    <3> QED BY <2>1, <3>1, CallType, Zenon
  <2> QED BY <1>1, <1>7, <2>2, <2>3, Zenon DEF fat32_read, disk, Types
<1>8. ASSUME NEW size \in Sizes, fat32_write(size) PROVE Types'
  <2>1. size \in Nat /\ MaxWrites \in Nat
    BY VolumeAssumption, Zenon
  <2>2. file' \in FileTypes
    <3>1. file' = [file EXCEPT !.calls = @ + 1, !.dirty = TRUE]
      BY <1>8, Zenon DEF fat32_write
    <3>2. file.calls \in Nat
      BY <1>1, Fields, Zenon
    <3>3. file.calls + 1 \in Nat
      BY <3>2
    <3> QED BY <1>1, <3>1, <3>3, Zenon DEF FileTypes
  <2>3. op' \in OpTypes /\ op'.done <= op'.size
    <3>1. op' = [Idle EXCEPT !.kind = "write", !.size = size]
      BY <1>8, Zenon DEF fat32_write
    <3> QED BY <2>1, <3>1, CallType, Zenon
  <2>4. writes' \in 0 .. MaxWrites
    BY <2>1, <1>1, <1>8 DEF fat32_write
  <2>5. content' \in [Names -> [known : BOOLEAN, bytes : Seq(Nat)]]
    BY <1>1, <1>8 DEF fat32_write
  <2> QED BY <1>1, <1>8, <2>2, <2>3, <2>4, <2>5, Zenon DEF fat32_write, disk, Types
<1>9. CASE read_cluster
  <2>1. file.current \in FatIndex /\ fat[file.current] \in Nat
    <3>1. file.current \in Nat
      BY <1>1, Fields, Zenon
    <3>2. file.current <= LastCluster
      BY <1>9, Zenon DEF read_cluster
    <3>3. file.current \in FatIndex
      BY <3>1, <3>2, LowClusters
    <3> QED BY <1>1, <3>3
  <2> PICK bytes \in BytesAt(file.current) :
        file' = [file EXCEPT !.seen = @ \o SubSeq(bytes, 1, wanted),
                             !.pos = @ + wanted, !.current = fat[file.current]]
    BY <1>9, Zenon DEF read_cluster
  <2>2. /\ wanted \in 0 .. ClusterBytes
        /\ file.pos + wanted \in Nat /\ op.done + wanted \in Nat
    <3>1. file.size \in Nat /\ file.pos \in Nat /\ op.size \in Nat /\ op.done \in Nat
      BY <1>1 DEF FileTypes, OpTypes
    <3>2. ~ ReadIsOver
      BY <1>9, Zenon DEF read_cluster
    <3>3. wanted \in 0 .. ClusterBytes
      BY <3>1, <3>2, Wanted, Zenon
    <3> QED BY <3>1, <3>3, Bytes
  <2>3. file.seen \o SubSeq(bytes, 1, wanted) \in Seq(Nat)
    <3>1. bytes \in [1 .. ClusterBytes -> Nat]
      BY <1>1, BytesRead
    <3>2. bytes \in Seq(Nat) /\ Len(bytes) = ClusterBytes
      BY <3>1, Bytes
    <3>3. SubSeq(bytes, 1, wanted) \in Seq(Nat)
      BY <3>2, <2>2, Bytes
    <3>4. file.seen \in Seq(Nat)
      BY <1>1 DEF FileTypes
    <3> QED BY <3>3, <3>4
  <2>4. file' \in FileTypes
    BY <1>1, <2>1, <2>2, <2>3 DEF FileTypes
  <2>5. op' \in OpTypes /\ op'.done <= op'.size
    <3>1. op' = [op EXCEPT !.done = @ + wanted]
      BY <1>9, Zenon DEF read_cluster
    <3>2. op.done + wanted <= op.size /\ op.done + wanted \in Nat
      <4>1. file.size \in Nat /\ file.pos \in Nat /\ op.size \in Nat /\ op.done \in Nat
        BY <1>1, Fields, Zenon
      <4>2. ~ ReadIsOver
        BY <1>9, Zenon DEF read_cluster
      <4>3. wanted \in 0 .. ClusterBytes /\ wanted <= op.size - op.done
        BY <4>1, <4>2, Wanted, Zenon
      <4> QED BY <4>1, <4>3, Bytes
    <3>3. op'.done = op.done + wanted /\ op'.size = op.size
      BY <1>1, <3>1 DEF OpTypes
    <3> QED BY <1>1, <3>1, <3>2, <3>3 DEF OpTypes
  <2> QED BY <1>1, <1>9, <2>4, <2>5, Zenon DEF read_cluster, disk, Types
<1>10. CASE read_returns
  BY <1>1, <1>10, IdleType, Zenon DEF read_returns, disk, Types
<1>11. ASSUME NEW cluster \in FatIndex, write_first_cluster(cluster) PROVE Types'
  <2>1. cluster \in Nat
    BY DEF FatIndex
  <2>2. file' \in FileTypes
    BY <1>1, <1>11, <2>1 DEF write_first_cluster, FileTypes
  <2>3. op' \in OpTypes /\ op'.done <= op'.size
    BY <1>1, <1>11, <2>1 DEF write_first_cluster, OpTypes
  <2> QED BY <1>1, <1>11, <2>2, <2>3, Zenon DEF write_first_cluster, disk, Types
<1>12. ASSUME NEW cluster \in FatIndex, write_link_cluster(cluster) PROVE Types'
  <2>1. cluster \in Nat
    BY DEF FatIndex
  <2>2. CASE EocCluster = 0
    <3>1. op' \in OpTypes /\ op'.done <= op'.size
      BY <1>12, <2>2, IdleType DEF write_link_cluster, Hung, OpTypes
    <3> QED BY <1>1, <1>12, <2>2, <3>1, Zenon DEF write_link_cluster, Types
  <2>3. CASE EocCluster # 0
    <3>1. file' \in FileTypes
      BY <1>1, <1>12, <2>1, <2>3 DEF write_link_cluster, FileTypes
    <3>2. op' \in OpTypes /\ op'.done <= op'.size
      BY <1>1, <1>12, <2>1, <2>3 DEF write_link_cluster, OpTypes
    <3>3. data' = [data EXCEPT ![EocCluster][ClusterBytes] = cluster]
      BY <1>12, <2>3, Zenon DEF write_link_cluster
    <3>4. data' \in [DataClusters -> [1 .. ClusterBytes -> Nat]]
      BY <1>1, <2>1, <3>3
    <3> QED BY <1>1, <1>12, <3>1, <3>2, <3>4, Zenon DEF write_link_cluster, Types
  <2> QED BY <2>2, <2>3
<1>13. CASE write_mark_end
  <2>1. FAT32_EOC \in 0 .. FAT32_EOC
    BY EndMarks
  <2>2. fat' \in [FatIndex -> 0 .. FAT32_EOC]
    BY <1>1, <1>13, <2>1 DEF write_mark_end
  <2>3. op' \in OpTypes /\ op'.done <= op'.size
    BY <1>1, <1>13 DEF write_mark_end, OpTypes
  <2> QED BY <1>1, <1>13, <2>2, <2>3, Zenon DEF write_mark_end, Types
<1>14. CASE write_no_cluster
  BY <1>1, <1>14, IdleType, Zenon DEF write_no_cluster, disk, Types
<1>15. CASE write_sector
  BY <1>15, SectorTypes
<1>16. CASE access_past_end
  <2>1. op' \in OpTypes /\ op'.done <= op'.size
    BY <1>16, IdleType DEF access_past_end, Hung, OpTypes
  <2> QED BY <1>1, <1>16, <2>1, Zenon DEF access_past_end, disk, Types
<1>17. CASE write_returns
  BY <1>1, <1>17, IdleType, Zenon DEF write_returns, disk, Types
<1>18. CASE fat32_update_dir_entry
  <2>1. /\ file.name \in Names /\ file.first \in Nat /\ file.wrote \in Seq(Nat)
        /\ Len(file.wrote) \in Nat
    <3>1. file.name # ""
      BY <1>18, Zenon DEF fat32_update_dir_entry, IsOpen
    <3>2. file.name \in Names \cup {""} /\ file.first \in Nat /\ file.wrote \in Seq(Nat)
      BY <1>1, Fields, Zenon
    <3>3. Len(file.wrote) \in Nat
      BY <3>2, LenProperties, Zenon
    <3> QED BY <3>1, <3>2, <3>3, Zenon
  <2>2. PICK i \in DOMAIN root :
          root' = [root EXCEPT ![i].size = Len(file.wrote), ![i].first = file.first]
    BY <1>18, Zenon DEF fat32_update_dir_entry
  <2>3. root[i] \in Entries
    BY <1>1
  <2>4. root' \in Seq(Entries)
    <3>1. root' = [root EXCEPT ![i] = [root[i] EXCEPT !.size = Len(file.wrote), !.first = file.first]]
      BY <2>2, <1>1
    <3>2. [root[i] EXCEPT !.size = Len(file.wrote), !.first = file.first] \in Entries
      BY <2>1, <2>3 DEF Entries
    <3> QED BY <3>1, <3>2, <1>1
  <2>5. content' \in [Names -> [known : BOOLEAN, bytes : Seq(Nat)]]
    BY <1>1, <1>18, <2>1 DEF fat32_update_dir_entry
  <2> QED BY <1>1, <1>18, <2>4, <2>5, ClosedType, Zenon DEF fat32_update_dir_entry, Types
<1>19. CASE Crash
  BY <1>1, <1>19, IdleType, ClosedType, Zenon DEF Crash, disk, Types
<1> QED BY <1>2, <1>3, <1>4, <1>5, <1>6, <1>7, <1>8, <1>9, <1>10, <1>11, <1>12, <1>13,
           <1>14, <1>15, <1>16, <1>17, <1>18, <1>19, Zenon DEF Next, CallStep

-----------------------------------------------------------------------------
(* The clusters of a chain. *)
LEMMA ClustersOfChain ==
  ASSUME NEW table, NEW first
  PROVE  /\ \A c : c \in ChainClusters(table, first) <=>
              c # 0 /\ \E k \in 0 .. LastCluster : ChainIn(table, first)[k] = c
         /\ ChainClusters(table, first) \subseteq DataClusters
<1>1. \A c : c \in ChainClusters(table, first) <=>
        c # 0 /\ \E k \in 0 .. LastCluster : ChainIn(table, first)[k] = c
  BY DEF ChainClusters
<1>2. \A k \in 0 .. LastCluster : ChainIn(table, first)[k] \in {0} \cup DataClusters
  BY ChainStep
<1> QED BY <1>1, <1>2

LEMMA NoChain ==
  ASSUME NEW table, NEW first, first \notin DataClusters
  PROVE  ChainClusters(table, first) = {} /\ SoundChain(table, first)
<1>1. \A k \in 0 .. LastCluster : ChainIn(table, first)[k] = 0
  BY ShortChain
<1> QED BY <1>1, ClustersOfChain DEF SoundChain

(* From a cluster of a chain the FAT leads into the chain or out of the    *)
(* data.                                                                   *)
LEMMA ChainLeadsOn ==
  ASSUME NEW table, NEW first, NEW c \in ChainClusters(table, first),
         \A j, k \in 0 .. LastCluster :
           ChainIn(table, first)[k] # 0 /\ ChainIn(table, first)[j] = ChainIn(table, first)[k] => j = k,
         table[c] \in DataClusters
  PROVE  table[c] \in ChainClusters(table, first)
<1> DEFINE a == ChainIn(table, first)
<1>1. PICK k \in 0 .. LastCluster : a[k] = c /\ c # 0
  BY ClustersOfChain
<1>2. k # LastCluster
  BY <1>1, ChainIsOver
<1>3. k + 1 \in 0 .. LastCluster /\ (k + 1) - 1 = k /\ k + 1 > 0
  BY <1>2, Geometry
<1>4. a[k + 1] = table[c]
  <2>1. a[k + 1] = IF a[k] # 0 /\ table[a[k]] \in DataClusters THEN table[a[k]] ELSE 0
    BY <1>3, ChainStep
  <2> HIDE DEF a
  <2> QED BY <2>1, <1>1
<1>5. table[c] # 0
  BY Geometry
<1> QED BY <1>3, <1>4, <1>5, ClustersOfChain

LEMMA OpenIsBusy ==
  ASSUME ChainInv, op # Idle
  PROVE  IsOpen
BY Zenon DEF ChainInv

LEMMA IdleKind == Idle.kind = "idle" /\ Hung.kind = "hung"
BY DEF Idle, Hung

(* A step that leaves the disk's chains and the file's first cluster alone *)
(* and moves the file one cluster on, or not at all; from cluster 0, that  *)
(* is to the end mark the FAT starts with.                                 *)
LEMMA KeepChains ==
  ASSUME ChainInv, Types', IsOpen,
         fat' = fat, root' = root,
         file'.name = file.name, file'.first = file.first,
         op.kind # "mark", op'.kind # "mark",
         \/ file'.current = file.current
         \/ file.current \in DataClusters /\ file'.current = fat[file.current]
         \/ file.current = 0 /\ Ends(file'.current)
  PROVE  ChainInv'
<1>1. /\ fat[2] # FREE /\ EmptiesTrail(root) /\ SoundRoot(fat, root)
      /\ OpenChain /\ OpenSlot /\ CurrentPlaced
  BY Zenon DEF ChainInv
<1>2. (fat[2] # FREE /\ EmptiesTrail(root) /\ SoundRoot(fat, root))'
  BY <1>1
<1>3. OpenChain'
  BY <1>1, Zenon DEF OpenChain, Marked
<1>4. OpenSlot'
  BY <1>1, Zenon DEF OpenSlot
<1>5. CurrentPlaced'
  <2>1. CASE file'.current = file.current
    BY <1>1, <2>1, Zenon DEF CurrentPlaced
  <2>2. CASE file.current \in DataClusters /\ file'.current = fat[file.current]
    <3>1. CASE file.current \in ChainClusters(fat, file.first)
      <4>1. fat[file.current] # FREE
        <5>1. PICK k \in 0 .. LastCluster :
                ChainIn(fat, file.first)[k] = file.current /\ file.current # 0
          BY <3>1, ClustersOfChain
        <5> QED BY <5>1, <1>1, Zenon DEF OpenChain, Marked
      <4>2. fat[file.current] \in DataClusters => fat[file.current] \in ChainClusters(fat, file.first)
        BY <3>1, <1>1, ChainLeadsOn, Zenon DEF OpenChain
      <4> QED BY <2>2, <4>1, <4>2, Zenon DEF CurrentPlaced, FREE
    <3>2. CASE fat[file.current] = FAT32_EOC
      <4>1. FAT32_EOC # 0 /\ FAT32_EOC \notin DataClusters
        BY EndMarks DEF FREE
      <4> QED BY <2>2, <3>2, <4>1, Zenon DEF CurrentPlaced
    <3> QED BY <1>1, <2>2, <3>1, <3>2, Zenon DEF CurrentPlaced
  <2>3. CASE Ends(file'.current)
    <3>1. file'.current # 0 /\ file'.current \notin DataClusters
      BY <2>3, EntryNumbers, VolumeAssumption DEF Ends
    <3> QED BY <3>1, Zenon DEF CurrentPlaced
  <2> QED BY <2>1, <2>2, <2>3, Zenon
<1>6. IsOpen'
  BY Zenon DEF IsOpen
<1>7. MarkPending'
  BY Zenon DEF MarkPending
<1> QED BY <1>2, <1>3, <1>4, <1>5, <1>6, <1>7, Zenon DEF ChainInv

LEMMA SameChains ==
  ASSUME ChainInv, fat' = fat, root' = root, file' = file, op' = op, Types'
  PROVE  ChainInv'
BY Zenon DEF ChainInv, IsOpen, OpenChain, Marked, OpenSlot, CurrentPlaced, MarkPending

LEMMA NothingOpen ==
  ASSUME ChainInv, Types', file' = Closed, op' = Idle,
         (fat[2] # FREE /\ EmptiesTrail(root) /\ SoundRoot(fat, root))'
  PROVE  ChainInv'
<1>1. ~ IsOpen'
  BY DEF IsOpen, Closed
<1>2. MarkPending'
  BY IdleKind, Zenon DEF MarkPending
<1> QED BY <1>1, <1>2, Zenon DEF ChainInv

-----------------------------------------------------------------------------
LEMMA ChainInit == Init => ChainInv
<1> SUFFICES ASSUME Init PROVE ChainInv
  OBVIOUS
<1>1. PICK v \in Volumes : fat = v.fat /\ root = v.root
  BY Zenon DEF Init
<1>2. fat[2] # FREE /\ EmptiesTrail(root) /\ SoundRoot(fat, root)
  BY <1>1, VolumesAssumption, Zenon
<1>3. file = Closed /\ op = Idle
  BY Zenon DEF Init
<1>4. ~ IsOpen
  BY <1>3 DEF IsOpen, Closed
<1>5. MarkPending
  BY <1>3, IdleKind, Zenon DEF MarkPending
<1> QED BY <1>2, <1>3, <1>4, <1>5, InitTypes, Zenon DEF ChainInv

(* The slot of the open file, and the chains of the others.                *)
LEMMA ChainOpen ==
  ASSUME ChainInv, Types', NEW name \in Names, fat32_open(name)
  PROVE  ChainInv'
<1>1. PICK i \in DOMAIN root :
        /\ FirstSlotOf(name, i)
        /\ file' = [Closed EXCEPT !.name = name, !.first = root[i].first,
                                  !.current = root[i].first, !.size = root[i].size]
  BY Zenon DEF fat32_open
<1>2. /\ file'.name = name /\ file'.first = root[i].first /\ file'.current = root[i].first
  <2>1. file'.name = name
    BY <1>1, Zenon DEF Closed
  <2>2. file'.first = root[i].first /\ file'.current = root[i].first
    BY <1>1 DEF Closed
  <2> QED BY <2>1, <2>2
<1>3. /\ root \in Seq(Entries) /\ EmptiesTrail(root) /\ fat[2] # FREE /\ SoundRoot(fat, root)
  BY Zenon DEF ChainInv, Types
<1>4. FirstOf(root, name, i)
  BY <1>1, <1>3, FilesAreFound, Zenon
<1>5. root[i].kind = "file"
  BY <1>4, Zenon DEF FirstOf
<1>6. SoundChain(fat, root[i].first)
  BY <1>3, <1>5, Zenon DEF SoundRoot
<1>7. fat' = fat /\ root' = root /\ op' = op /\ op = Idle
  BY Zenon DEF fat32_open, disk
<1>8. OpenChain'
  BY <1>2, <1>6, <1>7, Zenon DEF OpenChain, SoundChain, Marked
<1>9. OpenSlot'
  <2>1. \A j \in DOMAIN root \ {i} :
          root[j].kind = "file" => Disjoint(fat, root[i].first, root[j].first)
    BY <1>3, <1>5, Zenon DEF SoundRoot
  <2> QED BY <1>2, <1>4, <1>7, <2>1, Zenon DEF OpenSlot
<1>10. CurrentPlaced'
  <2>1. root[i].first \in DataClusters => root[i].first \in ChainClusters(fat, root[i].first)
    <3>1. 0 \in 0 .. LastCluster
      BY Geometry
    <3> QED BY <3>1, ChainStep, ClustersOfChain, Geometry
  <2> QED BY <1>2, <1>7, <2>1, Zenon DEF CurrentPlaced
<1>11. MarkPending'
  BY <1>7, IdleKind, Zenon DEF MarkPending
<1>12. IsOpen'
  <2>1. name # ""
    BY VolumeAssumption, Zenon
  <2> QED BY <1>2, <2>1, Zenon DEF IsOpen
<1> QED BY <1>3, <1>7, <1>8, <1>9, <1>10, <1>11, <1>12, Zenon DEF ChainInv

(* A new entry has no chain, and the slot of the open file stays the first *)
(* of its name.                                                            *)
LEMMA ChainCreate ==
  ASSUME ChainInv, Types', ~ CreateTwice, NEW name \in Names, fat32_create_file(name)
  PROVE  ChainInv'
<1> DEFINE entry == [kind |-> "file", name |-> name, first |-> 0, size |-> 0]
<1>1. PICK s \in DOMAIN root :
        /\ root[s].kind \in {"empty", "deleted"}
        /\ \A j \in 1 .. s - 1 : root[j].kind \notin {"empty", "deleted"}
        /\ root' = [root EXCEPT ![s] = entry]
  BY Zenon DEF fat32_create_file
<1>2. entry.kind = "file" /\ entry.name = name /\ entry.first = 0
  <2>1. entry.first = 0
    OBVIOUS
  <2> QED BY <2>1, Zenon
<1> HIDE DEF entry
<1>3. /\ root \in Seq(Entries) /\ EmptiesTrail(root) /\ fat[2] # FREE /\ SoundRoot(fat, root)
  BY Zenon DEF ChainInv, Types
<1>4. /\ DOMAIN root' = DOMAIN root /\ root'[s] = entry
      /\ \A j \in DOMAIN root : j # s => root'[j] = root[j]
  BY <1>1, <1>3
<1>5. /\ ~ Exists(name) /\ fat' = fat /\ file' = file /\ op' = op /\ op = Idle
  BY Zenon DEF fat32_create_file
<1>6. EmptiesTrail(root')
  <2> SUFFICES ASSUME NEW i \in DOMAIN root, NEW j \in DOMAIN root,
                      i < j, root'[i].kind = "empty"
               PROVE  root'[j].kind = "empty"
    BY <1>4, Zenon DEF EmptiesTrail
  <2>1. i # s
    BY <1>2, <1>4
  <2>2. root[i].kind = "empty"
    BY <2>1, <1>4
  <2>3. j # s
    <3> SUFFICES ASSUME j = s PROVE FALSE
      OBVIOUS
    <3>1. i \in 1 .. s - 1
      BY <1>3
    <3> QED BY <3>1, <2>2, <1>1
  <2> QED BY <2>2, <2>3, <1>3, <1>4, Zenon DEF EmptiesTrail
<1>7. 0 \notin DataClusters
  BY Geometry
<1>8. SoundRoot(fat, root')
  <2> SUFFICES ASSUME NEW i \in DOMAIN root, root'[i].kind = "file"
               PROVE  /\ SoundChain(fat, root'[i].first)
                      /\ \A j \in DOMAIN root : root'[j].kind = "file" /\ j # i =>
                           Disjoint(fat, root'[i].first, root'[j].first)
    BY <1>4, Zenon DEF SoundRoot
  <2>1. CASE i = s
    <3>1. root'[i].first = 0
      BY <2>1, <1>2, <1>4
    <3> QED BY <3>1, <1>7, NoChain, Zenon DEF Disjoint
  <2>2. CASE i # s
    <3>1. root'[i] = root[i]
      BY <2>2, <1>4
    <3>2. SoundChain(fat, root'[i].first)
      BY <3>1, <1>3, Zenon DEF SoundRoot
    <3>3. ASSUME NEW j \in DOMAIN root, root'[j].kind = "file", j # i
          PROVE  Disjoint(fat, root'[i].first, root'[j].first)
      <4>1. CASE j = s
        <5>1. root'[j].first = 0
          BY <4>1, <1>2, <1>4
        <5> QED BY <5>1, <1>7, NoChain DEF Disjoint
      <4>2. CASE j # s
        BY <4>2, <3>1, <3>3, <1>3, <1>4, Zenon DEF SoundRoot
      <4> QED BY <4>1, <4>2
    <3> QED BY <3>2, <3>3
  <2> QED BY <2>1, <2>2
<1>9. ASSUME IsOpen PROVE OpenSlot'
  <2>1. PICK i \in DOMAIN root :
          /\ FirstOf(root, file.name, i)
          /\ \A j \in DOMAIN root \ {i} :
               root[j].kind = "file" => Disjoint(fat, file.first, root[j].first)
    BY <1>9, Zenon DEF ChainInv, OpenSlot
  <2>2. root[i].kind = "file" /\ root[i].name = file.name
    BY <2>1, Zenon DEF FirstOf
  <2>3. i # s /\ file.name # name
    <3>1. i # s
      BY <2>2, <1>1
    <3>2. SlotOf(file.name, i)
      BY <2>2, <1>3, FilesAreFound, Zenon
    <3> QED BY <3>1, <3>2, <1>5, Zenon DEF Exists
  <2>4. FirstOf(root', file.name, i)
    <3>1. root'[i] = root[i]
      BY <2>3, <1>4
    <3>2. ASSUME NEW j \in 1 .. i - 1
          PROVE  ~ (root'[j].kind = "file" /\ root'[j].name = file.name)
      <4>1. j \in DOMAIN root
        BY <1>3
      <4>2. CASE j = s
        BY <4>2, <2>3, <1>2, <1>4, Zenon
      <4>3. CASE j # s
        BY <4>1, <4>3, <2>1, <1>4, Zenon DEF FirstOf
      <4> QED BY <4>2, <4>3
    <3> QED BY <3>1, <3>2, <2>2, Zenon DEF FirstOf
  <2>5. ASSUME NEW j \in DOMAIN root \ {i}, root'[j].kind = "file"
        PROVE  Disjoint(fat, file.first, root'[j].first)
    <3>1. CASE j = s
      <4>1. root'[j].first = 0
        BY <3>1, <1>2, <1>4
      <4> QED BY <4>1, <1>7, NoChain DEF Disjoint
    <3>2. CASE j # s
      BY <3>2, <2>1, <2>5, <1>4, Zenon
    <3> QED BY <3>1, <3>2
  <2> QED BY <2>4, <2>5, <1>4, <1>5, Zenon DEF OpenSlot
<1>10. /\ IsOpen => OpenChain' /\ CurrentPlaced'
       /\ MarkPending'
  BY <1>5, Zenon DEF ChainInv, OpenChain, Marked, CurrentPlaced, MarkPending
<1>11. IsOpen' <=> IsOpen
  BY <1>5, Zenon DEF IsOpen
<1>12. ~ IsOpen => file' = Closed /\ op' = Idle
  BY <1>5, Zenon DEF ChainInv
<1> QED BY <1>3, <1>5, <1>6, <1>8, <1>9, <1>10, <1>11, <1>12, Zenon DEF ChainInv

LEMMA FirstIsOne ==
  ASSUME root \in Seq(Entries), NEW name, NEW i \in DOMAIN root, NEW j \in DOMAIN root,
         FirstOf(root, name, i), FirstOf(root, name, j)
  PROVE  i = j
<1>1. i \in Nat /\ j \in Nat /\ i >= 1 /\ j >= 1
  OBVIOUS
<1>2. /\ root[i].kind = "file" /\ root[i].name = name
      /\ root[j].kind = "file" /\ root[j].name = name
      /\ i \notin 1 .. j - 1 /\ j \notin 1 .. i - 1
  BY Zenon DEF FirstOf
<1> QED BY <1>1, <1>2

(* A free entry belongs to no chain. *)
LEMMA FreeIsInNoChain ==
  ASSUME NEW first, NEW c, fat[c] = FREE, SoundChain(fat, first)
  PROVE  c \notin ChainClusters(fat, first)
<1> SUFFICES ASSUME c \in ChainClusters(fat, first) PROVE FALSE
  OBVIOUS
<1>1. PICK k \in 0 .. LastCluster : ChainIn(fat, first)[k] = c /\ c # 0
  BY ClustersOfChain
<1> QED BY <1>1, Zenon DEF SoundChain

LEMMA FoundIsFree ==
  ASSUME NEW cluster, find_free_cluster(cluster), cluster # 0
  PROVE  cluster \in FatIndex /\ cluster >= 2 /\ fat[cluster] = FREE
BY DEF find_free_cluster, FreeEntries

LEMMA ChainFirst ==
  ASSUME ChainInv, Types', NEW cluster \in FatIndex, write_first_cluster(cluster)
  PROVE  ChainInv'
<1>1. /\ op.kind = "write" /\ file.current = 0
      /\ find_free_cluster(cluster) /\ cluster # 0
      /\ file' = [file EXCEPT !.first = cluster, !.current = cluster]
      /\ op' = [op EXCEPT !.kind = "mark", !.cluster = cluster]
      /\ fat' = fat /\ root' = root
  BY Zenon DEF write_first_cluster, disk
<1>2. file \in FileTypes /\ op \in OpTypes
  BY Zenon DEF ChainInv, Types
<1>3. /\ file'.name = file.name /\ file'.first = cluster /\ file'.current = cluster
      /\ op'.cluster = cluster
  BY <1>1, <1>2 DEF FileTypes, OpTypes
<1>4. op'.kind = "mark"
  BY <1>1, <1>2, Zenon DEF OpTypes
<1>5. cluster \in FatIndex /\ cluster >= 2 /\ fat[cluster] = FREE
  BY <1>1, FoundIsFree
<1>6. IsOpen
  <2>1. op # Idle
    BY <1>1, IdleKind
  <2> QED BY <2>1, OpenIsBusy
<1>7. fat[2] # FREE /\ EmptiesTrail(root) /\ SoundRoot(fat, root) /\ OpenSlot
  BY <1>6, Zenon DEF ChainInv
<1>8. fat[cluster] \notin DataClusters
  BY <1>5, Geometry DEF FREE
<1>9. \A k \in 0 .. LastCluster :
        ChainIn(fat, cluster)[k] = IF k = 0 /\ cluster \in DataClusters THEN cluster ELSE 0
  BY <1>8, ShortChain, Zenon
<1>10. OpenChain'
  <2>1. \A k \in 0 .. LastCluster : ChainIn(fat, cluster)[k] # 0 =>
          ChainIn(fat, cluster)[k] = cluster /\ k = 0
    BY <1>9
  <2>2. Marked(cluster)'
    BY <1>3, <1>4, Zenon DEF Marked
  <2>3. cluster # 2
    BY <1>5, <1>7
  <2> QED BY <1>1, <1>3, <2>1, <2>2, <2>3, Zenon DEF OpenChain
<1>11. OpenSlot'
  <2>1. PICK i \in DOMAIN root : FirstOf(root, file.name, i)
    BY <1>7, Zenon DEF OpenSlot
  <2>2. ASSUME NEW j \in DOMAIN root, root[j].kind = "file"
        PROVE  Disjoint(fat, cluster, root[j].first)
    <3>1. SoundChain(fat, root[j].first)
      BY <2>2, <1>7, Zenon DEF SoundRoot
    <3>2. cluster \notin ChainClusters(fat, root[j].first)
      BY <3>1, <1>5, FreeIsInNoChain, Zenon
    <3>3. \A c \in ChainClusters(fat, cluster) : c = cluster
      BY <1>9, ClustersOfChain
    <3> QED BY <3>2, <3>3 DEF Disjoint
  <2>3. /\ FirstOf(root', file'.name, i)
        /\ \A j \in DOMAIN root' \ {i} :
             root'[j].kind = "file" => Disjoint(fat', file'.first, root'[j].first)
    BY <1>1, <1>3, <2>1, <2>2
  <2> QED BY <1>1, <2>3, Zenon DEF OpenSlot
<1>12. CurrentPlaced'
  BY <1>1, <1>3, <1>4, Zenon DEF CurrentPlaced
<1>13. MarkPending'
  BY <1>1, <1>3, <1>5, Zenon DEF MarkPending
<1>14. IsOpen'
  BY <1>3, <1>6, Zenon DEF IsOpen
<1> QED BY <1>1, <1>7, <1>10, <1>11, <1>12, <1>13, <1>14, Zenon DEF ChainInv

LEMMA ChainLink ==
  ASSUME ChainInv, Types', NEW cluster \in FatIndex, write_link_cluster(cluster)
  PROVE  ChainInv'
<1>1. /\ op.kind = "write"
      /\ find_free_cluster(cluster) /\ cluster # 0
      /\ fat' = fat /\ root' = root
  BY Zenon DEF write_link_cluster
<1>2. file \in FileTypes /\ op \in OpTypes
  BY Zenon DEF ChainInv, Types
<1>3. cluster \in FatIndex /\ cluster >= 2 /\ fat[cluster] = FREE
  BY <1>1, FoundIsFree
<1>4. IsOpen
  <2>1. op # Idle
    BY <1>1, IdleKind
  <2> QED BY <2>1, OpenIsBusy
<1>5. CASE EocCluster = 0
  <2>1. op' = Hung /\ file' = file
    BY <1>5, Zenon DEF write_link_cluster
  <2>2. op'.kind # "mark" /\ op.kind # "mark"
    BY <2>1, <1>1, IdleKind
  <2> QED BY <1>1, <1>4, <2>1, <2>2, KeepChains, Zenon
<1>6. CASE EocCluster # 0
  <2>1. /\ file' = [file EXCEPT !.current = cluster]
        /\ op' = [op EXCEPT !.kind = "mark", !.cluster = cluster]
    BY <1>6, Zenon DEF write_link_cluster
  <2>2. /\ file'.name = file.name /\ file'.first = file.first /\ file'.current = cluster
        /\ op'.cluster = cluster
    BY <1>2, <2>1 DEF FileTypes, OpTypes
  <2>3. op'.kind = "mark"
    BY <1>2, <2>1, Zenon DEF OpTypes
  <2>4. /\ fat[2] # FREE /\ EmptiesTrail(root) /\ SoundRoot(fat, root)
        /\ OpenSlot /\ OpenChain
    BY <1>4, Zenon DEF ChainInv
  <2>5. OpenChain'
    <3>1. op.kind # "mark"
      BY <1>1
    <3> QED BY <1>1, <2>2, <2>4, <3>1, Zenon DEF OpenChain, Marked
  <2>6. OpenSlot'
    BY <1>1, <2>2, <2>4, Zenon DEF OpenSlot
  <2>7. CurrentPlaced'
    BY <1>1, <2>2, <2>3, Zenon DEF CurrentPlaced
  <2>8. MarkPending'
    BY <1>1, <1>3, <2>2, Zenon DEF MarkPending
  <2>9. IsOpen'
    BY <2>2, <1>4, Zenon DEF IsOpen
  <2> QED BY <1>1, <2>4, <2>5, <2>6, <2>7, <2>8, <2>9, Zenon DEF ChainInv
<1> QED BY <1>5, <1>6

(* Marking a free entry as an end changes no chain. *)
LEMMA MarkKeepsChains ==
  ASSUME fat \in [FatIndex -> 0 .. FAT32_EOC], NEW cluster \in FatIndex, fat[cluster] = FREE,
         fat' = [fat EXCEPT ![cluster] = FAT32_EOC]
  PROVE  /\ \A first : ChainIn(fat', first) = ChainIn(fat, first)
         /\ \A c \in FatIndex : fat[c] # FREE => fat'[c] # FREE
         /\ fat'[cluster] = FAT32_EOC /\ fat'[cluster] # FREE
<1>1. /\ fat'[cluster] = FAT32_EOC
      /\ \A c \in FatIndex : c # cluster => fat'[c] = fat[c]
  OBVIOUS
<1>2. fat[cluster] \notin DataClusters /\ fat'[cluster] \notin DataClusters /\ fat'[cluster] # FREE
  BY <1>1, EndMarks, Geometry DEF FREE
<1>3. ASSUME NEW first PROVE ChainIn(fat', first) = ChainIn(fat, first)
  <2>1. ASSUME NEW k \in 0 .. LastCluster, ChainIn(fat, first)[k] # 0
        PROVE  \/ fat'[ChainIn(fat, first)[k]] = fat[ChainIn(fat, first)[k]]
               \/ /\ fat'[ChainIn(fat, first)[k]] \notin DataClusters
                  /\ fat[ChainIn(fat, first)[k]] \notin DataClusters
    <3> DEFINE c == ChainIn(fat, first)[k]
    <3>1. c \in FatIndex
      BY <2>1, ChainStep, EntryNumbers
    <3> HIDE DEF c
    <3>2. fat'[c] = fat[c] \/ (fat'[c] \notin DataClusters /\ fat[c] \notin DataClusters)
      BY <3>1, <1>1, <1>2, Zenon
    <3> QED BY <3>2 DEF c
  <2> QED BY <2>1, ChainAgrees, Zenon
<1> QED BY <1>1, <1>2, <1>3, Zenon

LEMMA ChainMark ==
  ASSUME ChainInv, Types', write_mark_end
  PROVE  ChainInv'
<1>1. /\ op.kind = "mark" /\ fat' = [fat EXCEPT ![op.cluster] = FAT32_EOC]
      /\ op' = [op EXCEPT !.kind = "write", !.cluster = 0]
      /\ root' = root /\ file' = file
  BY Zenon DEF write_mark_end
<1>2. /\ op \in OpTypes /\ fat \in [FatIndex -> 0 .. FAT32_EOC]
      /\ op.cluster \in FatIndex /\ fat[op.cluster] = FREE /\ file.current = op.cluster
      /\ op.cluster >= 2
  BY <1>1, Zenon DEF ChainInv, Types, MarkPending
<1>3. op'.kind = "write"
  BY <1>1, <1>2, Zenon DEF OpTypes
<1>4. /\ \A first : ChainIn(fat', first) = ChainIn(fat, first)
      /\ \A c \in FatIndex : fat[c] # FREE => fat'[c] # FREE
      /\ fat'[op.cluster] = FAT32_EOC /\ fat'[op.cluster] # FREE
  BY <1>1, <1>2, MarkKeepsChains, Zenon
<1>5. IsOpen
  <2>1. op # Idle
    BY <1>1, IdleKind
  <2> QED BY <2>1, OpenIsBusy
<1>6. /\ fat[2] # FREE /\ EmptiesTrail(root) /\ SoundRoot(fat, root)
      /\ OpenChain /\ OpenSlot /\ CurrentPlaced
  BY <1>5, Zenon DEF ChainInv
<1>7. \A first : ChainClusters(fat', first) = ChainClusters(fat, first)
  BY <1>4, Zenon DEF ChainClusters
<1>8. \A first, k : k \in 0 .. LastCluster /\ ChainIn(fat, first)[k] # 0 =>
        ChainIn(fat, first)[k] \in FatIndex
  BY ChainStep, EntryNumbers
<1>9. fat'[2] # FREE
  <2>1. 2 \in FatIndex
    BY EntryNumbers, Geometry, Zenon
  <2> QED BY <1>4, <1>6, <2>1, Zenon
<1>10. ASSUME NEW first, SoundChain(fat, first) PROVE SoundChain(fat', first)
  <2>1. ChainIn(fat', first) = ChainIn(fat, first)
    BY <1>4, Zenon
  <2>2. ASSUME NEW k \in 0 .. LastCluster, ChainIn(fat, first)[k] # 0
        PROVE  fat'[ChainIn(fat, first)[k]] # FREE /\ ChainIn(fat, first)[k] # 2
    BY <1>4, <1>8, <1>10, <2>2, Zenon DEF SoundChain
  <2>3. \A j, k \in 0 .. LastCluster :
          ChainIn(fat, first)[k] # 0 /\ ChainIn(fat, first)[j] = ChainIn(fat, first)[k] => j = k
    BY <1>10, Zenon DEF SoundChain
  <2> QED BY <2>1, <2>2, <2>3, Zenon DEF SoundChain
<1>11. \A first, other : Disjoint(fat, first, other) => Disjoint(fat', first, other)
  BY <1>7 DEF Disjoint
<1>12. SoundRoot(fat', root')
  BY <1>1, <1>6, <1>10, <1>11, Zenon DEF SoundRoot
<1>13. OpenChain'
  <2>1. \A k \in 0 .. LastCluster : ChainIn(fat, file.first)[k] # 0 =>
          /\ fat'[ChainIn(fat, file.first)[k]] # FREE
          /\ ChainIn(fat, file.first)[k] # 2
    BY <1>4, <1>6, <1>8, Zenon DEF OpenChain, Marked
  <2> QED BY <2>1, <1>1, <1>4, <1>6, Zenon DEF OpenChain, Marked
<1>14. OpenSlot'
  BY <1>1, <1>6, <1>11, Zenon DEF OpenSlot
<1>15. CurrentPlaced'
  BY <1>1, <1>2, <1>4, <1>6, Zenon DEF CurrentPlaced
<1>16. MarkPending'
  BY <1>3, Zenon DEF MarkPending
<1>17. IsOpen'
  BY <1>1, <1>5, Zenon DEF IsOpen
<1> QED BY <1>1, <1>6, <1>9, <1>12, <1>13, <1>14, <1>15, <1>16, <1>17, Zenon DEF ChainInv

(* What is published takes over the slot that the open file has. *)
LEMMA ChainPublish ==
  ASSUME ChainInv, Types', fat32_update_dir_entry
  PROVE  ChainInv'
<1>1. PICK i \in DOMAIN root :
        /\ FirstSlotOf(file.name, i)
        /\ root' = [root EXCEPT ![i].size = Len(file.wrote), ![i].first = file.first]
  BY Zenon DEF fat32_update_dir_entry
<1>2. /\ IsOpen /\ op = Idle /\ file' = Closed /\ op' = Idle /\ fat' = fat
  BY Zenon DEF fat32_update_dir_entry
<1>3. /\ fat[2] # FREE /\ EmptiesTrail(root) /\ SoundRoot(fat, root)
      /\ OpenChain /\ OpenSlot /\ root \in Seq(Entries)
  BY <1>2, Zenon DEF ChainInv, Types
<1>4. FirstOf(root, file.name, i)
  BY <1>1, <1>3, FilesAreFound, Zenon
<1>5. \A j \in DOMAIN root \ {i} :
        root[j].kind = "file" => Disjoint(fat, file.first, root[j].first)
  <2>1. PICK s \in DOMAIN root :
          /\ FirstOf(root, file.name, s)
          /\ \A j \in DOMAIN root \ {s} :
               root[j].kind = "file" => Disjoint(fat, file.first, root[j].first)
    BY <1>3, Zenon DEF OpenSlot
  <2>2. s = i
    BY <1>3, <1>4, <2>1, FirstIsOne
  <2> QED BY <2>1, <2>2
<1>6. root[i] \in Entries
  BY <1>3
<1>7. /\ DOMAIN root' = DOMAIN root
      /\ \A j \in DOMAIN root : j # i => root'[j] = root[j]
      /\ root'[i].first = file.first
  BY <1>1, <1>3, <1>6 DEF Entries
<1>8. root'[i].kind = "file"
  <2>1. root[i].kind = "file"
    BY <1>4, Zenon DEF FirstOf
  <2>2. root'[i].kind = root[i].kind
    BY <1>1, <1>3, <1>6 DEF Entries
  <2> QED BY <2>1, <2>2
<1>9. EmptiesTrail(root')
  <2> SUFFICES ASSUME NEW k \in DOMAIN root, NEW j \in DOMAIN root,
                      k < j, root'[k].kind = "empty"
               PROVE  root'[j].kind = "empty"
    BY <1>7, Zenon DEF EmptiesTrail
  <2>1. k # i
    BY <1>8
  <2>2. root[j].kind = "empty"
    BY <2>1, <1>3, <1>7, Zenon DEF EmptiesTrail
  <2>3. j # i
    BY <2>2, <1>4 DEF FirstOf
  <2> QED BY <2>2, <2>3, <1>7, Zenon
<1>10. SoundChain(fat, file.first)
  <2>1. op.kind # "mark"
    BY <1>2, IdleKind
  <2> QED BY <1>3, <2>1, Zenon DEF OpenChain, SoundChain, Marked
<1>11. SoundRoot(fat, root')
  <2> SUFFICES ASSUME NEW k \in DOMAIN root, root'[k].kind = "file"
               PROVE  /\ SoundChain(fat, root'[k].first)
                      /\ \A j \in DOMAIN root : root'[j].kind = "file" /\ j # k =>
                           Disjoint(fat, root'[k].first, root'[j].first)
    BY <1>7, Zenon DEF SoundRoot
  <2>1. CASE k = i
    BY <2>1, <1>5, <1>7, <1>10, Zenon
  <2>2. CASE k # i
    <3>1. root'[k] = root[k]
      BY <2>2, <1>7
    <3>2. SoundChain(fat, root'[k].first)
      BY <3>1, <1>3, Zenon DEF SoundRoot
    <3>3. ASSUME NEW j \in DOMAIN root, root'[j].kind = "file", j # k
          PROVE  Disjoint(fat, root'[k].first, root'[j].first)
      <4>1. CASE j = i
        <5>1. Disjoint(fat, file.first, root[k].first)
          BY <2>2, <3>1, <1>5, Zenon
        <5> QED BY <4>1, <5>1, <3>1, <1>7 DEF Disjoint
      <4>2. CASE j # i
        BY <4>2, <3>1, <3>3, <1>3, <1>7, Zenon DEF SoundRoot
      <4> QED BY <4>1, <4>2
    <3> QED BY <3>2, <3>3
  <2> QED BY <2>1, <2>2
<1> QED BY <1>2, <1>3, <1>9, <1>11, NothingOpen, Zenon

LEMMA ReservedInit == Init => Reserved
<1> SUFFICES ASSUME Init PROVE Reserved
  OBVIOUS
<1>1. PICK v \in Volumes : fat = v.fat /\ root = v.root
  BY Zenon DEF Init
<1>2. /\ Ends(fat[0]) /\ \A e \in FatIndex : fat[e] # 1
      /\ \A i \in DOMAIN root : root[i].first # 1
  BY <1>1, VolumesAssumption, Zenon
<1>3. file.first # 1 /\ file.current # 1
  <2>1. file = Closed
    BY Zenon DEF Init
  <2>2. Closed.first # 1 /\ Closed.current # 1
    BY DEF Closed
  <2> QED BY <2>1, <2>2, Zenon
<1> QED BY <1>2, <1>3, Zenon DEF Reserved

LEMMA ReservedNext ==
  ASSUME ChainInv, Reserved, [Next]_vars
  PROVE  Reserved'
<1>1. /\ file \in FileTypes /\ root \in Seq(Entries) /\ MarkPending
      /\ fat \in [FatIndex -> 0 .. FAT32_EOC]
  BY Zenon DEF ChainInv, Types
<1>2. Closed.first # 1 /\ Closed.current # 1
  BY DEF Closed
<1>3. CASE UNCHANGED <<fat, root, file>>
  BY <1>3, Zenon DEF Reserved
<1>4. CASE UNCHANGED <<fat, root>> /\ file' = Closed
  BY <1>2, <1>4, Zenon DEF Reserved
<1>5. ASSUME NEW name \in Names, fat32_create_file(name) PROVE Reserved'
  <2>1. /\ UNCHANGED <<fat, file>>
        /\ \E i \in DOMAIN root :
             root' = [root EXCEPT ![i] =
                        [kind |-> "file", name |-> name, first |-> 0, size |-> 0]]
    BY <1>5, Zenon DEF fat32_create_file
  <2>2. \A i \in DOMAIN root' : root'[i].first # 1
    BY <1>1, <2>1 DEF Reserved
  <2> QED BY <2>1, <2>2, Zenon DEF Reserved
<1>6. ASSUME NEW name \in Names, fat32_open(name) PROVE Reserved'
  <2>1. PICK i \in DOMAIN root :
          file' = [Closed EXCEPT !.name = name, !.first = root[i].first,
                                 !.current = root[i].first, !.size = root[i].size]
    BY <1>6, Zenon DEF fat32_open
  <2>2. file'.first = root[i].first /\ file'.current = root[i].first
    BY <2>1 DEF Closed
  <2>3. UNCHANGED <<fat, root>>
    BY <1>6, Zenon DEF fat32_open, disk
  <2> QED BY <2>2, <2>3, Zenon DEF Reserved
<1>7. ASSUME UNCHANGED <<fat, root>>, file'.first = file.first,
             \/ file'.current = file.current
             \/ file.current \in FatIndex /\ file'.current = fat[file.current]
      PROVE  Reserved'
  BY <1>7, Zenon DEF Reserved
<1>8. ASSUME NEW size \in Sizes, fat32_read(size) \/ fat32_write(size) PROVE Reserved'
  <2>1. /\ UNCHANGED <<fat, root>>
        /\ \/ file' = [file EXCEPT !.calls = @ + 1]
           \/ file' = [file EXCEPT !.calls = @ + 1, !.dirty = TRUE]
    BY <1>8, Zenon DEF fat32_read, fat32_write, disk
  <2>2. file'.first = file.first /\ file'.current = file.current
    BY <1>1, <2>1 DEF FileTypes
  <2> QED BY <1>7, <2>1, <2>2
<1>9. CASE read_cluster
  <2>1. PICK more :
        /\ UNCHANGED <<fat, root>> /\ file.current <= LastCluster
        /\ file' = [file EXCEPT !.seen = @ \o more, !.pos = @ + wanted,
                                !.current = fat[file.current]]
    BY <1>9, Zenon DEF read_cluster, disk
  <2>2. file'.first = file.first /\ file'.current = fat[file.current]
    BY <1>1, <2>1 DEF FileTypes
  <2>3. file.current \in FatIndex
    <3>1. file.current \in Nat
      BY <1>1 DEF FileTypes
    <3> QED BY <2>1, <3>1, LowClusters, Zenon
  <2> QED BY <1>7, <2>1, <2>2, <2>3
<1>10. CASE write_sector
  <2>1. PICK n, more :
        /\ UNCHANGED <<fat, root>> /\ file.current \in DataClusters
        /\ \/ file' = [file EXCEPT !.pos = @ + n, !.wrote = @ \o more,
                                   !.current = fat[@]]
           \/ file' = [file EXCEPT !.pos = @ + n, !.wrote = @ \o more,
                                   !.current = @]
    <3> DEFINE left == op.size - op.done
               n    == IF left < bytes_per_sector THEN left ELSE bytes_per_sector
               last == op.sector = sectors_per_cluster - 1
               more == [i \in 1 .. n |-> BufferByte(writes, op.done + i)]
    <3>1. /\ UNCHANGED <<fat, root>> /\ file.current \in DataClusters
          /\ file' = [file EXCEPT !.pos = @ + n, !.wrote = @ \o more,
                                  !.current = IF last THEN fat[@] ELSE @]
      BY <1>10, Zenon DEF write_sector
    <3> HIDE DEF n, more
    <3>2. CASE last
      BY <3>1, <3>2, Zenon
    <3>3. CASE ~ last
      BY <3>1, <3>3, Zenon
    <3> QED BY <3>2, <3>3
  <2>2. /\ file'.first = file.first
        /\ file'.current = file.current \/ file'.current = fat[file.current]
    BY <1>1, <2>1 DEF FileTypes
  <2>3. file.current \in FatIndex
    BY <2>1, EntryNumbers
  <2> QED BY <1>7, <2>1, <2>2, <2>3
<1>11. ASSUME NEW cluster \in FatIndex,
              write_first_cluster(cluster) \/ write_link_cluster(cluster)
       PROVE  Reserved'
  <2>1. /\ UNCHANGED <<fat, root>>
        /\ find_free_cluster(cluster) /\ cluster # 0
        /\ \/ file' = file
           \/ file' = [file EXCEPT !.first = cluster, !.current = cluster]
           \/ file' = [file EXCEPT !.current = cluster]
    BY <1>11, Zenon DEF write_first_cluster, write_link_cluster, disk
  <2>2. cluster # 1
    <3>1. cluster >= 2
      BY <2>1, FoundIsFree
    <3> QED BY <3>1 DEF FatIndex
  <2>3. /\ file'.first = file.first \/ file'.first = cluster
        /\ file'.current = file.current \/ file'.current = cluster
    BY <1>1, <2>1 DEF FileTypes
  <2> QED BY <2>1, <2>2, <2>3, Zenon DEF Reserved
<1>12. CASE write_mark_end
  <2>1. /\ op.kind = "mark" /\ UNCHANGED <<root, file>>
        /\ fat' = [fat EXCEPT ![op.cluster] = FAT32_EOC]
    BY <1>12, Zenon DEF write_mark_end
  <2>2. op.cluster \in FatIndex /\ op.cluster # 0
    BY <1>1, <2>1 DEF MarkPending
  <2>3. FAT32_EOC # 1
    <3>1. 1 \in FatIndex
      BY LowClusters, Geometry
    <3> QED BY <3>1, EndMarks, EntryNumbers, Zenon
  <2>4. fat'[0] = fat[0] /\ \A e \in FatIndex : fat'[e] = fat[e] \/ fat'[e] = FAT32_EOC
    BY <1>1, <2>1, <2>2, EntryNumbers
  <2> QED BY <2>1, <2>3, <2>4, Zenon DEF Reserved
<1>13. CASE fat32_update_dir_entry
  <2>1. PICK i \in DOMAIN root :
          root' = [root EXCEPT ![i].size = Len(file.wrote), ![i].first = file.first]
    BY <1>13, Zenon DEF fat32_update_dir_entry
  <2>2. /\ DOMAIN root' = DOMAIN root
        /\ \A j \in DOMAIN root : j # i => root'[j] = root[j]
        /\ root'[i].first = file.first
    <3>1. root[i] \in Entries
      BY <1>1
    <3> QED BY <1>1, <2>1, <3>1 DEF Entries
  <2>3. \A j \in DOMAIN root' : root'[j].first # 1
    BY <2>2, Zenon DEF Reserved
  <2>4. UNCHANGED fat /\ file' = Closed
    BY <1>13, Zenon DEF fat32_update_dir_entry
  <2> QED BY <1>2, <2>3, <2>4, Zenon DEF Reserved
<1> QED
  <2>1. ASSUME fat32_init \/ read_returns \/ write_no_cluster \/ access_past_end
               \/ write_returns \/ UNCHANGED vars
               \/ \E name \in Names : fat32_create_file_full(name)
        PROVE  UNCHANGED <<fat, root, file>>
    BY <2>1, Zenon DEF fat32_init, read_returns, write_no_cluster, access_past_end,
                       write_returns, fat32_create_file_full, vars, disk
  <2>2. Crash => UNCHANGED <<fat, root>> /\ file' = Closed
    BY Zenon DEF Crash, disk
  <2> QED BY <1>3, <1>4, <1>5, <1>6, <1>8, <1>9, <1>10, <1>11, <1>12, <1>13, <2>1, <2>2,
             Zenon DEF Next, CallStep

LEMMA ChainNext ==
  ASSUME ~ CreateTwice, ChainInv, Reserved, [Next]_vars
  PROVE  ChainInv'
<1>1. Types'
  BY NextTypes, Zenon DEF ChainInv
<1>2. file \in FileTypes /\ op \in OpTypes
  BY Zenon DEF ChainInv, Types
<1>3. CASE UNCHANGED vars
  BY <1>1, <1>3, SameChains, Zenon DEF vars, disk
<1>4. CASE fat32_init
  BY <1>1, <1>4, SameChains, Zenon DEF fat32_init, disk
<1>5. ASSUME NEW name \in Names, fat32_create_file(name) PROVE ChainInv'
  BY <1>1, <1>5, ChainCreate
<1>6. ASSUME NEW name \in Names, fat32_create_file_full(name) PROVE ChainInv'
  BY <1>1, <1>6, SameChains, Zenon DEF fat32_create_file_full, vars, disk
<1>7. ASSUME NEW name \in Names, fat32_open(name) PROVE ChainInv'
  BY <1>1, <1>7, ChainOpen
<1>8. ASSUME NEW size \in Sizes, fat32_read(size) \/ fat32_write(size) PROVE ChainInv'
  <2>1. /\ IsOpen /\ op = Idle /\ fat' = fat /\ root' = root
        /\ \/ file' = [file EXCEPT !.calls = @ + 1]
           \/ file' = [file EXCEPT !.calls = @ + 1, !.dirty = TRUE]
        /\ \/ op' = [Idle EXCEPT !.kind = "read", !.size = size]
           \/ op' = [Idle EXCEPT !.kind = "write", !.size = size]
    BY <1>8, Zenon DEF fat32_read, fat32_write, disk
  <2>2. /\ file'.name = file.name /\ file'.first = file.first /\ file'.current = file.current
    BY <2>1, <1>2 DEF FileTypes
  <2>3. op'.kind # "mark" /\ op.kind # "mark"
    BY <2>1, IdleKind DEF Idle
  <2> QED BY <1>1, <2>1, <2>2, <2>3, KeepChains, Zenon
<1>9. CASE read_cluster
  <2>1. PICK more :
        /\ op.kind = "read" /\ fat' = fat /\ root' = root
        /\ file.current <= LastCluster
        /\ file' = [file EXCEPT !.seen = @ \o more, !.pos = @ + wanted,
                                !.current = fat[file.current]]
        /\ op' = [op EXCEPT !.done = @ + wanted]
    BY <1>9, Zenon DEF read_cluster, disk
  <2>2. /\ file'.name = file.name /\ file'.first = file.first
        /\ file'.current = fat[file.current]
    BY <2>1, <1>2 DEF FileTypes
  <2>3. op'.kind # "mark" /\ op.kind # "mark" /\ op # Idle
    <3>1. op'.kind = op.kind
      BY <2>1, <1>2, Zenon DEF OpTypes
    <3> QED BY <3>1, <2>1, IdleKind
  <2>4. \/ file.current \in DataClusters /\ file'.current = fat[file.current]
        \/ file.current = 0 /\ Ends(file'.current)
    <3>1. file.current \in Nat
      BY <1>2, Fields, Zenon
    <3>2. file.current \in DataClusters \/ file.current = 0 \/ file.current = 1
      BY <2>1, <3>1, LowClusters, Zenon
    <3> QED BY <2>2, <3>2, Zenon DEF Reserved
  <2> QED BY <1>1, <2>1, <2>2, <2>3, <2>4, OpenIsBusy, KeepChains, Zenon
<1>10. CASE read_returns \/ write_returns \/ write_no_cluster \/ access_past_end
  <2>1. /\ op.kind \in {"read", "write"} /\ fat' = fat /\ root' = root
        /\ file' = file /\ op' \in {Idle, Hung}
    BY <1>10 DEF read_returns, write_returns, write_no_cluster, access_past_end, disk
  <2>2. op'.kind # "mark" /\ op.kind # "mark" /\ op # Idle
    BY <2>1, IdleKind
  <2> QED BY <1>1, <2>1, <2>2, OpenIsBusy, KeepChains, Zenon
<1>11. ASSUME NEW cluster \in FatIndex, write_first_cluster(cluster) PROVE ChainInv'
  BY <1>1, <1>11, ChainFirst
<1>12. ASSUME NEW cluster \in FatIndex, write_link_cluster(cluster) PROVE ChainInv'
  BY <1>1, <1>12, ChainLink
<1>13. CASE write_mark_end
  BY <1>1, <1>13, ChainMark
<1>14. CASE write_sector
  <2>1. PICK n, more, sector :
        /\ op.kind = "write" /\ fat' = fat /\ root' = root
        /\ file.current \in DataClusters
        /\ op' = [op EXCEPT !.done = @ + n, !.sector = sector]
        /\ \/ file' = [file EXCEPT !.pos = @ + n, !.wrote = @ \o more,
                                   !.current = fat[@]]
           \/ file' = [file EXCEPT !.pos = @ + n, !.wrote = @ \o more,
                                   !.current = @]
    <3> DEFINE left == op.size - op.done
               n    == IF left < bytes_per_sector THEN left ELSE bytes_per_sector
               last == op.sector = sectors_per_cluster - 1
               more == [i \in 1 .. n |-> BufferByte(writes, op.done + i)]
    <3>1. /\ op.kind = "write" /\ fat' = fat /\ root' = root
          /\ file.current \in DataClusters
          /\ op' = [op EXCEPT !.done = @ + n, !.sector = IF last THEN 0 ELSE @ + 1]
          /\ file' = [file EXCEPT !.pos = @ + n, !.wrote = @ \o more,
                                  !.current = IF last THEN fat[@] ELSE @]
      BY <1>14, Zenon DEF write_sector
    <3> HIDE DEF n, more
    <3>2. CASE last
      BY <3>1, <3>2, Zenon
    <3>3. CASE ~ last
      BY <3>1, <3>3, Zenon
    <3> QED BY <3>2, <3>3
  <2>2. /\ file'.name = file.name /\ file'.first = file.first
        /\ file'.current = file.current \/ file'.current = fat[file.current]
    BY <2>1, <1>2 DEF FileTypes
  <2>3. op'.kind # "mark" /\ op.kind # "mark" /\ op # Idle
    <3>1. op'.kind = op.kind
      BY <2>1, <1>2, Zenon DEF OpTypes
    <3> QED BY <3>1, <2>1, IdleKind
  <2> QED BY <1>1, <2>1, <2>2, <2>3, OpenIsBusy, KeepChains, Zenon
<1>15. CASE fat32_update_dir_entry
  BY <1>1, <1>15, ChainPublish
<1>16. CASE Crash
  <2>1. (fat[2] # FREE /\ EmptiesTrail(root) /\ SoundRoot(fat, root))'
    BY <1>16, Zenon DEF ChainInv, Crash, disk
  <2> QED BY <1>1, <1>16, <2>1, NothingOpen, Zenon DEF Crash
<1> QED BY <1>3, <1>4, <1>5, <1>6, <1>7, <1>8, <1>9, <1>10, <1>11, <1>12, <1>13, <1>14,
           <1>15, <1>16, Zenon DEF Next, CallStep

-----------------------------------------------------------------------------
(* The variables keep values of their C types, whatever the callers do.    *)
THEOREM TypeCorrect == Spec => []TypeOK
<1>1. Types => TypeOK
  <2> SUFFICES ASSUME Types PROVE TypeOK
    OBVIOUS
  <2>1. \A i \in DOMAIN root : root[i].kind \in {"empty", "deleted", "file", "lfn"}
    <3>1. \A i \in DOMAIN root : root[i] \in Entries
      BY DEF Types
    <3> QED BY <3>1, Zenon DEF Entries
  <2>2. file \in FileTypes /\ op \in OpTypes
    BY Zenon DEF Types
  <2> QED BY <2>1, <2>2, Fields, Zenon DEF Types, TypeOK
<1> QED BY <1>1, InitTypes, NextTypes, PTL DEF Spec

(* No crash and no order of calls leaves two files, or a file and the root *)
(* directory, in one cluster, or a file in a free one, as long as no name  *)
(* is created twice.                                                       *)
THEOREM ChainsStaySound == ~ CreateTwice => (Spec => []ChainsAreSound)
<1> SUFFICES ASSUME ~ CreateTwice PROVE Spec => []ChainsAreSound
  OBVIOUS
<1>1. ChainInv => ChainsAreSound
  <2> SUFFICES ASSUME ChainInv PROVE ChainsAreSound
    OBVIOUS
  <2>1. root \in Seq(Entries) /\ EmptiesTrail(root) /\ SoundRoot(fat, root)
    BY Zenon DEF ChainInv, Types
  <2>2. Files = { i \in DOMAIN root : root[i].kind = "file" }
    BY <2>1, FilesAreFound
  <2> SUFFICES ASSUME NEW i \in Files
               PROVE  /\ \A cluster \in ChainClusters(fat, root[i].first) : fat[cluster] # FREE
                      /\ 2 \notin ChainClusters(fat, root[i].first)
                      /\ \A j \in Files \ {i} : Disjoint(fat, root[i].first, root[j].first)
    BY Zenon DEF ChainsAreSound
  <2>3. SoundChain(fat, root[i].first)
    BY <2>1, <2>2 DEF SoundRoot
  <2>4. \A cluster \in ChainClusters(fat, root[i].first) : fat[cluster] # FREE /\ cluster # 2
    <3> TAKE cluster \in ChainClusters(fat, root[i].first)
    <3>1. PICK k \in 0 .. LastCluster : ChainIn(fat, root[i].first)[k] = cluster /\ cluster # 0
      BY ClustersOfChain
    <3> QED BY <3>1, <2>3, Zenon DEF SoundChain
  <2>5. \A j \in Files \ {i} : Disjoint(fat, root[i].first, root[j].first)
    BY <2>1, <2>2 DEF SoundRoot
  <2> QED BY <2>4, <2>5, Zenon
<1>2. ChainInv /\ Reserved /\ [Next]_vars => (ChainInv /\ Reserved)'
  BY ChainNext, ReservedNext
<1> QED BY <1>1, <1>2, ChainInit, ReservedInit, PTL DEF Spec

-----------------------------------------------------------------------------
(* Offsets: byte number r of cluster number q, counted from 0. *)
LEMMA Offset ==
  ASSUME NEW q \in Nat, NEW r \in 0 .. ClusterBytes - 1
  PROVE  /\ q * ClusterBytes + r \in Nat
         /\ (q * ClusterBytes + r) \div ClusterBytes = q
         /\ (q * ClusterBytes + r) % ClusterBytes = r
<1>1. ClusterBytes \in Nat /\ ClusterBytes > 0
  BY Bytes
<1>2. \A m \in Nat : m > 0 => \A s \in 0 .. m - 1 : /\ q * m + s \in Nat
                                                 /\ (q * m + s) \div m = q
                                                 /\ (q * m + s) % m = s
  BY Z3
<1> QED BY <1>1, <1>2

LEMMA Split ==
  ASSUME NEW a \in Nat
  PROVE  \E q \in Nat, r \in 0 .. ClusterBytes - 1 : a = q * ClusterBytes + r
<1>1. ClusterBytes \in Nat /\ ClusterBytes > 0
  BY Bytes
<1>2. \A m \in Nat : m > 0 =>
        /\ a \div m \in Nat /\ a % m \in 0 .. m - 1
        /\ a = (a \div m) * m + (a % m)
  BY Z3
<1> QED BY <1>1, <1>2

(* The places of stored bytes, by cluster and offset. *)
StoredAt(table, clusters, first, bytes) ==
  \A q \in Nat, r \in 0 .. ClusterBytes - 1 :
    q * ClusterBytes + r < Len(bytes) =>
      /\ q \in 0 .. LastCluster /\ ChainIn(table, first)[q] # 0
      /\ bytes[q * ClusterBytes + r + 1] = clusters[ChainIn(table, first)[q]][r + 1]

LEMMA Places ==
  ASSUME NEW table, NEW clusters, NEW first, NEW bytes \in Seq(Nat)
  PROVE  StoredIn(table, clusters, first, bytes) <=> StoredAt(table, clusters, first, bytes)
<1>1. Len(bytes) \in Nat
  OBVIOUS
<1> DEFINE chain == ChainIn(table, first)
<1> HIDE DEF chain
<1>2. ASSUME StoredIn(table, clusters, first, bytes) PROVE StoredAt(table, clusters, first, bytes)
  <2> SUFFICES ASSUME NEW q \in Nat, NEW r \in 0 .. ClusterBytes - 1,
                      q * ClusterBytes + r < Len(bytes)
               PROVE  /\ q \in 0 .. LastCluster /\ chain[q] # 0
                      /\ bytes[q * ClusterBytes + r + 1] = clusters[chain[q]][r + 1]
    BY DEF StoredAt, chain
  <2> DEFINE x == q * ClusterBytes + r
  <2>1. x \in Nat /\ x \div ClusterBytes = q /\ x % ClusterBytes = r
    BY Offset
  <2>2. x < Len(bytes)
    OBVIOUS
  <2> HIDE DEF x
  <2>3. x + 1 \in 1 .. Len(bytes) /\ (x + 1) - 1 = x
    BY <2>1, <2>2, <1>1
  <2>4. /\ ((x + 1) - 1) \div ClusterBytes = q
        /\ ((x + 1) - 1) % ClusterBytes = r
    BY <2>1, <2>3, Zenon
  <2>5. \A b \in 1 .. Len(bytes) :
           /\ (b - 1) \div ClusterBytes \in 0 .. LastCluster
           /\ chain[(b - 1) \div ClusterBytes] # 0
           /\ bytes[b] = clusters[chain[(b - 1) \div ClusterBytes]][((b - 1) % ClusterBytes) + 1]
    BY <1>2, Zenon DEF StoredIn, chain
  <2>6. /\ q \in 0 .. LastCluster /\ chain[q] # 0
        /\ bytes[x + 1] = clusters[chain[q]][r + 1]
    BY <2>3, <2>4, <2>5, Zenon
  <2> QED BY <2>6 DEF x
<1>3. ASSUME StoredAt(table, clusters, first, bytes) PROVE StoredIn(table, clusters, first, bytes)
  <2> SUFFICES ASSUME NEW b \in 1 .. Len(bytes)
               PROVE  LET k == (b - 1) \div ClusterBytes
                      IN  /\ k \in 0 .. LastCluster /\ chain[k] # 0
                          /\ bytes[b] = clusters[chain[k]][((b - 1) % ClusterBytes) + 1]
    BY Zenon DEF StoredIn, chain
  <2>1. b - 1 \in Nat /\ b - 1 < Len(bytes) /\ (b - 1) + 1 = b
    BY <1>1
  <2>2. PICK q \in Nat, r \in 0 .. ClusterBytes - 1 : b - 1 = q * ClusterBytes + r
    BY <2>1, Split, Zenon
  <2>3. (b - 1) \div ClusterBytes = q /\ (b - 1) % ClusterBytes = r
    BY <2>2, Offset
  <2>4. /\ q \in 0 .. LastCluster /\ chain[q] # 0
        /\ bytes[b] = clusters[chain[q]][r + 1]
    <3>1. \A p \in Nat, s \in 0 .. ClusterBytes - 1 :
            p * ClusterBytes + s < Len(bytes) =>
              /\ p \in 0 .. LastCluster /\ chain[p] # 0
              /\ bytes[p * ClusterBytes + s + 1] = clusters[chain[p]][s + 1]
      BY <1>3, Zenon DEF StoredAt, chain
    <3>2. q * ClusterBytes + r < Len(bytes)
      BY <2>1, <2>2
    <3>3. /\ q \in 0 .. LastCluster /\ chain[q] # 0
          /\ bytes[q * ClusterBytes + r + 1] = clusters[chain[q]][r + 1]
      BY <3>1, <3>2, Zenon
    <3>4. q * ClusterBytes + r + 1 = b
      BY <2>1, <2>2
    <3> QED BY <3>3, <3>4, Zenon
  <2> QED BY <2>3, <2>4, Zenon
<1> QED BY <1>2, <1>3

LEMMA StoredNothing ==
  ASSUME NEW table, NEW clusters, NEW first
  PROVE  StoredIn(table, clusters, first, << >>) /\ << >> \in Seq(Nat) /\ Len(<< >>) = 0
BY DEF StoredIn

(* What is stored stays so while its clusters do. *)
LEMMA StoredSame ==
  ASSUME NEW table, NEW other, NEW clusters, NEW others, NEW first, NEW bytes \in Seq(Nat),
         StoredIn(table, clusters, first, bytes),
         ChainIn(other, first) = ChainIn(table, first),
         \A c \in ChainClusters(table, first) : others[c] = clusters[c]
  PROVE  StoredIn(other, others, first, bytes)
<1> SUFFICES ASSUME NEW b \in 1 .. Len(bytes)
             PROVE  LET k == (b - 1) \div ClusterBytes
                        c == ChainIn(other, first)[k]
                    IN  /\ k \in 0 .. LastCluster /\ c # 0
                        /\ bytes[b] = others[c][((b - 1) % ClusterBytes) + 1]
  BY Zenon DEF StoredIn
<1> DEFINE k == (b - 1) \div ClusterBytes
           c == ChainIn(table, first)[k]
           o == ((b - 1) % ClusterBytes) + 1
<1>1. k \in 0 .. LastCluster /\ c # 0 /\ bytes[b] = clusters[c][o]
  BY Zenon DEF StoredIn
<1>2. c \in ChainClusters(table, first)
  BY <1>1, ClustersOfChain, Zenon
<1>3. others[c] = clusters[c]
  BY <1>2, Zenon
<1> QED BY <1>1, <1>3, Zenon

(* Two sequences stored in the same place are the same as far as they go.  *)
LEMMA StoredAlike ==
  ASSUME NEW table, NEW clusters, NEW first, NEW a \in Seq(Nat), NEW b \in Seq(Nat),
         StoredIn(table, clusters, first, a), StoredIn(table, clusters, first, b),
         Len(a) <= Len(b)
  PROVE  a = SubSeq(b, 1, Len(a))
<1>1. Len(a) \in Nat /\ Len(b) \in Nat
  OBVIOUS
<1>2. ASSUME NEW i \in 1 .. Len(a) PROVE a[i] = b[i]
  <2>1. i \in 1 .. Len(b)
    BY <1>1
  <2> QED BY <2>1, Zenon DEF StoredIn
<1> QED BY <1>1, <1>2

LEMMA Joined ==
  ASSUME NEW a \in Seq(Nat), NEW b \in Seq(Nat)
  PROVE  /\ a \o b \in Seq(Nat) /\ Len(a \o b) = Len(a) + Len(b)
         /\ \A i \in 1 .. Len(a) : (a \o b)[i] = a[i]
         /\ \A i \in 1 .. Len(b) : (a \o b)[Len(a) + i] = b[i]
<1>1. Len(a) \in Nat /\ Len(b) \in Nat
  OBVIOUS
<1>2. a \o b \in Seq(Nat) /\ Len(a \o b) = Len(a) + Len(b)
  BY ConcatProperties
<1>3. \A i \in 1 .. Len(a) + Len(b) :
        (a \o b)[i] = IF i <= Len(a) THEN a[i] ELSE b[i - Len(a)]
  BY ConcatProperties
<1>4. \A i \in 1 .. Len(a) : (a \o b)[i] = a[i]
  BY <1>1, <1>3
<1>5. ASSUME NEW i \in 1 .. Len(b) PROVE (a \o b)[Len(a) + i] = b[i]
  <2>1. /\ Len(a) + i \in 1 .. Len(a) + Len(b) /\ ~ (Len(a) + i <= Len(a))
        /\ (Len(a) + i) - Len(a) = i
    BY <1>1
  <2> QED BY <1>3, <2>1, Zenon
<1> QED BY <1>2, <1>4, <1>5

(* Bytes that are put behind what is stored, in the cluster it ends in.    *)
LEMMA StoredMore ==
  ASSUME NEW table, NEW clusters, NEW first, NEW bytes \in Seq(Nat), NEW more \in Seq(Nat),
         NEW c \in 0 .. LastCluster, NEW from \in Nat,
         ChainIn(table, first)[c] # 0,
         StoredIn(table, clusters, first, bytes),
         Len(bytes) = c * ClusterBytes + from,
         from + Len(more) <= ClusterBytes,
         \A i \in 1 .. Len(more) : more[i] = clusters[ChainIn(table, first)[c]][from + i]
  PROVE  StoredIn(table, clusters, first, bytes \o more)
<1>1. Len(bytes) \in Nat /\ Len(more) \in Nat /\ c \in Nat /\ ClusterBytes \in Nat
  BY Geometry, Bytes
<1> DEFINE chain == ChainIn(table, first)
           base  == c * ClusterBytes
           all   == bytes \o more
<1>2. /\ all \in Seq(Nat) /\ Len(all) = Len(bytes) + Len(more)
      /\ \A i \in 1 .. Len(bytes) : all[i] = bytes[i]
      /\ \A i \in 1 .. Len(more) : all[Len(bytes) + i] = more[i]
  BY Joined, Zenon
<1>3. base \in Nat
  BY <1>1, Offset, Z3
<1>4. Len(bytes) = base + from
  OBVIOUS
<1> HIDE DEF chain, all
<1> SUFFICES ASSUME NEW q \in Nat, NEW r \in 0 .. ClusterBytes - 1,
                    q * ClusterBytes + r < Len(all)
             PROVE  /\ q \in 0 .. LastCluster /\ chain[q] # 0
                    /\ all[q * ClusterBytes + r + 1] = clusters[chain[q]][r + 1]
  <2> HIDE DEF base
  <2>1. StoredAt(table, clusters, first, all)
    BY Zenon DEF StoredAt, chain
  <2> QED BY <2>1, <1>2, Places DEF all
<1> DEFINE x == q * ClusterBytes + r
<1>5. x \in Nat /\ x \div ClusterBytes = q /\ x % ClusterBytes = r
  BY Offset
<1>6. x < Len(all)
  OBVIOUS
<1>7. CASE x < Len(bytes)
  <2>1. /\ q \in 0 .. LastCluster /\ chain[q] # 0
        /\ bytes[x + 1] = clusters[chain[q]][r + 1]
    <3>1. StoredAt(table, clusters, first, bytes)
      BY Places
    <3> QED BY <3>1, <1>7, Zenon DEF StoredAt, chain
  <2> HIDE DEF x
  <2>2. all[x + 1] = bytes[x + 1]
    BY <1>1, <1>2, <1>5, <1>7
  <2> QED BY <2>1, <2>2 DEF x
<1>8. CASE ~ (x < Len(bytes))
  <2> DEFINE i == x - Len(bytes) + 1
             o == from + i - 1
  <2>1. x = base + o /\ o \in 0 .. ClusterBytes - 1 /\ i \in 1 .. Len(more)
    <3> HIDE DEF x, base
    <3> QED BY <1>1, <1>2, <1>3, <1>4, <1>5, <1>6, <1>8
  <2>2. (base + o) \div ClusterBytes = c /\ (base + o) % ClusterBytes = o
    <3> HIDE DEF o, x
    <3> QED BY <1>1, <2>1, Offset
  <2>3. q = c /\ r = o
    <3> HIDE DEF x, base, o
    <3> QED BY <1>5, <2>1, <2>2
  <2>4. all[x + 1] = more[i]
    <3> HIDE DEF x
    <3>1. Len(bytes) + i = x + 1
      BY <1>1, <1>5
    <3> QED BY <3>1, <2>1, <1>2
  <2>5. more[i] = clusters[chain[c]][r + 1]
    <3>1. from + i = o + 1
      <4> HIDE DEF x
      <4> QED BY <1>1, <1>5
    <3>2. more[i] = clusters[chain[c]][from + i]
      BY <2>1 DEF chain
    <3> HIDE DEF i, o, x
    <3> QED BY <3>1, <3>2, <2>3
  <2>6. chain[c] # 0
    BY DEF chain
  <2> HIDE DEF i, o
  <2> QED BY <2>3, <2>4, <2>5, <2>6
<1> QED BY <1>7, <1>8

-----------------------------------------------------------------------------
(* Where the file stands is where its chain is, unless one of them is over.*)
LEMMA Standing ==
  ASSUME NEW c \in 0 .. LastCluster, StandsAt(c)
  PROVE  LET chain == ChainIn(fat, file.first)
         IN  /\ file.current \in DataClusters => chain[c] = file.current
             /\ chain[c] # 0 => chain[c] = file.current /\ file.current \in DataClusters
<1> DEFINE chain == ChainIn(fat, file.first)
<1>1. LastCluster \in Nat /\ 0 \notin DataClusters
  BY Geometry
<1>2. CASE c = 0
  <2>1. file.current = file.first
    BY <1>2 DEF StandsAt
  <2>2. chain[c] = IF file.first \in DataClusters THEN file.first ELSE 0
    BY <1>2, ChainStep
  <2> QED BY <1>1, <2>1, <2>2
<1>3. CASE c > 0
  <2>1. chain[c - 1] # 0 /\ file.current = fat[chain[c - 1]]
    <3>1. c # 0
      BY <1>3
    <3> QED BY <3>1, Zenon DEF StandsAt
  <2>2. chain[c] = IF chain[c - 1] # 0 /\ fat[chain[c - 1]] \in DataClusters
                     THEN fat[chain[c - 1]] ELSE 0
    BY <1>3, ChainStep
  <2> QED BY <1>1, <2>1, <2>2
<1> QED BY <1>1, <1>2, <1>3

(* One cluster on. *)
LEMMA StandsNext ==
  ASSUME NEW c \in 0 .. LastCluster, StandsAt(c), file.current \in DataClusters, OpenChain,
         fat' = fat, file'.first = file.first, file'.current = fat[file.current]
  PROVE  c + 1 \in 0 .. LastCluster /\ StandsAt(c + 1)'
<1> DEFINE chain == ChainIn(fat, file.first)
<1>1. LastCluster \in Nat /\ 0 \notin DataClusters
  BY Geometry
<1>2. chain[c] = file.current /\ chain[c] # 0
  BY <1>1, Standing
<1>3. chain[LastCluster] = 0
  BY ChainIsOver, Zenon DEF OpenChain
<1>4. c # LastCluster
  BY <1>2, <1>3, Zenon
<1>5. c + 1 \in 0 .. LastCluster /\ (c + 1) - 1 = c /\ c + 1 # 0
  BY <1>1, <1>4
<1>6. StandsAt(c + 1)'
  BY <1>2, <1>5, Zenon DEF StandsAt
<1> QED BY <1>5, <1>6

LEMMA OpenFile ==
  ASSUME ChainInv, DataInv, IsOpen
  PROVE  /\ OpenChain /\ OpenSlot /\ CurrentPlaced
         /\ OpenKnown /\ NotYetUsed /\ ReadSoFar /\ WroteSoFar /\ file.calls \in 0 .. 1
         /\ file.name \in Names
<1>1. file.name # "" /\ file \in FileTypes
  BY Zenon DEF IsOpen, ChainInv, Types
<1>2. file.name \in Names
  BY <1>1, Zenon DEF FileTypes
<1> QED BY <1>2, Zenon DEF ChainInv, DataInv

(* No file is open, or it is left as it was. *)
LEMMA DataClosed ==
  ASSUME KnownFiles(fat', data', root', content'), file' = Closed, op' = Idle
  PROVE  DataInv'
<1>1. ~ IsOpen'
  BY Zenon DEF IsOpen, Closed
<1>2. op'.kind \notin {"read", "write", "mark"}
  BY IdleKind
<1> QED BY <1>1, <1>2, Zenon DEF DataInv, Reading, Writing

LEMMA DataRests ==
  ASSUME DataInv, ChainInv, fat' = fat, data' = data, root' = root,
         content' = content, file' = file,
         op' = op \/ (op # Idle /\ op' \in {Idle, Hung})
  PROVE  DataInv'
<1>1. CASE op' = op
  BY <1>1, Zenon DEF DataInv, IsOpen, OpenKnown, NotYetUsed, ReadSoFar, WroteSoFar,
                     Reading, Writing, StandsAt
<1>2. CASE op # Idle /\ op' \in {Idle, Hung}
  <2>1. op'.kind \notin {"read", "write", "mark"}
    BY <1>2, IdleKind
  <2>2. Reading' /\ Writing'
    BY <2>1, Zenon DEF Reading, Writing
  <2>3. IsOpen => NotYetUsed'
    BY <1>2, Zenon DEF DataInv, NotYetUsed
  <2> QED BY <2>2, <2>3, Zenon DEF DataInv, IsOpen, OpenKnown, ReadSoFar, WroteSoFar
<1> QED BY <1>1, <1>2

LEMMA DataInit == Init => DataInv
<1> SUFFICES ASSUME Init PROVE DataInv
  OBVIOUS
<1>1. KnownFiles(fat, data, root, content)
  BY VolumesAssumption, Zenon DEF Init
<1>2. file = Closed /\ op = Idle
  BY Zenon DEF Init
<1>3. ~ IsOpen
  BY <1>2, Zenon DEF IsOpen, Closed
<1>4. op.kind \notin {"read", "write", "mark"}
  BY <1>2, IdleKind
<1> QED BY <1>1, <1>3, <1>4, Zenon DEF DataInv, Reading, Writing

LEMMA DataOpen ==
  ASSUME ChainInv, DataInv, Types', NEW name \in Names, fat32_open(name)
  PROVE  DataInv'
<1>1. PICK i \in DOMAIN root :
        /\ FirstSlotOf(name, i)
        /\ file' = [Closed EXCEPT !.name = name, !.first = root[i].first,
                                  !.current = root[i].first, !.size = root[i].size]
  BY Zenon DEF fat32_open
<1>2. /\ root \in Seq(Entries) /\ EmptiesTrail(root)
  BY Zenon DEF ChainInv, Types
<1>3. FirstOf(root, name, i)
  BY <1>1, <1>2, FilesAreFound, Zenon
<1>4. fat' = fat /\ data' = data /\ root' = root /\ content' = content /\ op' = op /\ op = Idle
  BY Zenon DEF fat32_open, disk
<1>5. file'.name = name /\ file'.dirty = FALSE
  BY <1>1, Zenon DEF Closed
<1>6. /\ file'.first = root[i].first /\ file'.current = root[i].first
      /\ file'.size = root[i].size /\ file'.pos = 0 /\ file'.calls = 0
      /\ file'.seen = << >> /\ file'.wrote = << >>
  BY <1>1 DEF Closed
<1>7. OpenKnown'
  <2>1. \A j \in DOMAIN root : FirstOf(root, name, j) => j = i
    BY <1>2, <1>3, FirstIsOne, Zenon
  <2> QED BY <1>4, <1>5, <1>6, <2>1, Zenon DEF OpenKnown
<1>8. NotYetUsed'
  BY <1>4, <1>5, <1>6, Zenon DEF NotYetUsed
<1>9. ReadSoFar'
  <2>1. file'.pos <= file'.size /\ Len(file'.seen) = file'.pos
    <3>1. file'.size \in Nat
      BY Fields, Zenon DEF Types
    <3> QED BY <3>1, <1>6
  <2> QED BY <1>6, <2>1, StoredNothing, Zenon DEF ReadSoFar
<1>10. WroteSoFar'
  BY <1>5, Zenon DEF WroteSoFar
<1>11. Reading' /\ Writing'
  <2>1. op'.kind \notin {"read", "write", "mark"}
    BY <1>4, IdleKind
  <2> QED BY <2>1, Zenon DEF Reading, Writing
<1>12. KnownFiles(fat, data, root, content)'
  BY <1>4, Zenon DEF DataInv
<1>13. file'.calls \in 0 .. 1
  BY <1>6
<1> QED BY <1>7, <1>8, <1>9, <1>10, <1>11, <1>12, <1>13, Zenon DEF DataInv

(* A new file has no bytes, and no file of that name is open. *)
LEMMA DataCreate ==
  ASSUME ChainInv, DataInv, ~ CreateTwice, NEW name \in Names, fat32_create_file(name)
  PROVE  DataInv'
<1> DEFINE entry == [kind |-> "file", name |-> name, first |-> 0, size |-> 0]
<1>1. PICK s \in DOMAIN root :
        /\ root[s].kind \in {"empty", "deleted"}
        /\ root' = [root EXCEPT ![s] = entry]
  BY Zenon DEF fat32_create_file
<1>2. entry.kind = "file" /\ entry.name = name /\ entry.first = 0 /\ entry.size = 0
  <2>1. entry.first = 0 /\ entry.size = 0
    OBVIOUS
  <2> QED BY <2>1, Zenon
<1> HIDE DEF entry
<1>3. /\ root \in Seq(Entries) /\ EmptiesTrail(root)
      /\ content \in [Names -> [known : BOOLEAN, bytes : Seq(Nat)]]
  BY Zenon DEF ChainInv, Types
<1>4. /\ DOMAIN root' = DOMAIN root /\ root'[s] = entry
      /\ \A j \in DOMAIN root : j # s => root'[j] = root[j]
  BY <1>1, <1>3
<1>5. /\ fat' = fat /\ data' = data /\ file' = file /\ op' = op /\ op = Idle
      /\ ~ Exists(name)
      /\ content' = [content EXCEPT ![name] = [known |-> TRUE, bytes |-> << >>]]
  BY Zenon DEF fat32_create_file
<1>6. /\ content'[name].bytes = << >>
      /\ \A n \in Names : n # name => content'[n] = content[n]
  BY <1>3, <1>5
<1>7. \A j \in DOMAIN root : ~ (root[j].kind = "file" /\ root[j].name = name)
  BY <1>3, <1>5, FilesAreFound, Zenon DEF Exists
<1>8. root[s].kind # "file"
  BY <1>1
<1>9. ASSUME NEW n \in Names, n # name, NEW i \in DOMAIN root, FirstOf(root', n, i)
      PROVE  i # s /\ root'[i] = root[i] /\ FirstOf(root, n, i)
  <2>1. root'[i].kind = "file" /\ root'[i].name = n
    BY <1>9, Zenon DEF FirstOf
  <2>2. i # s
    BY <2>1, <1>2, <1>4, <1>9, Zenon
  <2>3. root'[i] = root[i]
    BY <2>2, <1>4
  <2>4. ASSUME NEW j \in 1 .. i - 1 PROVE ~ (root[j].kind = "file" /\ root[j].name = n)
    <3>1. j \in DOMAIN root
      BY <1>3
    <3>2. CASE j = s
      BY <3>2, <1>8, Zenon
    <3>3. CASE j # s
      BY <3>1, <3>3, <1>4, <1>9, Zenon DEF FirstOf
    <3> QED BY <3>2, <3>3
  <2> QED BY <2>1, <2>2, <2>3, <2>4, Zenon DEF FirstOf
<1>10. KnownFiles(fat, data, root', content')
  <2> SUFFICES ASSUME NEW n \in Names, NEW i \in DOMAIN root,
                      FirstOf(root', n, i), content'[n].known
               PROVE  /\ root'[i].size = Len(content'[n].bytes)
                      /\ StoredIn(fat, data, root'[i].first, content'[n].bytes)
    BY <1>4, Zenon DEF KnownFiles
  <2>1. CASE n = name
    <3>1. i = s
      <4>1. root'[i].kind = "file" /\ root'[i].name = name
        BY <2>1, Zenon DEF FirstOf
      <4> QED BY <4>1, <1>4, <1>7, Zenon
    <3>2. root'[i].size = 0 /\ root'[i].first = 0
      BY <3>1, <1>2, <1>4, Zenon
    <3> QED BY <2>1, <3>2, <1>6, StoredNothing, Zenon
  <2>2. CASE n # name
    <3>1. root'[i] = root[i] /\ FirstOf(root, n, i)
      BY <2>2, <1>9
    <3>2. content'[n] = content[n]
      BY <2>2, <1>6
    <3> QED BY <3>1, <3>2, Zenon DEF DataInv, KnownFiles
  <2> QED BY <2>1, <2>2
<1>11. ASSUME IsOpen PROVE OpenKnown' /\ ReadSoFar'
  <2>1. file.name \in Names /\ OpenSlot /\ OpenKnown
    BY <1>11, OpenFile
  <2>2. file.name # name
    <3>1. PICK i \in DOMAIN root : FirstOf(root, file.name, i)
      BY <2>1, Zenon DEF OpenSlot
    <3> QED BY <3>1, <1>7, Zenon DEF FirstOf
  <2>3. content'[file.name] = content[file.name]
    BY <2>1, <2>2, <1>6
  <2>4. \A i \in DOMAIN root : FirstOf(root', file.name, i) =>
          root'[i] = root[i] /\ FirstOf(root, file.name, i)
    BY <2>1, <2>2, <1>9
  <2>5. ReadSoFar'
    BY <2>3, <1>5, <1>11, OpenFile, Zenon DEF ReadSoFar
  <2> QED BY <2>1, <2>3, <2>4, <2>5, <1>4, <1>5, Zenon DEF OpenKnown
<1>12. Reading' /\ Writing'
  <2>1. op'.kind \notin {"read", "write", "mark"}
    BY <1>5, IdleKind
  <2> QED BY <2>1, Zenon DEF Reading, Writing
<1> QED BY <1>5, <1>10, <1>11, <1>12, Zenon
        DEF DataInv, IsOpen, NotYetUsed, WroteSoFar

(* fat32_read and fat32_write are called. *)
LEMMA DataRead ==
  ASSUME ChainInv, DataInv, CallsPerOpen = 1, NEW size \in Nat, fat32_read(size)
  PROVE  DataInv'
<1>1. /\ op = Idle /\ IsOpen /\ ~ file.dirty
      /\ op' = [Idle EXCEPT !.kind = "read", !.size = size]
      /\ file' = [file EXCEPT !.calls = @ + 1]
      /\ fat' = fat /\ data' = data /\ root' = root /\ content' = content
  BY Zenon DEF fat32_read, disk
<1>2. file.calls < 1
  BY Zenon DEF fat32_read
<1>3. /\ file \in FileTypes /\ NotYetUsed /\ OpenKnown /\ ReadSoFar
      /\ file.calls \in 0 .. 1
  BY <1>1, OpenFile, Zenon DEF ChainInv, Types
<1>4. file.calls = 0
  BY <1>2, <1>3
<1>5. file.pos = 0 /\ file.current = file.first
  BY <1>3, <1>4, Zenon DEF NotYetUsed
<1>6. /\ file'.calls = file.calls + 1
      /\ file'.name = file.name /\ file'.first = file.first /\ file'.size = file.size
      /\ file'.current = file.current /\ file'.pos = file.pos
      /\ file'.seen = file.seen /\ file'.wrote = file.wrote /\ file'.dirty = file.dirty
  BY <1>1, <1>3, Zenon DEF FileTypes
<1>7. file'.calls = 1
  BY <1>4, <1>6
<1>8. op'.kind = "read" /\ op'.size = size /\ op'.done = 0
  BY <1>1, CallType, Zenon
<1>9. Reading'
  <2>1. 0 \in 0 .. LastCluster /\ 0 = 0 * ClusterBytes /\ 0 <= size
    BY Geometry, Bytes
  <2>2. StandsAt(0)'
    BY <1>5, <1>6, Zenon DEF StandsAt
  <2> QED BY <2>1, <2>2, <1>1, <1>5, <1>6, <1>8, Zenon DEF Reading
<1>10. Writing'
  BY <1>8 DEF Writing
<1>11. NotYetUsed'
  BY <1>7 DEF NotYetUsed
<1>12. OpenKnown' /\ ReadSoFar' /\ WroteSoFar'
  BY <1>1, <1>3, <1>6, Zenon DEF OpenKnown, ReadSoFar, WroteSoFar
<1>13. KnownFiles(fat, data, root, content)'
  BY <1>1, Zenon DEF DataInv
<1>14. file'.calls \in 0 .. 1
  BY <1>7
<1> QED BY <1>9, <1>10, <1>11, <1>12, <1>13, <1>14, Zenon DEF DataInv

LEMMA DataWrite ==
  ASSUME ChainInv, DataInv, CallsPerOpen = 1, NEW size \in Nat, fat32_write(size)
  PROVE  DataInv'
<1>1. /\ op = Idle /\ IsOpen
      /\ op' = [Idle EXCEPT !.kind = "write", !.size = size]
      /\ file' = [file EXCEPT !.calls = @ + 1, !.dirty = TRUE]
      /\ content' = [content EXCEPT ![file.name].known = FALSE]
      /\ fat' = fat /\ data' = data /\ root' = root
  BY Zenon DEF fat32_write, disk
<1>2. file.calls < 1
  BY Zenon DEF fat32_write
<1>3. /\ file \in FileTypes /\ NotYetUsed /\ file.calls \in 0 .. 1 /\ file.name \in Names
      /\ content \in [Names -> [known : BOOLEAN, bytes : Seq(Nat)]]
  BY <1>1, OpenFile, Zenon DEF ChainInv, Types
<1>4. file.calls = 0
  BY <1>2, <1>3
<1>5. file.wrote = << >> /\ file.current = file.first
  BY <1>3, <1>4, Zenon DEF NotYetUsed
<1>6. /\ file'.calls = file.calls + 1 /\ file'.dirty = TRUE
      /\ file'.name = file.name /\ file'.first = file.first
      /\ file'.current = file.current /\ file'.wrote = file.wrote
  BY <1>1, <1>3, Zenon DEF FileTypes
<1>7. file'.calls = 1
  BY <1>4, <1>6
<1>8. op'.kind = "write" /\ op'.size = size /\ op'.done = 0 /\ op'.sector = 0
  BY <1>1, CallType, Zenon
<1>9. Writing'
  <2>1. /\ 0 \in 0 .. LastCluster /\ 0 <= size /\ ~ (0 > 0)
        /\ 0 = 0 * ClusterBytes + 0 * bytes_per_sector
    BY Geometry, Bytes, Sectors
  <2>2. StandsAt(0)'
    BY <1>5, <1>6, Zenon DEF StandsAt
  <2>3. op'.kind # "mark" /\ Len(file'.wrote) = 0
    BY <1>5, <1>6, <1>8
  <2> QED BY <2>1, <2>2, <2>3, <1>6, <1>8, Zenon DEF Writing
<1>10. Reading'
  BY <1>8 DEF Reading
<1>11. NotYetUsed'
  BY <1>7 DEF NotYetUsed
<1>12. ~ content'[file.name].known
  <2>1. content[file.name] \in [known : BOOLEAN, bytes : Seq(Nat)]
    BY <1>3, Zenon
  <2> QED BY <2>1, <1>1, <1>3, Zenon
<1>13. OpenKnown' /\ ReadSoFar'
  BY <1>6, <1>12, Zenon DEF OpenKnown, ReadSoFar
<1>14. WroteSoFar'
  BY <1>5, <1>6, StoredNothing, Zenon DEF WroteSoFar
<1>15. KnownFiles(fat', data', root', content')
  <2>1. \A n \in Names : content'[n].known => content'[n] = content[n]
    <3> TAKE n \in Names
    <3>1. CASE n = file.name
      BY <3>1, <1>12, Zenon
    <3>2. CASE n # file.name
      BY <3>2, <1>1, <1>3, Zenon
    <3> QED BY <3>1, <3>2
  <2> QED BY <2>1, <1>1, Zenon DEF DataInv, KnownFiles
<1>16. file'.calls \in 0 .. 1
  BY <1>7
<1> QED BY <1>9, <1>10, <1>11, <1>13, <1>14, <1>15, <1>16, Zenon DEF DataInv

(* While a read of a known file goes on, the file stands in its chain.     *)
LEMMA KnownStands ==
  ASSUME ChainInv, DataInv, IsOpen, content[file.name].known, op.kind = "read",
         op.done < op.size, file.pos < file.size
  PROVE  /\ \E c \in 0 .. LastCluster : StandsAt(c) /\ op.done = c * ClusterBytes
         /\ file.current \in DataClusters
<1> DEFINE bytes == content[file.name].bytes
<1>1. /\ OpenSlot /\ OpenKnown /\ file.name \in Names
      /\ file \in FileTypes /\ op \in OpTypes
      /\ content \in [Names -> [known : BOOLEAN, bytes : Seq(Nat)]]
      /\ KnownFiles(fat, data, root, content)
  BY OpenFile, Zenon DEF ChainInv, Types, DataInv
<1>2. /\ bytes \in Seq(Nat)
      /\ file.size \in Nat /\ file.pos \in Nat /\ op.size \in Nat /\ op.done \in Nat
  <2>1. content[file.name] \in [known : BOOLEAN, bytes : Seq(Nat)]
    BY <1>1, Zenon
  <2> QED BY <2>1, <1>1, Fields, Zenon
<1>3. PICK i \in DOMAIN root : FirstOf(root, file.name, i)
  BY <1>1, Zenon DEF OpenSlot
<1>4. root[i].first = file.first /\ root[i].size = file.size
  BY <1>1, <1>3, Zenon DEF OpenKnown
<1>5. file.size = Len(bytes) /\ StoredIn(fat, data, file.first, bytes)
  BY <1>1, <1>3, <1>4, Zenon DEF KnownFiles
<1> HIDE DEF bytes
<1>6. op.done = file.pos /\ op.done # op.size /\ file.pos # file.size
  BY <1>2 DEF DataInv, Reading
<1>7. PICK c \in 0 .. LastCluster : StandsAt(c) /\ op.done = c * ClusterBytes
  BY <1>6, Zenon DEF DataInv, Reading
<1>8. ChainIn(fat, file.first)[c] # 0
  <2> DEFINE base == c * ClusterBytes
  <2>1. c \in Nat /\ 0 \in 0 .. ClusterBytes - 1
    BY Geometry, Bytes
  <2>2. base + 0 < Len(bytes)
    <3>1. base = op.done
      BY <1>7
    <3> HIDE DEF base
    <3> QED BY <3>1, <1>2, <1>5, <1>6
  <2>3. StoredAt(fat, data, file.first, bytes)
    BY <1>2, <1>5, Places, Zenon
  <2> QED BY <2>1, <2>2, <2>3, Zenon DEF StoredAt
<1> QED BY <1>7, <1>8, Standing, Zenon

(* A cluster is read. *)
LEMMA DataReadCluster ==
  ASSUME ChainInv, DataInv, read_cluster
  PROVE  DataInv'
<1> PICK bytes \in BytesAt(file.current) :
      file' = [file EXCEPT !.seen = @ \o SubSeq(bytes, 1, wanted),
                           !.pos = @ + wanted, !.current = fat[file.current]]
  BY Zenon DEF read_cluster
<1> DEFINE chain == ChainIn(fat, file.first)
           more  == SubSeq(bytes, 1, wanted)
<1>1. /\ op.kind = "read" /\ ~ ReadIsOver
      /\ file' = [file EXCEPT !.seen = @ \o more, !.pos = @ + wanted,
                              !.current = fat[file.current]]
      /\ op' = [op EXCEPT !.done = @ + wanted]
      /\ fat' = fat /\ data' = data /\ root' = root /\ content' = content
  BY Zenon DEF read_cluster, disk
<1>2. op # Idle /\ IsOpen
  <2>1. op # Idle
    BY <1>1, IdleKind
  <2> QED BY <2>1, OpenIsBusy
<1>3. /\ file \in FileTypes /\ op \in OpTypes
      /\ data \in [DataClusters -> [1 .. ClusterBytes -> Nat]]
      /\ OpenChain /\ OpenKnown /\ NotYetUsed /\ ReadSoFar /\ file.calls \in 0 .. 1
  BY <1>2, OpenFile, Zenon DEF ChainInv, Types
<1>4. /\ file.size \in Nat /\ file.pos \in Nat /\ op.size \in Nat /\ op.done \in Nat
      /\ file.seen \in Seq(Nat) /\ file.calls \in Nat
  BY <1>3, Fields, Zenon
<1>5. ~ file.dirty /\ op.done = file.pos
  BY <1>1, Zenon DEF DataInv, Reading
<1>6. file.pos < file.size /\ op.done < op.size
  BY <1>1, <1>4 DEF ReadIsOver
<1>9. /\ wanted \in 0 .. ClusterBytes
      /\ wanted <= op.size - op.done /\ wanted <= file.size - file.pos
      /\ wanted = ClusterBytes \/ wanted = op.size - op.done \/ wanted = file.size - file.pos
  BY <1>1, <1>4, Wanted
<1>10. /\ more \in Seq(Nat) /\ Len(more) = wanted
       /\ \A i \in 1 .. Len(more) : more[i] = bytes[i]
  <2> DEFINE old == bytes
  <2>1. old \in [1 .. ClusterBytes -> Nat]
    BY <1>3, BytesRead, Zenon
  <2> HIDE DEF old
  <2>2. ClusterBytes \in Nat
    BY Bytes
  <2>3. old \in Seq(Nat) /\ Len(old) = ClusterBytes
    BY <2>1, <2>2
  <2>4. /\ SubSeq(old, 1, wanted) \in Seq(Nat)
        /\ Len(SubSeq(old, 1, wanted)) = wanted
        /\ \A i \in 1 .. wanted : SubSeq(old, 1, wanted)[i] = old[i]
    BY <2>2, <2>3, <1>9
  <2> QED BY <2>4, Zenon DEF old
<1> HIDE DEF more
<1>11. /\ file'.seen = file.seen \o more /\ file'.pos = file.pos + wanted
       /\ file'.current = fat[file.current]
       /\ file'.first = file.first /\ file'.name = file.name /\ file'.size = file.size
       /\ file'.dirty = file.dirty /\ file'.calls = file.calls
       /\ op'.kind = op.kind /\ op'.done = op.done + wanted /\ op'.size = op.size
  BY <1>1, <1>3, Zenon DEF FileTypes, OpTypes
<1>12. file'.pos \in Nat /\ file'.pos <= file.size /\ op'.done <= op.size
       /\ op'.done = file'.pos
  BY <1>4, <1>5, <1>9, <1>11, Bytes
<1> DEFINE Known == content[file.name].known
<1>7. Len(file'.seen) = file'.pos
  <2>1. Len(file.seen \o more) = Len(file.seen) + Len(more)
    BY <1>4, <1>10, Joined, Zenon
  <2> QED BY <2>1, <1>3, <1>5, <1>10, <1>11 DEF ReadSoFar
<1>8. ASSUME Known
      PROVE  \E c \in 0 .. LastCluster :
               /\ StandsAt(c) /\ op.done = c * ClusterBytes
               /\ file.current \in DataClusters
               /\ chain[c] = file.current /\ chain[c] # 0
               /\ bytes = data[file.current]
  <2>1. /\ \E c \in 0 .. LastCluster : StandsAt(c) /\ op.done = c * ClusterBytes
        /\ file.current \in DataClusters
    BY <1>1, <1>2, <1>6, <1>8, KnownStands, Zenon
  <2>2. bytes = data[file.current]
    BY <2>1 DEF BytesAt
  <2> QED BY <2>1, <2>2, Standing, Geometry, Zenon
<1>13. Known => StoredIn(fat, data, file.first, file'.seen)
  <2> SUFFICES ASSUME Known PROVE StoredIn(fat, data, file.first, file.seen \o more)
    BY <1>11, Zenon
  <2> PICK c \in 0 .. LastCluster :
        /\ StandsAt(c) /\ op.done = c * ClusterBytes
        /\ chain[c] = file.current /\ chain[c] # 0 /\ bytes = data[file.current]
    BY <1>8, Zenon
  <2>1. /\ StoredIn(fat, data, file.first, file.seen)
        /\ Len(file.seen) = file.pos
    BY <1>3, <1>5, Zenon DEF ReadSoFar
  <2>2. /\ Len(file.seen) = c * ClusterBytes + 0 /\ 0 + Len(more) <= ClusterBytes
        /\ \A i \in 1 .. Len(more) : more[i] = data[chain[c]][0 + i]
    <3>1. Len(file.seen) = c * ClusterBytes
      BY <2>1, <1>5, Zenon
    <3> DEFINE base == c * ClusterBytes
    <3>2. Len(file.seen) = base /\ base = base + 0
      BY <3>1
    <3>3. 0 + Len(more) <= ClusterBytes
      BY <1>9, <1>10, Bytes
    <3>4. ASSUME NEW i \in 1 .. Len(more) PROVE more[i] = data[chain[c]][0 + i]
      <4>1. 0 + i = i
        OBVIOUS
      <4> QED BY <4>1, <1>10, Zenon
    <3> QED BY <3>2, <3>3, <3>4
  <2>3. 0 \in Nat
    OBVIOUS
  <2> QED BY <2>1, <2>2, <2>3, <1>4, <1>10, StoredMore, Zenon
<1>14. ReadSoFar'
  BY <1>1, <1>7, <1>11, <1>12, <1>13, Zenon DEF ReadSoFar
<1>18. Reading'
  <2>1. ASSUME Known, wanted = ClusterBytes
        PROVE  \E c \in 0 .. LastCluster :
                 StandsAt(c)' /\ op'.done = c * ClusterBytes
    <3> PICK c \in 0 .. LastCluster :
          StandsAt(c) /\ op.done = c * ClusterBytes /\ file.current \in DataClusters
      BY <1>8, <2>1, Zenon
    <3>1. c + 1 \in 0 .. LastCluster /\ StandsAt(c + 1)'
      BY <1>1, <1>3, <1>11, StandsNext, Zenon
    <3>2. op'.done = (c + 1) * ClusterBytes
      <4>1. \A a, b \in Nat : a * b + b = (a + 1) * b
        BY Z3
      <4>2. c \in Nat
        BY Geometry
      <4> QED BY <4>1, <4>2, <2>1, <1>11, Bytes, Zenon
    <3> QED BY <3>1, <3>2, Zenon
  <2>2. ASSUME wanted = op.size - op.done \/ wanted = file.size - file.pos
        PROVE  op'.done = op'.size \/ file'.pos = file'.size
    BY <2>2, <1>4, <1>11
  <2> QED BY <2>1, <2>2, <1>1, <1>5, <1>9, <1>11, <1>12, Zenon DEF Reading
<1>15. NotYetUsed' /\ OpenKnown' /\ WroteSoFar'
  <2>1. file.calls # 0
    BY <1>2, <1>3, Zenon DEF NotYetUsed
  <2> QED BY <2>1, <1>1, <1>3, <1>5, <1>11, Zenon DEF NotYetUsed, OpenKnown, WroteSoFar
<1>16. Writing'
  BY <1>1, <1>11 DEF Writing
<1>17. KnownFiles(fat, data, root, content)' /\ file'.calls \in 0 .. 1
  BY <1>1, <1>3, <1>11, Zenon DEF DataInv
<1> QED BY <1>14, <1>15, <1>16, <1>17, <1>18, Zenon DEF DataInv

(* The file that is written is not a known one. *)
LEMMA WritesUnknown ==
  ASSUME ChainInv, DataInv, op.kind \in {"write", "mark"}
  PROVE  /\ IsOpen /\ op # Idle /\ file.dirty /\ ~ content[file.name].known
         /\ file.calls # 0 /\ file.calls \in 0 .. 1 /\ WroteSoFar /\ OpenChain /\ OpenSlot
<1>1. op # Idle
  BY IdleKind
<1>2. IsOpen
  BY <1>1, OpenIsBusy
<1>3. file.dirty
  BY Zenon DEF DataInv, Writing
<1> QED BY <1>1, <1>2, <1>3, OpenFile, Zenon DEF OpenKnown, NotYetUsed

(* What a step of fat32_write has to keep. *)
LEMMA DataWriting ==
  ASSUME ChainInv, DataInv, op.kind \in {"write", "mark"},
         op'.kind \in {"write", "mark"},
         content' = content, file'.name = file.name, file'.dirty = file.dirty,
         file'.calls = file.calls,
         KnownFiles(fat', data', root', content'), WroteSoFar', Writing'
  PROVE  DataInv'
<1>1. /\ IsOpen /\ file.dirty /\ ~ content[file.name].known
      /\ file.calls # 0 /\ file.calls \in 0 .. 1
  BY WritesUnknown
<1>2. Reading'
  BY DEF Reading
<1>3. OpenKnown' /\ NotYetUsed' /\ ReadSoFar'
  BY <1>1, Zenon DEF OpenKnown, NotYetUsed, ReadSoFar
<1> QED BY <1>1, <1>2, <1>3, Zenon DEF DataInv

LEMMA DataFirst ==
  ASSUME ChainInv, DataInv, NEW cluster, write_first_cluster(cluster)
  PROVE  DataInv'
<1>1. /\ op.kind = "write" /\ file.current = 0
      /\ file' = [file EXCEPT !.first = cluster, !.current = cluster]
      /\ op' = [op EXCEPT !.kind = "mark", !.cluster = cluster]
      /\ fat' = fat /\ data' = data /\ root' = root /\ content' = content
  BY Zenon DEF write_first_cluster, disk
<1>2. op.done < op.size
  BY Zenon DEF write_first_cluster
<1>3. /\ file \in FileTypes /\ op \in OpTypes
  BY Zenon DEF ChainInv, Types
<1>4. /\ file'.first = cluster /\ file'.current = cluster
      /\ file'.name = file.name /\ file'.dirty = file.dirty /\ file'.calls = file.calls
      /\ file'.wrote = file.wrote
      /\ op'.kind = "mark" /\ op'.done = op.done /\ op'.size = op.size /\ op'.sector = op.sector
  BY <1>1, <1>3, Zenon DEF FileTypes, OpTypes
<1>5. IsOpen /\ CurrentPlaced
  BY <1>1, WritesUnknown, Zenon DEF ChainInv
<1>6. file.first = 0
  BY <1>1, <1>5, Zenon DEF CurrentPlaced
<1>7. op.sector = 0
  <2>1. ~ (op.sector > 0)
    BY <1>1, Geometry, Zenon DEF DataInv, Writing
  <2>2. op.sector \in 0 .. sectors_per_cluster - 1
    BY <1>3, Fields, Zenon
  <2> QED BY <2>1, <2>2, Sectors
<1>8. PICK c \in 0 .. LastCluster :
        StandsAt(c) /\ op.done = c * ClusterBytes + op.sector * bytes_per_sector
  BY <1>1, <1>2, Zenon DEF DataInv, Writing
<1>9. c = 0
  <2>1. ChainClusters(fat, 0) = {}
    BY NoChain, Geometry
  <2>2. \A k \in 0 .. LastCluster : ChainIn(fat, 0)[k] = 0
    BY <2>1, ClustersOfChain
  <2>3. c # 0 => c - 1 \in 0 .. LastCluster
    BY Geometry
  <2> QED BY <2>2, <2>3, <1>6, <1>8, Zenon DEF StandsAt
<1>10. op.done = 0
  BY <1>7, <1>8, <1>9, Bytes, Sectors
<1>11. file.dirty /\ op.done = Len(file.wrote) /\ op.done <= op.size
  BY <1>1, Zenon DEF DataInv, Writing
<1>12. file.wrote = << >>
  <2>1. file.wrote \in Seq(Nat)
    BY <1>3, Fields, Zenon
  <2> QED BY <2>1, <1>10, <1>11
<1>13. WroteSoFar'
  BY <1>4, <1>12, StoredNothing, Zenon DEF WroteSoFar
<1>14. Writing'
  <2>1. /\ 0 \in 0 .. LastCluster /\ ~ (0 > 0)
        /\ 0 = 0 * ClusterBytes + 0 * bytes_per_sector
    BY Geometry, Bytes, Sectors
  <2>2. StandsAt(0)'
    BY <1>4, Zenon DEF StandsAt
  <2> QED BY <2>1, <2>2, <1>4, <1>7, <1>10, <1>11, Zenon DEF Writing
<1>15. KnownFiles(fat, data, root, content)'
  BY <1>1, Zenon DEF DataInv
<1> QED BY <1>1, <1>4, <1>13, <1>14, <1>15, DataWriting, Zenon

LEMMA DataMark ==
  ASSUME ChainInv, DataInv, write_mark_end
  PROVE  DataInv'
<1>1. /\ op.kind = "mark" /\ fat' = [fat EXCEPT ![op.cluster] = FAT32_EOC]
      /\ op' = [op EXCEPT !.kind = "write", !.cluster = 0]
      /\ data' = data /\ root' = root /\ content' = content /\ file' = file
  BY Zenon DEF write_mark_end
<1>2. /\ fat \in [FatIndex -> 0 .. FAT32_EOC] /\ file \in FileTypes /\ op \in OpTypes
      /\ root \in Seq(Entries) /\ content \in [Names -> [known : BOOLEAN, bytes : Seq(Nat)]]
  BY Zenon DEF ChainInv, Types
<1>3. op.cluster \in FatIndex /\ fat[op.cluster] = FREE
  BY <1>1, Zenon DEF ChainInv, MarkPending
<1>4. \A first : ChainIn(fat', first) = ChainIn(fat, first)
  BY <1>1, <1>2, <1>3, MarkKeepsChains, Zenon
<1>5. op'.kind = "write" /\ op'.done = op.done /\ op'.size = op.size /\ op'.sector = op.sector
  BY <1>1, <1>2, Zenon DEF OpTypes
<1>6. KnownFiles(fat', data', root', content')
  <2> SUFFICES ASSUME NEW name \in Names, NEW i \in DOMAIN root,
                      FirstOf(root, name, i), content[name].known
               PROVE  /\ root[i].size = Len(content[name].bytes)
                      /\ StoredIn(fat', data, root[i].first, content[name].bytes)
    BY <1>1, Zenon DEF KnownFiles
  <2>1. /\ root[i].size = Len(content[name].bytes)
        /\ StoredIn(fat, data, root[i].first, content[name].bytes)
    BY Zenon DEF DataInv, KnownFiles
  <2>2. content[name].bytes \in Seq(Nat)
    BY <1>2
  <2> QED BY <2>1, <2>2, <1>4, StoredSame, Zenon
<1>7. /\ file.dirty /\ op.done = Len(file.wrote) /\ op.done <= op.size
      /\ file.first = file.current /\ op.done = 0 /\ op.sector = 0
  BY <1>1, Zenon DEF DataInv, Writing
<1>8. WroteSoFar'
  <2>1. file.wrote \in Seq(Nat) /\ StoredIn(fat, data, file.first, file.wrote)
    BY <1>1, <1>2, <1>7, WritesUnknown, Fields, Zenon DEF WroteSoFar
  <2> QED BY <2>1, <1>1, <1>4, StoredSame, Zenon DEF WroteSoFar
<1>9. Writing'
  <2>1. /\ 0 \in 0 .. LastCluster /\ ~ (0 > 0)
        /\ 0 = 0 * ClusterBytes + 0 * bytes_per_sector
    BY Geometry, Bytes, Sectors
  <2>2. StandsAt(0)'
    BY <1>1, <1>7, Zenon DEF StandsAt
  <2>3. op'.kind # "mark"
    BY <1>5
  <2> QED BY <2>1, <2>2, <2>3, <1>1, <1>5, <1>7, Zenon DEF Writing
<1> QED BY <1>1, <1>5, <1>6, <1>8, <1>9, DataWriting, Zenon

(* What is written behind the stored bytes leaves them alone. *)
LEMMA StoredUnder ==
  ASSUME NEW table, NEW clusters, NEW others, NEW first, NEW bytes \in Seq(Nat),
         NEW c \in 0 .. LastCluster, NEW from \in Nat,
         \A j, k \in 0 .. LastCluster :
           ChainIn(table, first)[k] # 0 /\ ChainIn(table, first)[j] = ChainIn(table, first)[k] => j = k,
         ChainIn(table, first)[c] # 0,
         StoredIn(table, clusters, first, bytes),
         Len(bytes) = c * ClusterBytes + from,
         \A k \in DataClusters : k # ChainIn(table, first)[c] => others[k] = clusters[k],
         \A b \in 1 .. from :
           others[ChainIn(table, first)[c]][b] = clusters[ChainIn(table, first)[c]][b]
  PROVE  StoredIn(table, others, first, bytes)
<1> DEFINE chain == ChainIn(table, first)
<1> SUFFICES ASSUME NEW q \in Nat, NEW r \in 0 .. ClusterBytes - 1,
                    q * ClusterBytes + r < Len(bytes)
             PROVE  /\ q \in 0 .. LastCluster /\ chain[q] # 0
                    /\ bytes[q * ClusterBytes + r + 1] = others[chain[q]][r + 1]
  <2>1. StoredAt(table, others, first, bytes)
    BY Zenon DEF StoredAt
  <2> QED BY <2>1, Places
<1>1. /\ q \in 0 .. LastCluster /\ chain[q] # 0
      /\ bytes[q * ClusterBytes + r + 1] = clusters[chain[q]][r + 1]
  <2>1. StoredAt(table, clusters, first, bytes)
    BY Places
  <2> QED BY <2>1, Zenon DEF StoredAt
<1>2. others[chain[q]][r + 1] = clusters[chain[q]][r + 1]
  <2>1. CASE q # c
    <3>1. chain[q] # chain[c]
      BY <2>1, <1>1, Zenon
    <3>2. chain[q] \in DataClusters
      BY <1>1, ClustersOfChain
    <3> QED BY <3>1, <3>2, Zenon
  <2>2. CASE q = c
    <3> DEFINE base == c * ClusterBytes
    <3>1. base \in Nat /\ base + r < base + from
      <4>1. base \in Nat
        BY Geometry, Bytes, Offset, Z3
      <4>2. q * ClusterBytes = base
        BY <2>2, Zenon
      <4> QED BY <4>1, <4>2
    <3> HIDE DEF base
    <3>2. r + 1 \in 1 .. from
      BY <3>1, Bytes
    <3> QED BY <3>2, <2>2, Zenon
  <2> QED BY <2>1, <2>2
<1> QED BY <1>1, <1>2, Zenon

(* A sector is written. *)
LEMMA DataSector ==
  ASSUME ChainInv, DataInv, write_sector
  PROVE  DataInv'
<1> DEFINE left  == op.size - op.done
           n     == IF left < bytes_per_sector THEN left ELSE bytes_per_sector
           from  == op.sector * bytes_per_sector
           last  == op.sector = sectors_per_cluster - 1
           old   == data[file.current]
           new   == [b \in 1 .. ClusterBytes |->
                      IF b \in from + 1 .. from + n
                        THEN BufferByte(writes, op.done + b - from) ELSE old[b]]
           more  == [i \in 1 .. n |-> BufferByte(writes, op.done + i)]
           chain == ChainIn(fat, file.first)
<1>1. /\ op.kind = "write" /\ file.current \in DataClusters
      /\ data' = [data EXCEPT ![file.current] = new]
      /\ op' = [op EXCEPT !.done = @ + n, !.sector = IF last THEN 0 ELSE @ + 1]
      /\ file' = [file EXCEPT !.pos = @ + n, !.wrote = @ \o more,
                              !.current = IF last THEN fat[@] ELSE @]
      /\ fat' = fat /\ root' = root /\ content' = content
  <2>1. data \in [DataClusters -> [1 .. ClusterBytes -> Nat]]
    BY Zenon DEF ChainInv, Types
  <2> QED BY <2>1 DEF write_sector
<1>2. /\ file \in FileTypes /\ op \in OpTypes /\ op.done <= op.size
      /\ data \in [DataClusters -> [1 .. ClusterBytes -> Nat]]
      /\ root \in Seq(Entries) /\ writes \in 0 .. MaxWrites
      /\ content \in [Names -> [known : BOOLEAN, bytes : Seq(Nat)]]
  BY Zenon DEF ChainInv, Types
<1>3. /\ op.size \in Nat /\ op.done \in Nat /\ file.wrote \in Seq(Nat)
      /\ op.sector \in 0 .. sectors_per_cluster - 1
  BY <1>2, Fields, Zenon
<1>4. /\ IsOpen /\ file.dirty /\ ~ content[file.name].known
      /\ WroteSoFar /\ OpenChain /\ OpenSlot
  BY <1>1, WritesUnknown, Zenon
<1>5. /\ op.done = Len(file.wrote)
      /\ StoredIn(fat, data, file.first, file.wrote)
  BY <1>1, <1>4, Zenon DEF DataInv, Writing, WroteSoFar
<1>6. PICK c \in 0 .. LastCluster :
        /\ StandsAt(c)
        /\ op.done < op.size => op.done = c * ClusterBytes + from
  BY <1>1, Zenon DEF DataInv, Writing
<1>7. chain[c] = file.current /\ chain[c] # 0
  BY <1>1, <1>6, Standing, Geometry
<1>8. /\ n \in 0 .. bytes_per_sector /\ n <= left /\ op.done + n \in Nat
      /\ from \in Nat /\ from + bytes_per_sector <= ClusterBytes
      /\ last => from + bytes_per_sector = ClusterBytes
  BY <1>2, SectorBytes
<1>9. n = left \/ n = bytes_per_sector
  OBVIOUS
<1>10. writes \in Nat
  BY <1>2
<1>11. left \in Nat /\ bytes_per_sector \in Nat /\ ClusterBytes \in Nat /\ n \in Nat
  BY <1>2, <1>3, <1>8, Sectors, Bytes
<1>12. more \in Seq(Nat) /\ Len(more) = n /\ \A i \in 1 .. n : more[i] = BufferByte(writes, op.done + i)
  <2> HIDE DEF n
  <2> QED BY <1>3, <1>10, <1>11 DEF BufferByte
<1>13. /\ op'.kind = op.kind /\ op'.size = op.size /\ op'.done = op.done + n
       /\ op'.sector = IF last THEN 0 ELSE op.sector + 1
       /\ file'.name = file.name /\ file'.dirty = file.dirty /\ file'.calls = file.calls
       /\ file'.first = file.first /\ file'.wrote = file.wrote \o more
       /\ file'.current = IF last THEN fat[file.current] ELSE file.current
  <2> HIDE DEF n, more, last
  <2> QED BY <1>1, <1>2, Zenon DEF FileTypes, OpTypes
<1>14. /\ data' \in [DataClusters -> [1 .. ClusterBytes -> Nat]] \/ DOMAIN data' = DataClusters
       /\ \A k \in DataClusters : k # file.current => data'[k] = data[k]
       /\ data'[file.current] = new
  <2> HIDE DEF new
  <2> QED BY <1>1, <1>2, Zenon
<1> HIDE DEF n, more, from
(* the bytes of the file *)
<1>15. ASSUME op.done < op.size PROVE WroteSoFar'
  <2>1. op.done = c * ClusterBytes + from
    BY <1>6, <1>15
  <2>2. \A b \in 1 .. from : new[b] = old[b]
    BY <1>8, <1>11
  <2>3. \A i \in 1 .. n : new[from + i] = more[i]
    <3> TAKE i \in 1 .. n
    <3>1. from + i \in 1 .. ClusterBytes /\ from + i \in from + 1 .. from + n
      BY <1>8, <1>11
    <3>2. op.done + (from + i) - from = op.done + i
      BY <1>3, <1>8
    <3>3. new[from + i] = BufferByte(writes, op.done + (from + i) - from)
      BY <3>1, Zenon
    <3> QED BY <3>2, <3>3, <1>12, Zenon
  <2> HIDE DEF new, old
  <2>4. StoredIn(fat, data', file.first, file.wrote)
    <3>1. \A b \in 1 .. from : data'[chain[c]][b] = data[chain[c]][b]
      BY <2>2, <1>7, <1>14, Zenon DEF old
    <3>2. \A k \in DataClusters : k # chain[c] => data'[k] = data[k]
      BY <1>7, <1>14, Zenon
    <3>3. Len(file.wrote) = c * ClusterBytes + from
      BY <2>1, <1>5, Zenon
    <3>4. \A j, k \in 0 .. LastCluster : chain[k] # 0 /\ chain[j] = chain[k] => j = k
      BY <1>4, Zenon DEF OpenChain
    <3>5. chain[c] # 0 /\ from \in Nat /\ c \in 0 .. LastCluster
      BY <1>7, <1>8
    <3> QED BY <3>1, <3>2, <3>3, <3>4, <3>5, <1>3, <1>5, StoredUnder, Zenon
  <2>5. StoredIn(fat, data', file.first, file.wrote \o more)
    <3>1. \A i \in 1 .. Len(more) : more[i] = data'[chain[c]][from + i]
      BY <2>3, <1>7, <1>12, <1>14, Zenon
    <3>2. from + Len(more) <= ClusterBytes
      BY <1>8, <1>11, <1>12
    <3>3. Len(file.wrote) = c * ClusterBytes + from
      BY <2>1, <1>5, Zenon
    <3> QED BY <2>4, <3>1, <3>2, <3>3, <1>3, <1>7, <1>8, <1>12, StoredMore, Zenon
  <2> QED BY <2>5, <1>1, <1>13, Zenon DEF WroteSoFar
<1>16. ASSUME ~ (op.done < op.size) PROVE WroteSoFar'
  <2>1. n = 0
    BY <1>2, <1>3, <1>8, <1>11, <1>16
  <2>2. new = old
    <3>1. old \in [1 .. ClusterBytes -> Nat]
      BY <1>1, <1>2, Zenon
    <3>2. \A b \in 1 .. ClusterBytes : b \notin from + 1 .. from + n
      BY <2>1, <1>8
    <3> HIDE DEF old
    <3>3. new = [b \in 1 .. ClusterBytes |-> old[b]]
      BY <3>2, Zenon
    <3> QED BY <3>1, <3>3
  <2>3. more = << >>
    BY <2>1, <1>12
  <2>4. file'.wrote = file.wrote
    BY <2>3, <1>3, <1>13
  <2>5. \A k \in ChainClusters(fat, file.first) : data'[k] = data[k]
    BY <2>2, <1>14, ClustersOfChain, Zenon
  <2>6. StoredIn(fat, data', file.first, file.wrote)
    BY <2>5, <1>3, <1>5, StoredSame, Zenon
  <2> QED BY <2>4, <2>6, <1>1, <1>13, Zenon DEF WroteSoFar
(* the other files *)
<1>17. KnownFiles(fat', data', root', content')
  <2> SUFFICES ASSUME NEW name \in Names, NEW i \in DOMAIN root,
                      FirstOf(root, name, i), content[name].known
               PROVE  /\ root[i].size = Len(content[name].bytes)
                      /\ StoredIn(fat, data', root[i].first, content[name].bytes)
    BY <1>1, Zenon DEF KnownFiles
  <2>1. /\ root[i].size = Len(content[name].bytes)
        /\ StoredIn(fat, data, root[i].first, content[name].bytes)
    BY Zenon DEF DataInv, KnownFiles
  <2>2. content[name].bytes \in Seq(Nat)
    BY <1>2
  <2>3. PICK s \in DOMAIN root :
          /\ FirstOf(root, file.name, s)
          /\ \A j \in DOMAIN root \ {s} :
               root[j].kind = "file" => Disjoint(fat, file.first, root[j].first)
    BY <1>4, Zenon DEF OpenSlot
  <2>4. i # s /\ root[i].kind = "file"
    BY <2>3, <1>4, Zenon DEF FirstOf
  <2>5. Disjoint(fat, file.first, root[i].first)
    BY <2>3, <2>4
  <2>6. file.current \in ChainClusters(fat, file.first)
    BY <1>7, ClustersOfChain
  <2>7. file.current \notin ChainClusters(fat, root[i].first)
    BY <2>5, <2>6 DEF Disjoint
  <2>8. \A k \in ChainClusters(fat, root[i].first) : data'[k] = data[k]
    BY <2>7, <1>14, ClustersOfChain
  <2> QED BY <2>1, <2>2, <2>8, StoredSame, Zenon
(* where the call stands *)
<1>18. op'.done = Len(file'.wrote) /\ op'.done <= op'.size
  <2>1. Len(file.wrote \o more) = Len(file.wrote) + Len(more)
    BY <1>3, <1>12, Joined, Zenon
  <2>2. op.done + n <= op.size
    BY <1>3, <1>8, <1>11
  <2> QED BY <2>1, <2>2, <1>5, <1>12, <1>13
<1>19. ASSUME op'.done < op'.size
       PROVE  n = bytes_per_sector /\ op.done = c * ClusterBytes + from
  <2>1. n # left
    BY <1>3, <1>11, <1>13, <1>19
  <2>2. op.done < op.size
    BY <1>3, <1>11, <1>13, <1>19
  <2> QED BY <2>1, <2>2, <1>6, <1>9
<1>20. Writing'
  <2>1. CASE last
    <3>1. c + 1 \in 0 .. LastCluster /\ StandsAt(c + 1)'
      <4>1. file'.current = fat[file.current]
        BY <2>1, <1>13
      <4> QED BY <4>1, <1>1, <1>4, <1>6, <1>13, StandsNext, Zenon
    <3>2. op'.sector = 0
      BY <2>1, <1>13
    <3>3. op'.done < op'.size => op'.done = (c + 1) * ClusterBytes + op'.sector * bytes_per_sector
      <4> SUFFICES ASSUME op'.done < op'.size
                   PROVE  op'.done = (c + 1) * ClusterBytes + op'.sector * bytes_per_sector
        OBVIOUS
      <4>1. op'.done = c * ClusterBytes + from + bytes_per_sector
        BY <1>13, <1>19
      <4>2. \A a, b, d \in Nat : a * b \in Nat /\ a * b + b = (a + 1) * b /\ 0 * d = 0
        BY Z3
      <4>3. c \in Nat
        BY Geometry
      <4> DEFINE base == c * ClusterBytes
                 next == (c + 1) * ClusterBytes
                 none == op'.sector * bytes_per_sector
      <4>4. base \in Nat /\ base + ClusterBytes = next /\ none = 0
        BY <4>2, <4>3, <3>2, <1>11, Zenon
      <4>5. op'.done = base + from + bytes_per_sector
        BY <4>1
      <4> HIDE DEF base, next, none
      <4>6. op'.done = next + none
        BY <4>4, <4>5, <2>1, <1>8, <1>11
      <4> QED BY <4>6 DEF next, none
    <3>4. op'.kind # "mark" /\ ~ (op'.sector > 0)
      BY <3>2, <1>1, <1>13
    <3> QED BY <3>1, <3>3, <3>4, <1>4, <1>13, <1>18, Zenon DEF Writing
  <2>2. CASE ~ last
    <3>1. file'.current = file.current
      BY <2>2, <1>13
    <3>2. StandsAt(c)'
      BY <3>1, <1>1, <1>6, <1>13, Zenon DEF StandsAt
    <3>3. op'.sector = op.sector + 1
      BY <2>2, <1>13
    <3>4. op'.done < op'.size => op'.done = c * ClusterBytes + op'.sector * bytes_per_sector
      <4> SUFFICES ASSUME op'.done < op'.size
                   PROVE  op'.done = c * ClusterBytes + op'.sector * bytes_per_sector
        OBVIOUS
      <4>1. op'.done = c * ClusterBytes + from + bytes_per_sector
        BY <1>13, <1>19
      <4>2. \A a, b \in Nat : a * b \in Nat /\ a * b + b = (a + 1) * b
        BY Z3
      <4>3. c \in Nat /\ op.sector \in Nat
        BY <1>3, Geometry, Sectors
      <4> DEFINE base == c * ClusterBytes
                 next == op'.sector * bytes_per_sector
      <4>4. base \in Nat
        BY <4>2, <4>3, <1>11, Zenon
      <4>5. from + bytes_per_sector = next
        BY <4>2, <4>3, <3>3, <1>11, Zenon DEF from
      <4>6. op'.done = base + from + bytes_per_sector
        BY <4>1
      <4> HIDE DEF base, next
      <4>7. op'.done = base + next
        BY <4>4, <4>5, <4>6, <1>8, <1>11
      <4> QED BY <4>7 DEF base, next
    <3>5. op'.kind # "mark"
      BY <1>1, <1>13
    <3> QED BY <3>1, <3>2, <3>4, <3>5, <1>1, <1>4, <1>13, <1>18, Zenon DEF Writing
  <2> QED BY <2>1, <2>2
<1>21. op'.kind \in {"write", "mark"} /\ op.kind \in {"write", "mark"}
  BY <1>1, <1>13
<1> QED BY <1>1, <1>13, <1>15, <1>16, <1>17, <1>20, <1>21, DataWriting, Zenon

(* What is published is what was written. *)
LEMMA DataPublish ==
  ASSUME ChainInv, DataInv, fat32_update_dir_entry
  PROVE  DataInv'
<1>1. PICK s \in DOMAIN root :
        /\ FirstSlotOf(file.name, s)
        /\ root' = [root EXCEPT ![s].size = Len(file.wrote), ![s].first = file.first]
  BY Zenon DEF fat32_update_dir_entry
<1>2. /\ IsOpen /\ op = Idle /\ file.dirty
      /\ content' = [content EXCEPT ![file.name] = [known |-> TRUE, bytes |-> file.wrote]]
      /\ file' = Closed /\ fat' = fat /\ data' = data /\ op' = op
  BY Zenon DEF fat32_update_dir_entry
<1>3. /\ root \in Seq(Entries) /\ EmptiesTrail(root)
      /\ content \in [Names -> [known : BOOLEAN, bytes : Seq(Nat)]]
      /\ WroteSoFar /\ file.name \in Names
  BY <1>2, OpenFile, Zenon DEF ChainInv, Types
<1>4. FirstOf(root, file.name, s)
  BY <1>1, <1>3, FilesAreFound, Zenon
<1>5. root[s] \in Entries
  BY <1>3
<1>6. /\ DOMAIN root' = DOMAIN root
      /\ \A j \in DOMAIN root : j # s => root'[j] = root[j]
      /\ root'[s].first = file.first /\ root'[s].size = Len(file.wrote)
  BY <1>1, <1>3, <1>5 DEF Entries
<1>7. root'[s].kind = root[s].kind /\ root'[s].name = root[s].name
  <2>1. root'[s] = [root[s] EXCEPT !.size = Len(file.wrote), !.first = file.first]
    BY <1>1, <1>3
  <2> QED BY <2>1, <1>5, Zenon DEF Entries
<1>8. \A j \in DOMAIN root : root'[j].kind = root[j].kind /\ root'[j].name = root[j].name
  BY <1>6, <1>7, Zenon
<1>9. ASSUME NEW name \in Names, NEW i \in DOMAIN root, FirstOf(root', name, i)
      PROVE  FirstOf(root, name, i)
  <2>1. \A j \in 1 .. i - 1 : j \in DOMAIN root
    BY <1>3
  <2> QED BY <2>1, <1>8, <1>9, Zenon DEF FirstOf
<1>10. /\ content'[file.name].bytes = file.wrote
       /\ \A n \in Names : n # file.name => content'[n] = content[n]
  BY <1>2, <1>3
<1>11. KnownFiles(fat', data', root', content')
  <2> SUFFICES ASSUME NEW name \in Names, NEW i \in DOMAIN root,
                      FirstOf(root', name, i), content'[name].known
               PROVE  /\ root'[i].size = Len(content'[name].bytes)
                      /\ StoredIn(fat, data, root'[i].first, content'[name].bytes)
    BY <1>2, <1>6, Zenon DEF KnownFiles
  <2>1. FirstOf(root, name, i)
    BY <1>9
  <2>2. CASE name = file.name
    <3>1. i = s
      BY <2>1, <2>2, <1>3, <1>4, FirstIsOne, Zenon
    <3> QED BY <2>2, <3>1, <1>2, <1>3, <1>6, <1>10, Zenon DEF WroteSoFar
  <2>3. CASE name # file.name
    <3>1. i # s
      BY <2>1, <2>3, <1>4, Zenon DEF FirstOf
    <3>2. root'[i] = root[i] /\ content'[name] = content[name]
      BY <2>3, <3>1, <1>6, <1>10, Zenon
    <3> QED BY <2>1, <3>2, Zenon DEF DataInv, KnownFiles
  <2> QED BY <2>2, <2>3
<1> QED BY <1>2, <1>11, DataClosed, Zenon

LEMMA DataNext ==
  ASSUME ~ CreateTwice, CallsPerOpen = 1, EocCluster = 0, ChainInv, DataInv, [Next]_vars
  PROVE  DataInv'
<1>1. Types'
  BY NextTypes, Zenon DEF ChainInv
<1>2. Sizes \subseteq Nat
  BY VolumeAssumption, Zenon
<1>3. CASE UNCHANGED vars
  <2>1. /\ fat' = fat /\ data' = data /\ root' = root
        /\ file' = file /\ content' = content /\ op' = op
    BY <1>3, Zenon DEF vars, disk
  <2> QED BY <2>1, DataRests, Zenon
<1>4. CASE fat32_init
  <2>1. /\ fat' = fat /\ data' = data /\ root' = root
        /\ file' = file /\ content' = content /\ op' = op
    BY <1>4, Zenon DEF fat32_init, disk
  <2> QED BY <2>1, DataRests, Zenon
<1>5. ASSUME NEW name \in Names, fat32_create_file(name) PROVE DataInv'
  BY <1>5, DataCreate
<1>6. ASSUME NEW name \in Names, fat32_create_file_full(name) PROVE DataInv'
  BY <1>6, DataRests, Zenon DEF fat32_create_file_full, vars, disk
<1>7. ASSUME NEW name \in Names, fat32_open(name) PROVE DataInv'
  BY <1>1, <1>7, DataOpen
<1>8. ASSUME NEW size \in Sizes, fat32_read(size) PROVE DataInv'
  <2>1. size \in Nat
    BY <1>2, Zenon
  <2> QED BY <2>1, <1>8, DataRead, Zenon
<1>9. ASSUME NEW size \in Sizes, fat32_write(size) PROVE DataInv'
  <2>1. size \in Nat
    BY <1>2, Zenon
  <2> QED BY <2>1, <1>9, DataWrite, Zenon
<1>10. CASE read_cluster
  BY <1>10, DataReadCluster
<1>11. CASE read_returns \/ write_returns \/ write_no_cluster \/ access_past_end
  <2>1. /\ op.kind \in {"read", "write"} /\ fat' = fat /\ root' = root /\ data' = data
        /\ file' = file /\ content' = content /\ op' \in {Idle, Hung}
    BY <1>11 DEF read_returns, write_returns, write_no_cluster, access_past_end, disk
  <2>2. op # Idle
    BY <2>1, IdleKind
  <2> QED BY <2>1, <2>2, DataRests, Zenon
<1>12. ASSUME NEW cluster \in FatIndex, write_first_cluster(cluster) PROVE DataInv'
  BY <1>12, DataFirst
<1>13. ASSUME NEW cluster \in FatIndex, write_link_cluster(cluster) PROVE DataInv'
  <2>1. /\ op.kind = "write" /\ fat' = fat /\ root' = root /\ content' = content
        /\ data' = data /\ file' = file /\ op' = Hung
    BY <1>13, Zenon DEF write_link_cluster
  <2>2. op # Idle
    BY <2>1, IdleKind
  <2> QED BY <2>1, <2>2, DataRests
<1>14. CASE write_mark_end
  BY <1>14, DataMark
<1>15. CASE write_sector
  BY <1>15, DataSector
<1>16. CASE fat32_update_dir_entry
  BY <1>16, DataPublish
<1>17. CASE Crash
  <2>1. KnownFiles(fat', data', root', content')
    BY <1>17, Zenon DEF DataInv, Crash, disk
  <2> QED BY <1>17, <2>1, DataClosed, Zenon DEF Crash
<1> QED BY <1>3, <1>4, <1>5, <1>6, <1>7, <1>8, <1>9, <1>10, <1>11, <1>12, <1>13, <1>14,
           <1>15, <1>16, <1>17, Zenon DEF Next, CallStep

-----------------------------------------------------------------------------
(* Once fat32_update_dir_entry has published a file, the bytes on the disk *)
(* are the ones that were written, through later writes of other files,    *)
(* full disks, crashes and reboots: for one fat32_write per open of a name *)
(* that is created once, on a disk that ends before the sector of the FAT  *)
(* entry FAT32_EOC.                                                        *)
THEOREM PublishedFilesKeep ==
  ~ CreateTwice /\ CallsPerOpen = 1 /\ EocCluster = 0 =>
    (Spec => []PublishedFilesKeepTheirBytes)
<1> SUFFICES ASSUME ~ CreateTwice, CallsPerOpen = 1, EocCluster = 0
             PROVE  Spec => []PublishedFilesKeepTheirBytes
  OBVIOUS
<1>1. ChainInv /\ DataInv => PublishedFilesKeepTheirBytes
  <2> SUFFICES ASSUME ChainInv, DataInv PROVE PublishedFilesKeepTheirBytes
    OBVIOUS
  <2>1. root \in Seq(Entries) /\ EmptiesTrail(root) /\ KnownFiles(fat, data, root, content)
    BY Zenon DEF ChainInv, Types, DataInv
  <2> QED BY <2>1, FilesAreFound, Zenon DEF PublishedFilesKeepTheirBytes, KnownFiles
<1>2. Init => ChainInv /\ Reserved /\ DataInv
  BY ChainInit, ReservedInit, DataInit
<1>3. ChainInv /\ Reserved /\ DataInv /\ [Next]_vars => (ChainInv /\ Reserved /\ DataInv)'
  BY ChainNext, ReservedNext, DataNext
<1> QED BY <1>1, <1>2, <1>3, PTL DEF Spec

(* A fat32_read of a file that was published returns its bytes from the    *)
(* start, and fewer than asked for only at its end, under the same         *)
(* conditions.                                                             *)
THEOREM ReadsReturn ==
  ~ CreateTwice /\ CallsPerOpen = 1 /\ EocCluster = 0 =>
    (Spec => []ReadsReturnTheFile)
<1> SUFFICES ASSUME ~ CreateTwice, CallsPerOpen = 1, EocCluster = 0
             PROVE  Spec => []ReadsReturnTheFile
  OBVIOUS
<1>1. ChainInv /\ DataInv => ReadsReturnTheFile
  <2> DEFINE bytes == content[file.name].bytes
  <2> SUFFICES ASSUME ChainInv, DataInv, IsOpen, content[file.name].known
               PROVE  /\ Len(file.seen) <= Len(bytes)
                      /\ file.seen = SubSeq(bytes, 1, Len(file.seen))
                      /\ op.kind = "read" /\ ReadIsOver /\ op.done < op.size =>
                           file.seen = bytes
    BY Zenon DEF ReadsReturnTheFile
  <2>1. /\ OpenChain /\ OpenSlot /\ OpenKnown /\ ReadSoFar /\ file.name \in Names
        /\ file \in FileTypes /\ op \in OpTypes
        /\ content \in [Names -> [known : BOOLEAN, bytes : Seq(Nat)]]
        /\ KnownFiles(fat, data, root, content)
    BY OpenFile, Zenon DEF ChainInv, Types, DataInv
  <2>2. /\ bytes \in Seq(Nat) /\ file.seen \in Seq(Nat)
        /\ file.size \in Nat /\ file.pos \in Nat /\ op.size \in Nat /\ op.done \in Nat
    <3>1. content[file.name] \in [known : BOOLEAN, bytes : Seq(Nat)]
      BY <2>1, Zenon
    <3> QED BY <3>1, <2>1, Fields, Zenon
  <2>3. PICK i \in DOMAIN root : FirstOf(root, file.name, i)
    BY <2>1, Zenon DEF OpenSlot
  <2>4. ~ file.dirty /\ root[i].first = file.first /\ root[i].size = file.size
    BY <2>1, <2>3, Zenon DEF OpenKnown
  <2>5. file.size = Len(bytes) /\ StoredIn(fat, data, file.first, bytes)
    BY <2>1, <2>3, <2>4, Zenon DEF KnownFiles
  <2>6. /\ StoredIn(fat, data, file.first, file.seen)
        /\ Len(file.seen) = file.pos /\ file.pos <= file.size
    BY <2>1, <2>4, Zenon DEF ReadSoFar
  <2> HIDE DEF bytes
  <2>7. Len(file.seen) <= Len(bytes)
    BY <2>5, <2>6
  <2>8. file.seen = SubSeq(bytes, 1, Len(file.seen))
    BY <2>2, <2>5, <2>6, <2>7, StoredAlike, Zenon
  <2>9. ASSUME op.kind = "read", ReadIsOver, op.done < op.size, Len(file.seen) # Len(bytes)
        PROVE  FALSE
    <3>1. file.pos < file.size
      BY <2>2, <2>5, <2>6, <2>9
    <3>2. Ends(file.current)
      BY <3>1, <2>2, <2>9 DEF ReadIsOver
    <3>3. file.current \in DataClusters
      BY <3>1, <2>9, KnownStands, Zenon
    <3> QED BY <3>2, <3>3, EntryNumbers
  <2>10. Len(file.seen) = Len(bytes) => file.seen = bytes
    <3> SUFFICES ASSUME Len(file.seen) = Len(bytes) PROVE file.seen = bytes
      OBVIOUS
    <3>1. file.seen = SubSeq(bytes, 1, Len(bytes))
      BY <2>8, Zenon
    <3> QED BY <3>1, <2>2
  <2> QED BY <2>7, <2>8, <2>9, <2>10, Zenon
<1>2. Init => ChainInv /\ Reserved /\ DataInv
  BY ChainInit, ReservedInit, DataInit
<1>3. ChainInv /\ Reserved /\ DataInv /\ [Next]_vars => (ChainInv /\ Reserved /\ DataInv)'
  BY ChainNext, ReservedNext, DataNext
<1> QED BY <1>1, <1>2, <1>3, PTL DEF Spec

=============================================================================
