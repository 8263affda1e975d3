------------------------------- MODULE Fat32 -------------------------------
(***************************************************************************)
(* The FAT32 driver, FS/FAT32/fat32.c, over the ATA disk of                *)
(* drivers/ATA/ata.c, used the way FS_TEST in kernel/kernel.c uses it:     *)
(* create, open, write, publish with fat32_update_dir_entry, open, read.   *)
(*                                                                         *)
(* ata_write_sectors flushes every sector, so what is on the disk after a  *)
(* crash is the effect of the calls made so far: each step here makes at   *)
(* most one of them.  A request past the last sector fails with ERR set    *)
(* and DRQ clear, which ata_wait (ata.c:25-35) awaits for ever: "hung".    *)
(***************************************************************************)
EXTENDS Integers, Sequences, FiniteSets

CONSTANTS
  Names,               \* file names
  bytes_per_sector, sectors_per_cluster,
  LastCluster,         \* the last cluster the volume has sectors for
  FatEntries,          \* entries in one copy of the FAT, padding included
  num_fats,            \* copies of the FAT
  FAT32_EOC, EOC_MIN,  \* 0x0FFFFFFF and 0x0FFFFFF8
  Volumes,             \* what mkfs and other systems left on the disk
  EocCluster,          \* the data cluster the sector of FAT entry FAT32_EOC
                       \* lies in, 0 if the disk ends before it
  Sizes,               \* bytes passed to fat32_write and fat32_read
  MaxWrites,           \* bound: calls of fat32_write
  CallsPerOpen,        \* bound: calls of fat32_read or fat32_write per open
  CreateTwice          \* may a file be created under a name that is taken

ASSUME VolumeAssumption ==
  /\ bytes_per_sector \in Nat \ {0} /\ sectors_per_cluster \in Nat \ {0}
  /\ LastCluster \in Nat /\ LastCluster > 1
  /\ FatEntries \in Nat /\ FatEntries > LastCluster
  /\ num_fats \in Nat \ {0}
  /\ EOC_MIN \in Nat /\ EOC_MIN > num_fats * FatEntries
  /\ FAT32_EOC \in Nat /\ FAT32_EOC >= EOC_MIN
  /\ EocCluster = 0 \/ EocCluster \in 2 .. LastCluster
  /\ Sizes \subseteq Nat \ {0}
  /\ MaxWrites \in Nat /\ CallsPerOpen \in Nat
  /\ CreateTwice \in BOOLEAN
  /\ "" \notin Names

VARIABLES
  fat,        \* disk: the FAT copies, one behind the other
  data,       \* disk: the bytes of each cluster
  root,       \* disk: the slots of the root directory
  mounted,    \* fs holds the volume's geometry
  file,       \* the caller's fat32_file_t
  op,         \* the call that is running
  writes,     \* history: number of fat32_write calls
  content     \* history: the bytes last published for each name

disk == <<fat, data, root>>
vars == <<fat, data, root, mounted, file, op, writes, content>>

-----------------------------------------------------------------------------
FREE == 0
DataClusters == 2 .. LastCluster
ClusterBytes == bytes_per_sector * sectors_per_cluster

(* The FAT as fat32_find_free_cluster sees it: the sectors from fat_lba to *)
(* data_lba hold all the copies.                                           *)
FatIndex == 0 .. num_fats * FatEntries - 1

Ends(cluster) == cluster >= EOC_MIN

Closed == [name |-> "", first |-> 0, size |-> 0, current |-> 0, pos |-> 0,
           calls |-> 0, dirty |-> FALSE, seen |-> << >>, wrote |-> << >>]
IsOpen == file.name # ""

Idle == [kind |-> "idle", size |-> 0, done |-> 0, sector |-> 0, cluster |-> 0]
Hung == [Idle EXCEPT !.kind = "hung"]

(* The byte at offset i of the buffer of the n-th fat32_write call. *)
BufferByte(n, i) == 100 * n + i

(* fat32_find_in_root stops at the first slot that is empty.               *)
Reachable(i) == \A j \in 1 .. i : root[j].kind # "empty"

SlotOf(name, i) == /\ i \in DOMAIN root
                   /\ Reachable(i)
                   /\ root[i].kind = "file" /\ root[i].name = name

FirstSlotOf(name, i) == SlotOf(name, i) /\ \A j \in 1 .. i - 1 : ~ SlotOf(name, j)

Exists(name) == \E i \in DOMAIN root : SlotOf(name, i)

(* fat32_find_free_cluster: the first free entry, or 0. *)
FreeEntries == { e \in FatIndex : e >= 2 /\ fat[e] = FREE }

find_free_cluster(cluster) ==
  \/ /\ FreeEntries = {}
     /\ cluster = 0
  \/ /\ cluster \in FreeEntries
     /\ \A e \in FreeEntries : cluster <= e

-----------------------------------------------------------------------------
(* The clusters of the chain that starts at first, in order; 0 when it is  *)
(* over or leaves the volume.                                              *)
ChainIn(table, first) ==
  LET at[k \in 0 .. LastCluster] ==
        IF k = 0 THEN IF first \in DataClusters THEN first ELSE 0
        ELSE IF at[k - 1] # 0 /\ table[at[k - 1]] \in DataClusters
               THEN table[at[k - 1]] ELSE 0
  IN  at

ChainClusters(table, first) ==
  { ChainIn(table, first)[k] : k \in 0 .. LastCluster } \ {0}

(* Each of the bytes is in its place in a cluster of the chain.            *)
StoredIn(table, clusters, first, bytes) ==
  \A b \in 1 .. Len(bytes) :
    LET k == (b - 1) \div ClusterBytes
        cluster == ChainIn(table, first)[k]
    IN  /\ k \in 0 .. LastCluster /\ cluster # 0
        /\ bytes[b] = clusters[cluster][((b - 1) % ClusterBytes) + 1]

(* What mkfs and other systems leave: no entry in use behind an empty one, *)
(* chains that neither end in a free entry nor loop nor meet, clusters 0   *)
(* and 1 reserved, and the files whose bytes are known.                    *)
Entries == [kind : {"empty", "deleted", "file", "lfn"}, name : Names \cup {""},
            first : Nat, size : Nat]

EmptiesTrail(slots) ==
  \A i, j \in DOMAIN slots :
    i < j /\ slots[i].kind = "empty" => slots[j].kind = "empty"

SoundChain(table, first) ==
  LET chain == ChainIn(table, first)
  IN  /\ \A k \in 0 .. LastCluster :
           chain[k] # 0 => table[chain[k]] # FREE /\ chain[k] # 2
      /\ \A j, k \in 0 .. LastCluster : chain[k] # 0 /\ chain[j] = chain[k] => j = k

Disjoint(table, first, other) ==
  ChainClusters(table, first) \cap ChainClusters(table, other) = {}

SoundRoot(table, slots) ==
  \A i \in DOMAIN slots : slots[i].kind = "file" =>
    /\ SoundChain(table, slots[i].first)
    /\ \A j \in DOMAIN slots : slots[j].kind = "file" /\ j # i =>
         Disjoint(table, slots[i].first, slots[j].first)

FirstOf(slots, name, i) ==
  /\ slots[i].kind = "file" /\ slots[i].name = name
  /\ \A j \in 1 .. i - 1 : ~ (slots[j].kind = "file" /\ slots[j].name = name)

KnownFiles(table, clusters, slots, known) ==
  \A name \in Names : \A i \in DOMAIN slots :
    FirstOf(slots, name, i) /\ known[name].known =>
      /\ slots[i].size = Len(known[name].bytes)
      /\ StoredIn(table, clusters, slots[i].first, known[name].bytes)

ASSUME VolumesAssumption ==
  \A v \in Volumes :
    /\ v.fat \in [FatIndex -> 0 .. FAT32_EOC]
    /\ v.data \in [DataClusters -> [1 .. ClusterBytes -> Nat]]
    /\ v.root \in Seq(Entries)
    /\ v.content \in [Names -> [known : BOOLEAN, bytes : Seq(Nat)]]
    /\ v.fat[2] # FREE /\ Ends(v.fat[0])
    /\ \A e \in FatIndex : v.fat[e] # 1
    /\ \A i \in DOMAIN v.root : v.root[i].first # 1
    /\ EmptiesTrail(v.root) /\ SoundRoot(v.fat, v.root)
    /\ KnownFiles(v.fat, v.data, v.root, v.content)

-----------------------------------------------------------------------------
fat32_init ==
  /\ ~ mounted
  /\ mounted' = TRUE
  /\ UNCHANGED <<disk, file, op, writes, content>>

(* The first slot that is empty or deleted gets the new entry. *)
fat32_create_file(name) ==
  /\ mounted /\ op = Idle
  /\ CreateTwice \/ ~ Exists(name)
  /\ \E i \in DOMAIN root :
       /\ root[i].kind \in {"empty", "deleted"}
       /\ \A j \in 1 .. i - 1 : root[j].kind \notin {"empty", "deleted"}
       /\ root' = [root EXCEPT ![i] =
                     [kind |-> "file", name |-> name, first |-> 0, size |-> 0]]
  /\ content' = IF Exists(name) THEN content
                ELSE [content EXCEPT ![name] = [known |-> TRUE, bytes |-> << >>]]
  /\ UNCHANGED <<fat, data, mounted, file, op, writes>>

fat32_create_file_full(name) ==
  /\ mounted /\ op = Idle
  /\ \A i \in DOMAIN root : root[i].kind \notin {"empty", "deleted"}
  /\ UNCHANGED vars

fat32_open(name) ==
  /\ mounted /\ op = Idle
  /\ \E i \in DOMAIN root :
       /\ FirstSlotOf(name, i)
       /\ file' = [Closed EXCEPT !.name = name, !.first = root[i].first,
                                 !.current = root[i].first, !.size = root[i].size]
  /\ UNCHANGED <<disk, mounted, op, writes, content>>

-----------------------------------------------------------------------------
(* fat32_read(file, buffer, size), one step per cluster. *)
fat32_read(size) ==
  /\ op = Idle /\ IsOpen /\ file.calls < CallsPerOpen
  /\ ~ file.dirty
  /\ op' = [Idle EXCEPT !.kind = "read", !.size = size]
  /\ file' = [file EXCEPT !.calls = @ + 1]
  /\ UNCHANGED <<disk, mounted, writes, content>>

ReadIsOver == \/ op.done >= op.size
              \/ file.pos >= file.size
              \/ Ends(file.current)

(* The bytes that are wanted of one cluster. *)
wanted == CHOOSE n \in 0 .. ClusterBytes :
            /\ n <= op.size - op.done /\ n <= file.size - file.pos
            /\ n = ClusterBytes \/ n = op.size - op.done \/ n = file.size - file.pos

(* What the sectors of a cluster hold.  Those of cluster 0, where an entry *)
(* without a cluster has its file start, lie before data_lba in the FAT    *)
(* (fat32.c:52-54): any bytes.                                             *)
BytesAt(cluster) ==
  IF cluster \in DataClusters THEN {data[cluster]}
                              ELSE [1 .. ClusterBytes -> {0, 255}]

(* Mutant: the chain is not followed. *)
read_first_cluster ==
  /\ op.kind = "read" /\ ~ ReadIsOver
  /\ file.current <= LastCluster
  /\ \E bytes \in BytesAt(file.current) :
       file' = [file EXCEPT !.seen = @ \o SubSeq(bytes, 1, wanted),
                            !.pos = @ + wanted]
  /\ op' = [op EXCEPT !.done = @ + wanted]
  /\ UNCHANGED <<disk, mounted, writes, content>>

read_cluster ==
  /\ op.kind = "read" /\ ~ ReadIsOver
  /\ file.current <= LastCluster
  /\ \E bytes \in BytesAt(file.current) :
       file' = [file EXCEPT !.seen = @ \o SubSeq(bytes, 1, wanted),
                            !.pos = @ + wanted,
                            !.current = fat[file.current]]
  /\ op' = [op EXCEPT !.done = @ + wanted]
  /\ UNCHANGED <<disk, mounted, writes, content>>

read_returns ==
  /\ op.kind = "read" /\ ReadIsOver
  /\ op' = Idle
  /\ UNCHANGED <<disk, mounted, file, writes, content>>

-----------------------------------------------------------------------------
(* fat32_write(file, buffer, size). *)
fat32_write(size) ==
  /\ op = Idle /\ IsOpen /\ file.calls < CallsPerOpen
  /\ writes < MaxWrites
  /\ writes' = writes + 1
  /\ op' = [Idle EXCEPT !.kind = "write", !.size = size]
  /\ file' = [file EXCEPT !.calls = @ + 1, !.dirty = TRUE]
  /\ content' = [content EXCEPT ![file.name].known = FALSE]
  /\ UNCHANGED <<disk, mounted>>

NeedsCluster == file.current = 0 \/ Ends(file.current)

(* A first cluster for an empty file: the entry is marked in the next step.*)
write_first_cluster(cluster) ==
  /\ op.kind = "write" /\ op.done < op.size
  /\ file.current = 0
  /\ find_free_cluster(cluster) /\ cluster # 0
  /\ file' = [file EXCEPT !.first = cluster, !.current = cluster]
  /\ op' = [op EXCEPT !.kind = "mark", !.cluster = cluster]
  /\ UNCHANGED <<disk, mounted, writes, content>>

(* The chain has ended: file.current is the end mark fat32_next_cluster    *)
(* returned, and fat32_write_fat_entry changes the sector it computes from *)
(* that mark.                                                              *)
write_link_cluster(cluster) ==
  /\ op.kind = "write" /\ op.done < op.size
  /\ Ends(file.current)
  /\ find_free_cluster(cluster) /\ cluster # 0
  /\ IF EocCluster = 0
       THEN op' = Hung /\ UNCHANGED <<data, file>>
       ELSE /\ data' = [data EXCEPT ![EocCluster][ClusterBytes] = cluster]
            /\ file' = [file EXCEPT !.current = cluster]
            /\ op' = [op EXCEPT !.kind = "mark", !.cluster = cluster]
  /\ UNCHANGED <<fat, root, mounted, writes, content>>

(* Mutant: the new cluster's entry is not written. *)
write_mark_nothing ==
  /\ op.kind = "mark"
  /\ op' = [op EXCEPT !.kind = "write", !.cluster = 0]
  /\ UNCHANGED <<disk, mounted, file, writes, content>>

(* fat32_write_fat_entry(new_cluster, FAT32_EOC) *)
write_mark_end ==
  /\ op.kind = "mark"
  /\ fat' = [fat EXCEPT ![op.cluster] = FAT32_EOC]
  /\ op' = [op EXCEPT !.kind = "write", !.cluster = 0]
  /\ UNCHANGED <<data, root, mounted, file, writes, content>>

write_no_cluster ==
  /\ op.kind = "write" /\ op.done < op.size
  /\ NeedsCluster
  /\ find_free_cluster(0)
  /\ op' = Idle
  /\ UNCHANGED <<disk, mounted, file, writes, content>>

(* One sector is read, overlaid with the next bytes of the buffer, written *)
(* back.  Behind the cluster's last sector the chain is followed.  Cluster *)
(* 0 has been replaced by now, and no chain leads to cluster 1.            *)
write_sector ==
  LET left  == op.size - op.done
      n     == IF left < bytes_per_sector THEN left ELSE bytes_per_sector
      from  == op.sector * bytes_per_sector
      last  == op.sector = sectors_per_cluster - 1
  IN  /\ op.kind = "write" /\ ~ NeedsCluster
      /\ op.done < op.size \/ op.sector > 0
      /\ file.current \in DataClusters
      /\ data' = [data EXCEPT ![file.current] =
                    [b \in 1 .. ClusterBytes |->
                       IF b \in from + 1 .. from + n
                         THEN BufferByte(writes, op.done + b - from) ELSE @[b]]]
      /\ op' = [op EXCEPT !.done = @ + n,
                          !.sector = IF last THEN 0 ELSE @ + 1]
      /\ file' = [file EXCEPT
           !.pos = @ + n,
           !.wrote = @ \o [i \in 1 .. n |-> BufferByte(writes, op.done + i)],
           !.current = IF last THEN fat[@] ELSE @]
      /\ UNCHANGED <<fat, root, mounted, writes, content>>

(* The cluster lies past the end of the disk. *)
access_past_end ==
  /\ \/ op.kind = "read" /\ ~ ReadIsOver
     \/ op.kind = "write" /\ op.done < op.size /\ ~ NeedsCluster
  /\ file.current > LastCluster
  /\ op' = Hung
  /\ UNCHANGED <<disk, mounted, file, writes, content>>

write_returns ==
  /\ op.kind = "write" /\ op.done >= op.size /\ op.sector = 0
  /\ op' = Idle
  /\ UNCHANGED <<disk, mounted, file, writes, content>>

(* Mutant: only the size goes into the entry. *)
fat32_update_dir_entry_size ==
  /\ op = Idle /\ IsOpen
  /\ file.dirty
  /\ \E i \in DOMAIN root :
       /\ FirstSlotOf(file.name, i)
       /\ root' = [root EXCEPT ![i].size = Len(file.wrote)]
  /\ content' = [content EXCEPT ![file.name] = [known |-> TRUE, bytes |-> file.wrote]]
  /\ file' = Closed
  /\ UNCHANGED <<fat, data, mounted, op, writes>>

(* fat32_update_dir_entry(name, ext, written, file.first_cluster) by the   *)
(* caller that has written the file; it may not come to that.              *)
fat32_update_dir_entry ==
  /\ op = Idle /\ IsOpen
  /\ file.dirty
  /\ \E i \in DOMAIN root :
       /\ FirstSlotOf(file.name, i)
       /\ root' = [root EXCEPT ![i].size = Len(file.wrote), ![i].first = file.first]
  /\ content' = [content EXCEPT ![file.name] = [known |-> TRUE, bytes |-> file.wrote]]
  /\ file' = Closed
  /\ UNCHANGED <<fat, data, mounted, op, writes>>

(* Power fails, or somebody resets a machine that hangs.                   *)
Crash ==
  /\ mounted
  /\ mounted' = FALSE
  /\ file' = Closed
  /\ op' = Idle
  /\ UNCHANGED <<disk, writes, content>>

Init ==
  /\ \E v \in Volumes : /\ fat = v.fat
                        /\ data = v.data
                        /\ root = v.root
                        /\ content = v.content
  /\ mounted = FALSE
  /\ file = Closed
  /\ op = Idle
  /\ writes = 0

(* The rest of a call that has begun. *)
CallStep ==
  \/ read_cluster \/ read_returns
  \/ \E cluster \in FatIndex : \/ write_first_cluster(cluster)
                               \/ write_link_cluster(cluster)
  \/ write_mark_end \/ write_no_cluster \/ write_sector
  \/ access_past_end \/ write_returns

Next ==
  \/ fat32_init
  \/ \E name \in Names : \/ fat32_create_file(name)
                         \/ fat32_create_file_full(name)
                         \/ fat32_open(name)
  \/ \E size \in Sizes : fat32_read(size) \/ fat32_write(size)
  \/ CallStep
  \/ fat32_update_dir_entry
  \/ Crash

Spec == Init /\ [][Next]_vars

(* A call that has begun goes on, unless the machine stops. *)
FairSpec == Spec /\ WF_vars(CallStep)

-----------------------------------------------------------------------------
Files == { i \in DOMAIN root : Reachable(i) /\ root[i].kind = "file" }

(* The variables hold values of their C types. *)
TypeOK ==
  /\ fat \in [FatIndex -> 0 .. FAT32_EOC]
  /\ data \in [DataClusters -> [1 .. ClusterBytes -> Nat]]
  /\ \A i \in DOMAIN root : root[i].kind \in {"empty", "deleted", "file", "lfn"}
  /\ mounted \in BOOLEAN
  /\ file.current \in Nat /\ file.size \in Nat /\ file.pos \in Nat
  /\ op.kind \in {"idle", "read", "write", "mark", "hung"}
  /\ op.sector \in 0 .. sectors_per_cluster - 1
  /\ writes \in 0 .. MaxWrites

(* What was published by fat32_update_dir_entry (fat32.c:317-325) is what  *)
(* a read finds, after any number of later writes of other files, full     *)
(* disks, crashes and reboots.                                             *)
PublishedFilesKeepTheirBytes ==
  \A name \in Names : \A i \in DOMAIN root :
    FirstSlotOf(name, i) /\ content[name].known =>
      /\ root[i].size = Len(content[name].bytes)
      /\ StoredIn(fat, data, root[i].first, content[name].bytes)

(* No cluster is in two files, or in a file and the root directory, and    *)
(* every cluster of a file is marked in the FAT: the order of the writes   *)
(* (fat32.c:237-245 before 319-323) keeps this through a crash.            *)
ChainsAreSound ==
  \A i \in Files :
    LET chain == ChainClusters(fat, root[i].first)
    IN  /\ \A cluster \in chain : fat[cluster] # FREE
        /\ 2 \notin chain
        /\ \A j \in Files \ {i} : Disjoint(fat, root[i].first, root[j].first)

(* One fat32_read per open returns the file's bytes from its start, and    *)
(* returns fewer than asked for only at its end (fat32.c:154-180).         *)
ReadsReturnTheFile ==
  IsOpen /\ content[file.name].known =>
    LET bytes == content[file.name].bytes
    IN  /\ Len(file.seen) <= Len(bytes)
        /\ file.seen = SubSeq(bytes, 1, Len(file.seen))
        /\ op.kind = "read" /\ ReadIsOver /\ op.done < op.size => file.seen = bytes

(* fat32_write returns, with the number of bytes written or fewer, as its  *)
(* caller in kernel.c:102-105 takes for granted.                           *)
WriteReturns == op.kind = "write" ~> op.kind = "idle"

(* The clusters fat32_find_free_cluster gives out exist: fat32.c:200 says  *)
(* it scans the sectors the FAT table occupies.                            *)
AllocatesInVolume == op.kind = "mark" => op.cluster \in DataClusters

(* fat32.h:35: the FAT is kept in num_fats copies for redundancy.          *)
FatCopiesAgree ==
  op.kind = "idle" =>
    \A e \in 0 .. FatEntries - 1, copy \in 1 .. num_fats - 1 :
      fat[copy * FatEntries + e] = fat[e]

=============================================================================
