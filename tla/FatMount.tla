------------------------------ MODULE FatMount ------------------------------
(***************************************************************************)
(* fat_mount and fat_unmount of kernel/fs/fat.c: what the boot sector says *)
(* about the volume, and the copy of the FAT on the kernel heap.           *)
(*                                                                         *)
(* A volume is what a formatter laid out: its type, the sectors of its     *)
(* areas, its clusters, and the sectors left over behind them.             *)
(* boot_sector(v) is what the formatter wrote about it, and the code has   *)
(* nothing else to go by.  Sectors have 512 bytes.                         *)
(***************************************************************************)
EXTENDS Integers, FiniteSets

CONSTANTS
  Volumes,   \* [type, reserved, fats, fat_size, root_entries, spc, clusters, left]
  Blocks     \* the blocks of the heap

SECTOR == 512

RootSectors(v) == (v.root_entries * 32) \div SECTOR

\* FAT12 has fewer than 4085 clusters, FAT16 fewer than 65525; their root
\* directory fills its sectors, and on FAT32 it is in clusters.  The FAT has
\* an entry for every cluster, and a cluster is too large for what is left.
WellFormedVolume(v) ==
  LET bits == CASE v.type = "FAT12" -> 12 [] v.type = "FAT16" -> 16 [] v.type = "FAT32" -> 32 IN
  /\ v.type = IF v.clusters < 4085 THEN "FAT12"
              ELSE IF v.clusters < 65525 THEN "FAT16" ELSE "FAT32"
  /\ v.type = "FAT32" <=> v.root_entries = 0
  /\ (v.root_entries * 32) % SECTOR = 0
  /\ v.fat_size * SECTOR * 8 >= (v.clusters + 2) * bits
  /\ v.fats > 0 /\ v.reserved > 0 /\ v.spc > 0 /\ v.left \in 0 .. (v.spc - 1)

Fields == {"reserved", "fats", "fat_size", "root_entries", "spc", "clusters", "left"}

NULL == "NULL"

FatMountConstants ==
  /\ Blocks # {} /\ NULL \notin Blocks
  /\ \A v \in Volumes : WellFormedVolume(v) /\ \A f \in Fields : v[f] \in Nat

\* The fields of the boot sector.  A number that does not fit into the 16-bit
\* field is in the 32-bit one, and the other is 0; FAT32 has no 16-bit size.
boot_sector(v) ==
  LET total == v.reserved + v.fats * v.fat_size + RootSectors(v) + v.clusters * v.spc + v.left
      short == v.type # "FAT32"
  IN [sectors_per_cluster |-> v.spc, reserved_sectors |-> v.reserved,
      num_fats |-> v.fats, root_entries |-> v.root_entries,
      total_sectors_16 |-> IF total < 65536 THEN total ELSE 0,
      total_sectors_32 |-> IF total < 65536 THEN 0 ELSE total,
      fat_size_16 |-> IF short THEN v.fat_size ELSE 0, fat_size_32 |-> IF short THEN 0 ELSE v.fat_size]

VARIABLES
  volume,    \* the volume in the drive
  fs,        \* struct fat_filesystem
  owner,     \* block -> "none", "fat" or "other"
  status,    \* what the last call left: "none", "mounted", "failed" or "unmounted"
  copy,      \* history: the block with the copy of the FAT of the last mount, as
             \* a set that is empty if it is not on the heap
  lost,      \* history: the copies of earlier mounts that nobody freed
  wrong,     \* history: a block was freed that the file system did not own
  misused    \* history: the last fat_unmount was not for a mount that succeeded

ghosts == <<copy, lost, wrong, misused>>
mountVars == <<volume, fs, owner, status, ghosts>>

\* A structure on the stack of the caller: fat is whatever was there.
MountInit ==
  /\ volume \in Volumes
  /\ \E junk \in Blocks :
       fs = [fat_start |-> 0, root_start |-> 0, data_start |-> 0, fat_size |-> 0,
             cluster_count |-> 0, cluster_size |-> 0, fat_type |-> "none", fat |-> junk]
  /\ owner = [b \in Blocks |-> "none"]
  /\ status = "none"
  /\ copy = {} /\ lost = {} /\ wrong = FALSE /\ misused = FALSE

-----------------------------------------------------------------------------
kmalloc(b, who) == owner[b] = "none" /\ owner' = [owner EXCEPT ![b] = who]

\* What a kfree of block b comes to, whoever owns it by now.
kfree(own, b) == [own EXCEPT ![b] = "none"]

\* Fault: "<=" for "<".
FatTypeLate(count) ==
  IF count <= 4085 THEN "FAT12" ELSE IF count <= 65525 THEN "FAT16" ELSE "FAT32"

FatType(count) ==
  IF count < 4085 THEN "FAT12" ELSE IF count < 65525 THEN "FAT16" ELSE "FAT32"

\* The numbers fat_mount derives from boot sector b; p is fat_fs->fat.
Derived(b, p) ==
  LET root_dir_sectors == (b.root_entries * 32 + (SECTOR - 1)) \div SECTOR
      fat_size == IF b.fat_size_16 = 0 THEN b.fat_size_32 ELSE b.fat_size_16
      total    == IF b.total_sectors_16 = 0 THEN b.total_sectors_32 ELSE b.total_sectors_16
      data     == total - (b.reserved_sectors + b.num_fats * fat_size + root_dir_sectors)
      count    == data \div b.sectors_per_cluster
  IN [fat_start     |-> b.reserved_sectors,
      root_start    |-> b.reserved_sectors + b.num_fats * fat_size,
      data_start    |-> b.reserved_sectors + b.num_fats * fat_size + root_dir_sectors,
      fat_size      |-> fat_size,
      cluster_count |-> count,
      cluster_size  |-> b.sectors_per_cluster * SECTOR,
      fat_type      |-> FatType(count),
      fat           |-> p]

\* The boot sector cannot be read.
MountNoBoot ==
  /\ status' = "failed"
  /\ UNCHANGED <<fs, owner, copy, lost>>

\* fat is overwritten, whatever it points to.
Overwritten(p, now) ==
  /\ fs' = Derived(boot_sector(volume), p)
  /\ copy' = now /\ lost' = lost \cup copy

\* kmalloc returns NULL.
MountNoMemory ==
  /\ Overwritten(NULL, {})
  /\ status' = "failed"
  /\ UNCHANGED owner

\* A sector of the FAT cannot be read: the block is freed again, and fat
\* still points to it.
MountNoFat(b) ==
  /\ owner[b] = "none"
  /\ Overwritten(b, {})
  /\ status' = "failed"
  /\ UNCHANGED owner

Mounted(b) ==
  /\ kmalloc(b, "fat")
  /\ Overwritten(b, {b})
  /\ status' = "mounted"

\* It does not look whether something is mounted.
fat_mount ==
  /\ MountNoBoot \/ MountNoMemory \/ \E b \in Blocks : MountNoFat(b) \/ Mounted(b)
  /\ UNCHANGED <<volume, wrong, misused>>

\* The block fat points to is freed, whoever owns it.
FreeFat ==
  /\ owner' = IF fs.fat = NULL THEN owner ELSE kfree(owner, fs.fat)
  /\ wrong' = (wrong \/ (fs.fat # NULL /\ owner[fs.fat] # "fat"))
  /\ misused' = (status \in {"none", "failed"})
  /\ copy' = {}
  /\ status' = "unmounted"
  /\ UNCHANGED <<volume, lost>>

\* Fault: fat still points to the block.
UnmountKeepsPointer == FreeFat /\ fs' = fs

\* It does not look either: fat is all it goes by.
fat_unmount == FreeFat /\ fs' = [fs EXCEPT !.fat = NULL]

\* The rest of the kernel uses the heap.
OthersAlloc == \E b \in Blocks : kmalloc(b, "other") /\ UNCHANGED <<volume, fs, status, ghosts>>
OthersFree ==
  \E b \in Blocks : /\ owner[b] = "other" /\ owner' = kfree(owner, b)
                    /\ UNCHANGED <<volume, fs, status, ghosts>>

\* Another disk is connected, while none is mounted.
ChangeVolume == /\ status # "mounted" /\ volume' \in Volumes
                /\ UNCHANGED <<fs, owner, status, ghosts>>

\* Up to the first free of a block of somebody else, after which anything
\* may happen to the heap.
MountNext ==
  ~wrong /\ (fat_mount \/ fat_unmount \/ OthersAlloc \/ OthersFree \/ ChangeVolume)

MountSpec == MountInit /\ [][MountNext]_mountVars

-----------------------------------------------------------------------------
(* Properties.                                                             *)

\* While a volume is mounted fat points to its copy of the FAT.  The file system
\* owns that block and those of mounts that another mount has taken the place
\* of, and no others: a mount that fails leaves nothing behind.  fat_unmount
\* frees a block of somebody else only where the last fat_mount failed, which
\* may leave a pointer to a freed block, or there was none: never because it is
\* called twice.
FatOwned ==
  /\ status = "mounted" => copy = {fs.fat}
  /\ {b \in Blocks : owner[b] = "fat"} = copy \cup lost
  /\ wrong => misused

\* The first sector of cluster c.
cluster_to_sector(f, c) == f.data_start + (c - 2) * (f.cluster_size \div SECTOR)

\* f says what the formatter laid out on v: the type, the number of clusters;
\* the areas follow one another without a gap, the last cluster ends where the
\* volume does, and the copy of the FAT has the entries of all clusters.
Describes(f, v) ==
  LET total == v.reserved + v.fats * v.fat_size + RootSectors(v) + v.clusters * v.spc + v.left
      entry == CASE f.fat_type = "FAT12" -> 12 [] f.fat_type = "FAT16" -> 16 [] OTHER -> 32
  IN /\ f.fat_type = v.type /\ f.cluster_count = v.clusters
     /\ f.fat_start = v.reserved
     /\ f.root_start = f.fat_start + v.fats * v.fat_size
     /\ cluster_to_sector(f, 2) = f.root_start + RootSectors(v)
     /\ cluster_to_sector(f, f.cluster_count + 2) = total - v.left
     /\ (f.cluster_count + 2) * entry <= f.fat_size * SECTOR * 8

\* fat_mount gets the layout of the formatter back from the boot sector, for
\* every type and at both limits between them.
GeometryRight == status = "mounted" => Describes(fs, volume)
=============================================================================
