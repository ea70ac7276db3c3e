--------------------------------- MODULE Fat ---------------------------------
(***************************************************************************)
(* Opening, reading and seeking in a file, kernel/fs/fat.c, with one step  *)
(* per iteration of its loops.  A byte of the disk is known by its cluster *)
(* and its offset in it, so a read can be compared with the file.  Module  *)
(* Storage reads the clusters.                                             *)
(*                                                                         *)
(* A disk is a record: type is 32, 16 or 12, count its number of clusters, *)
(* fat maps clusters to the next one of their chain or EOC, root is the    *)
(* chain of the root directory, and dir maps clusters to their entries     *)
(* [name, size, chain].  The code sees the first cluster of a chain and    *)
(* follows fat; the chains are there to say what it should find.  On       *)
(* FAT16 and FAT12 the root directory has no cluster, and the code looks   *)
(* for it in "cluster 0", the first sectors of the disk.                   *)
(*                                                                         *)
(* Names are sequences of characters.  An entry has its name in NAME and   *)
(* its extension in EXT characters, filled up with spaces; the first is    *)
(* END at the end of the directory and DELETED in a deleted entry.         *)
(***************************************************************************)
EXTENDS Integers, Sequences

CONSTANTS
  Disks,          \* the disks that may be mounted
  CLUSTER_SIZE,   \* bytes of a cluster
  NAME, EXT,      \* characters of a name and of an extension (8 and 3)
  Names,          \* the names callers open
  Sizes,          \* the sizes of their reads
  Offsets,        \* the offsets of their seeks, which may be negative
  Starts,         \* the positions that may be in a file structure they open
  POSITIONS       \* values of a position, which is a word (2^32)

EOC == 268435448   \* 0x0FFFFFF8
END == 0
DELETED == 229
SPACE == 32
DOT == 46

Smaller(a, b) == IF a <= b THEN a ELSE b
\* Where a scan from the front stops, and one from the end.
First(S) == CHOOSE k \in S : \A j \in S : k <= j
Last(S) == CHOOSE k \in S : \A j \in S : j <= k

Upper(ch) == IF ch \in 97 .. 122 THEN ch - 32 ELSE ch

\* Fault: the dot is copied with the extension.
FatNameWithDot(path) ==
  LET dots == {k \in DOMAIN path : path[k] = DOT}
      dot  == IF dots = {} THEN Len(path) + 1 ELSE First(dots)
  IN [k \in 1 .. (NAME + EXT) |->
        Upper(CASE k <= Smaller(dot - 1, NAME) -> path[k]
                [] k > NAME /\ k <= NAME + Len(path) - dot -> path[dot + k - NAME - 1]
                [] OTHER -> SPACE)]

\* lookup_file_in_dir's fat_name: both parts cut off or filled up, in
\* capitals.  The extension begins behind the first dot.
fat_name(path) ==
  LET dots == {k \in DOMAIN path : path[k] = DOT}
      dot  == IF dots = {} THEN Len(path) + 1 ELSE First(dots)
  IN [k \in 1 .. (NAME + EXT) |->
        Upper(CASE k <= Smaller(dot - 1, NAME) -> path[k]
                [] k > NAME /\ k <= NAME + Len(path) - dot -> path[dot + k - NAME]
                [] OTHER -> SPACE)]

\* A chain of clusters as a well-formed FAT links it.
Linked(d, chain) ==
  /\ chain \in Seq(2 .. d.count + 1)
  /\ \A k \in 1 .. Len(chain) :
       d.fat[chain[k]] = IF k = Len(chain) THEN EOC ELSE chain[k + 1]

Entries(d) == UNION {{d.dir[c][k] : k \in DOMAIN d.dir[c]} : c \in DOMAIN d.dir}

\* A file has just the clusters its size needs, and no dot in its name, which
\* is implied between name and extension.  Sector 0 has no entry of a
\* name: it begins with a jump instruction.  Entry 0 of a FAT16 is the media
\* type, which is not a cluster.
WellFormed(d) ==
  /\ d.type \in {12, 16, 32} /\ d.count \in Nat /\ d.count + 2 <= EOC
  /\ \A c \in DOMAIN d.dir : d.dir[c] \in Seq(Entries(d))
  /\ \A e \in Entries(d) : e.name \in [1 .. (NAME + EXT) -> 0 .. 255]
  /\ IF d.type # 32
     THEN /\ DOMAIN d.dir = {0} /\ \A e \in Entries(d) : \A n \in Names : e.name # fat_name(n)
          /\ d.type = 16 => d.fat[0] >= d.count + 2
     ELSE /\ d.root # <<>> /\ Linked(d, d.root)
          /\ DOMAIN d.dir = {d.root[k] : k \in DOMAIN d.root}
          /\ \A e \in Entries(d) : e.name[1] \notin {END, DELETED} =>
               /\ \A k \in DOMAIN e.name : e.name[k] # DOT
               /\ Linked(d, e.chain) /\ e.size \in Nat
               /\ CLUSTER_SIZE * (Len(e.chain) - 1) < e.size
               /\ e.size <= CLUSTER_SIZE * Len(e.chain)

ASSUME FatConstants ==
  /\ CLUSTER_SIZE \in Nat \ {0} /\ Sizes \subseteq Nat /\ Offsets \subseteq Int
  /\ POSITIONS \in Nat \ {0} /\ NAME \in Nat \ {0} /\ EXT \in Nat \ {0}
  /\ Starts \subseteq 0 .. (POSITIONS - 1)
  /\ Names \subseteq Seq(1 .. 255) /\ \A d \in Disks : WellFormed(d)

VARIABLES
  disk,
  pc,          \* "closed", "lookup", "idle" or "read"
  name,        \* the name asked for
  cluster,     \* lookup_file_in_dir's current_cluster
  ret,         \* what the last lookup came to: "none", "found", "missing" or "failed"
  file,        \* [size, position, current_cluster, chain]
  size, total, \* fat_read: bytes asked for, and read so far
  got,         \* the bytes in the caller's buffer
  from,        \* history: position when fat_read was called
  broken,      \* history: a cluster could not be read in this fat_read
  strayed      \* history: current_cluster is not the cluster of the position

vars == <<disk, pc, name, cluster, ret, file, size, total, got, from, broken, strayed>>
lookup == <<name, cluster, ret>>
reading == <<size, total, got, from>>

NoFile == [size |-> 0, position |-> 0, current_cluster |-> 0, chain |-> <<>>]

-----------------------------------------------------------------------------
Init ==
  /\ disk \in Disks
  /\ pc = "closed" /\ name = <<>> /\ cluster = 0 /\ ret = "none" /\ file = NoFile
  /\ size = 0 /\ total = 0 /\ got = <<>> /\ from = 0
  /\ broken = FALSE /\ strayed = FALSE

\* The entry of the FAT in memory; for FAT12 the code has none.
read_fat_entry(c) == IF disk.type = 12 THEN 0 ELSE disk.fat[c]

\* For FAT12 and FAT16, a placeholder.
root_cluster == IF disk.type = 32 THEN disk.root[1] ELSE 0

\* fat_open starts to look for the name in the root directory.
fat_open(n) ==
  /\ pc = "closed"
  /\ pc' = "lookup" /\ name' = n /\ cluster' = root_cluster /\ ret' = "none"
  /\ size' = 0 /\ total' = 0 /\ got' = <<>> /\ from' = 0
  /\ broken' = FALSE /\ strayed' = FALSE
  /\ UNCHANGED <<disk, file>>

\* lookup_file_in_dir returns, and with it fat_open.
Return(result, f) ==
  /\ ret' = result /\ file' = f
  /\ pc' = IF result = "found" THEN "idle" ELSE "closed"

\* The entries of a cluster that end the scan: the end and the name.
Hits(es) ==
  {k \in DOMAIN es : \/ es[k].name[1] = END
                     \/ es[k].name[1] # DELETED /\ es[k].name = fat_name(name)}

\* The file that directory entry e opens.  fat_open leaves the position p that
\* is in the caller's structure.
Opened(e, p) ==
  [size |-> e.size, position |-> p, chain |-> e.chain,
   current_cluster |-> IF e.chain = <<>> THEN 0 ELSE e.chain[1]]

\* The position is in a cluster other than current_cluster.
Elsewhere(f) ==
  f.position < f.size /\ f.chain[f.position \div CLUSTER_SIZE + 1] # f.current_cluster

\* lookup_file_in_dir reads a cluster of the directory, scans it, and goes on
\* to the next one if neither the name nor the end is there.
LookupCluster ==
  LET es   == disk.dir[cluster]
      next == read_fat_entry(cluster)
  IN
  /\ pc = "lookup"
  /\ \/ /\ Hits(es) # {}
        /\ LET e == es[First(Hits(es))] IN
             \/ e.name[1] = END /\ Return("missing", file) /\ UNCHANGED strayed
             \/ /\ e.name[1] # END
                /\ \E p \in Starts : Return("found", Opened(e, p)) /\ strayed' = Elsewhere(Opened(e, p))
        /\ UNCHANGED cluster
     \/ /\ Hits(es) = {}
        /\ cluster' = next
        /\ IF next >= disk.count + 2 THEN Return("missing", file) ELSE UNCHANGED <<pc, ret, file>>
        /\ UNCHANGED strayed
  /\ UNCHANGED <<disk, name, reading, broken>>

\* A sector of the directory cannot be read.
LookupFails ==
  /\ pc = "lookup"
  /\ Return("failed", file)
  /\ UNCHANGED <<disk, name, cluster, reading, broken, strayed>>

fat_close ==
  /\ pc = "idle" /\ pc' = "closed"
  /\ UNCHANGED <<disk, lookup, file, reading, broken, strayed>>

-----------------------------------------------------------------------------
fat_read(n) ==
  /\ pc = "idle"
  /\ pc' = "read" /\ size' = n /\ total' = 0 /\ got' = <<>>
  /\ from' = file.position /\ broken' = FALSE
  /\ UNCHANGED <<disk, lookup, file, strayed>>

\* Fault: "<=" for "<" in the loop's condition.
MoreToReadForever == total <= size /\ file.position < file.size

MoreToRead == total < size /\ file.position < file.size

\* How much of it this iteration takes: what is left of the cluster, of the
\* request and of the file.
bytes_from_cluster ==
  Smaller(CLUSTER_SIZE - (file.position % CLUSTER_SIZE),
          Smaller(size - total, file.size - file.position))

\* Fault: ">" for ">=".
ClusterEndsLate(offset, n) == offset + n > CLUSTER_SIZE

\* The bytes were the last of the cluster.
ClusterEnds(offset, n) == offset + n >= CLUSTER_SIZE

\* What is copied to the caller's buffer.
Bytes(c, offset, n) == [k \in 1 .. n |-> <<c, offset + k - 1>>]

\* One iteration: the bytes of the current cluster, and on to the next one
\* when they were its last.
ReadCluster ==
  LET offset == file.position % CLUSTER_SIZE
      n      == bytes_from_cluster
      here   == file.current_cluster
      ended  == ClusterEnds(offset, n)
      next   == read_fat_entry(here)
  IN
  /\ pc = "read" /\ MoreToRead
  /\ got' = got \o Bytes(here, offset, n)
  /\ total' = total + n
  /\ file' = [file EXCEPT !.position = @ + n,
                          !.current_cluster = IF ended /\ next < EOC THEN next ELSE @]
  /\ pc' = IF ended /\ next >= EOC THEN "idle" ELSE "read"
  /\ UNCHANGED <<disk, lookup, size, from, broken, strayed>>

\* A sector of the cluster cannot be read.
ReadFails ==
  /\ pc = "read" /\ MoreToRead
  /\ pc' = "idle" /\ broken' = TRUE
  /\ UNCHANGED <<disk, lookup, file, reading, strayed>>

ReadEnds ==
  /\ pc = "read" /\ ~MoreToRead
  /\ pc' = "idle"
  /\ UNCHANGED <<disk, lookup, file, reading, broken, strayed>>

\* The new position, an unsigned number, is cut off at the end of the file.
Target(whence, offset) ==
  (CASE whence = 0 -> offset
     [] whence = 1 -> file.position + offset
     [] whence = 2 -> file.size + offset) % POSITIONS

\* The position becomes p and current_cluster stays.  The locals of the last
\* fat_read are gone.
MoveTo(p) ==
  /\ pc = "idle"
  /\ file' = [file EXCEPT !.position = p]
  /\ strayed' = Elsewhere(file')
  /\ size' = 0 /\ total' = 0 /\ got' = <<>> /\ from' = 0 /\ broken' = FALSE
  /\ UNCHANGED <<disk, pc, lookup>>

fat_seek(whence, offset) == MoveTo(Smaller(Target(whence, offset), file.size))

\* What callers of the file system do.
Calls ==
  \/ \E n \in Names : fat_open(n)
  \/ \E n \in Sizes : fat_read(n)
  \/ \E whence \in 0 .. 2, offset \in Offsets : fat_seek(whence, offset)
  \/ fat_close

-----------------------------------------------------------------------------
(* Properties.                                                             *)

\* Every variable has its type.
TypeOK ==
  /\ disk \in Disks
  /\ pc \in {"closed", "lookup", "idle", "read"}
  /\ ret \in {"none", "found", "missing", "failed"}
  /\ file.position \in Nat
  /\ total \in 0 .. size /\ Len(got) = total
  /\ broken \in BOOLEAN /\ strayed \in BOOLEAN

\* The entries of the root directory, and whether one is in front of another
\* or is the same.
Places == UNION {{<<k, m>> : m \in DOMAIN disk.dir[disk.root[k]]} : k \in DOMAIN disk.root}
EntryAt(a) == disk.dir[disk.root[a[1]]][a[2]]
UpTo(a, b) == a[1] < b[1] \/ (a[1] = b[1] /\ a[2] <= b[2])

Trimmed(s) == SubSeq(s, 1, Last({0} \cup {k \in DOMAIN s : s[k] # SPACE}))

\* The name of an entry as it is shown.
Shown(n) ==
  LET ext == Trimmed(SubSeq(n, NAME + 1, NAME + EXT))
  IN Trimmed(SubSeq(n, 1, NAME)) \o (IF ext = <<>> THEN <<>> ELSE <<DOT>> \o ext)

\* The files of the root directory called n, in capitals or not: those in
\* front of its end that have not been deleted.
Named(n) ==
  {EntryAt(a) : a \in {b \in Places :
     /\ Shown(EntryAt(b).name) = [j \in DOMAIN n |-> Upper(n[j])]
     /\ EntryAt(b).name[1] # DELETED
     /\ \A c \in Places : UpTo(c, b) => EntryAt(c).name[1] # END}}

\* A name of the form 8.3.  There is no space in it: an entry would not tell
\* it from what it is filled up with.
Fits(n) ==
  LET dots == {k \in DOMAIN n : n[k] = DOT} IN
  /\ \A k \in DOMAIN n : n[k] # SPACE
  /\ \/ dots = {} /\ Len(n) \in 1 .. NAME
     \/ \E k \in 2 .. (NAME + 1) : dots = {k} /\ Len(n) - k \in 1 .. EXT

\* fat_open finds a file just when the root directory shows its name, in
\* whichever of its clusters, and never one that is deleted or left over
\* behind the end of the directory.  On FAT16 and FAT12 it finds none.
LookupRight ==
  /\ ret = "found" => disk.type = 32
  /\ ret = "found" /\ Fits(name)
       => \E e \in Named(name) : file.chain = e.chain /\ file.size = e.size
  /\ ret = "missing" /\ Fits(name) /\ disk.type = 32 => Named(name) = {}

FileByte(p) == <<file.chain[p \div CLUSTER_SIZE + 1], p % CLUSTER_SIZE>>

\* What fat_read has put into the buffer is the file from the position on at
\* which it was called, across its clusters, its calls and its disk errors,
\* and when it returns all of it that was asked for, but for a disk error.
\* After a seek to another cluster, which leaves current_cluster behind, and in
\* a file opened with a position of another cluster, it is at least from
\* clusters of the file and at the offset the position asks for.
ReadsFile ==
  /\ \A k \in 1 .. total :
       IF strayed
       THEN /\ \E i \in DOMAIN file.chain : got[k][1] = file.chain[i]
            /\ got[k][2] = (from + k - 1) % CLUSTER_SIZE
       ELSE got[k] = FileByte(from + k - 1)
  /\ pc = "idle" /\ ~broken /\ ~strayed =>
       total = IF from >= file.size THEN 0 ELSE Smaller(size, file.size - from)
=============================================================================
