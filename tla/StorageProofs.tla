---------------------------- MODULE StorageProofs ----------------------------
(***************************************************************************)
(* Proofs about module Storage, with the driver and the files: for every   *)
(* disk, cluster size and file, and every number of words and of sectors.  *)
(***************************************************************************)
EXTENDS Storage, TLAPS

\* Zenon, which knows no arithmetic, is tried first; a leaf beyond it names SMT.
USE ZenonT(60), SMTT(60)

-----------------------------------------------------------------------------
(* Sequences.                                                              *)

\* A sequence is a function on an interval from 1.
LEMMA LenProperties ==
  ASSUME NEW S, NEW s \in Seq(S)
  PROVE  Len(s) \in Nat /\ s \in [1 .. Len(s) -> S] /\ DOMAIN s = 1 .. Len(s)
  BY SMTT(60)

\* A function on an interval from 1 is a sequence.
LEMMA FunctionIsSeq ==
  ASSUME NEW S, NEW n \in Nat, NEW f \in [1 .. n -> S]
  PROVE  f \in Seq(S) /\ Len(f) = n
  BY SMTT(60)

\* A sequence that is not empty has elements.
LEMMA NonEmptySeq ==
  ASSUME NEW S, NEW s \in Seq(S), s # <<>>
  PROVE  Len(s) \in Nat \ {0}
  BY SMTT(60)

\* What a concatenation holds.
LEMMA ConcatProperties ==
  ASSUME NEW S, NEW s \in Seq(S), NEW t \in Seq(S)
  PROVE  /\ s \o t \in Seq(S) /\ Len(s \o t) = Len(s) + Len(t)
         /\ \A k \in 1 .. Len(s) + Len(t) :
              (s \o t)[k] = IF k <= Len(s) THEN s[k] ELSE t[k - Len(s)]
  BY SMTT(60)

\* What a part of a sequence holds.
LEMMA SubSeqProperties ==
  ASSUME NEW S, NEW s, NEW m \in Int, NEW n \in Int, \A k \in m .. n : s[k] \in S
  PROVE  /\ SubSeq(s, m, n) \in Seq(S)
         /\ Len(SubSeq(s, m, n)) = IF m <= n THEN n - m + 1 ELSE 0
         /\ \A k \in 1 .. n - m + 1 : SubSeq(s, m, n)[k] = s[m + k - 1]
  BY SMTT(60)

-----------------------------------------------------------------------------
(* The driver.  Its invariant says what the drive may be doing at each     *)
(* place of a routine, and that an error is only reported by an idle drive *)
(* or, if BSY shows late, by one that has not yet taken the command.       *)

DriverInv ==
  /\ A!TypeOK
  /\ phase \in {"busy", "data", "storing"} => ~failed
  /\ ata_pc \notin {"done", "wait_busy", "wait_ready"} => drive \in Present
  /\ ata_pc = "done" /\ result = 1 => drive \in Present
  /\ ata_pc = "transfer" /\ i < WORDS => phase = "data"
  /\ ata_pc = "transfer" /\ i = WORDS =>
       IF op = "write" THEN phase \in {"storing", "idle"} ELSE phase = "idle" /\ ~failed
  /\ ata_pc = "done" /\ result = 1 /\ op # "write" => phase = "idle" /\ ~failed
  /\ ata_pc \notin {"done", "transfer"} => i = 0
  /\ ~lag =>
       /\ ata_pc \in {"done", "wait_busy", "wait_ready", "command"} => phase = "idle"
       /\ ata_pc \in {"exists", "response"}
            => phase \in {"busy", "data"} \/ (phase = "idle" /\ failed)
       /\ ata_pc = "check" => phase = "data" \/ (phase = "idle" /\ failed)
       /\ ata_pc = "wait_drq" => phase = "data"

\* The driver's properties follow.
LEMMA DriverInvImplies == DriverInv => A!Handshake
  BY DEF DriverInv, A!Handshake, A!TypeOK, A!DRQ, A!DRDY, A!BSY, A!exists

\* A call starts a routine.
LEMMA DriverCall ==
  ASSUME DriverInv, NEW o \in A!Ops, NEW d \in Drives, A!Call(o, d)
  PROVE  DriverInv'
  BY StorageConstants, SMTT(60) DEF DriverInv, A!TypeOK, A!Call

\* The waits and the checks of a routine.
LEMMA DriverWaits ==
  ASSUME DriverInv,
         \/ A!ata_wait_busy \/ A!ata_wait_ready \/ A!CheckExists
         \/ A!Response \/ A!CheckError \/ A!WaitDrq
  PROVE  DriverInv'
<1> USE StorageConstants
    DEF DriverInv, A!TypeOK, A!Goto, A!Return, A!BSY, A!DRDY, A!DRQ, A!ERR, A!exists
<1>1. CASE A!ata_wait_busy
  BY <1>1 DEF A!ata_wait_busy
<1>2. CASE A!ata_wait_ready
  BY <1>2 DEF A!ata_wait_ready
<1>3. CASE A!CheckExists
  BY <1>3 DEF A!CheckExists
<1>4. CASE A!Response
  BY <1>4 DEF A!Response
<1>5. CASE A!CheckError
  BY <1>5, SMTT(60) DEF A!CheckError
<1>6. CASE A!WaitDrq
  BY <1>6 DEF A!WaitDrq
<1>. QED
  BY <1>1, <1>2, <1>3, <1>4, <1>5, <1>6

\* The command, the words, and the end of a routine.
LEMMA DriverMoves ==
  ASSUME DriverInv, A!Command \/ A!Transfer \/ A!Complete
  PROVE  DriverInv'
<1> USE StorageConstants DEF DriverInv, A!TypeOK
<1>1. CASE A!Command
  BY <1>1 DEF A!Command
<1>2. CASE A!Transfer
  BY <1>2, SMTT(60) DEF A!Transfer
<1>3. CASE A!Complete
  BY <1>3 DEF A!Complete, A!Return, A!BSY, A!DRDY, A!exists
<1>. QED
  BY <1>1, <1>2, <1>3

\* The drive.
LEMMA DriveMoves ==
  ASSUME DriverInv, A!Drive
  PROVE  DriverInv'
<1> USE StorageConstants DEF DriverInv, A!TypeOK, A!driver
<1>1. CASE A!DriveLatch
  BY <1>1 DEF A!DriveLatch
<1>2. ASSUME NEW error \in BOOLEAN, A!DriveAnswer(error) PROVE DriverInv'
  BY <1>2 DEF A!DriveAnswer
<1>3. ASSUME NEW error \in BOOLEAN, A!DriveStored(error) PROVE DriverInv'
  BY <1>3 DEF A!DriveStored
<1>. QED
  BY <1>1, <1>2, <1>3 DEF A!Drive

-----------------------------------------------------------------------------
(* Division.                                                               *)

\* A quotient, from its remainder.
LEMMA Quotient ==
  ASSUME NEW d \in Nat \ {0}, NEW k \in Nat, NEW m \in 0 .. (d - 1)
  PROVE  (k * d + m) \div d = k /\ (k * d + m) % d = m
<1> DEFINE a == k * d + m
           q == a \div d
           r == a % d
<1>1. k * d \in Nat /\ a \in Nat
  BY SMTT(60)
<1>2. a = d * q + r /\ r \in 0 .. (d - 1) /\ q \in Int
  <2> HIDE DEF a
  <2>. QED
    BY <1>1, SMTT(60)
<1>3. a = k * d + m
  OBVIOUS
<1> HIDE DEF a, q, r
<1>4. q = k
  <2>1. CASE q >= k + 1
    <3>1. d * q >= d * (k + 1) /\ d * (k + 1) = k * d + d
      BY <1>2, <2>1, SMTT(60)
    <3>. QED
      BY <1>2, <1>3, <3>1, SMTT(60)
  <2>2. CASE q <= k - 1
    <3>1. d * q <= d * (k - 1) /\ d * (k - 1) = k * d - d
      BY <1>2, <2>2, SMTT(60)
    <3>. QED
      BY <1>2, <1>3, <3>1, SMTT(60)
  <2>. QED
    BY <1>2, <2>1, <2>2, SMTT(60)
<1>5. r = m
  <2>1. d * q = k * d
    BY <1>4, SMTT(60)
  <2>. QED
    BY <1>2, <1>3, <2>1, SMTT(60)
<1>. QED
  BY <1>4, <1>5 DEF a, q, r

\* A position is a cluster of the file and an offset.
LEMMA Splits ==
  ASSUME NEW d \in Nat \ {0}, NEW p \in Nat
  PROVE  p = (p \div d) * d + (p % d) /\ p \div d \in Nat /\ p % d \in 0 .. (d - 1)
  BY SMTT(60)

\* The positions of a cluster have the same quotient.
LEMMA SameCluster ==
  ASSUME NEW d \in Nat \ {0}, NEW p \in Nat, NEW m \in Nat, (p % d) + m < d
  PROVE  (p + m) \div d = p \div d /\ (p + m) % d = (p % d) + m
<1> DEFINE q == p \div d
           r == p % d
<1>1. p = q * d + r /\ q \in Nat /\ r \in 0 .. (d - 1)
  BY Splits
<1> HIDE DEF q, r
<1>2. r + m \in 0 .. (d - 1)
  BY <1>1, SMTT(60) DEF r
<1>3. (q * d + (r + m)) \div d = q /\ (q * d + (r + m)) % d = r + m
  BY <1>1, <1>2, Quotient
<1>4. p + m = q * d + (r + m)
  <2>1. q * d \in Nat
    BY <1>1, SMTT(60)
  <2>. QED
    BY <1>1, <2>1, SMTT(60)
<1>. QED
  BY <1>3, <1>4 DEF q, r

\* The position behind a cluster is the first of the next.
LEMMA NextCluster ==
  ASSUME NEW d \in Nat \ {0}, NEW p \in Nat, NEW m \in Nat, (p % d) + m = d
  PROVE  (p + m) \div d = (p \div d) + 1 /\ p + m = d * ((p \div d) + 1)
<1> DEFINE q == p \div d
           r == p % d
<1>1. p = q * d + r /\ q \in Nat /\ r \in 0 .. (d - 1)
  BY Splits
<1> HIDE DEF q, r
<1>2. ((q + 1) * d + 0) \div d = q + 1
  BY <1>1, Quotient, SMTT(60)
<1>3. p + m = (q + 1) * d + 0 /\ p + m = d * (q + 1)
  <2>1. q * d \in Nat /\ (q + 1) * d = q * d + d /\ d * (q + 1) = q * d + d
    BY <1>1, SMTT(60)
  <2>2. r + m = d
    BY DEF r
  <2>. QED
    BY <1>1, <2>1, <2>2, SMTT(60)
<1>. QED
  BY <1>2, <1>3 DEF q

\* A position of the file is in one of its clusters.
LEMMA WithinChain ==
  ASSUME NEW d \in Nat \ {0}, NEW n \in Nat, NEW p \in Nat, p < d * n
  PROVE  (p \div d) + 1 \in 1 .. n
<1> DEFINE q == p \div d
<1>1. p >= d * q /\ q \in Nat
  <2>1. p = (p \div d) * d + (p % d) /\ p \div d \in Nat /\ p % d \in 0 .. (d - 1)
    BY Splits
  <2>. QED
    BY <2>1, SMTT(60)
<1> HIDE DEF q
<1>2. q < n
  <2>1. q >= n => d * q >= d * n
    BY <1>1, SMTT(60)
  <2>2. d * q \in Nat /\ d * n \in Nat
    BY <1>1, SMTT(60)
  <2>. QED
    BY <1>1, <2>1, <2>2, SMTT(60)
<1>. QED
  BY <1>1, <1>2, SMTT(60) DEF q

\* Natural numbers have minima.  The lemmas assume it; before the theorems it
\* is taken from the library on well-founded orders.
Minima == \A T \in SUBSET Nat : T # {} => \E x \in T : \A y \in T : x <= y

\* First is the minimum.
LEMMA FirstOf ==
  ASSUME Minima, NEW T \in SUBSET Nat, T # {}
  PROVE  First(T) \in T /\ \A x \in T : First(T) <= x
<1>1. PICK x \in T : \A y \in T : x <= y
  BY DEF Minima
<1>. QED
  BY <1>1 DEF First

\* The entries with a name are those of the disk.
LEMMA NamedStays ==
  ASSUME UNCHANGED <<disk, name>>
  PROVE  Named(name)' = Named(name)
  BY SMTT(60) DEF Named, Places, EntryAt

\* What makes an entry one of them.
LEMMA NamedHas ==
  ASSUME NEW n, NEW a \in Places, Shown(EntryAt(a).name) = [j \in DOMAIN n |-> Upper(n[j])],
         EntryAt(a).name[1] # DELETED, \A c \in Places : UpTo(c, a) => EntryAt(c).name[1] # END
  PROVE  EntryAt(a) \in Named(n)
  BY SMTT(60) DEF Named

\* The file an entry opens.
LEMMA OpenedIs ==
  ASSUME NEW e, NEW p
  PROVE  Opened(e, p).chain = e.chain /\ Opened(e, p).size = e.size
  BY SMTT(60) DEF Opened

\* The places where a scan of a cluster may stop.
LEMMA HitsAreNumbers ==
  ASSUME NEW E, NEW es \in Seq(E)
  PROVE  Hits(es) \in SUBSET Nat
  BY LenProperties, SMTT(60) DEF Hits

-----------------------------------------------------------------------------
(* The files.  The invariant of an open file: its chain is linked in the   *)
(* FAT and as long as its size needs, current_cluster is on it, and unless *)
(* a seek strayed it is the one the position is in.                        *)

FileType ==
  /\ file \in [size : Nat, position : Nat, current_cluster : Nat, chain : Seq(Nat)]
  /\ size \in Nat /\ from \in Nat /\ got \in Seq(Nat \X Nat)

Looking ==
  pc = "lookup" =>
    /\ name \in Names /\ cluster \in DOMAIN disk.dir /\ ret = "none"
    /\ size = 0 /\ total = 0 /\ from = 0 /\ ~broken /\ ~strayed

OpenFile ==
  pc \in {"idle", "read"} =>
    /\ disk.type = 32 /\ Linked(disk, file.chain)
    /\ CLUSTER_SIZE * (Len(file.chain) - 1) < file.size
    /\ file.size <= CLUSTER_SIZE * Len(file.chain)
    /\ file.size > 0 => \E j \in 1 .. Len(file.chain) : file.current_cluster = file.chain[j]
    /\ ~strayed /\ file.position < file.size
         => file.current_cluster = file.chain[(file.position \div CLUSTER_SIZE) + 1]

Reading ==
  pc = "read" =>
    /\ file.position = from + total /\ ~broken
    /\ total = 0 \/ file.position <= file.size

FileInv == TypeOK /\ FileType /\ Looking /\ OpenFile /\ Reading /\ ReadsFile

\* The disk is well formed.
LEMMA DiskWellFormed ==
  ASSUME TypeOK
  PROVE  WellFormed(disk)
  BY FatConstants DEF TypeOK

\* Nothing is open at first.
LEMMA FileInit == Init => FileInv
<1> SUFFICES ASSUME Init PROVE FileInv
  OBVIOUS
<1>1. Len(got) = 0 /\ got \in Seq(Nat \X Nat) /\ <<>> \in Seq(Nat)
  BY SMTT(60) DEF Init
<1>2. TypeOK
  <2>1. broken \in BOOLEAN /\ strayed \in BOOLEAN
    BY DEF Init
  <2>. QED
    BY <1>1, <2>1, SMTT(60) DEF Init, TypeOK, NoFile
<1>3. FileType
  BY <1>1 DEF Init, FileType, NoFile
<1>4. ReadsFile /\ Reading /\ Looking /\ OpenFile
  BY SMTT(60) DEF Init, ReadsFile, Reading, Looking, OpenFile
<1>. QED
  BY <1>2, <1>3, <1>4 DEF FileInv

\* A call of fat_open starts the lookup in a cluster that has entries.
LEMMA OpenKeeps ==
  ASSUME FileInv, NEW n \in Names, fat_open(n)
  PROVE  FileInv'
<1>1. root_cluster \in DOMAIN disk.dir
  <2>1. WellFormed(disk)
    BY DiskWellFormed DEF FileInv
  <2>2. CASE disk.type = 32
    <3>1. disk.root # <<>> /\ disk.root \in Seq(2 .. disk.count + 1)
          /\ DOMAIN disk.dir = {disk.root[k] : k \in DOMAIN disk.root}
      BY <2>1, <2>2 DEF WellFormed, Linked
    <3>2. 1 \in DOMAIN disk.root
      BY <3>1, NonEmptySeq, LenProperties, SMTT(60)
    <3>. QED
      BY <2>2, <3>1, <3>2 DEF root_cluster
  <2>3. CASE disk.type # 32
    BY <2>1, <2>3 DEF WellFormed, root_cluster
  <2>. QED
    BY <2>2, <2>3
<1>2. Len(got') = 0 /\ got' \in Seq(Nat \X Nat)
  BY SMTT(60) DEF fat_open
<1>3. TypeOK'
  <2>1. broken' \in BOOLEAN /\ strayed' \in BOOLEAN
    BY DEF fat_open
  <2>. QED
    BY <1>2, <2>1, SMTT(60) DEF FileInv, fat_open, TypeOK
<1>4. FileType'
  BY <1>2 DEF FileInv, fat_open, FileType
<1>5. Looking' /\ OpenFile' /\ Reading' /\ ReadsFile'
  BY <1>1, SMTT(60) DEF fat_open, Looking, OpenFile, Reading, ReadsFile
<1>. QED
  BY <1>3, <1>4, <1>5 DEF FileInv

\* The lookup fails, in front of or behind the entries it has read.
LEMMA MissingKeeps ==
  ASSUME FileInv, pc = "lookup", pc' = "closed", ret' \in {"missing", "failed"},
         UNCHANGED <<disk, file, size, total, got, from, broken, strayed>>
  PROVE  FileInv'
<1>1. TypeOK' /\ FileType' /\ Looking' /\ OpenFile' /\ Reading'
  BY DEF FileInv, TypeOK, FileType, Looking, OpenFile, Reading
<1>2. ReadsFile'
  BY SMTT(60) DEF FileInv, Looking, ReadsFile
<1>. QED
  BY <1>1, <1>2 DEF FileInv

\* An entry that ends the scan and is not the end is that of a file.
LEMMA EntryFound ==
  ASSUME FileInv, pc = "lookup", NEW k \in Hits(disk.dir[cluster]),
         disk.dir[cluster][k].name[1] # END
  PROVE  LET e == disk.dir[cluster][k] IN
         /\ disk.type = 32 /\ Linked(disk, e.chain) /\ e.size \in Nat
         /\ CLUSTER_SIZE * (Len(e.chain) - 1) < e.size
         /\ e.size <= CLUSTER_SIZE * Len(e.chain)
<1> DEFINE e == disk.dir[cluster][k]
<1>1. /\ WellFormed(disk) /\ cluster \in DOMAIN disk.dir /\ name \in Names
      /\ k \in DOMAIN disk.dir[cluster]
  BY DiskWellFormed DEF FileInv, Looking, Hits
<1>2. e \in Entries(disk)
  BY <1>1, SMTT(60) DEF Entries
<1>3. e.name[1] # DELETED /\ e.name = fat_name(name)
  BY DEF Hits
<1> HIDE DEF e
<1>4. disk.type = 32
  BY <1>1, <1>2, <1>3 DEF WellFormed
<1>5. e.name[1] \notin {END, DELETED}
  BY <1>3 DEF e
<1>6. /\ Linked(disk, e.chain) /\ e.size \in Nat
      /\ CLUSTER_SIZE * (Len(e.chain) - 1) < e.size
      /\ e.size <= CLUSTER_SIZE * Len(e.chain)
  BY <1>1, <1>2, <1>4, <1>5 DEF WellFormed
<1>. QED
  BY <1>4, <1>6 DEF e

ChainOf(d, c) ==
  /\ c \in Seq(Nat) /\ Len(c) \in Nat /\ DOMAIN c = 1 .. Len(c)
  /\ \A j \in 1 .. Len(c) : c[j] \in 2 .. d.count + 1
  /\ \A j \in 1 .. Len(c) : d.fat[c[j]] = IF j = Len(c) THEN EOC ELSE c[j + 1]

\* A linked chain is a sequence of clusters, each with the next one in the FAT.
LEMMA Chains ==
  ASSUME NEW d, NEW c, d.count \in Nat, Linked(d, c)
  PROVE  ChainOf(d, c)
<1>1. c \in Seq(2 .. d.count + 1)
  BY DEF Linked
<1>2. Len(c) \in Nat /\ c \in [1 .. Len(c) -> 2 .. d.count + 1] /\ DOMAIN c = 1 .. Len(c)
  BY <1>1, LenProperties
<1>3. c \in Seq(Nat)
  BY <1>1, <1>2, SMTT(60)
<1>. QED
  BY <1>2, <1>3 DEF Linked, ChainOf

\* The name is found: its file is open, at its first cluster and at whatever
\* position its structure held; the history says whether they agree.
LEMMA FoundKeeps ==
  ASSUME FileInv, pc = "lookup", NEW k \in Hits(disk.dir[cluster]),
         disk.dir[cluster][k].name[1] # END, NEW p \in Starts,
         pc' = "idle", ret' = "found", file' = Opened(disk.dir[cluster][k], p),
         strayed' = Elsewhere(Opened(disk.dir[cluster][k], p)),
         UNCHANGED <<disk, size, total, got, from, broken>>
  PROVE  FileInv'
<1> DEFINE e == disk.dir[cluster][k]
<1>1. /\ disk.type = 32 /\ Linked(disk, e.chain) /\ e.size \in Nat
      /\ CLUSTER_SIZE * (Len(e.chain) - 1) < e.size
      /\ e.size <= CLUSTER_SIZE * Len(e.chain)
  BY EntryFound
<1>2. file' = Opened(e, p) /\ strayed' = Elsewhere(file')
  OBVIOUS
<1> HIDE DEF e
<1>3. disk.count \in Nat /\ CLUSTER_SIZE \in Nat \ {0} /\ p \in Nat
  <2>1. p \in Nat
    BY FatConstants, SMTT(60)
  <2>. QED
    BY <2>1, DiskWellFormed, FatConstants DEF FileInv, WellFormed
<1>4. /\ e.chain \in Seq(Nat) /\ Len(e.chain) \in Nat
      /\ \A j \in 1 .. Len(e.chain) : e.chain[j] \in Nat
  BY <1>1, <1>3, Chains, SMTT(60) DEF ChainOf
<1>5. /\ file'.size = e.size /\ file'.position = p /\ file'.chain = e.chain
      /\ file'.current_cluster = IF e.chain = <<>> THEN 0 ELSE e.chain[1]
  BY <1>2, SMTT(60) DEF Opened
<1>6. e.chain # <<>> => 1 \in 1 .. Len(e.chain)
  BY <1>4, NonEmptySeq, SMTT(60)
<1>7. e.size > 0 => e.chain # <<>>
  <2>1. Len(e.chain) = 0 => CLUSTER_SIZE * Len(e.chain) = 0
    BY <1>3, SMTT(60)
  <2>2. e.chain = <<>> => Len(e.chain) = 0
    BY SMTT(60)
  <2>. QED
    BY <1>1, <2>1, <2>2, SMTT(60)
<1>8. FileType'
  <2>1. file' = [size |-> e.size, position |-> p, chain |-> e.chain,
                 current_cluster |-> IF e.chain = <<>> THEN 0 ELSE e.chain[1]]
    BY <1>2 DEF Opened
  <2>. QED
    BY <1>1, <1>3, <1>4, <1>6, <2>1, SMTT(60) DEF FileInv, FileType
<1>9. TypeOK' /\ Looking' /\ Reading'
  <2>1. strayed' \in BOOLEAN
    BY <1>2 DEF Elsewhere
  <2>2. broken' \in BOOLEAN
    BY DEF FileInv, TypeOK
  <2>. QED
    BY <1>1, <1>3, <1>5, <2>1, <2>2, SMTT(60) DEF FileInv, TypeOK, Looking, Reading
<1>10. OpenFile'
  <2>1. ~strayed' /\ p < e.size => file'.current_cluster = e.chain[(p \div CLUSTER_SIZE) + 1]
    BY <1>2, <1>5 DEF Elsewhere
  <2>2. 0 < e.size => file'.current_cluster = e.chain[1] /\ 1 \in 1 .. Len(e.chain)
    BY <1>5, <1>6, <1>7
  <2>. QED
    BY <1>1, <1>5, <2>1, <2>2, SMTT(60) DEF OpenFile
<1>11. ReadsFile'
  BY <1>1, <1>5, SMTT(60) DEF FileInv, Looking, ReadsFile, Smaller
<1>. QED
  BY <1>8, <1>9, <1>10, <1>11 DEF FileInv

\* Neither name nor end: the next cluster of the directory has entries, too.
LEMMA NextInDirectory ==
  ASSUME FileInv, pc = "lookup", ~(read_fat_entry(cluster) >= disk.count + 2)
  PROVE  read_fat_entry(cluster) \in DOMAIN disk.dir
<1>1. /\ WellFormed(disk) /\ cluster \in DOMAIN disk.dir /\ disk.count \in Nat
      /\ disk.count + 2 <= EOC
  BY DiskWellFormed DEF FileInv, Looking, WellFormed
<1>2. CASE disk.type = 32
  <2>1. PICK k \in DOMAIN disk.root : cluster = disk.root[k]
    BY <1>1, <1>2 DEF WellFormed
  <2>2. Linked(disk, disk.root) /\ DOMAIN disk.dir = {disk.root[j] : j \in DOMAIN disk.root}
    BY <1>1, <1>2 DEF WellFormed
  <2>3. /\ DOMAIN disk.root = 1 .. Len(disk.root) /\ Len(disk.root) \in Nat
        /\ disk.fat[cluster] = IF k = Len(disk.root) THEN EOC ELSE disk.root[k + 1]
    <3>1. ChainOf(disk, disk.root)
      BY <1>1, <2>2, Chains
    <3>. QED
      BY <2>1, <3>1 DEF ChainOf
  <2>4. read_fat_entry(cluster) = disk.fat[cluster]
    BY <1>2, SMTT(60) DEF read_fat_entry
  <2>5. k # Len(disk.root)
    BY <1>1, <2>3, <2>4, SMTT(60) DEF EOC
  <2>. QED
    BY <2>2, <2>3, <2>4, <2>5, SMTT(60)
<1>3. CASE disk.type = 16
  <2>1. cluster = 0 /\ disk.fat[0] >= disk.count + 2
    BY <1>1, <1>3, SMTT(60) DEF WellFormed
  <2>. QED
    BY <1>3, <2>1, SMTT(60) DEF read_fat_entry
<1>4. CASE disk.type = 12
  BY <1>1, <1>4, SMTT(60) DEF WellFormed, read_fat_entry
<1>. QED
  BY <1>1, <1>2, <1>3, <1>4 DEF WellFormed

\* A cluster of the directory has been read.
LEMMA LookupKeeps ==
  ASSUME Minima, FileInv, LookupCluster
  PROVE  FileInv'
<1> DEFINE es == disk.dir[cluster]
           next == read_fat_entry(cluster)
           k == First(Hits(es))
<1>1. /\ pc = "lookup"
      /\ UNCHANGED <<disk, name, size, total, got, from, broken>>
  BY DEF LookupCluster, reading
<1>2. CASE Hits(es) # {}
  <2>1. k \in Hits(es)
    <3>1. DOMAIN es = 1 .. Len(es) /\ Len(es) \in Nat
      <4>1. es \in Seq(Entries(disk))
        BY <1>1, DiskWellFormed DEF FileInv, Looking, WellFormed
      <4>. QED
        BY <4>1, LenProperties
    <3>2. Hits(es) \in SUBSET Nat
      BY <3>1, SMTT(60) DEF Hits
    <3>. QED
      BY <1>2, <3>2, FirstOf
  <2>2. \/ es[k].name[1] = END /\ Return("missing", file) /\ UNCHANGED strayed
        \/ /\ es[k].name[1] # END
           /\ \E p \in Starts : /\ Return("found", Opened(es[k], p))
                               /\ strayed' = Elsewhere(Opened(es[k], p))
    BY <1>2 DEF LookupCluster
  <2> HIDE DEF k
  <2>3. CASE es[k].name[1] = END
    <3>1. pc' = "closed" /\ ret' = "missing" /\ file' = file /\ UNCHANGED strayed
      BY <2>2, <2>3 DEF Return
    <3>. QED
      BY <1>1, <3>1, MissingKeeps
  <2>4. CASE es[k].name[1] # END
    <3>1. PICK p \in Starts : /\ Return("found", Opened(es[k], p))
                              /\ strayed' = Elsewhere(Opened(es[k], p))
      BY <2>2, <2>4
    <3>2. pc' = "idle" /\ ret' = "found" /\ file' = Opened(es[k], p)
      BY <3>1 DEF Return
    <3>. QED
      BY <1>1, <2>1, <2>4, <3>1, <3>2, FoundKeeps
  <2>. QED
    BY <2>3, <2>4
<1>3. CASE Hits(es) = {} /\ next >= disk.count + 2
  <2>1. pc' = "closed" /\ ret' = "missing" /\ file' = file /\ UNCHANGED strayed
    BY <1>3 DEF LookupCluster, Return
  <2>. QED
    BY <1>1, <2>1, MissingKeeps
<1>4. CASE Hits(es) = {} /\ ~(next >= disk.count + 2)
  <2>1. cluster' = next /\ UNCHANGED <<pc, ret, file, strayed>>
    BY <1>4 DEF LookupCluster
  <2>2. cluster' \in DOMAIN disk.dir
    BY <1>1, <1>4, <2>1, NextInDirectory
  <2>3. TypeOK' /\ FileType' /\ Looking' /\ OpenFile' /\ Reading'
    BY <1>1, <2>1, <2>2 DEF FileInv, TypeOK, FileType, Looking, OpenFile, Reading
  <2>4. ReadsFile'
    BY <1>1, <2>1, SMTT(60) DEF FileInv, Looking, ReadsFile
  <2>. QED
    BY <2>3, <2>4 DEF FileInv
<1>. QED
  BY <1>2, <1>3, <1>4

\* fat_close, and the start and the other ends of fat_read.
LEMMA CloseKeeps ==
  ASSUME FileInv, fat_close
  PROVE  FileInv'
<1> USE DEF fat_close, lookup, reading
<1>1. TypeOK' /\ FileType' /\ Looking' /\ OpenFile' /\ Reading'
  BY DEF FileInv, TypeOK, FileType, Looking, OpenFile, Reading
<1>2. ReadsFile'
  BY DEF FileInv, ReadsFile, FileByte
<1>. QED
  BY <1>1, <1>2 DEF FileInv

\* fat_read starts with an empty buffer, at the position of the file.
LEMMA ReadKeeps ==
  ASSUME FileInv, NEW n \in Nat, fat_read(n)
  PROVE  FileInv'
<1> USE DEF fat_read, lookup
<1>1. Len(got') = 0 /\ got' \in Seq(Nat \X Nat)
  BY SMTT(60)
<1>2. FileType' /\ Looking' /\ OpenFile'
  BY <1>1 DEF FileInv, FileType, Looking, OpenFile
<1>3. TypeOK'
  <2>1. broken' \in BOOLEAN /\ strayed' \in BOOLEAN
    BY DEF FileInv, TypeOK
  <2>. QED
    BY <1>1, <2>1, SMTT(60) DEF FileInv, TypeOK
<1>4. ReadsFile' /\ Reading'
  BY SMTT(60) DEF FileInv, FileType, ReadsFile, Reading
<1>. QED
  BY <1>2, <1>3, <1>4 DEF FileInv

\* A disk error ends fat_read.
LEMMA ReadFailsKeeps ==
  ASSUME FileInv, ReadFails
  PROVE  FileInv'
<1> USE DEF ReadFails, lookup, reading
<1>1. FileType' /\ Looking' /\ OpenFile' /\ Reading'
  BY DEF FileInv, FileType, Looking, OpenFile, Reading
<1>2. TypeOK'
  <2>1. broken' \in BOOLEAN /\ strayed' \in BOOLEAN
    BY DEF FileInv, TypeOK
  <2>. QED
    BY <2>1 DEF FileInv, TypeOK
<1>3. ReadsFile'
  BY DEF FileInv, ReadsFile, FileByte
<1>. QED
  BY <1>1, <1>2, <1>3 DEF FileInv

\* The loop of fat_read ends: all that was asked for or all there is.
LEMMA ReadEndsKeeps ==
  ASSUME FileInv, ReadEnds
  PROVE  FileInv'
<1> USE DEF ReadEnds, lookup, reading
<1>1. TypeOK' /\ FileType' /\ Looking' /\ OpenFile' /\ Reading'
  BY DEF FileInv, TypeOK, FileType, Looking, OpenFile, Reading
<1>2. total = IF from >= file.size THEN 0 ELSE Smaller(size, file.size - from)
  <2>1. /\ file.position = from + total /\ total \in 0 .. size
        /\ total = 0 \/ file.position <= file.size
        /\ file.size \in Nat /\ from \in Nat /\ size \in Nat
    BY DEF FileInv, Reading, TypeOK, FileType
  <2>2. total = size \/ file.position >= file.size
    BY <2>1, SMTT(60) DEF MoreToRead
  <2>. QED
    BY <2>1, <2>2, SMTT(60) DEF Smaller
<1>3. ReadsFile'
  BY <1>2 DEF FileInv, ReadsFile, FileByte
<1>. QED
  BY <1>1, <1>3 DEF FileInv

\* fat_seek cuts the position off at the end of the file.
LEMMA TargetIsPosition ==
  ASSUME FileInv, NEW whence \in 0 .. 2, NEW offset \in Offsets
  PROVE  Smaller(Target(whence, offset), file.size) \in 0 .. file.size
<1>1. offset \in Int /\ file.position \in Int /\ file.size \in Nat /\ POSITIONS \in Nat \ {0}
  BY FatConstants, SMTT(60) DEF FileInv, FileType
<1>2. \A x \in Int : x % POSITIONS \in Nat
  BY <1>1, SMTT(60)
<1>3. Target(whence, offset) \in Nat
  BY <1>1, <1>2, SMTT(60) DEF Target
<1>. QED
  BY <1>1, <1>3, SMTT(60) DEF Smaller

\* The history says whether the seek left the cluster.
LEMMA SeekKeeps ==
  ASSUME FileInv, NEW p \in 0 .. file.size, MoveTo(p)
  PROVE  FileInv'
<1>1. /\ pc = "idle" /\ file' = [file EXCEPT !.position = p]
      /\ size' = 0 /\ total' = 0 /\ got' = <<>> /\ from' = 0 /\ broken' = FALSE
      /\ UNCHANGED <<disk, pc, name, cluster, ret>>
  BY DEF MoveTo, lookup
<1>2. /\ file \in [size : Nat, position : Nat, current_cluster : Nat, chain : Seq(Nat)]
      /\ p \in Nat /\ p <= file.size
  BY SMTT(60) DEF FileInv, FileType
<1>3. /\ file' \in [size : Nat, position : Nat, current_cluster : Nat, chain : Seq(Nat)]
      /\ file'.size = file.size /\ file'.position = p /\ file'.chain = file.chain
      /\ file'.current_cluster = file.current_cluster
  BY <1>1, <1>2
<1>4. Len(got') = 0 /\ got' \in Seq(Nat \X Nat)
  BY <1>1, SMTT(60)
<1>5. FileType' /\ Looking' /\ Reading'
  BY <1>1, <1>3, <1>4 DEF FileType, Looking, Reading
<1>6. TypeOK'
  <2>1. broken' \in BOOLEAN /\ strayed' \in BOOLEAN
    BY DEF MoveTo, Elsewhere
  <2>. QED
    BY <1>1, <1>2, <1>3, <1>4, <2>1, SMTT(60) DEF FileInv, TypeOK
<1>7. OpenFile'
  <2>1. ~strayed' /\ p < file.size => file.current_cluster = file.chain[(p \div CLUSTER_SIZE) + 1]
    BY <1>3 DEF MoveTo, Elsewhere
  <2>. QED
    BY <1>1, <1>3, <2>1 DEF FileInv, OpenFile
<1>8. ReadsFile'
  BY <1>1, <1>2, <1>3, SMTT(60) DEF ReadsFile, Smaller
<1>. QED
  BY <1>5, <1>6, <1>7, <1>8 DEF FileInv

\* What an iteration of fat_read takes: at least a byte, and no more than the
\* cluster, the request and the file have left.
LEMMA Taken ==
  ASSUME FileInv, pc = "read", MoreToRead
  PROVE  LET offset == file.position % CLUSTER_SIZE IN
         /\ bytes_from_cluster \in Nat \ {0}
         /\ offset \in 0 .. (CLUSTER_SIZE - 1) /\ offset + bytes_from_cluster <= CLUSTER_SIZE
         /\ total + bytes_from_cluster <= size
         /\ file.position + bytes_from_cluster <= file.size
         /\ offset + bytes_from_cluster = CLUSTER_SIZE
              \/ total + bytes_from_cluster = size
              \/ file.position + bytes_from_cluster = file.size
<1> DEFINE offset == file.position % CLUSTER_SIZE
<1>1. /\ CLUSTER_SIZE \in Nat \ {0} /\ file.position \in Nat /\ file.size \in Nat
      /\ size \in Nat /\ total \in Nat /\ total < size /\ file.position < file.size
  BY FatConstants, SMTT(60) DEF FileInv, FileType, TypeOK, MoreToRead
<1>2. offset \in 0 .. (CLUSTER_SIZE - 1)
  BY <1>1, SMTT(60)
<1>3. bytes_from_cluster =
        Smaller(CLUSTER_SIZE - offset, Smaller(size - total, file.size - file.position))
  BY DEF bytes_from_cluster
<1> HIDE DEF offset
<1>4. /\ bytes_from_cluster \in Nat \ {0} /\ offset + bytes_from_cluster <= CLUSTER_SIZE
      /\ total + bytes_from_cluster <= size
      /\ file.position + bytes_from_cluster <= file.size
      /\ offset + bytes_from_cluster = CLUSTER_SIZE
           \/ total + bytes_from_cluster = size
           \/ file.position + bytes_from_cluster = file.size
  BY <1>1, <1>2, <1>3, SMTT(60) DEF Smaller
<1>. QED
  BY <1>2, <1>4 DEF offset

\* The bytes it copies are those of the current cluster at the offsets the
\* positions ask for.
LEMMA Copied ==
  ASSUME FileInv, ReadCluster
  PROVE  LET n == bytes_from_cluster IN
         /\ got' \in Seq(Nat \X Nat) /\ Len(got') = total + n
         /\ \A k \in 1 .. total : got'[k] = got[k]
         /\ \A k \in (total + 1) .. (total + n) :
              /\ got'[k] = <<file.current_cluster, (from + k - 1) % CLUSTER_SIZE>>
              /\ (from + k - 1) \div CLUSTER_SIZE = file.position \div CLUSTER_SIZE
<1> DEFINE n == bytes_from_cluster
           p == file.position
           offset == p % CLUSTER_SIZE
           here == file.current_cluster
           bytes == Bytes(here, offset, n)
<1>1. /\ got' = got \o bytes /\ pc = "read" /\ MoreToRead
  BY DEF ReadCluster
<1>2. /\ n \in Nat \ {0} /\ offset \in 0 .. (CLUSTER_SIZE - 1) /\ offset + n <= CLUSTER_SIZE
  BY <1>1, Taken
<1>3. /\ CLUSTER_SIZE \in Nat \ {0} /\ p \in Nat /\ here \in Nat /\ from \in Nat /\ total \in Nat
      /\ got \in Seq(Nat \X Nat) /\ Len(got) = total /\ p = from + total
  BY <1>1, FatConstants, SMTT(60) DEF FileInv, FileType, TypeOK, Reading
<1>4. offset = p % CLUSTER_SIZE
  OBVIOUS
<1>5. bytes = [k \in 1 .. n |-> <<here, offset + k - 1>>]
  BY DEF Bytes
<1> HIDE DEF n, p, offset, here, bytes
<1>6. \A k \in 1 .. n : <<here, offset + k - 1>> \in Nat \X Nat
  BY <1>2, <1>3, SMTT(60)
<1>7. bytes \in Seq(Nat \X Nat) /\ Len(bytes) = n
  <2>1. bytes \in [1 .. n -> Nat \X Nat] /\ DOMAIN bytes = 1 .. n
    BY <1>5, <1>6
  <2>2. bytes \in Seq(Nat \X Nat)
    BY <1>2, <2>1, FunctionIsSeq
  <2>. QED
    BY <1>2, <2>1, <2>2, LenProperties, SMTT(60)
<1>8. /\ got' \in Seq(Nat \X Nat) /\ Len(got') = total + n
      /\ \A k \in 1 .. (total + n) : got'[k] = IF k <= total THEN got[k] ELSE bytes[k - total]
  BY <1>1, <1>3, <1>7, ConcatProperties
<1>9. \A k \in 1 .. total : got'[k] = got[k]
  BY <1>2, <1>3, <1>8, SMTT(60)
<1>10. ASSUME NEW k \in (total + 1) .. (total + n)
       PROVE  /\ got'[k] = <<here, (from + k - 1) % CLUSTER_SIZE>>
              /\ (from + k - 1) \div CLUSTER_SIZE = p \div CLUSTER_SIZE
  <2> DEFINE m == k - total - 1
  <2>1. m \in Nat /\ m + 1 \in 1 .. n /\ offset + m < CLUSTER_SIZE /\ from + k - 1 = p + m
    BY <1>2, <1>3, SMTT(60)
  <2>2. (p + m) \div CLUSTER_SIZE = p \div CLUSTER_SIZE /\ (p + m) % CLUSTER_SIZE = offset + m
    <3> HIDE DEF m
    <3>. QED
      BY <1>3, <1>4, <2>1, SameCluster
  <2>3. got'[k] = bytes[m + 1]
    <3>1. k \in 1 .. (total + n) /\ ~(k <= total) /\ k - total = m + 1
      BY <1>2, <1>3, SMTT(60)
    <3>. QED
      BY <1>8, <3>1
  <2>4. bytes[m + 1] = <<here, offset + m>>
    <3>1. bytes[m + 1] = <<here, offset + (m + 1) - 1>>
      BY <1>5, <2>1
    <3>2. offset + (m + 1) - 1 = offset + m
      BY <1>2, <2>1, SMTT(60)
    <3>. QED
      BY <3>1, <3>2
  <2> HIDE DEF m
  <2>. QED
    BY <2>1, <2>2, <2>3, <2>4
<1>11. /\ got' \in Seq(Nat \X Nat) /\ Len(got') = total + n
       /\ \A k \in (total + 1) .. (total + n) :
            /\ got'[k] = <<here, (from + k - 1) % CLUSTER_SIZE>>
            /\ (from + k - 1) \div CLUSTER_SIZE = p \div CLUSTER_SIZE
  BY <1>8, <1>10
<1>. QED
  BY <1>9, <1>11 DEF n, p, here

\* Where a step of fat_read leaves the file.
LEMMA Moved ==
  ASSUME FileInv, ReadCluster
  PROVE  LET n == bytes_from_cluster
             ended == (file.position % CLUSTER_SIZE) + n = CLUSTER_SIZE
             next == disk.fat[file.current_cluster]
         IN
         /\ file' \in [size : Nat, position : Nat, current_cluster : Nat, chain : Seq(Nat)]
         /\ file'.size = file.size /\ file'.chain = file.chain
         /\ file'.position = file.position + n
         /\ file'.current_cluster = IF ended /\ next < EOC THEN next ELSE file.current_cluster
         /\ pc' = IF ended /\ next >= EOC THEN "idle" ELSE "read"
         /\ next \in Nat /\ CLUSTER_SIZE \in Nat \ {0}
         /\ disk.type = 32 /\ ChainOf(disk, file.chain)
         /\ disk.count \in Nat /\ disk.count + 2 <= EOC
         /\ \E j \in 1 .. Len(file.chain) : file.current_cluster = file.chain[j]
<1> DEFINE n == bytes_from_cluster
           p == file.position
           here == file.current_cluster
           ended == (p % CLUSTER_SIZE) + n = CLUSTER_SIZE
           next == disk.fat[here]
<1>1. pc = "read" /\ MoreToRead
  BY DEF ReadCluster
<1>2. /\ n \in Nat \ {0} /\ p % CLUSTER_SIZE \in 0 .. (CLUSTER_SIZE - 1)
      /\ (p % CLUSTER_SIZE) + n <= CLUSTER_SIZE
  BY <1>1, Taken
<1>3. disk.type = 32 /\ disk.count \in Nat /\ disk.count + 2 <= EOC /\ CLUSTER_SIZE \in Nat \ {0}
  BY <1>1, DiskWellFormed, FatConstants DEF FileInv, OpenFile, WellFormed
<1>4. ChainOf(disk, file.chain)
  BY <1>1, <1>3, Chains DEF FileInv, OpenFile
<1>5. PICK j \in 1 .. Len(file.chain) : here = file.chain[j]
  <2>1. file.size > 0
    BY <1>1, SMTT(60) DEF FileInv, FileType, MoreToRead
  <2>. QED
    BY <1>1, <2>1 DEF FileInv, OpenFile
<1>6. next \in Nat
  <2>1. next = IF j = Len(file.chain) THEN EOC ELSE file.chain[j + 1]
    BY <1>4, <1>5 DEF ChainOf
  <2>2. Len(file.chain) \in Nat /\ \A m \in 1 .. Len(file.chain) : file.chain[m] \in 2 .. disk.count + 1
    BY <1>4 DEF ChainOf
  <2>3. j # Len(file.chain) => j + 1 \in 1 .. Len(file.chain)
    BY <2>2, SMTT(60)
  <2>. QED
    BY <1>3, <2>1, <2>2, <2>3, SMTT(60) DEF EOC
<1>7. ClusterEnds(p % CLUSTER_SIZE, n) <=> ended
  BY <1>2, <1>3, SMTT(60) DEF ClusterEnds
<1>8. read_fat_entry(here) = next
  BY <1>3, SMTT(60) DEF read_fat_entry
<1>9. /\ file' = [file EXCEPT !.position = p + n,
                              !.current_cluster = IF ended /\ next < EOC THEN next ELSE here]
      /\ pc' = IF ended /\ next >= EOC THEN "idle" ELSE "read"
  BY <1>7, <1>8 DEF ReadCluster
<1>10. /\ file \in [size : Nat, position : Nat, current_cluster : Nat, chain : Seq(Nat)]
       /\ p \in Nat /\ here \in Nat
  BY DEF FileInv, FileType
<1> HIDE DEF n, p, here, ended, next
<1>11. p + n \in Nat /\ (IF ended /\ next < EOC THEN next ELSE here) \in Nat
  BY <1>2, <1>6, <1>10, SMTT(60)
<1>12. /\ file' \in [size : Nat, position : Nat, current_cluster : Nat, chain : Seq(Nat)]
       /\ file'.size = file.size /\ file'.chain = file.chain
       /\ file'.position = p + n
       /\ file'.current_cluster = IF ended /\ next < EOC THEN next ELSE here
  BY <1>9, <1>10, <1>11
<1>. QED
  BY <1>3, <1>4, <1>5, <1>6, <1>9, <1>12 DEF n, p, here, ended, next

\* The file stays on its chain, and with its position unless it has strayed.
LEMMA Follows ==
  ASSUME FileInv, ReadCluster
  PROVE  OpenFile' /\ (pc' = "idle" /\ ~strayed => file'.position = file.size)
<1> DEFINE n == bytes_from_cluster
           p == file.position
           q == p \div CLUSTER_SIZE
           here == file.current_cluster
           c == file.chain
           ended == (p % CLUSTER_SIZE) + n = CLUSTER_SIZE
           next == disk.fat[here]
<1>1. /\ file'.size = file.size /\ file'.chain = c /\ file'.position = p + n
      /\ file'.current_cluster = (IF ended /\ next < EOC THEN next ELSE here)
      /\ pc' = (IF ended /\ next >= EOC THEN "idle" ELSE "read")
      /\ next \in Nat /\ CLUSTER_SIZE \in Nat \ {0}
      /\ disk.type = 32 /\ ChainOf(disk, c) /\ disk.count \in Nat /\ disk.count + 2 <= EOC
      /\ \E j \in 1 .. Len(c) : here = c[j]
  BY Moved
<1>2. /\ n \in Nat \ {0} /\ p % CLUSTER_SIZE \in 0 .. (CLUSTER_SIZE - 1)
      /\ (p % CLUSTER_SIZE) + n <= CLUSTER_SIZE /\ p + n <= file.size
  BY Taken DEF ReadCluster
<1>3. /\ p \in Nat /\ file.size \in Nat /\ p < file.size
      /\ Linked(disk, c) /\ CLUSTER_SIZE * (Len(c) - 1) < file.size
      /\ file.size <= CLUSTER_SIZE * Len(c)
      /\ ~strayed => here = c[q + 1]
  BY DEF FileInv, FileType, OpenFile, ReadCluster, MoreToRead
<1>4. /\ disk' = disk /\ strayed' = strayed
  BY DEF ReadCluster
<1>5. /\ Len(c) \in Nat
      /\ \A j \in 1 .. Len(c) : c[j] \in 2 .. disk.count + 1
      /\ \A j \in 1 .. Len(c) : disk.fat[c[j]] = IF j = Len(c) THEN EOC ELSE c[j + 1]
  BY <1>1 DEF ChainOf
<1>6. q + 1 \in 1 .. Len(c) /\ q \in Nat
  <2>1. p < CLUSTER_SIZE * Len(c)
    <3>1. CLUSTER_SIZE * Len(c) \in Nat
      BY <1>1, <1>5, SMTT(60)
    <3>. QED
      BY <1>3, <3>1, SMTT(60)
  <2>2. q + 1 \in 1 .. Len(c)
    BY <1>1, <1>3, <1>5, <2>1, WithinChain
  <2>. QED
    BY <1>1, <1>3, <2>2, Splits
<1>7. \A j \in 1 .. Len(c) : c[j] < EOC
  BY <1>1, <1>5, SMTT(60) DEF EOC
<1>8. \E j \in 1 .. Len(c) : file'.current_cluster = c[j]
  <2>1. PICK j \in 1 .. Len(c) : here = c[j]
    BY <1>1
  <2>2. next = IF j = Len(c) THEN EOC ELSE c[j + 1]
    BY <1>5, <2>1
  <2>3. CASE ended /\ next < EOC
    <3>1. j + 1 \in 1 .. Len(c) /\ next = c[j + 1]
      BY <1>5, <2>2, <2>3, SMTT(60) DEF EOC
    <3>. QED
      BY <1>1, <2>3, <3>1
  <2>4. CASE ~(ended /\ next < EOC)
    BY <1>1, <2>1, <2>4
  <2>. QED
    BY <2>3, <2>4
<1>9. ended => (p + n) \div CLUSTER_SIZE = q + 1 /\ p + n = CLUSTER_SIZE * (q + 1)
  BY <1>1, <1>2, <1>3, NextCluster
<1>10. ~ended => (p + n) \div CLUSTER_SIZE = q
  <2>1. ~ended => (p % CLUSTER_SIZE) + n < CLUSTER_SIZE
    BY <1>1, <1>2, SMTT(60)
  <2>. QED
    BY <1>1, <1>2, <1>3, <2>1, SameCluster
<1> HIDE DEF n, p, q, here, c, ended, next
<1>11. ~strayed => next = IF q + 1 = Len(c) THEN EOC ELSE c[q + 2]
  <2>1. disk.fat[c[q + 1]] = IF q + 1 = Len(c) THEN EOC ELSE c[(q + 1) + 1]
    BY <1>5, <1>6
  <2>2. (q + 1) + 1 = q + 2
    BY <1>6, SMTT(60)
  <2>. QED
    BY <1>3, <2>1, <2>2 DEF next
<1>12. ended /\ p + n < file.size => q + 2 \in 1 .. Len(c)
  <2>1. q + 1 >= Len(c) => CLUSTER_SIZE * (q + 1) >= CLUSTER_SIZE * Len(c)
    BY <1>1, <1>5, <1>6, SMTT(60)
  <2>2. CLUSTER_SIZE * (q + 1) \in Nat /\ CLUSTER_SIZE * Len(c) \in Nat
    BY <1>1, <1>5, <1>6, SMTT(60)
  <2>3. ended /\ p + n < file.size => q + 1 < Len(c)
    BY <1>3, <1>5, <1>6, <1>9, <2>1, <2>2, SMTT(60)
  <2>. QED
    BY <1>5, <1>6, <2>3, SMTT(60)
<1>13. ~strayed /\ p + n < file.size => file'.current_cluster = c[((p + n) \div CLUSTER_SIZE) + 1]
  <2> SUFFICES ASSUME ~strayed, p + n < file.size
               PROVE  file'.current_cluster = c[((p + n) \div CLUSTER_SIZE) + 1]
    OBVIOUS
  <2>1. CASE ended
    <3>1. q + 2 \in 1 .. Len(c)
      BY <1>12, <2>1
    <3>2. next = c[q + 2] /\ next < EOC
      BY <1>5, <1>6, <1>7, <1>11, <3>1, SMTT(60)
    <3>3. ((p + n) \div CLUSTER_SIZE) + 1 = q + 2
      BY <1>6, <1>9, <2>1, SMTT(60)
    <3>. QED
      BY <1>1, <2>1, <3>2, <3>3
  <2>2. CASE ~ended
    BY <1>1, <1>3, <1>10, <2>2
  <2>. QED
    BY <2>1, <2>2
<1>14. pc' = "idle" /\ ~strayed => p + n = file.size
  <2> SUFFICES ASSUME pc' = "idle", ~strayed PROVE p + n = file.size
    OBVIOUS
  <2>1. ended /\ next >= EOC
    BY <1>1
  <2>2. q + 1 = Len(c)
    <3>1. q + 1 # Len(c) => q + 2 \in 1 .. Len(c)
      BY <1>5, <1>6, SMTT(60)
    <3>2. q + 1 # Len(c) => next < EOC
      BY <1>7, <1>11, <3>1
    <3>. QED
      BY <1>1, <2>1, <3>2, SMTT(60) DEF EOC
  <2>3. p + n = CLUSTER_SIZE * Len(c)
    BY <1>9, <2>1, <2>2
  <2>. QED
    BY <1>2, <1>3, <2>3, SMTT(60) DEF n, p
<1>15. OpenFile'
  BY <1>1, <1>3, <1>4, <1>8, <1>13 DEF OpenFile, c
<1>. QED
  BY <1>1, <1>14, <1>15

\* A cluster of the file has been read.
LEMMA ClusterKeeps ==
  ASSUME FileInv, ReadCluster
  PROVE  FileInv'
<1> DEFINE n == bytes_from_cluster
           p == file.position
           here == file.current_cluster
           c == file.chain
<1>1. /\ pc = "read" /\ total' = total + n
      /\ UNCHANGED <<disk, name, cluster, ret, size, from, broken, strayed>>
  BY DEF ReadCluster, lookup
<1>2. /\ n \in Nat \ {0} /\ total + n <= size /\ p + n <= file.size
  BY Taken DEF ReadCluster
<1>3. /\ file' \in [size : Nat, position : Nat, current_cluster : Nat, chain : Seq(Nat)]
      /\ file'.size = file.size /\ file'.chain = c /\ file'.position = p + n
      /\ pc' \in {"idle", "read"} /\ ChainOf(disk, c)
      /\ \E j \in 1 .. Len(c) : here = c[j]
  <2>1. pc' = "idle" \/ pc' = "read"
    BY DEF ReadCluster
  <2>. QED
    BY <2>1, Moved
<1>4. /\ got' \in Seq(Nat \X Nat) /\ Len(got') = total + n
      /\ \A k \in 1 .. total : got'[k] = got[k]
      /\ \A k \in (total + 1) .. (total + n) :
           /\ got'[k] = <<here, (from + k - 1) % CLUSTER_SIZE>>
           /\ (from + k - 1) \div CLUSTER_SIZE = p \div CLUSTER_SIZE
  BY Copied
<1>5. OpenFile' /\ (pc' = "idle" /\ ~strayed => file'.position = file.size)
  BY Follows
<1>6. /\ p \in Nat /\ total \in Nat /\ size \in Nat /\ from \in Nat /\ file.size \in Nat
      /\ p = from + total /\ ~broken
      /\ ~strayed => here = c[(p \div CLUSTER_SIZE) + 1]
  BY <1>1, SMTT(60) DEF FileInv, FileType, TypeOK, Reading, OpenFile, ReadCluster, MoreToRead
<1> HIDE DEF n, p, here, c
<1>7. TypeOK' /\ FileType' /\ Looking' /\ Reading'
  <2>1. TypeOK'
    BY <1>1, <1>2, <1>3, <1>4, <1>6, SMTT(60) DEF FileInv, TypeOK
  <2>2. FileType' /\ Looking'
    BY <1>1, <1>3, <1>4 DEF FileInv, FileType, Looking
  <2>3. Reading'
    BY <1>1, <1>2, <1>3, <1>6, SMTT(60) DEF Reading
  <2>. QED
    BY <2>1, <2>2, <2>3
<1>8. ReadsFile'
  <2>1. ASSUME NEW k \in 1 .. total'
        PROVE  IF strayed
               THEN /\ \E j \in DOMAIN c : got'[k][1] = c[j]
                    /\ got'[k][2] = (from + k - 1) % CLUSTER_SIZE
               ELSE got'[k] = <<c[((from + k - 1) \div CLUSTER_SIZE) + 1],
                                (from + k - 1) % CLUSTER_SIZE>>
    <3>1. CASE k <= total
      <4>1. k \in 1 .. total
        BY <1>1, <1>2, <1>6, <3>1, SMTT(60)
      <4>2. got'[k] = got[k]
        BY <1>4, <4>1
      <4>. QED
        BY <4>1, <4>2 DEF FileInv, ReadsFile, FileByte, c
    <3>2. CASE k > total
      <4>1. k \in (total + 1) .. (total + n)
        BY <1>1, <1>2, <1>6, <3>2, SMTT(60)
      <4>2. /\ got'[k] = <<here, (from + k - 1) % CLUSTER_SIZE>>
            /\ (from + k - 1) \div CLUSTER_SIZE = p \div CLUSTER_SIZE
        BY <1>4, <4>1
      <4>3. \E j \in DOMAIN c : here = c[j]
        BY <1>3 DEF ChainOf
      <4>. QED
        BY <1>6, <4>2, <4>3, SMTT(60)
    <3>. QED
      BY <1>1, <1>2, <1>6, <3>1, <3>2, SMTT(60)
  <2>2. pc' = "idle" /\ ~strayed =>
          total' = IF from >= file.size THEN 0 ELSE Smaller(size, file.size - from)
    <3>1. pc' = "idle" /\ ~strayed => p + n = file.size
      BY <1>3, <1>5
    <3>. QED
      BY <1>1, <1>2, <1>6, <3>1, SMTT(60) DEF Smaller
  <2>. QED
    BY <1>1, <1>3, <2>1, <2>2 DEF ReadsFile, FileByte
<1>. QED
  BY <1>5, <1>7, <1>8 DEF FileInv

\* Nothing of the files changes.
LEMMA FileStutters ==
  ASSUME FileInv, UNCHANGED vars
  PROVE  FileInv'
<1> USE DEF vars
<1>1. TypeOK' /\ FileType' /\ Looking' /\ OpenFile' /\ Reading'
  BY DEF FileInv, TypeOK, FileType, Looking, OpenFile, Reading
<1>2. ReadsFile'
  BY DEF FileInv, ReadsFile, FileByte
<1>. QED
  BY <1>1, <1>2 DEF FileInv

\* The calls.
LEMMA CallsKeep ==
  ASSUME FileInv, Calls
  PROVE  FileInv'
<1>1. ASSUME NEW n \in Sizes, fat_read(n) PROVE FileInv'
  BY <1>1, FatConstants, ReadKeeps
<1>2. ASSUME NEW whence \in 0 .. 2, NEW offset \in Offsets, fat_seek(whence, offset) PROVE FileInv'
  BY <1>2, TargetIsPosition, SeekKeeps DEF fat_seek
<1>. QED
  BY <1>1, <1>2, OpenKeeps, CloseKeeps DEF Calls

-----------------------------------------------------------------------------
(* The files on the driver.  Whoever called the driver waits for it,       *)
(* ata_init for the drive it is at, and a sector that fat.c asked for and  *)
(* that failed did so on the drive.                                        *)

Waiting ==
  /\ asked \in {"none", "fat", "other"} \cup Drives /\ sectors \in 0 .. (SECTORS - 1)
  /\ detected \in [Drives -> BOOLEAN] /\ \A d \in Drives : detected[d] => d \in Present
  /\ asked \in Drives => drive = asked
  /\ asked = "none" => ata_pc = "done"
  /\ asked = "fat" => op = "read" /\ NeedsCluster
  /\ asked = "fat" /\ ata_pc = "done" /\ result = 0 /\ ~lag => failed

StorageInv == FileInv /\ DriverInv /\ Waiting

\* At first nobody waits.
LEMMA StorageInitHolds == StorageInit => StorageInv
<1> SUFFICES ASSUME StorageInit PROVE StorageInv
  OBVIOUS
<1>1. FileInv
  BY FileInit DEF StorageInit
<1>2. DriverInv
  <2>1. failed \in BOOLEAN /\ lag \in BOOLEAN
    BY DEF StorageInit, A!Init
  <2>. QED
    BY <2>1, StorageConstants, SMTT(60) DEF StorageInit, A!Init, A!TypeOK, A!Ops, DriverInv
<1>3. Waiting
  <2>1. detected \in [Drives -> BOOLEAN] /\ \A d \in Drives : ~detected[d]
    BY DEF StorageInit
  <2>. QED
    BY <2>1, StorageConstants, SMTT(60) DEF StorageInit, A!Init, Waiting
<1>. QED
  BY <1>1, <1>2, <1>3 DEF StorageInv

\* Calls of the file system and of the driver, and their ends.
LEMMA CallStep ==
  ASSUME StorageInv,
         \/ CallFat \/ Returned \/ ReadSector \/ EndRead
         \/ \E o \in A!Ops, d \in Drives : CallAta(o, d)
         \/ ata_init \/ InitStep
  PROVE  StorageInv'
<1>1. CASE CallFat
  <2>1. FileInv' /\ UNCHANGED <<ata, caller>> /\ asked = "none"
    BY <1>1, CallsKeep DEF CallFat, StorageInv
  <2>2. DriverInv'
    BY <2>1, SMTT(60) DEF StorageInv, DriverInv, A!TypeOK, ata
  <2>3. Waiting'
    BY <2>1 DEF StorageInv, Waiting, ata, caller
  <2>. QED
    BY <2>1, <2>2, <2>3 DEF StorageInv
<1>2. CASE Returned
  <2>1. FileInv'
    BY <1>2, FileStutters DEF Returned, StorageInv
  <2>2. DriverInv'
    BY <1>2 DEF Returned, StorageInv, DriverInv, A!TypeOK, ata
  <2>3. Waiting'
    BY <1>2, StorageConstants DEF Returned, StorageInv, Waiting, ata
  <2>. QED
    BY <2>1, <2>2, <2>3 DEF StorageInv
<1>3. CASE ReadSector
  <2>1. FileInv'
    BY <1>3, FileStutters DEF ReadSector, StorageInv
  <2>2. DriverInv'
    <3>1. "read" \in A!Ops /\ "master" \in Drives
      BY StorageConstants DEF A!Ops
    <3>. QED
      BY <1>3, <3>1, DriverCall DEF ReadSector, StorageInv
  <2>3. Waiting'
    BY <1>3, StorageConstants
       DEF ReadSector, A!Call, StorageInv, Waiting, NeedsCluster, MoreToRead, vars
  <2>. QED
    BY <2>1, <2>2, <2>3 DEF StorageInv
<1>4. CASE EndRead
  <2>1. FileInv'
    BY <1>4, ReadEndsKeeps DEF EndRead, StorageInv
  <2>2. DriverInv'
    BY <1>4, SMTT(60) DEF EndRead, StorageInv, DriverInv, A!TypeOK, ata
  <2>3. Waiting'
    BY <1>4 DEF EndRead, StorageInv, Waiting, ata, caller
  <2>. QED
    BY <2>1, <2>2, <2>3 DEF StorageInv
<1>5. ASSUME NEW o \in A!Ops, NEW d \in Drives, CallAta(o, d) PROVE StorageInv'
  <2>1. FileInv'
    BY <1>5, FileStutters DEF CallAta, StorageInv
  <2>2. DriverInv'
    BY <1>5, DriverCall DEF CallAta, StorageInv
  <2>3. Waiting'
    BY <1>5, StorageConstants DEF CallAta, StorageInv, Waiting
  <2>. QED
    BY <2>1, <2>2, <2>3 DEF StorageInv
<1>6. "identify" \in A!Ops /\ "master" \in Drives /\ "slave" \in Drives
  BY StorageConstants DEF A!Ops
<1>7. CASE ata_init
  <2>1. FileInv'
    BY <1>7, FileStutters DEF ata_init, StorageInv
  <2>2. DriverInv'
    BY <1>6, <1>7, DriverCall DEF ata_init, StorageInv
  <2>3. Waiting'
    BY <1>6, <1>7, StorageConstants DEF ata_init, A!Call, StorageInv, Waiting
  <2>. QED
    BY <2>1, <2>2, <2>3 DEF StorageInv
<1>8. ASSUME NEW d \in Drives, Identified(d)
      PROVE  /\ FileInv'
             /\ detected' \in [Drives -> BOOLEAN]
             /\ \A x \in Drives : detected'[x] => x \in Present
  <2>1. FileInv'
    BY <1>8, FileStutters DEF Identified, StorageInv
  <2>2. /\ detected' = [detected EXCEPT ![d] = detected[d] \/ result = 1]
        /\ detected \in [Drives -> BOOLEAN] /\ \A x \in Drives : detected[x] => x \in Present
        /\ result = 1 => d \in Present
    BY <1>8 DEF Identified, StorageInv, Waiting, DriverInv
  <2>. QED
    BY <2>1, <2>2
<1>9. CASE MasterIdentified
  <2>1. DriverInv'
    BY <1>6, <1>9, DriverCall DEF MasterIdentified, StorageInv
  <2>2. Waiting'
    BY <1>6, <1>8, <1>9, StorageConstants
       DEF MasterIdentified, Identified, A!Call, StorageInv, Waiting
  <2>. QED
    BY <1>6, <1>8, <1>9, <2>1, <2>2 DEF MasterIdentified, StorageInv
<1>10. CASE SlaveIdentified
  <2>1. DriverInv'
    BY <1>10, SMTT(60) DEF SlaveIdentified, StorageInv, DriverInv, A!TypeOK, ata
  <2>2. Waiting'
    BY <1>6, <1>8, <1>10, StorageConstants
       DEF SlaveIdentified, Identified, StorageInv, Waiting, ata
  <2>. QED
    BY <1>6, <1>8, <1>10, <2>1, <2>2 DEF SlaveIdentified, StorageInv
<1>. QED
  BY <1>1, <1>2, <1>3, <1>4, <1>5, <1>7, <1>9, <1>10 DEF InitStep

\* A sector has been read, or could not be.
LEMMA SectorStep ==
  ASSUME Minima, StorageInv, SectorRead \/ SectorFails
  PROVE  StorageInv'
<1>1. FileInv'
  <2>1. UNCHANGED vars \/ LookupCluster \/ ReadCluster \/ LookupFails \/ ReadFails
    BY DEF SectorRead, SectorFails
  <2>2. LookupFails => FileInv'
    BY MissingKeeps DEF StorageInv, LookupFails, Return, reading
  <2>. QED
    BY <2>1, <2>2, FileStutters, LookupKeeps, ClusterKeeps, ReadFailsKeeps DEF StorageInv
<1>2. DriverInv'
  BY SMTT(60) DEF SectorRead, SectorFails, StorageInv, DriverInv, A!TypeOK, ata
<1>3. Waiting'
  BY StorageConstants, SMTT(60) DEF SectorRead, SectorFails, StorageInv, Waiting, ata
<1>. QED
  BY <1>1, <1>2, <1>3 DEF StorageInv

\* A step of the driver: a routine ends with 0 only if it saw an error or no
\* drive, and fat.c asks no missing drive.
LEMMA DriverStepKeeps ==
  ASSUME StorageInv, DriverStep
  PROVE  StorageInv'
<1>1. FileInv'
  BY FileStutters DEF DriverStep, StorageInv
<1>2. DriverInv'
  BY DriverWaits, DriverMoves DEF DriverStep, StorageInv, A!Driver
<1>3. Waiting'
  <2>1. /\ UNCHANGED <<pc, total, size, file, asked, sectors, detected>> /\ ata_pc # "done"
        /\ op' = op /\ drive' = drive /\ lag' = lag
    BY DEF DriverStep, caller, vars, A!Driver, A!ata_wait_busy, A!ata_wait_ready, A!Command,
           A!CheckExists, A!Response, A!CheckError, A!WaitDrq, A!Transfer, A!Complete,
           A!Goto, A!Return
  <2>2. ata_pc' = "done" /\ result' = 0 => A!CheckExists \/ A!CheckError
    BY SMTT(60) DEF DriverStep, A!Driver, A!ata_wait_busy, A!ata_wait_ready, A!Command,
           A!Response, A!WaitDrq, A!Transfer, A!Complete, A!Goto, A!Return
  <2>3. A!CheckExists => ata_pc' = "response"
    BY DEF A!CheckExists, A!Goto, A!exists, StorageInv, DriverInv
  <2>4. A!CheckError /\ ata_pc' = "done" => failed'
    BY DEF A!CheckError, A!Goto, A!Return, A!ERR
  <2>5. NeedsCluster' <=> NeedsCluster
    BY <2>1 DEF NeedsCluster, MoreToRead
  <2>. QED
    BY <2>1, <2>2, <2>3, <2>4, <2>5 DEF StorageInv, Waiting
<1>. QED
  BY <1>1, <1>2, <1>3 DEF StorageInv

\* A step of the drive: an idle one makes none.
LEMMA DriveStepKeeps ==
  ASSUME StorageInv, DriveStep
  PROVE  StorageInv'
<1>1. FileInv'
  BY FileStutters DEF DriveStep, StorageInv
<1>2. DriverInv'
  BY DriveMoves DEF DriveStep, StorageInv
<1>3. Waiting'
  <2>1. /\ UNCHANGED <<pc, total, size, file, asked, sectors, detected>>
        /\ UNCHANGED <<op, drive, ata_pc, result, lag>>
        /\ phase # "idle"
    BY DEF DriveStep, caller, vars, A!Drive, A!DriveLatch, A!DriveAnswer, A!DriveStored, A!driver
  <2>2. NeedsCluster' <=> NeedsCluster
    BY <2>1 DEF NeedsCluster, MoreToRead
  <2>3. lag \/ ata_pc # "done"
    BY <2>1 DEF StorageInv, DriverInv
  <2>. QED
    BY <2>1, <2>2, <2>3 DEF StorageInv, Waiting
<1>. QED
  BY <1>1, <1>2, <1>3 DEF StorageInv

\* Every step.
LEMMA StorageStep == ASSUME Minima PROVE StorageInv /\ [StorageNext]_all => StorageInv'
<1>1. StorageInv /\ StorageNext => StorageInv'
  BY CallStep, SectorStep, DriverStepKeeps, DriveStepKeeps DEF StorageNext, FatStep
<1>2. ASSUME StorageInv, UNCHANGED all PROVE StorageInv'
  <2>1. UNCHANGED vars /\ UNCHANGED ata /\ UNCHANGED caller
    BY <1>2 DEF all
  <2>2. FileInv'
    BY <1>2, <2>1, FileStutters DEF StorageInv
  <2>3. DriverInv'
    BY <1>2, <2>1, SMTT(60) DEF StorageInv, DriverInv, A!TypeOK, ata
  <2>4. Waiting'
    BY <1>2, <2>1 DEF StorageInv, Waiting, ata, caller, vars, NeedsCluster, MoreToRead
  <2>. QED
    BY <2>2, <2>3, <2>4 DEF StorageInv
<1>. QED
  BY <1>1, <1>2

-----------------------------------------------------------------------------
(* Names: what an entry shows is the name asked for just when the entry    *)
(* has what fat_name makes of it.                                          *)

\* Trimmed leaves the spaces at the end out.
LEMMA TrimmedIs ==
  ASSUME Minima, NEW s \in Seq(Nat)
  PROVE  LET t == Trimmed(s) IN
         /\ t \in Seq(Nat) /\ Len(t) \in 0 .. Len(s)
         /\ \A k \in 1 .. Len(t) : t[k] = s[k]
         /\ \A k \in (Len(t) + 1) .. Len(s) : s[k] = SPACE
         /\ Len(t) > 0 => s[Len(t)] # SPACE
<1> DEFINE T == {0} \cup {k \in DOMAIN s : s[k] # SPACE}
           l == Last(T)
<1>1. Len(s) \in Nat /\ DOMAIN s = 1 .. Len(s) /\ \A k \in 1 .. Len(s) : s[k] \in Nat
  BY LenProperties
<1>2. l \in T /\ \A k \in T : k <= l
  <2> DEFINE R == {Len(s) - k : k \in T}
  <2>1. R \in SUBSET Nat /\ R # {}
    BY <1>1, SMTT(60)
  <2>2. PICK r \in R : \A y \in R : r <= y
    BY <2>1 DEF Minima
  <2>3. PICK x \in T : r = Len(s) - x
    BY <2>2
  <2>4. \A k \in T : k \in Nat
    BY <1>1, SMTT(60)
  <2>5. \A k \in T : k <= x
    <3> SUFFICES ASSUME NEW k \in T PROVE k <= x
      OBVIOUS
    <3>1. Len(s) - k \in R
      OBVIOUS
    <3> HIDE DEF R, T
    <3>. QED
      BY <1>1, <2>2, <2>3, <2>4, <3>1, SMTT(60)
  <2> HIDE DEF R, T
  <2>6. Last(T) \in T /\ \A k \in T : k <= Last(T)
    BY <2>5 DEF Last
  <2>. QED
    BY <2>4, <2>6
<1>3. l \in 0 .. Len(s) /\ (l > 0 => s[l] # SPACE)
  <2> HIDE DEF l
  <2>. QED
    BY <1>1, <1>2, SMTT(60)
<1>4. \A k \in (l + 1) .. Len(s) : s[k] = SPACE
  <2> HIDE DEF l
  <2> SUFFICES ASSUME NEW k \in (l + 1) .. Len(s), s[k] # SPACE PROVE FALSE
    OBVIOUS
  <2>1. k \in T /\ k > l
    BY <1>1, <1>3, SMTT(60)
  <2>. QED
    BY <1>2, <1>3, <2>1, SMTT(60)
<1>5. Trimmed(s) = SubSeq(s, 1, l)
  BY DEF Trimmed
<1> HIDE DEF l
<1>6. \A k \in 1 .. l : s[k] \in Nat
  BY <1>1, <1>3, SMTT(60)
<1>7. /\ Trimmed(s) \in Seq(Nat) /\ Len(Trimmed(s)) = l
      /\ \A k \in 1 .. l : Trimmed(s)[k] = s[k]
  <2>1. /\ SubSeq(s, 1, l) \in Seq(Nat)
        /\ Len(SubSeq(s, 1, l)) = IF 1 <= l THEN l - 1 + 1 ELSE 0
        /\ \A k \in 1 .. (l - 1 + 1) : SubSeq(s, 1, l)[k] = s[1 + k - 1]
    BY <1>3, <1>6, SubSeqProperties, SMTT(60)
  <2>2. (IF 1 <= l THEN l - 1 + 1 ELSE 0) = l /\ l - 1 + 1 = l
    BY <1>3, SMTT(60)
  <2>3. \A k \in 1 .. l : 1 + k - 1 = k
    BY <1>3, SMTT(60)
  <2>. QED
    BY <1>5, <2>1, <2>2, <2>3
<1>. QED
  BY <1>3, <1>4, <1>7

EntryName(x) == x \in [1 .. (NAME + EXT) -> 0 .. 255]

\* Name and extension of an entry end at positions b and e.
Ends(x, b, e) ==
  /\ b \in 0 .. NAME /\ e \in 0 .. EXT
  /\ \A k \in (b + 1) .. NAME : x[k] = SPACE
  /\ \A k \in (NAME + e + 1) .. (NAME + EXT) : x[k] = SPACE
  /\ b > 0 => x[b] # SPACE
  /\ e > 0 => x[NAME + e] # SPACE

\* They do at only one pair.
LEMMA OneEnd ==
  ASSUME NEW x, NEW b, NEW e, NEW b2, NEW e2, Ends(x, b, e), Ends(x, b2, e2)
  PROVE  b = b2 /\ e = e2
<1>1. NAME \in Nat /\ EXT \in Nat
  BY FatConstants
<1>2. /\ b \in 0 .. NAME /\ e \in 0 .. EXT /\ b2 \in 0 .. NAME /\ e2 \in 0 .. EXT
  BY DEF Ends
<1>3. ~(b < b2) /\ ~(b2 < b)
  BY <1>1, <1>2, SMTT(60) DEF Ends
<1>4. ~(e < e2) /\ ~(e2 < e)
  <2>1. e < e2 => NAME + e2 \in (NAME + e + 1) .. (NAME + EXT)
    BY <1>1, <1>2, SMTT(60)
  <2>2. e2 < e => NAME + e \in (NAME + e2 + 1) .. (NAME + EXT)
    BY <1>1, <1>2, SMTT(60)
  <2>. QED
    BY <1>1, <1>2, <2>1, <2>2, SMTT(60) DEF Ends
<1>. QED
  BY <1>2, <1>3, <1>4, SMTT(60)

\* t is the text of an entry whose parts end at b and e.
Text(x, t, b, e) ==
  /\ t \in Seq(Nat) /\ Len(t) = (IF e = 0 THEN b ELSE b + 1 + e)
  /\ \A k \in 1 .. b : t[k] = x[k]
  /\ e > 0 => t[b + 1] = DOT
  /\ \A k \in 1 .. e : t[b + 1 + k] = x[NAME + k]

\* What Shown makes of an entry.
LEMMA ShownIs ==
  ASSUME Minima, NEW x, EntryName(x)
  PROVE  \E b, e \in Nat : Ends(x, b, e) /\ Text(x, Shown(x), b, e)
<1> DEFINE base == SubSeq(x, 1, NAME)
           ext == SubSeq(x, NAME + 1, NAME + EXT)
           B == Trimmed(base)
           E == Trimmed(ext)
           b == Len(B)
           e == Len(E)
<1>1. NAME \in Nat \ {0} /\ EXT \in Nat \ {0} /\ \A k \in 1 .. (NAME + EXT) : x[k] \in Nat
  <2>1. NAME \in Nat \ {0} /\ EXT \in Nat \ {0}
    BY FatConstants
  <2>2. \A k \in 1 .. (NAME + EXT) : x[k] \in 0 .. 255
    BY DEF EntryName
  <2>. QED
    BY <2>1, <2>2, SMTT(60)
<1>2. base \in Seq(Nat) /\ Len(base) = NAME /\ \A k \in 1 .. NAME : base[k] = x[k]
  <2>1. \A k \in 1 .. NAME : x[k] \in Nat
    BY <1>1, SMTT(60)
  <2>2. /\ base \in Seq(Nat) /\ Len(base) = (IF 1 <= NAME THEN NAME - 1 + 1 ELSE 0)
        /\ \A k \in 1 .. (NAME - 1 + 1) : base[k] = x[1 + k - 1]
    BY <1>1, <2>1, SubSeqProperties, SMTT(60)
  <2>3. NAME - 1 + 1 = NAME /\ 1 <= NAME /\ \A k \in 1 .. NAME : 1 + k - 1 = k
    BY <1>1, SMTT(60)
  <2> HIDE DEF base
  <2>. QED
    BY <2>2, <2>3
<1>3. ext \in Seq(Nat) /\ Len(ext) = EXT /\ \A k \in 1 .. EXT : ext[k] = x[NAME + k]
  <2>1. \A k \in (NAME + 1) .. (NAME + EXT) : x[k] \in Nat
    BY <1>1, SMTT(60)
  <2>2. /\ ext \in Seq(Nat)
        /\ Len(ext) = (IF NAME + 1 <= NAME + EXT THEN (NAME + EXT) - (NAME + 1) + 1 ELSE 0)
        /\ \A k \in 1 .. ((NAME + EXT) - (NAME + 1) + 1) : ext[k] = x[(NAME + 1) + k - 1]
    <3>1. NAME + 1 \in Int /\ NAME + EXT \in Int
      BY <1>1, SMTT(60)
    <3>. QED
      BY <2>1, <3>1, SubSeqProperties, SMTT(60)
  <2>3. /\ (NAME + EXT) - (NAME + 1) + 1 = EXT /\ NAME + 1 <= NAME + EXT
        /\ \A k \in 1 .. EXT : (NAME + 1) + k - 1 = NAME + k
    BY <1>1, SMTT(60)
  <2> HIDE DEF ext
  <2>. QED
    BY <2>2, <2>3
<1>4. Shown(x) = B \o (IF E = <<>> THEN <<>> ELSE <<DOT>> \o E)
  BY DEF Shown
<1> HIDE DEF base, ext
<1>5. /\ B \in Seq(Nat) /\ b \in 0 .. NAME
      /\ \A k \in 1 .. b : B[k] = base[k]
      /\ \A k \in (b + 1) .. NAME : base[k] = SPACE
      /\ b > 0 => base[b] # SPACE
  BY <1>2, TrimmedIs
<1>6. /\ E \in Seq(Nat) /\ e \in 0 .. EXT
      /\ \A k \in 1 .. e : E[k] = ext[k]
      /\ \A k \in (e + 1) .. EXT : ext[k] = SPACE
      /\ e > 0 => ext[e] # SPACE
  BY <1>3, TrimmedIs
<1>7. e = 0 <=> E = <<>>
  BY <1>6, NonEmptySeq
<1> HIDE DEF B, E
<1>8. Ends(x, b, e)
  <2>1. \A k \in (NAME + e + 1) .. (NAME + EXT) : x[k] = SPACE
    <3> SUFFICES ASSUME NEW k \in (NAME + e + 1) .. (NAME + EXT) PROVE x[k] = SPACE
      OBVIOUS
    <3>1. k - NAME \in (e + 1) .. EXT /\ k - NAME \in 1 .. EXT /\ NAME + (k - NAME) = k
      BY <1>1, <1>6, SMTT(60)
    <3>. QED
      BY <1>3, <1>6, <3>1
  <2>2. \A k \in (b + 1) .. NAME : x[k] = SPACE
    <3>1. \A k \in (b + 1) .. NAME : k \in 1 .. NAME
      BY <1>1, <1>5, SMTT(60)
    <3>. QED
      BY <1>2, <1>5, <3>1
  <2>3. b > 0 => x[b] # SPACE
    <3>1. b > 0 => b \in 1 .. NAME
      BY <1>1, <1>5, SMTT(60)
    <3>. QED
      BY <1>2, <1>5, <3>1
  <2>4. e > 0 => x[NAME + e] # SPACE
    <3>1. e > 0 => e \in 1 .. EXT
      BY <1>1, <1>6, SMTT(60)
    <3>. QED
      BY <1>3, <1>6, <3>1
  <2>. QED
    BY <1>5, <1>6, <2>1, <2>2, <2>3, <2>4 DEF Ends
<1>9. Text(x, Shown(x), b, e)
  <2>1. CASE e = 0
    <3>1. Shown(x) = B
      BY <1>4, <1>5, <1>7, <2>1, SMTT(60)
    <3>. QED
      BY <1>1, <1>2, <1>5, <2>1, <3>1, SMTT(60) DEF Text
  <2>2. CASE e > 0
    <3> DEFINE D == <<DOT>> \o E
    <3>1. <<DOT>> \in Seq(Nat) /\ Len(<<DOT>>) = 1 /\ <<DOT>>[1] = DOT
      BY SMTT(60) DEF DOT
    <3>2. /\ D \in Seq(Nat) /\ Len(D) = 1 + e
          /\ \A k \in 1 .. (1 + e) : D[k] = IF k <= 1 THEN <<DOT>>[k] ELSE E[k - 1]
      BY <1>6, <3>1, ConcatProperties, SMTT(60)
    <3>3. Shown(x) = B \o D
      BY <1>4, <1>7, <2>2, SMTT(60)
    <3> HIDE DEF D
    <3>4. /\ Shown(x) \in Seq(Nat) /\ Len(Shown(x)) = b + (1 + e)
          /\ \A k \in 1 .. (b + (1 + e)) : Shown(x)[k] = IF k <= b THEN B[k] ELSE D[k - b]
      <4>1. /\ B \o D \in Seq(Nat) /\ Len(B \o D) = Len(B) + Len(D)
            /\ \A k \in 1 .. (Len(B) + Len(D)) :
                 (B \o D)[k] = IF k <= Len(B) THEN B[k] ELSE D[k - Len(B)]
        BY <1>5, <3>2, ConcatProperties
      <4>. QED
        BY <3>2, <3>3, <4>1
    <3>5. \A k \in 1 .. b : Shown(x)[k] = x[k]
      <4>1. \A k \in 1 .. b : k \in 1 .. (b + (1 + e)) /\ k <= b /\ k \in 1 .. NAME
        BY <1>1, <1>5, <1>6, SMTT(60)
      <4>. QED
        BY <1>2, <1>5, <3>4, <4>1
    <3>6. Shown(x)[b + 1] = DOT
      <4>1. b + 1 \in 1 .. (b + (1 + e)) /\ ~(b + 1 <= b) /\ (b + 1) - b = 1 /\ 1 \in 1 .. (1 + e)
        BY <1>5, <1>6, SMTT(60)
      <4>2. Shown(x)[b + 1] = D[1]
        BY <3>4, <4>1
      <4>. QED
        BY <3>1, <3>2, <4>1, <4>2, SMTT(60)
    <3>7. ASSUME NEW k \in 1 .. e PROVE Shown(x)[b + 1 + k] = x[NAME + k]
      <4>1. /\ b + 1 + k \in 1 .. (b + (1 + e)) /\ ~(b + 1 + k <= b) /\ (b + 1 + k) - b = k + 1
            /\ k + 1 \in 1 .. (1 + e) /\ ~(k + 1 <= 1) /\ (k + 1) - 1 = k /\ k \in 1 .. EXT
        BY <1>1, <1>5, <1>6, SMTT(60)
      <4>2. Shown(x)[b + 1 + k] = D[k + 1]
        BY <3>4, <4>1
      <4>3. D[k + 1] = E[k]
        BY <3>2, <4>1
      <4>. QED
        BY <1>3, <1>6, <4>1, <4>2, <4>3
    <3>8. b + (1 + e) = b + 1 + e
      BY <1>5, <1>6, SMTT(60)
    <3>. QED
      BY <2>2, <3>4, <3>5, <3>6, <3>7, <3>8, SMTT(60) DEF Text
  <2>. QED
    BY <1>6, <2>1, <2>2, SMTT(60)
<1>. QED
  BY <1>5, <1>6, <1>8, <1>9, SMTT(60)

\* A name of b characters and, behind a dot, e; without one if e is 0.
Form(n, b, e) ==
  /\ b \in 1 .. NAME /\ e \in 0 .. EXT
  /\ Len(n) = (IF e = 0 THEN b ELSE b + 1 + e)
  /\ \A k \in 1 .. Len(n) : n[k] # SPACE /\ (n[k] = DOT <=> e > 0 /\ k = b + 1)

\* Names that fit have that form.
LEMMA FitsForm ==
  ASSUME NEW n \in Names, Fits(n)
  PROVE  \E b, e \in Nat : Form(n, b, e)
<1> DEFINE dots == {k \in DOMAIN n : n[k] = DOT}
<1>1. /\ NAME \in Nat \ {0} /\ EXT \in Nat \ {0} /\ n \in Seq(1 .. 255)
  BY FatConstants
<1>2. DOMAIN n = 1 .. Len(n) /\ Len(n) \in Nat
  BY <1>1, LenProperties
<1>3. CASE dots = {} /\ Len(n) \in 1 .. NAME
  <2>1. \A k \in 1 .. Len(n) : n[k] # SPACE /\ n[k] # DOT
    BY <1>2, <1>3 DEF Fits
  <2>2. 0 \in 0 .. EXT /\ 0 \in Nat
    BY <1>1, SMTT(60)
  <2>3. Form(n, Len(n), 0)
    BY <1>3, <2>1, <2>2, SMTT(60) DEF Form
  <2>. QED
    BY <1>2, <2>2, <2>3
<1>4. ASSUME NEW d \in 2 .. (NAME + 1), dots = {d}, Len(n) - d \in 1 .. EXT
      PROVE  \E b, e \in Nat : Form(n, b, e)
  <2> DEFINE b == d - 1
             e == Len(n) - d
  <2>1. \A k \in 1 .. Len(n) : n[k] # SPACE /\ (n[k] = DOT <=> k = d)
    BY <1>2, <1>4 DEF Fits
  <2>2. /\ b \in 1 .. NAME /\ e \in 0 .. EXT /\ e > 0 /\ e # 0 /\ Len(n) = b + 1 + e /\ d = b + 1
        /\ b \in Nat /\ e \in Nat
    <3>1. d \in 2 .. (NAME + 1) /\ e \in 1 .. EXT
      BY <1>4
    <3>2. b \in 1 .. NAME /\ d = b + 1 /\ b \in Nat
      BY <1>1, SMTT(60)
    <3>3. Len(n) = d + e
      BY <1>2, SMTT(60)
    <3> HIDE DEF b, e
    <3>. QED
      BY <1>1, <1>2, <3>1, <3>2, <3>3, SMTT(60)
  <2> HIDE DEF b, e
  <2>3. Form(n, b, e)
    BY <2>1, <2>2 DEF Form
  <2>. QED
    BY <2>2, <2>3
<1>. QED
  BY <1>3, <1>4 DEF Fits

\* An entry has the characters of a name of that form, filled up.
Filled(n, x, b, e) ==
  /\ \A k \in 1 .. b : x[k] = Upper(n[k])
  /\ \A k \in (b + 1) .. NAME : x[k] = SPACE
  /\ \A k \in 1 .. e : x[NAME + k] = Upper(n[b + 1 + k])
  /\ \A k \in (NAME + e + 1) .. (NAME + EXT) : x[k] = SPACE

\* What fat_name makes of a name.
LEMMA FatNameIs ==
  ASSUME NEW n \in Names, NEW b \in Nat, NEW e \in Nat, Form(n, b, e)
  PROVE  DOMAIN fat_name(n) = 1 .. (NAME + EXT) /\ Filled(n, fat_name(n), b, e)
<1> DEFINE dots == {k \in DOMAIN n : n[k] = DOT}
           dot == IF dots = {} THEN Len(n) + 1 ELSE First(dots)
           x == fat_name(n)
<1>1. /\ NAME \in Nat \ {0} /\ EXT \in Nat \ {0} /\ n \in Seq(1 .. 255)
  BY FatConstants
<1>2. DOMAIN n = 1 .. Len(n) /\ Len(n) \in Nat
  BY <1>1, LenProperties
<1>3. b \in 1 .. NAME /\ e \in 0 .. EXT /\ Len(n) = (IF e = 0 THEN b ELSE b + 1 + e)
  BY DEF Form
<1>4. dot = b + 1
  <2>1. CASE e = 0
    <3>1. dots = {}
      BY <1>2, <2>1, SMTT(60) DEF Form
    <3>. QED
      BY <1>3, <2>1, <3>1
  <2>2. CASE e > 0
    <3>1. dots = {b + 1}
      <4>1. b + 1 \in 1 .. Len(n)
        BY <1>3, <2>2, SMTT(60)
      <4>. QED
        BY <1>2, <2>2, <4>1 DEF Form
    <3>2. First({b + 1}) \in {b + 1}
      BY <1>3, SMTT(60) DEF First
    <3>. QED
      BY <3>1, <3>2
  <2>. QED
    BY <2>1, <2>2, SMTT(60)
<1>5. x = [k \in 1 .. (NAME + EXT) |->
             Upper(CASE k <= Smaller(dot - 1, NAME) -> n[k]
                     [] k > NAME /\ k <= NAME + Len(n) - dot -> n[dot + k - NAME]
                     [] OTHER -> SPACE)]
  BY DEF fat_name
<1> HIDE DEF dot, x
<1>6. Smaller(dot - 1, NAME) = b
  BY <1>1, <1>3, <1>4, SMTT(60) DEF Smaller
<1>7. \A k \in 1 .. (NAME + EXT) :
        x[k] = Upper(CASE k <= b -> n[k]
                       [] k > NAME /\ k <= NAME + Len(n) - dot -> n[dot + k - NAME]
                       [] OTHER -> SPACE)
  BY <1>5, <1>6
<1>8. Upper(SPACE) = SPACE
  BY SMTT(60) DEF Upper, SPACE
<1>9. ASSUME NEW k \in 1 .. b PROVE x[k] = Upper(n[k])
  <2>1. k \in 1 .. (NAME + EXT) /\ k <= b /\ ~(k > NAME)
    BY <1>1, <1>3, SMTT(60)
  <2>. QED
    BY <1>7, <2>1
<1>10. ASSUME NEW k \in (b + 1) .. NAME PROVE x[k] = SPACE
  <2>1. k \in 1 .. (NAME + EXT) /\ ~(k <= b) /\ ~(k > NAME)
    BY <1>1, <1>3, SMTT(60)
  <2>. QED
    BY <1>7, <1>8, <2>1
<1>11. ASSUME NEW k \in 1 .. e PROVE x[NAME + k] = Upper(n[b + 1 + k])
  <2>1. /\ NAME + k \in 1 .. (NAME + EXT) /\ ~(NAME + k <= b) /\ NAME + k > NAME
        /\ NAME + k <= NAME + Len(n) - dot /\ dot + (NAME + k) - NAME = b + 1 + k
    BY <1>1, <1>3, <1>4, SMTT(60)
  <2>2. x[NAME + k] = Upper(n[dot + (NAME + k) - NAME])
    BY <1>7, <2>1
  <2>. QED
    BY <2>1, <2>2
<1>12. ASSUME NEW k \in (NAME + e + 1) .. (NAME + EXT) PROVE x[k] = SPACE
  <2>1. k \in 1 .. (NAME + EXT) /\ ~(k <= b) /\ ~(k <= NAME + Len(n) - dot)
    BY <1>1, <1>3, <1>4, SMTT(60)
  <2>. QED
    BY <1>7, <1>8, <2>1
<1>13. DOMAIN x = 1 .. (NAME + EXT)
  BY <1>5
<1>. QED
  BY <1>9, <1>10, <1>11, <1>12, <1>13 DEF Filled, x

\* Capitals are no spaces and no dots, unless they were before.
LEMMA UpperKeeps ==
  ASSUME NEW ch \in 1 .. 255
  PROVE  Upper(ch) \in Nat /\ (Upper(ch) = SPACE <=> ch = SPACE) /\ (Upper(ch) = DOT <=> ch = DOT)
  BY SMTT(60) DEF Upper, SPACE, DOT

\* fat_name is right: an entry without dots in it shows a name that fits, in
\* capitals or not, just when it is what fat_name makes of that name.
LEMMA NamesMatch ==
  ASSUME Minima, NEW n \in Names, Fits(n), NEW x, EntryName(x), \A k \in DOMAIN x : x[k] # DOT
  PROVE  Shown(x) = [j \in DOMAIN n |-> Upper(n[j])] <=> x = fat_name(n)
<1> DEFINE U == [j \in DOMAIN n |-> Upper(n[j])]
           f == fat_name(n)
<1>1. /\ NAME \in Nat \ {0} /\ EXT \in Nat \ {0} /\ n \in Seq(1 .. 255)
  BY FatConstants
<1>2. DOMAIN n = 1 .. Len(n) /\ Len(n) \in Nat /\ \A k \in 1 .. Len(n) : n[k] \in 1 .. 255
  BY <1>1, LenProperties
<1>3. PICK b, e \in Nat : Form(n, b, e)
  BY FitsForm
<1>4. /\ b \in 1 .. NAME /\ e \in 0 .. EXT /\ Len(n) = (IF e = 0 THEN b ELSE b + 1 + e)
      /\ \A k \in 1 .. Len(n) : n[k] # SPACE /\ (n[k] = DOT <=> e > 0 /\ k = b + 1)
  BY <1>3 DEF Form
<1>5. DOMAIN f = 1 .. (NAME + EXT) /\ Filled(n, f, b, e)
  BY <1>3, FatNameIs
<1>6. PICK b2, e2 \in Nat : Ends(x, b2, e2) /\ Text(x, Shown(x), b2, e2)
  BY ShownIs
<1>7. b2 \in 0 .. NAME /\ e2 \in 0 .. EXT
  BY <1>6 DEF Ends
<1>8. DOMAIN x = 1 .. (NAME + EXT)
  BY DEF EntryName
<1>9. /\ \A k \in 1 .. Len(n) : U[k] = Upper(n[k])
      /\ \A k \in 1 .. Len(n) : U[k] \in Nat /\ U[k] # SPACE /\ (U[k] = DOT <=> n[k] = DOT)
  BY <1>2, <1>4, UpperKeeps
<1>10. U \in Seq(Nat) /\ Len(U) = Len(n)
  <2>1. U \in [1 .. Len(n) -> Nat] /\ DOMAIN U = 1 .. Len(n)
    BY <1>2, <1>9
  <2>2. U \in Seq(Nat)
    BY <1>2, <2>1, FunctionIsSeq
  <2>. QED
    BY <1>2, <2>1, <2>2, LenProperties, SMTT(60)
<1> HIDE DEF U, f
<1>11. ASSUME Shown(x) = U PROVE x = f
  <2>1. Text(x, U, b2, e2)
    BY <1>6, <1>11
  <2>2. b2 = b /\ e2 = e
    <3>1. Len(n) = (IF e2 = 0 THEN b2 ELSE b2 + 1 + e2)
      BY <1>10, <2>1 DEF Text
    <3>2. CASE e2 = 0
      <4>1. \A k \in 1 .. Len(n) : U[k] # DOT
        <5>1. \A k \in 1 .. Len(n) : k \in 1 .. b2 /\ k \in 1 .. (NAME + EXT)
          BY <1>1, <1>2, <1>7, <3>1, <3>2, SMTT(60)
        <5>. QED
          BY <1>8, <2>1, <5>1 DEF Text
      <4>2. e > 0 => b + 1 \in 1 .. Len(n)
        BY <1>4, SMTT(60)
      <4>3. ~(e > 0)
        BY <1>4, <1>9, <4>1, <4>2
      <4>. QED
        BY <1>4, <1>7, <3>1, <3>2, <4>3, SMTT(60)
    <3>3. CASE e2 > 0
      <4>1. b2 + 1 \in 1 .. Len(n) /\ U[b2 + 1] = DOT
        BY <1>7, <2>1, <3>1, <3>3, SMTT(60) DEF Text
      <4>2. e > 0 /\ b2 + 1 = b + 1
        BY <1>4, <1>9, <4>1
      <4>. QED
        BY <1>4, <1>7, <3>1, <3>3, <4>2, SMTT(60)
    <3>. QED
      BY <1>7, <3>2, <3>3, SMTT(60)
  <2>3. ASSUME NEW k \in 1 .. (NAME + EXT) PROVE x[k] = f[k]
    <3>1. CASE k \in 1 .. b
      <4>1. k \in 1 .. Len(n)
        BY <1>4, <3>1, SMTT(60)
      <4>. QED
        BY <1>5, <1>9, <2>1, <2>2, <3>1, <4>1 DEF Text, Filled
    <3>2. CASE k \in (b + 1) .. NAME
      BY <1>5, <1>6, <2>2, <3>2 DEF Ends, Filled
    <3>3. CASE k \in (NAME + 1) .. (NAME + e)
      <4>1. k - NAME \in 1 .. e /\ NAME + (k - NAME) = k /\ b + 1 + (k - NAME) \in 1 .. Len(n)
        BY <1>1, <1>4, <3>3, SMTT(60)
      <4>2. U[b + 1 + (k - NAME)] = x[NAME + (k - NAME)]
        BY <2>1, <2>2, <4>1 DEF Text
      <4>3. f[NAME + (k - NAME)] = Upper(n[b + 1 + (k - NAME)])
        BY <1>5, <4>1 DEF Filled
      <4>. QED
        BY <1>9, <4>1, <4>2, <4>3
    <3>4. CASE k \in (NAME + e + 1) .. (NAME + EXT)
      BY <1>5, <1>6, <2>2, <3>4 DEF Ends, Filled
    <3>. QED
      BY <1>1, <1>4, <3>1, <3>2, <3>3, <3>4, SMTT(60)
  <2>4. f = [k \in 1 .. (NAME + EXT) |-> f[k]]
    BY SMTT(60) DEF f, fat_name
  <2>5. x = [k \in 1 .. (NAME + EXT) |-> x[k]]
    BY DEF EntryName
  <2>. QED
    BY <2>3, <2>4, <2>5
<1>12. ASSUME x = f PROVE Shown(x) = U
  <2>1. Filled(n, x, b, e)
    BY <1>5, <1>12
  <2>2. Ends(x, b, e)
    <3>1. b \in 1 .. Len(n) /\ x[b] = U[b]
      <4>1. b \in 1 .. Len(n) /\ b \in 1 .. b
        BY <1>4, SMTT(60)
      <4>. QED
        BY <1>9, <2>1, <4>1 DEF Filled
    <3>2. e > 0 => x[NAME + e] # SPACE
      <4>1. e > 0 => e \in 1 .. e /\ b + 1 + e \in 1 .. Len(n)
        BY <1>4, SMTT(60)
      <4>. QED
        BY <1>9, <2>1, <4>1, SMTT(60) DEF Filled
    <3>3. x[b] # SPACE /\ b \in 0 .. NAME
      BY <1>1, <1>4, <1>9, <3>1, SMTT(60)
    <3>. QED
      BY <1>4, <2>1, <3>2, <3>3 DEF Ends, Filled
  <2>3. b2 = b /\ e2 = e
    BY <1>6, <2>2, OneEnd
  <2>4. /\ Shown(x) \in Seq(Nat) /\ Len(Shown(x)) = Len(n)
        /\ \A k \in 1 .. b : Shown(x)[k] = x[k]
        /\ e > 0 => Shown(x)[b + 1] = DOT
        /\ \A k \in 1 .. e : Shown(x)[b + 1 + k] = x[NAME + k]
    BY <1>4, <1>6, <2>3, SMTT(60) DEF Text
  <2>5. ASSUME NEW k \in 1 .. Len(n) PROVE Shown(x)[k] = U[k]
    <3>1. CASE k \in 1 .. b
      BY <1>9, <2>1, <2>4, <3>1 DEF Filled
    <3>2. CASE e > 0 /\ k = b + 1
      BY <1>4, <1>9, <2>4, <3>2
    <3>3. CASE k > b + 1
      <4>1. k - b - 1 \in 1 .. e /\ b + 1 + (k - b - 1) = k
        BY <1>4, <3>3, SMTT(60)
      <4>2. x[NAME + (k - b - 1)] = Upper(n[b + 1 + (k - b - 1)])
        BY <2>1, <4>1 DEF Filled
      <4>3. Shown(x)[b + 1 + (k - b - 1)] = x[NAME + (k - b - 1)]
        BY <2>4, <4>1
      <4>. QED
        BY <1>9, <4>1, <4>2, <4>3
    <3>. QED
      BY <1>4, <3>1, <3>2, <3>3, SMTT(60)
  <2>. QED
    BY <1>10, <2>4, <2>5, SMTT(60)
<1>. QED
  BY <1>11, <1>12 DEF U, f

-----------------------------------------------------------------------------
(* Lookup: the clusters of the directory up to the current one have        *)
(* neither the name nor the end.                                           *)

Searching(k) ==
  /\ k \in DOMAIN disk.root /\ cluster = disk.root[k]
  /\ \A j \in 1 .. (k - 1) : Hits(disk.dir[disk.root[j]]) = {}

LookupInv ==
  /\ LookupRight
  /\ pc = "lookup" /\ disk.type = 32 => \E k \in Nat : Searching(k)

\* The entries of the directory.
LEMMA EntriesAre ==
  ASSUME TypeOK, disk.type = 32
  PROVE  /\ DOMAIN disk.root = 1 .. Len(disk.root) /\ Len(disk.root) \in Nat
         /\ \A a \in Places :
              /\ a = <<a[1], a[2]>> /\ a[1] \in 1 .. Len(disk.root) /\ a[2] \in Nat
              /\ a[2] \in DOMAIN disk.dir[disk.root[a[1]]]
              /\ EntryName(EntryAt(a).name)
              /\ EntryAt(a).name[1] \notin {END, DELETED}
                   => \A k \in DOMAIN EntryAt(a).name : EntryAt(a).name[k] # DOT
         /\ \A k \in DOMAIN disk.root : \A m \in DOMAIN disk.dir[disk.root[k]] : <<k, m>> \in Places
<1>1. WellFormed(disk) /\ disk.count \in Nat
  BY DiskWellFormed DEF WellFormed
<1>2. ChainOf(disk, disk.root) /\ DOMAIN disk.dir = {disk.root[k] : k \in DOMAIN disk.root}
  <2>1. Linked(disk, disk.root) /\ DOMAIN disk.dir = {disk.root[k] : k \in DOMAIN disk.root}
    BY <1>1 DEF WellFormed
  <2>. QED
    BY <1>1, <2>1, Chains
<1>3. DOMAIN disk.root = 1 .. Len(disk.root) /\ Len(disk.root) \in Nat
  BY <1>2 DEF ChainOf
<1>4. ASSUME NEW a \in Places
      PROVE  /\ a = <<a[1], a[2]>> /\ a[1] \in 1 .. Len(disk.root) /\ a[2] \in Nat
             /\ a[2] \in DOMAIN disk.dir[disk.root[a[1]]]
             /\ EntryName(EntryAt(a).name)
             /\ EntryAt(a).name[1] \notin {END, DELETED}
                  => \A k \in DOMAIN EntryAt(a).name : EntryAt(a).name[k] # DOT
  <2>1. PICK k \in DOMAIN disk.root : \E m \in DOMAIN disk.dir[disk.root[k]] : a = <<k, m>>
    BY DEF Places
  <2>2. PICK m \in DOMAIN disk.dir[disk.root[k]] : a = <<k, m>>
    BY <2>1
  <2>3. a[1] = k /\ a[2] = m
    BY <2>2
  <2>4. disk.root[k] \in DOMAIN disk.dir
    BY <1>2
  <2>5. disk.dir[disk.root[k]] \in Seq(Entries(disk))
    BY <1>1, <2>4 DEF WellFormed
  <2>6. m \in Nat
    BY <2>5, LenProperties, SMTT(60)
  <2>7. EntryAt(a) = disk.dir[disk.root[k]][m]
    BY <2>3 DEF EntryAt
  <2>8. EntryAt(a) \in Entries(disk)
    BY <2>4, <2>7, SMTT(60) DEF Entries
  <2>9. EntryName(EntryAt(a).name)
    BY <1>1, <2>8 DEF WellFormed, EntryName
  <2>10. EntryAt(a).name[1] \notin {END, DELETED}
           => \A j \in DOMAIN EntryAt(a).name : EntryAt(a).name[j] # DOT
    BY <1>1, <2>8 DEF WellFormed
  <2>. QED
    BY <1>3, <2>2, <2>3, <2>6, <2>9, <2>10
<1>5. \A k \in DOMAIN disk.root : \A m \in DOMAIN disk.dir[disk.root[k]] : <<k, m>> \in Places
  BY SMTT(60) DEF Places
<1>. QED
  BY <1>3, <1>4, <1>5

\* A file of that name is a hit, and there is no end up to it.
LEMMA NamedIsHit ==
  ASSUME Minima, TypeOK, disk.type = 32, name \in Names, Fits(name), NEW v \in Named(name)
  PROVE  \E b \in Places : /\ b[2] \in Hits(disk.dir[disk.root[b[1]]])
                           /\ \A c \in Places : UpTo(c, b) => EntryAt(c).name[1] # END
<1>1. PICK b \in Places :
        /\ Shown(EntryAt(b).name) = [j \in DOMAIN name |-> Upper(name[j])]
        /\ EntryAt(b).name[1] # DELETED
        /\ \A c \in Places : UpTo(c, b) => EntryAt(c).name[1] # END
  BY DEF Named
<1>2. /\ b[1] \in Nat /\ b[2] \in Nat /\ b[2] \in DOMAIN disk.dir[disk.root[b[1]]]
      /\ EntryName(EntryAt(b).name)
      /\ EntryAt(b).name[1] \notin {END, DELETED}
           => \A k \in DOMAIN EntryAt(b).name : EntryAt(b).name[k] # DOT
  BY EntriesAre, SMTT(60)
<1>3. UpTo(b, b)
  BY <1>2, SMTT(60) DEF UpTo
<1>4. EntryAt(b).name[1] \notin {END, DELETED}
  BY <1>1, <1>3
<1>5. EntryAt(b).name = fat_name(name)
  BY <1>1, <1>2, <1>4, NamesMatch
<1>6. b[2] \in Hits(disk.dir[disk.root[b[1]]])
  BY <1>2, <1>4, <1>5 DEF Hits, EntryAt
<1>. QED
  BY <1>1, <1>6

\* The scan of the last cluster decides.
LEMMA ScanDecides ==
  ASSUME Minima, FileInv, pc = "lookup", disk.type = 32, Fits(name), NEW k \in Nat, Searching(k)
  PROVE  LET es == disk.dir[cluster]
             m  == First(Hits(es))
         IN
         /\ Hits(es) = {} /\ k = Len(disk.root) => Named(name) = {}
         /\ Hits(es) # {} /\ es[m].name[1] = END => Named(name) = {}
         /\ Hits(es) # {} /\ es[m].name[1] # END => es[m] \in Named(name)
<1> DEFINE es == disk.dir[cluster]
           m == First(Hits(es))
           a == <<k, m>>
<1>1. /\ TypeOK /\ name \in Names /\ k \in DOMAIN disk.root /\ cluster = disk.root[k]
      /\ es = disk.dir[disk.root[k]]
      /\ \A j \in 1 .. (k - 1) : Hits(disk.dir[disk.root[j]]) = {}
  BY DEF FileInv, Looking, Searching
<1>2. /\ DOMAIN disk.root = 1 .. Len(disk.root) /\ Len(disk.root) \in Nat
      /\ \A b \in Places :
           /\ b = <<b[1], b[2]>> /\ b[1] \in 1 .. Len(disk.root) /\ b[2] \in Nat
           /\ b[2] \in DOMAIN disk.dir[disk.root[b[1]]]
           /\ EntryName(EntryAt(b).name)
           /\ EntryAt(b).name[1] \notin {END, DELETED}
                => \A j \in DOMAIN EntryAt(b).name : EntryAt(b).name[j] # DOT
      /\ \A j \in DOMAIN disk.root : \A x \in DOMAIN disk.dir[disk.root[j]] : <<j, x>> \in Places
  BY <1>1, EntriesAre
<1>3. ASSUME Hits(es) # {}
      PROVE  m \in Hits(es) /\ a \in Places /\ m \in Nat /\ \A x \in Hits(es) : m <= x
  <2>1. Hits(es) \subseteq DOMAIN es
    BY DEF Hits
  <2>2. \A x \in DOMAIN es : <<k, x>> \in Places
    BY <1>1, <1>2
  <2>3. \A x \in DOMAIN es : x \in Nat
    <3> SUFFICES ASSUME NEW x \in DOMAIN es PROVE x \in Nat
      OBVIOUS
    <3>1. <<k, x>>[2] \in Nat
      BY <1>2, <2>2
    <3>. QED
      BY <3>1
  <2>4. Hits(es) \in SUBSET Nat
    BY <2>1, <2>3
  <2>5. m \in Hits(es) /\ \A x \in Hits(es) : m <= x
    BY <1>3, <2>4, FirstOf
  <2>. QED
    BY <2>1, <2>2, <2>4, <2>5
<1> HIDE DEF es, m
<1>4. ASSUME NEW v \in Named(name), Hits(es) = {} \/ es[m].name[1] = END,
             Hits(es) = {} => k = Len(disk.root)
      PROVE  FALSE
  <2>1. PICK b \in Places : /\ b[2] \in Hits(disk.dir[disk.root[b[1]]])
                            /\ \A c \in Places : UpTo(c, b) => EntryAt(c).name[1] # END
    BY <1>1, <1>4, NamedIsHit
  <2>2. b[1] \in 1 .. Len(disk.root) /\ b[2] \in Nat
    BY <1>2
  <2>3. b[1] >= k
    <3>1. b[1] < k => b[1] \in 1 .. (k - 1)
      BY <2>2, SMTT(60)
    <3>2. b[1] < k => Hits(disk.dir[disk.root[b[1]]]) = {}
      BY <1>1, <3>1
    <3>3. ~(b[1] < k)
      BY <2>1, <3>2
    <3>. QED
      BY <2>2, <3>3, SMTT(60)
  <2>4. CASE Hits(es) = {}
    <3>1. b[1] = k
      BY <1>2, <1>4, <2>2, <2>3, <2>4, SMTT(60)
    <3>. QED
      BY <1>1, <2>1, <2>4, <3>1
  <2>5. CASE Hits(es) # {}
    <3>1. a \in Places /\ m \in Nat /\ \A x \in Hits(es) : m <= x
      BY <1>3, <2>5
    <3>2. EntryAt(a).name[1] = END
      <4>1. EntryAt(a) = es[m]
        BY <1>1 DEF EntryAt
      <4>. QED
        BY <1>4, <2>5, <4>1
    <3>3. b[1] = k => m <= b[2]
      BY <1>1, <2>1, <3>1
    <3>4. UpTo(a, b)
      BY <2>2, <2>3, <3>3, SMTT(60) DEF UpTo
    <3>. QED
      BY <2>1, <3>1, <3>2, <3>4
  <2>. QED
    BY <2>4, <2>5
<1>5. ASSUME Hits(es) # {}, es[m].name[1] # END
      PROVE  es[m] \in Named(name)
  <2>1. m \in Hits(es) /\ a \in Places /\ m \in Nat /\ \A x \in Hits(es) : m <= x
    BY <1>3, <1>5
  <2>2. EntryAt(a) = es[m] /\ a[1] = k /\ a[2] = m
    BY <1>1 DEF EntryAt
  <2>3. es[m].name[1] # DELETED /\ es[m].name = fat_name(name)
    BY <1>5, <2>1 DEF Hits
  <2>4. EntryName(EntryAt(a).name) /\ \A j \in DOMAIN EntryAt(a).name : EntryAt(a).name[j] # DOT
    <3>1. EntryAt(a).name[1] \notin {END, DELETED}
      BY <1>5, <2>2, <2>3
    <3>. QED
      BY <1>2, <2>1, <3>1
  <2>5. Shown(EntryAt(a).name) = [j \in DOMAIN name |-> Upper(name[j])]
    BY <1>1, <2>2, <2>3, <2>4, NamesMatch, SMTT(60)
  <2>6. ASSUME NEW c \in Places, UpTo(c, a), EntryAt(c).name[1] = END PROVE FALSE
    <3>1. /\ c[1] \in 1 .. Len(disk.root) /\ c[2] \in Nat
          /\ c[2] \in DOMAIN disk.dir[disk.root[c[1]]]
      BY <1>2
    <3>2. c[2] \in Hits(disk.dir[disk.root[c[1]]])
      BY <2>6, <3>1 DEF Hits, EntryAt
    <3>3. c[1] = k
      <4>1. c[1] <= k
        BY <2>2, <2>6, <3>1, SMTT(60) DEF UpTo
      <4>2. c[1] < k => c[1] \in 1 .. (k - 1)
        BY <3>1, SMTT(60)
      <4>3. c[1] < k => Hits(disk.dir[disk.root[c[1]]]) = {}
        BY <1>1, <4>2
      <4>4. ~(c[1] < k)
        BY <3>2, <4>3
      <4>. QED
        BY <3>1, <4>1, <4>4, SMTT(60)
    <3>4. c[2] <= m
      BY <2>2, <2>6, <3>1, <3>3, SMTT(60) DEF UpTo
    <3>5. m <= c[2]
      BY <1>1, <2>1, <3>2, <3>3
    <3>6. c[2] = m
      BY <2>1, <3>1, <3>4, <3>5, SMTT(60)
    <3>. QED
      BY <1>1, <1>5, <2>6, <3>3, <3>6 DEF EntryAt
  <2>. QED
    <3>1. \A c \in Places : UpTo(c, a) => EntryAt(c).name[1] # END
      BY <2>6
    <3>2. EntryAt(a).name[1] # DELETED
      BY <2>2, <2>3
    <3>3. EntryAt(a) \in Named(name)
      BY <2>1, <2>5, <3>1, <3>2, NamedHas
    <3>. QED
      BY <2>2, <3>3
<1>. QED
  BY <1>4, <1>5 DEF es, m

\* Steps that leave the lookup and the identity of the file alone.
LEMMA LookupStays ==
  ASSUME LookupInv, UNCHANGED <<disk, name, ret, cluster>>,
         file'.size = file.size, file'.chain = file.chain, pc' = "lookup" => pc = "lookup"
  PROVE  LookupInv'
<1>1. Named(name)' = Named(name)
  BY NamedStays
<1>2. LookupRight'
  BY <1>1 DEF LookupInv, LookupRight
<1>3. \A k : Searching(k)' <=> Searching(k)
  BY DEF Searching, Hits
<1>. QED
  BY <1>2, <1>3 DEF LookupInv

\* fat_open starts with the first cluster.
LEMMA LookupStarts ==
  ASSUME FileInv, NEW n \in Names, fat_open(n)
  PROVE  LookupInv'
<1>1. LookupRight'
  BY DEF fat_open, LookupRight
<1>2. disk.type = 32 => Searching(1)'
  <2> SUFFICES ASSUME disk.type = 32 PROVE Searching(1)'
    OBVIOUS
  <2>1. disk.root # <<>> /\ disk.root \in Seq(2 .. disk.count + 1)
    BY DiskWellFormed DEF FileInv, WellFormed, Linked
  <2>2. 1 \in DOMAIN disk.root
    BY <2>1, NonEmptySeq, LenProperties, SMTT(60)
  <2>3. cluster' = disk.root[1] /\ disk' = disk
    BY DEF fat_open, root_cluster
  <2>. QED
    BY <2>2, <2>3, SMTT(60) DEF Searching
<1>. QED
  BY <1>1, <1>2 DEF LookupInv, fat_open

\* What follows a cluster of the directory: the next one, or a number that ends
\* the loop.
LEMMA NextOnChain ==
  ASSUME FileInv, disk.type = 32, NEW k \in Nat, Searching(k)
  PROVE  LET next == read_fat_entry(cluster) IN
         /\ Len(disk.root) \in Nat /\ k \in 1 .. Len(disk.root)
         /\ k = Len(disk.root) => next >= disk.count + 2
         /\ k # Len(disk.root) => next = disk.root[k + 1] /\ ~(next >= disk.count + 2)
<1>1. /\ disk.count \in Nat /\ disk.count + 2 <= EOC /\ Linked(disk, disk.root)
  BY DiskWellFormed DEF FileInv, WellFormed
<1>2. ChainOf(disk, disk.root)
  BY <1>1, Chains
<1>3. k \in 1 .. Len(disk.root) /\ Len(disk.root) \in Nat /\ cluster = disk.root[k]
  BY <1>2 DEF Searching, ChainOf
<1>4. read_fat_entry(cluster) = IF k = Len(disk.root) THEN EOC ELSE disk.root[k + 1]
  BY <1>2, <1>3, SMTT(60) DEF read_fat_entry, ChainOf
<1>5. k # Len(disk.root) => disk.root[k + 1] \in 2 .. disk.count + 1
  <2>1. k # Len(disk.root) => k + 1 \in 1 .. Len(disk.root)
    BY <1>3, SMTT(60)
  <2>. QED
    BY <1>2, <2>1 DEF ChainOf
<1>. QED
  BY <1>1, <1>3, <1>4, <1>5, SMTT(60) DEF EOC

\* A cluster of the directory has been scanned.
LEMMA LookupScans ==
  ASSUME Minima, FileInv, LookupInv, LookupCluster
  PROVE  LookupInv'
<1> DEFINE es == disk.dir[cluster]
           m == First(Hits(es))
           next == read_fat_entry(cluster)
<1>1. pc = "lookup" /\ disk' = disk /\ name' = name
  BY DEF LookupCluster
<1>2. Named(name)' = Named(name)
  BY <1>1, NamedStays
<1>3. CASE Hits(es) # {}
  <2>1. \/ es[m].name[1] = END /\ Return("missing", file)
        \/ es[m].name[1] # END /\ \E p \in Starts : Return("found", Opened(es[m], p))
    BY <1>3 DEF LookupCluster
  <2>2. m \in Hits(es)
    <3>1. es \in Seq(Entries(disk))
      BY <1>1, DiskWellFormed DEF FileInv, Looking, WellFormed
    <3>2. Hits(es) \in SUBSET Nat
      BY <3>1, HitsAreNumbers
    <3>. QED
      BY <1>3, <3>2, FirstOf
  <2>3. /\ disk.type = 32 /\ Fits(name) /\ es[m].name[1] = END => Named(name) = {}
        /\ disk.type = 32 /\ Fits(name) /\ es[m].name[1] # END => es[m] \in Named(name)
    BY <1>1, <1>3, ScanDecides DEF LookupInv
  <2>4. CASE es[m].name[1] = END
    <3>1. pc' = "closed" /\ ret' = "missing"
      BY <2>1, <2>4 DEF Return
    <3>. QED
      BY <1>1, <1>2, <2>3, <2>4, <3>1 DEF LookupInv, LookupRight
  <2>5. CASE es[m].name[1] # END
    <3>1. disk.type = 32
      BY <1>1, <2>2, <2>5, EntryFound
    <3>2. pc' = "idle" /\ ret' = "found" /\ file'.chain = es[m].chain /\ file'.size = es[m].size
      <4>1. PICK p \in Starts : pc' = "idle" /\ ret' = "found" /\ file' = Opened(es[m], p)
        BY <2>1, <2>5 DEF Return
      <4>. QED
        BY <4>1, OpenedIs
    <3>. QED
      BY <1>1, <1>2, <2>3, <2>5, <3>1, <3>2 DEF LookupInv, LookupRight
  <2>. QED
    BY <2>4, <2>5
<1>4. CASE Hits(es) = {}
  <2>1. /\ cluster' = next
        /\ IF next >= disk.count + 2 THEN Return("missing", file) ELSE UNCHANGED <<pc, ret, file>>
    BY <1>4 DEF LookupCluster
  <2>2. ASSUME disk.type = 32, NEW k \in Nat, Searching(k)
        PROVE  /\ Len(disk.root) \in Nat /\ k \in 1 .. Len(disk.root)
               /\ k = Len(disk.root) => next >= disk.count + 2
               /\ k # Len(disk.root) => next = disk.root[k + 1] /\ ~(next >= disk.count + 2)
    BY <2>2, NextOnChain
  <2>3. CASE next >= disk.count + 2
    <3>1. pc' = "closed" /\ ret' = "missing"
      BY <2>1, <2>3 DEF Return
    <3>2. disk.type = 32 /\ Fits(name) => Named(name) = {}
      <4> SUFFICES ASSUME disk.type = 32, Fits(name) PROVE Named(name) = {}
        OBVIOUS
      <4>1. PICK k \in Nat : Searching(k)
        BY <1>1 DEF LookupInv
      <4>2. k = Len(disk.root)
        BY <2>2, <2>3, <4>1
      <4>. QED
        BY <1>1, <1>4, <4>1, <4>2, ScanDecides
    <3>. QED
      BY <1>1, <1>2, <3>1, <3>2 DEF LookupInv, LookupRight
  <2>4. CASE ~(next >= disk.count + 2)
    <3>1. UNCHANGED <<pc, ret, file>>
      BY <2>1, <2>4
    <3>2. LookupRight'
      BY <1>1, <3>1 DEF FileInv, Looking, LookupRight
    <3>3. disk.type = 32 => \E k \in Nat : Searching(k)'
      <4> SUFFICES ASSUME disk.type = 32 PROVE \E k \in Nat : Searching(k)'
        OBVIOUS
      <4>1. PICK k \in Nat : Searching(k)
        BY <1>1 DEF LookupInv
      <4>2. /\ Len(disk.root) \in Nat /\ k \in 1 .. Len(disk.root) /\ k # Len(disk.root)
            /\ next = disk.root[k + 1]
        BY <2>2, <2>4, <4>1
      <4>3. DOMAIN disk.root = 1 .. Len(disk.root)
        BY EntriesAre DEF FileInv
      <4>4. k + 1 \in DOMAIN disk.root /\ k + 1 \in Nat
        BY <4>2, <4>3, SMTT(60)
      <4>5. \A j \in 1 .. ((k + 1) - 1) : Hits(disk.dir[disk.root[j]]) = {}
        <5>1. \A j \in 1 .. ((k + 1) - 1) : j \in 1 .. (k - 1) \/ j = k
          BY SMTT(60)
        <5>2. disk.root[k] = cluster
          BY <4>1 DEF Searching
        <5>. QED
          BY <1>4, <4>1, <5>1, <5>2 DEF Searching
      <4>6. Searching(k + 1)'
        BY <1>1, <2>1, <4>2, <4>4, <4>5 DEF Searching, Hits
      <4>. QED
        BY <4>4, <4>6
    <3>. QED
      BY <1>1, <3>1, <3>2, <3>3 DEF LookupInv
  <2>. QED
    BY <2>3, <2>4
<1>. QED
  BY <1>3, <1>4

\* Every step.
LEMMA LookupStep == ASSUME Minima PROVE StorageInv /\ LookupInv /\ [StorageNext]_all => LookupInv'
<1> SUFFICES ASSUME StorageInv, LookupInv, [StorageNext]_all PROVE LookupInv'
  OBVIOUS
<1>1. \/ UNCHANGED vars \/ Calls \/ ReadEnds \/ ReadFails \/ ReadCluster
      \/ LookupCluster \/ LookupFails
  BY DEF StorageNext, CallFat, CallAta, Returned, ata_init, InitStep, MasterIdentified,
         SlaveIdentified, Identified, FatStep, ReadSector, SectorRead, SectorFails, EndRead,
         DriverStep, DriveStep, all
<1>2. FileInv
  BY DEF StorageInv
<1>3. CASE UNCHANGED vars \/ ReadEnds \/ ReadFails \/ fat_close \/ \E n \in Sizes : fat_read(n)
  <2>1. UNCHANGED <<disk, name, ret, cluster, file>> /\ (pc' = "lookup" => pc = "lookup")
    BY <1>3 DEF vars, ReadEnds, ReadFails, fat_close, fat_read, lookup
  <2>. QED
    BY <2>1, LookupStays
<1>4. CASE ReadCluster
  <2>1. file'.size = file.size /\ file'.chain = file.chain
    BY <1>2, <1>4, Moved
  <2>2. UNCHANGED <<disk, name, ret, cluster>> /\ pc' # "lookup"
    BY <1>4 DEF ReadCluster, lookup
  <2>. QED
    BY <2>1, <2>2, LookupStays
<1>5. ASSUME NEW p, MoveTo(p) PROVE LookupInv'
  <2>1. file'.size = file.size /\ file'.chain = file.chain
    BY <1>2, <1>5 DEF MoveTo, FileInv, FileType
  <2>2. UNCHANGED <<disk, name, ret, cluster, pc>>
    BY <1>5 DEF MoveTo, lookup
  <2>. QED
    BY <2>1, <2>2, LookupStays
<1>6. CASE LookupFails
  BY <1>6 DEF LookupFails, Return, LookupInv, LookupRight
<1>7. CASE Calls
  <2>1. ASSUME NEW whence \in 0 .. 2, NEW offset \in Offsets, fat_seek(whence, offset)
        PROVE  LookupInv'
    BY <1>5, <2>1 DEF fat_seek
  <2>. QED
    BY <1>2, <1>3, <1>7, <2>1, LookupStarts DEF Calls
<1>. QED
  BY <1>1, <1>2, <1>3, <1>4, <1>6, <1>7, LookupScans

-----------------------------------------------------------------------------
(* Progress.                                                               *)

\* What a step does to the file system, if anything, while a loop goes on.
Advances ==
  /\ pc = "read" /\ pc' = "read" => total < total' /\ total' <= size' /\ size' = size
  /\ pc = "lookup" /\ pc' = "lookup" /\ disk.type = 32 =>
       \E k \in 1 .. (Len(disk.root) - 1) : cluster = disk.root[k] /\ cluster' = disk.root[k + 1]

\* Every turn of the loops over clusters gets them on: fat_read has more bytes,
\* and lookup_file_in_dir is in the next cluster of the directory.
LoopsGetOn == [][UNCHANGED vars \/ Advances]_all

\* A turn of fat_read.
LEMMA ReadAdvances ==
  ASSUME FileInv, ReadCluster
  PROVE  Advances
<1>1. /\ pc = "read" /\ MoreToRead /\ total' = total + bytes_from_cluster /\ size' = size
  BY DEF ReadCluster
<1>2. bytes_from_cluster \in Nat \ {0} /\ total + bytes_from_cluster <= size
  BY <1>1, Taken
<1>3. total \in Nat /\ size \in Nat
  BY SMTT(60) DEF FileInv, FileType, TypeOK
<1>4. total < total' /\ total' <= size'
  BY <1>1, <1>2, <1>3, SMTT(60)
<1>. QED
  BY <1>1, <1>4 DEF Advances

\* A turn of lookup_file_in_dir.
LEMMA LookupAdvances ==
  ASSUME FileInv, LookupInv, LookupCluster
  PROVE  Advances
<1>1. pc = "lookup"
  BY DEF LookupCluster
<1>2. ASSUME pc' = "lookup", disk.type = 32
      PROVE  \E k \in 1 .. (Len(disk.root) - 1) : cluster = disk.root[k] /\ cluster' = disk.root[k + 1]
  <2>1. cluster' = read_fat_entry(cluster) /\ ~(read_fat_entry(cluster) >= disk.count + 2)
    BY <1>2 DEF LookupCluster, Return
  <2>2. PICK k \in Nat : Searching(k)
    BY <1>1, <1>2 DEF LookupInv
  <2>3. /\ Len(disk.root) \in Nat /\ k \in 1 .. Len(disk.root) /\ k # Len(disk.root)
        /\ cluster' = disk.root[k + 1]
    BY <1>2, <2>1, <2>2, NextOnChain
  <2>4. cluster = disk.root[k]
    BY <2>2 DEF Searching
  <2>5. k \in 1 .. (Len(disk.root) - 1)
    BY <2>3, SMTT(60)
  <2>. QED
    BY <2>3, <2>4, <2>5
<1>. QED
  BY <1>1, <1>2 DEF Advances

\* Every step.
LEMMA StepAdvances ==
  ASSUME FileInv, LookupInv, [StorageNext]_all
  PROVE  UNCHANGED vars \/ Advances
<1>1. \/ UNCHANGED vars \/ Calls \/ ReadEnds \/ ReadFails \/ ReadCluster
      \/ LookupCluster \/ LookupFails
  BY DEF StorageNext, CallFat, CallAta, Returned, ata_init, InitStep, MasterIdentified,
         SlaveIdentified, Identified, FatStep, ReadSector, SectorRead, SectorFails, EndRead,
         DriverStep, DriveStep, all
<1>2. CASE Calls
  BY <1>2 DEF Calls, fat_open, fat_read, fat_seek, MoveTo, fat_close, Advances
<1>3. CASE ReadEnds \/ ReadFails \/ LookupFails
  BY <1>3 DEF ReadEnds, ReadFails, LookupFails, Return, Advances
<1>. QED
  BY <1>1, <1>2, <1>3, ReadAdvances, LookupAdvances

-----------------------------------------------------------------------------
(* The theorems.                                                           *)

INSTANCE WellFoundedInduction

\* The assumption of the lemmas.
LEMMA NatMinima == Minima
<1> SUFFICES ASSUME NEW T \in SUBSET Nat, T # {} PROVE \E x \in T : \A y \in T : x <= y
  BY DEF Minima
<1>1. PICK x \in T : \A y \in T : ~(<<y, x>> \in OpToRel(<, Nat))
  BY NatLessThanWellFounded, WFMin
<1>2. \A y \in T : ~(y < x)
  BY <1>1 DEF OpToRel
<1>. QED
  BY <1>2, SMTT(60)

\* Every step keeps the invariant of the files and their driver.
LEMMA StorageKeeps == StorageInv /\ [StorageNext]_all => StorageInv'
BY NatMinima, StorageStep

\* The same of the lookup.
LEMMA LookupKept == StorageInv /\ LookupInv /\ [StorageNext]_all => LookupInv'
BY NatMinima, LookupStep

\* The polling driver and the drive keep to the protocol, however their steps
\* interleave: no word moves that the drive does not ask for, no command goes
\* to a busy drive, and a failed read is not reported as done (ata.c).
THEOREM DriverKeepsProtocol == StorageSpec => []Handshake
<1>1. StorageInv => Handshake
  BY DriverInvImplies DEF StorageInv, FileInv, DriverInv, Waiting, Handshake, StorageTypeOK
<1>. QED
  BY <1>1, StorageInitHolds, StorageKeeps, PTL DEF StorageSpec

\* fat_read delivers the file, for files of any size on chains of any shape,
\* reads of any length and clusters of any size, and all of it unless a sector
\* fails; after a seek to another cluster, at least bytes of the file's clusters.
THEOREM ReadDeliversTheFile == StorageSpec => []ReadsFile
<1>1. StorageInv => ReadsFile
  BY DEF StorageInv, FileInv
<1>. QED
  BY <1>1, StorageInitHolds, StorageKeeps, PTL DEF StorageSpec

\* The loops over clusters give up just when a sector failed on the drive.
THEOREM GivesUpOnErrorsOnly == StorageSpec => StopsOnError
<1>1. ASSUME StorageInv, StorageNext, asked = "fat", asked' = "none", ~lag
      PROVE  failed <=> \/ pc = "lookup" /\ ret' = "failed"
                        \/ pc = "read" /\ broken'
  <2>1. SectorRead \/ SectorFails
    BY <1>1 DEF StorageNext, CallFat, CallAta, Returned, ata_init, InitStep, MasterIdentified,
                SlaveIdentified, Identified, FatStep, ReadSector, EndRead, DriverStep, DriveStep,
                caller
  <2>2. CASE SectorRead
    <3>1. ~failed
      BY <1>1, <2>2 DEF SectorRead, StorageInv, DriverInv, Waiting
    <3>2. ret' # "failed" \/ pc # "lookup"
      <4>1. CASE UNCHANGED vars \/ ReadCluster
        BY <1>1, <4>1 DEF vars, ReadCluster, StorageInv, FileInv, Looking
      <4>2. CASE LookupCluster
        BY <1>1, <4>2 DEF LookupCluster, Return, StorageInv, FileInv, Looking
      <4>. QED
        BY <2>2, <4>1, <4>2 DEF SectorRead
    <3>3. broken' = broken
      BY <2>2 DEF SectorRead, vars, LookupCluster, ReadCluster
    <3>. QED
      BY <1>1, <3>1, <3>2, <3>3 DEF StorageInv, FileInv, Reading
  <2>3. CASE SectorFails
    <3>1. failed
      BY <1>1, <2>3 DEF SectorFails, StorageInv, Waiting
    <3>. QED
      BY <2>3, <3>1 DEF SectorFails, LookupFails, ReadFails, Return
  <2>. QED
    BY <2>1, <2>2, <2>3
<1>2. StorageInv /\ [StorageNext]_all =>
        [asked = "fat" /\ asked' = "none" /\ ~lag =>
           (failed <=> \/ pc = "lookup" /\ ret' = "failed"
                       \/ pc = "read" /\ broken')]_all
  BY <1>1
<1>. QED
  BY <1>2, StorageInitHolds, StorageKeeps, PTL DEF StorageSpec, StopsOnError

\* fat_open finds just the files the root directory shows, for directories of
\* any length and names of any length that fit.
THEOREM OpenFindsTheFile == StorageSpec => []LookupRight
<1>1. StorageInit => LookupInv
  BY DEF StorageInit, Init, LookupInv, LookupRight
<1>2. LookupInv => LookupRight
  BY DEF LookupInv
<1>. QED
  BY <1>1, <1>2, StorageInitHolds, StorageKeeps, LookupKept, PTL DEF StorageSpec

\* The loops over clusters get on with every turn, for chains of any shape: at
\* most size turns of fat_read, and one for each cluster of the directory.
THEOREM NoTurnInVain == StorageSpec => LoopsGetOn
<1>1. StorageInit => LookupInv
  BY DEF StorageInit, Init, LookupInv, LookupRight
<1>2. StorageInv /\ LookupInv /\ [StorageNext]_all => [UNCHANGED vars \/ Advances]_all
  BY StepAdvances DEF StorageInv
<1>. QED
  BY <1>1, <1>2, StorageInitHolds, StorageKeeps, LookupKept, PTL DEF StorageSpec, LoopsGetOn
=============================================================================
