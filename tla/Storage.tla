------------------------------- MODULE Storage -------------------------------
(***************************************************************************)
(* The file system on the disk driver: read_cluster of kernel/fs/fat.c is  *)
(* a loop over ata_read_sector, and module Fat's steps over a cluster wait *)
(* for it.  Between calls of the file system, others use the driver too.   *)
(***************************************************************************)
EXTENDS Fat

CONSTANTS
  Present, Drives, WORDS,   \* see module Ata
  SECTORS                   \* sectors_per_cluster

ASSUME StorageConstants ==
  /\ Drives = {"master", "slave"} /\ Present \subseteq Drives /\ "master" \in Present
  /\ WORDS \in Nat \ {0} /\ SECTORS \in Nat \ {0}

VARIABLES
  op, drive, ata_pc, i, result, phase, failed, lag,   \* module Ata
  asked,     \* who is in a routine of the driver: "none", "fat", "other", or
             \* ata_init, with the drive it is at: "master" or "slave"
  sectors,   \* read_cluster's i: sectors read
  detected   \* drive -> ata_primary_master_exists and ata_primary_slave_exists

A == INSTANCE Ata WITH pc <- ata_pc

ata == <<op, drive, ata_pc, i, result, phase, failed, lag>>
caller == <<asked, sectors, detected>>
all == <<vars, ata, caller>>

StorageInit ==
  /\ Init /\ A!Init
  /\ asked = "none" /\ sectors = 0 /\ detected = [d \in Drives |-> FALSE]

-----------------------------------------------------------------------------
\* The file system is called when nobody is waiting for the driver.
CallFat == asked = "none" /\ Calls /\ UNCHANGED <<ata, caller>>

\* Others, such as the test of the driver, use it between those calls.
CallAta(o, d) ==
  /\ asked = "none" /\ pc \in {"closed", "idle"}
  /\ A!Call(o, d) /\ asked' = "other"
  /\ UNCHANGED <<vars, sectors, detected>>

Returned ==
  /\ asked = "other" /\ ata_pc = "done" /\ asked' = "none"
  /\ UNCHANGED <<vars, ata, sectors, detected>>

\* ata_init identifies the master, and then the slave.
ata_init ==
  /\ asked = "none" /\ pc \in {"closed", "idle"}
  /\ A!Call("identify", "master") /\ asked' = "master"
  /\ UNCHANGED <<vars, sectors, detected>>

Identified(d) ==
  /\ asked = d /\ ata_pc = "done"
  /\ detected' = [detected EXCEPT ![d] = @ \/ result = 1]
  /\ UNCHANGED <<vars, sectors>>

MasterIdentified == Identified("master") /\ A!Call("identify", "slave") /\ asked' = "slave"
SlaveIdentified == Identified("slave") /\ asked' = "none" /\ UNCHANGED ata

\* lookup_file_in_dir or fat_read is in read_cluster.
NeedsCluster == pc = "lookup" \/ (pc = "read" /\ MoreToRead)

\* read_cluster asks for its next sector.
ReadSector ==
  /\ asked = "none" /\ NeedsCluster
  /\ A!Call("read", "master") /\ asked' = "fat"
  /\ UNCHANGED <<vars, sectors, detected>>

\* Fault: a sector that could not be read is taken for read.
SectorAnyResult ==
  /\ asked = "fat" /\ ata_pc = "done"
  /\ asked' = "none"
  /\ \/ sectors + 1 < SECTORS /\ sectors' = sectors + 1 /\ UNCHANGED vars
     \/ sectors + 1 = SECTORS /\ sectors' = 0 /\ (LookupCluster \/ ReadCluster)
  /\ UNCHANGED <<ata, detected>>

\* A sector has been read; with the last one the cluster has.
SectorRead ==
  /\ asked = "fat" /\ ata_pc = "done" /\ result = 1
  /\ asked' = "none"
  /\ \/ sectors + 1 < SECTORS /\ sectors' = sectors + 1 /\ UNCHANGED vars
     \/ sectors + 1 = SECTORS /\ sectors' = 0 /\ (LookupCluster \/ ReadCluster)
  /\ UNCHANGED <<ata, detected>>

SectorFails ==
  /\ asked = "fat" /\ ata_pc = "done" /\ result = 0
  /\ asked' = "none" /\ sectors' = 0
  /\ LookupFails \/ ReadFails
  /\ UNCHANGED <<ata, detected>>

EndRead == asked = "none" /\ ReadEnds /\ UNCHANGED <<ata, caller>>

FatStep == ReadSector \/ SectorRead \/ SectorFails \/ EndRead
InitStep == MasterIdentified \/ SlaveIdentified
DriverStep == A!Driver /\ UNCHANGED <<vars, caller>>
DriveStep == A!Drive /\ UNCHANGED <<vars, caller>>

StorageNext ==
  \/ CallFat
  \/ \E o \in A!Ops, d \in Drives : CallAta(o, d)
  \/ Returned
  \/ ata_init \/ InitStep
  \/ FatStep \/ DriverStep \/ DriveStep

\* The loops of the file system and of the driver run, ata_init goes on, and a
\* drive ends its commands.
StorageSpec ==
  /\ StorageInit /\ [][StorageNext]_all
  /\ WF_all(FatStep) /\ WF_all(InitStep) /\ WF_all(DriverStep) /\ WF_all(DriveStep)

-----------------------------------------------------------------------------
(* Properties.  Module Fat has those of the files, module Ata those of the *)
(* driver.                                                                 *)

\* Every variable has its type.
StorageTypeOK ==
  /\ TypeOK /\ A!TypeOK
  /\ asked \in {"none", "fat", "other"} \cup Drives /\ detected \in [Drives -> BOOLEAN]
  /\ sectors \in 0 .. SECTORS - 1

\* Words move only when the drive asks for them, commands go to an idle drive,
\* and a failed read is not reported as done: see Ata.  ata_init detects only
\* drives that are there.
Handshake ==
  /\ StorageTypeOK /\ A!Handshake
  /\ \A d \in Drives : detected[d] => d \in Present

\* "Check if device exists ... return 0; // No device" (ata.c:37-39): ata_init
\* comes to its end, if BSY shows at once, whether or not both drives are there.
InitReturns == asked \in Drives /\ ~lag ~> asked = "none"

\* A routine of the driver returns, and opening and reading come to an end,
\* whatever the drive's errors, if BSY shows at once.  On FAT12, where every
\* cluster is followed by cluster 0, opening may go round for ever.  With both
\* drives there ata_init comes to its end.
CallsReturn ==
  /\ A!RoutineReturns
  /\ Present = Drives => InitReturns
  /\ pc \in {"lookup", "read"} /\ ~lag /\ disk.type # 12 ~> pc \in {"closed", "idle"}

\* lookup_file_in_dir and fat_read give up a cluster just when a sector of it
\* failed on the drive, be it the first or the last.  (Their callers cannot
\* tell: fat_open returns 0 as for a missing file, and fat_read returns 1 with
\* fewer bytes as at the end of the file.)
StopsOnError ==
  [][asked = "fat" /\ asked' = "none" /\ ~lag =>
       (failed <=> \/ pc = "lookup" /\ ret' = "failed"
                   \/ pc = "read" /\ broken')]_all
=============================================================================
