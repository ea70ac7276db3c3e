------------------------------ MODULE MCStorage ------------------------------
(* A directory of two clusters and files whose clusters are out of order, on *)
(* a machine with two drives or, for MCMissingDrive.cfg, one.               *)
EXTENDS Storage, FatMount

File(n, bytes, clusters) == [name |-> n, size |-> bytes, chain |-> clusters]

\* Names as the directory has them: "AB.C", "A", "AB", a deleted "?B.C", the
\* end, and what the boot sector begins with.
ABC  == <<65, 66, 67>>
A1   == <<65, 32, 32>>
AB   == <<65, 66, 32>>
GONE == <<DELETED, 66, 67>>
LAST == <<END, 0, 0>>
JUMP == <<235, 60, 144>>
Mark(n) == File(n, 0, <<>>)

\* Cluster 2 and 5 hold the directory; "AB.C" takes 7, 3 and 6, all full but
\* the last; "A" is in the second cluster of the directory and fills 4
\* exactly; an old entry of "AB" is left behind the end.
Scattered ==
  [type  |-> 32, count |-> 6,
   fat   |-> [c \in 2 .. 7 |-> CASE c = 2 -> 5 [] c = 7 -> 3 [] c = 3 -> 6 [] OTHER -> EOC],
   root  |-> <<2, 5>>,
   dir   |-> [c \in {2, 5} |->
                IF c = 2 THEN <<Mark(GONE), File(ABC, 5, <<7, 3, 6>>)>>
                ELSE <<File(A1, 2, <<4>>), Mark(LAST), File(AB, 2, <<4>>)>>]]

\* The directory is full to its last entry, and "AB" fills two clusters.
Full ==
  [type  |-> 32, count |-> 3,
   fat   |-> [c \in 2 .. 4 |-> IF c = 4 THEN 3 ELSE EOC],
   root  |-> <<2>>,
   dir   |-> [c \in {2} |-> <<Mark(GONE), File(AB, 4, <<4, 3>>)>>]]

\* The first sectors of older disks.
Old(t) ==
  [type  |-> t, count |-> 3, fat |-> [c \in 0 .. 4 |-> 65528], root |-> <<>>,
   dir   |-> [c \in {0} |-> <<Mark(JUMP), Mark(JUMP)>>]]

MCDisks == {Scattered, Full, Old(16), Old(12)}

\* "ab.c", "A", "aB", "AB.CC" and "a.b.c".
MCNames == {<<97, 98, DOT, 99>>, <<65>>, <<97, 66>>, <<65, 66, DOT, 67, 67>>,
            <<97, DOT, 98, DOT, 99>>}
MCOffsets == {-3, 0, 2}
MCStarts == {0, 3, 9}
MCDrives == {"master", "slave"}
MCMaster == {"master"}

-----------------------------------------------------------------------------
(* Mounting shares no state with the files, and ata_init runs between      *)
(* their calls: part says what this behaviour is about.  Beside the files, *)
(* others use the master.                                                  *)

VARIABLE part

Volume(type, fat_size, root, spc, clusters, left) ==
  [type |-> type, reserved |-> IF type = "FAT32" THEN 32 ELSE 1, fats |-> 2,
   fat_size |-> fat_size, root_entries |-> root, spc |-> spc,
   clusters |-> clusters, left |-> left]

Floppy == Volume("FAT12", 9, 224, 1, 2847, 0)

\* A floppy disk, and volumes on both sides of the limits between the types.
MCVolumes ==
  {Floppy, Volume("FAT12", 12, 512, 4, 4084, 3),
   Volume("FAT16", 16, 512, 4, 4085, 1), Volume("FAT16", 256, 512, 8, 65524, 7),
   Volume("FAT32", 512, 0, 1, 65525, 0), Volume("FAT32", 1024, 0, 8, 100000, 5)}

ASSUME MountConstants == FatMountConstants

MCInit ==
  /\ part \in {"files", "drives", "mount"}
  /\ StorageInit /\ MountInit
  /\ part # "mount" => volume = Floppy /\ fs.fat = "b1"
  /\ part # "files" => disk = Full
  /\ drive = "master"

Files == part = "files" /\ asked' \notin Drives /\ drive' = "master"
Quiet ==
  /\ Files \/ (part = "drives" /\ pc' = "closed")
  /\ UNCHANGED <<part, mountVars>>

MCNext ==
  \/ StorageNext /\ Quiet
  \/ part = "mount" /\ MountNext /\ UNCHANGED <<part, all>>

MCSpec ==
  /\ MCInit /\ [][MCNext]_<<part, all, mountVars>>
  /\ WF_<<all, mountVars>>(FatStep /\ Quiet)
  /\ WF_<<all, mountVars>>(InitStep /\ Quiet)
  /\ WF_<<all, mountVars>>(DriverStep /\ Quiet)
  /\ WF_<<all, mountVars>>(DriveStep /\ Quiet)
=============================================================================
