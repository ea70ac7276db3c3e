--------------------------------- MODULE Ata ---------------------------------
(***************************************************************************)
(* The polling disk driver, kernel/drivers/ata.c: ata_identify,            *)
(* ata_read_sector and ata_write_sector, against the status register of a  *)
(* drive.  The three routines are the same sequence of waits; op tells     *)
(* which one is running.                                                   *)
(*                                                                         *)
(* The drive is external.  It takes a command, is busy, and then asks for  *)
(* the data or reports an error; after the data of a write it is busy once *)
(* more.  If it lags, BSY shows only some time after the command was       *)
(* written (the interface allows 400 ns).  A missing drive's status is 0.  *)
(***************************************************************************)
EXTENDS Integers

CONSTANTS
  Present,   \* the drives that exist
  Drives,    \* the drives asked for: master and slave
  WORDS      \* words of a sector (256)

VARIABLES
  op, drive,   \* the routine, and the drive it talks to
  pc,          \* where it is
  i,           \* words transferred
  result,      \* what the last routine returned
  phase,       \* external: the selected drive's phase
  failed,      \* external: the last command ended with an error
  lag          \* external: whether BSY shows late; a drive's lag never changes

driver == <<op, drive, pc, i, result>>
vars == <<driver, phase, failed, lag>>

Ops == {"identify", "read", "write"}

-----------------------------------------------------------------------------
(* The status register, as the drive's phase shows it.                     *)

exists == drive \in Present
BSY  == exists /\ phase \in {"busy", "storing"}
DRDY == exists /\ ~BSY
DRQ  == exists /\ phase = "data"
ERR  == exists /\ phase \in {"idle", "latched"} /\ failed

-----------------------------------------------------------------------------
Init ==
  /\ op = "identify" /\ drive \in Drives
  /\ pc = "done" /\ i = 0 /\ result = 0
  /\ phase = "idle" /\ failed = FALSE /\ lag \in BOOLEAN

Goto(p) == pc' = p /\ UNCHANGED <<op, drive, i, result, phase, failed, lag>>

Return(r) ==
  /\ pc' = "done" /\ result' = r
  /\ UNCHANGED <<op, drive, i, phase, failed, lag>>

\* A caller calls a routine for drive d.
Call(o, d) ==
  /\ pc = "done"
  /\ op' = o /\ drive' = d /\ pc' = "wait_busy" /\ i' = 0
  /\ UNCHANGED <<result, phase, failed, lag>>

\* ata_wait_busy, then the drive is selected.
ata_wait_busy == pc = "wait_busy" /\ ~BSY /\ Goto("wait_ready")

\* ata_wait_ready, before the command.
ata_wait_ready == pc = "wait_ready" /\ ~BSY /\ DRDY /\ Goto("command")

\* The parameters and the command.
Command ==
  /\ pc = "command"
  /\ pc' = IF op = "identify" THEN "exists" ELSE "response"
  /\ phase' = IF lag THEN "latched" ELSE "busy"
  /\ failed' = IF lag THEN failed ELSE FALSE
  /\ UNCHANGED <<op, drive, i, result, lag>>

\* ata_identify: a status of 0 means there is no device.
CheckExists ==
  /\ pc = "exists"
  /\ IF exists THEN Goto("response") ELSE Return(0)

\* ata_wait_ready, after the command.
Response == pc = "response" /\ ~BSY /\ DRDY /\ Goto("check")

CheckError ==
  /\ pc = "check"
  /\ IF ERR THEN Return(0) ELSE Goto("wait_drq")

WaitDrq == pc = "wait_drq" /\ DRQ /\ Goto("transfer")

\* One word; the drive counts along.
Transfer ==
  /\ pc = "transfer" /\ i < WORDS
  /\ i' = i + 1
  /\ phase' = IF i' < WORDS THEN phase ELSE IF op = "write" THEN "storing" ELSE "idle"
  /\ UNCHANGED <<op, drive, pc, result, failed, lag>>

\* Fault: a write does not wait for the drive to store the data.
CompleteNoWait == pc = "transfer" /\ i = WORDS /\ Return(1)

\* A write waits for the drive to be ready again; nobody looks at ERR.
Complete ==
  /\ pc = "transfer" /\ i = WORDS
  /\ op = "write" => ~BSY /\ DRDY
  /\ Return(1)

Driver ==
  \/ ata_wait_busy \/ ata_wait_ready \/ Command \/ CheckExists
  \/ Response \/ CheckError \/ WaitDrq \/ Transfer \/ Complete

\* External: BSY shows; a command is done; the data of a write is stored.
DriveLatch ==
  /\ phase = "latched"
  /\ phase' = "busy" /\ failed' = FALSE
  /\ UNCHANGED <<driver, lag>>

DriveAnswer(error) ==
  /\ phase = "busy"
  /\ phase' = (IF error THEN "idle" ELSE "data") /\ failed' = error
  /\ UNCHANGED <<driver, lag>>

DriveStored(error) ==
  /\ phase = "storing"
  /\ phase' = "idle" /\ failed' = error
  /\ UNCHANGED <<driver, lag>>

Drive == DriveLatch \/ \E error \in BOOLEAN : DriveAnswer(error) \/ DriveStored(error)

-----------------------------------------------------------------------------
(* Properties.                                                             *)

\* Every variable has its type.
TypeOK ==
  /\ op \in Ops /\ drive \in Drives
  /\ pc \in {"done", "wait_busy", "wait_ready", "command", "exists", "response",
             "check", "wait_drq", "transfer"}
  /\ i \in 0 .. WORDS /\ result \in {0, 1}
  /\ phase \in {"idle", "latched", "busy", "data", "storing"}
  /\ {failed, lag} \subseteq BOOLEAN

\* Words are moved only while the drive asks for them.  If BSY shows at once,
\* a command is written only to a drive that is idle and ready, and the drive
\* is left with nothing to deliver, so that the next routine does not find old
\* data.  A read or an identify that returns 1 did not fail on the drive, even
\* if BSY shows late and the status is still that of the command before.
Handshake ==
  /\ pc = "transfer" /\ i < WORDS => DRQ
  /\ ~lag /\ pc = "command" => DRDY /\ phase = "idle"
  /\ ~lag /\ pc = "done" => phase = "idle"
  /\ pc = "done" /\ result = 1 /\ op # "write" => ~failed

\* Every routine for a drive that exists and shows BSY at once returns.
RoutineReturns == pc # "done" /\ exists /\ ~lag ~> pc = "done"
=============================================================================
