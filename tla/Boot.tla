-------------------------------- MODULE Boot --------------------------------
(***************************************************************************)
(* How the memory map is meant to get from the firmware to the kernel:     *)
(* detect_memory, prepare_boot_info and handover_to_kernel of boot/stage2, *)
(* _start of kernel/kernel_entry.asm, kernel_main as far as memory_init,   *)
(* and init_pmm of kernel/memory.c.                                        *)
(*                                                                         *)
(* The record at 0x9000 is four dwords.  The loader writes them as         *)
(* signature, memory_map, memory_entries, boot_device; the kernel's struct *)
(* boot_info has a memory_map of eight bytes, and so takes dwords 1 and 2  *)
(* for the address of the map and dword 3 for the number of its entries.   *)
(*                                                                         *)
(* Left out: the change of processor mode (every step is taken to run in   *)
(* the mode it is written for) and everything that is only printed.        *)
(* Addresses and lengths are counted in MB.                                *)
(***************************************************************************)
EXTENDS Integers, Sequences, FiniteSets

CONSTANTS
  MAX_MEMORY_MAP_ENTRIES,   \* 128
  WORD,         \* 2^32, in MB
  Entries,      \* what a firmware reports, and what memory may look like
  Sizes,        \* what int 0x15 leaves in ECX
  Devices,      \* the drive number, with what was left in the rest of EAX
  MaxAnswers    \* bound: entries of the buffer that the model keeps

MAGIC   == 1    \* 0x1BADB002, signature and magic number
BUFFER  == 8    \* 0x8000
INFO    == 9    \* 0x9000
BSS_END == 16

Entry == [base : Nat, base_high : Nat, length : Nat, length_high : Nat, type : Nat]

BootConstants ==
  /\ Entries \subseteq Entry /\ Sizes \subseteq Nat /\ Devices \subseteq Nat
  /\ MAX_MEMORY_MAP_ENTRIES \in Nat \ {0} /\ WORD \in Nat \ {0}

VARIABLES
  boot_pc,
  buffer,      \* the entries at 0x8000
  ecx,
  dwords,      \* the record at 0x9000
  low,         \* what lies at address 0, read as entries
  rdi, rsi,
  verified,    \* kernel_main printed "Boot parameters verified."
  pmm,
  entry        \* the loop of init_pmm

loader == <<buffer, ecx, dwords>>
bootVars == <<boot_pc, loader, low, rdi, rsi, verified, pmm, entry>>

RAM == 1
Region(base, length) ==
  [base |-> base, base_high |-> 0, length |-> length, length_high |-> 0, type |-> RAM]

NoPmm == [regions |-> <<>>, total |-> 0, free |-> 0]

BootInit ==
  /\ boot_pc = "e820"
  /\ buffer = <<>> /\ ecx = 0
  /\ dwords = [k \in 0 .. 3 |-> 0]
  /\ low \in [0 .. (MAX_MEMORY_MAP_ENTRIES - 1) -> Entries]
  /\ rdi = 0 /\ rsi = 0
  /\ verified = FALSE
  /\ pmm = NoPmm /\ entry = 0

-----------------------------------------------------------------------------
(* The loader.                                                             *)

\* An answer of int 0x15.  ECX counts the entries, and is also the size of
\* the buffer on every call.  The loop has no limit but the firmware's word
\* that there are no more.  (The entries beyond the bound go to memory that
\* nobody reads, up to the record at 0x9000, which is written anew later; what
\* they would overwrite further up is left out.)
Answer(e, size, more) ==
  /\ boot_pc = "e820"
  /\ buffer' = IF Len(buffer) < MaxAnswers THEN Append(buffer, e) ELSE buffer
  /\ ecx' = IF e.length = 0 /\ e.length_high = 0 THEN size ELSE size + 1
  /\ boot_pc' = IF more THEN "e820" ELSE "detected"
  /\ UNCHANGED <<dwords, low, rdi, rsi, verified, pmm, entry>>

\* The carry flag, or a wrong signature.
Carry(size) ==
  /\ boot_pc = "e820"
  /\ ecx' = size /\ boot_pc' = "detected"
  /\ UNCHANGED <<buffer, dwords, low, rdi, rsi, verified, pmm, entry>>

\* The end of detect_memory_e820.  E881 and E801 are not implemented.
detect_memory ==
  /\ boot_pc = "detected"
  /\ dwords' = [dwords EXCEPT ![1] = BUFFER, ![2] = ecx]
  /\ boot_pc' = IF ecx = 0 THEN "simple" ELSE "init"
  /\ UNCHANGED <<buffer, ecx, low, rdi, rsi, verified, pmm, entry>>

simple_memory_detection ==
  /\ boot_pc = "simple"
  /\ buffer' = <<Region(0, 1), Region(1, 127)>>
  /\ dwords' = [dwords EXCEPT ![1] = BUFFER, ![2] = 2]
  /\ boot_pc' = "init"
  /\ UNCHANGED <<ecx, low, rdi, rsi, verified, pmm, entry>>

prepare_boot_info(device) ==
  dwords' = [k \in 0 .. 3 |-> CASE k = 0 -> MAGIC [] k = 3 -> device [] OTHER -> 0]

bootloader_init(device) ==
  /\ boot_pc = "init"
  /\ prepare_boot_info(device)
  /\ boot_pc' = "handover"
  /\ UNCHANGED <<buffer, ecx, low, rdi, rsi, verified, pmm, entry>>

handover_to_kernel(device) ==
  /\ boot_pc = "handover"
  /\ prepare_boot_info(device)
  /\ rdi' = INFO /\ rsi' = MAGIC
  /\ boot_pc' = "start"
  /\ UNCHANGED <<buffer, ecx, low, verified, pmm, entry>>

\* The other jump to the kernel, of long_mode_transition.asm, prepares
\* neither the record nor the registers.
long_mode_entry ==
  /\ boot_pc \in {"e820", "init"}
  /\ boot_pc' = "start"
  /\ UNCHANGED <<loader, low, rdi, rsi, verified, pmm, entry>>

-----------------------------------------------------------------------------
(* The kernel.                                                             *)

\* _start clears the BSS, and RDI with it.
start ==
  /\ boot_pc = "start"
  /\ rdi' = BSS_END
  /\ pmm' = NoPmm
  /\ boot_pc' = "main"
  /\ UNCHANGED <<loader, low, rsi, verified, entry>>

\* kernel_main clears the BSS again, with its own stack; as compiled, the
\* magic number is in a register.  It goes on in either case.
kernel_main ==
  /\ boot_pc = "main"
  /\ verified' = (rsi = MAGIC)
  /\ boot_pc' = "memory_init"
  /\ UNCHANGED <<loader, low, rdi, rsi, pmm, entry>>

\* Fault: the record is looked for where RDI points.
ParamsInRdi == rdi

\* Where the kernel looks for the record.
boot_params == INFO

Record == IF boot_params = INFO THEN dwords ELSE [k \in 0 .. 3 |-> 0]

EntryCount == IF Record[3] > MAX_MEMORY_MAP_ENTRIES THEN MAX_MEMORY_MAP_ENTRIES ELSE Record[3]

\* mmap[k], at the address in dwords 1 and 2.
mmap(k) == IF <<Record[1], Record[2]>> = <<BUFFER, 0>> THEN buffer[k + 1] ELSE low[k]

\* memory_init up to the loop of init_pmm.
memory_init ==
  /\ boot_pc = "memory_init"
  /\ boot_pc' = IF Record[0] = MAGIC THEN "pmm" ELSE "ready"
  /\ pmm' = IF Record[0] = MAGIC THEN NoPmm ELSE pmm
  /\ entry' = 0
  /\ UNCHANGED <<loader, low, rdi, rsi, verified>>

Usable(e) == e.type = RAM /\ e.base_high = 0

\* One region; the sums have 32 bits.
AddRegion(p, e) ==
  [regions |-> Append(p.regions, [base |-> e.base, length |-> e.length]),
   total   |-> (p.total + e.length) % WORD,
   free    |-> IF e.base >= 1 THEN (p.free + e.length) % WORD ELSE p.free]

\* Fault: the loop goes on to the next entry only behind a usable one.
PmmStays ==
  /\ boot_pc = "pmm" /\ entry < EntryCount
  /\ pmm' = IF Usable(mmap(entry)) THEN AddRegion(pmm, mmap(entry)) ELSE pmm
  /\ boot_pc' = IF Len(pmm'.regions) >= MAX_MEMORY_MAP_ENTRIES THEN "ready" ELSE "pmm"
  /\ entry' = IF Usable(mmap(entry)) THEN entry + 1 ELSE entry
  /\ UNCHANGED <<loader, low, rdi, rsi, verified>>

\* One turn of the loop of init_pmm.
init_pmm ==
  /\ boot_pc = "pmm" /\ entry < EntryCount
  /\ pmm' = IF Usable(mmap(entry)) THEN AddRegion(pmm, mmap(entry)) ELSE pmm
  /\ boot_pc' = IF Len(pmm'.regions) >= MAX_MEMORY_MAP_ENTRIES THEN "ready" ELSE "pmm"
  /\ entry' = entry + 1
  /\ UNCHANGED <<loader, low, rdi, rsi, verified>>

init_pmm_done ==
  /\ boot_pc = "pmm" /\ entry >= EntryCount
  /\ boot_pc' = "ready"
  /\ UNCHANGED <<loader, low, rdi, rsi, verified, pmm, entry>>

\* kernel_main goes on: see the other modules.
Ready == boot_pc = "ready" /\ UNCHANGED bootVars

-----------------------------------------------------------------------------
Firmware ==
  \/ \E e \in Entries, size \in Sizes, more \in BOOLEAN : Answer(e, size, more)
  \/ \E size \in Sizes : Carry(size)

Loader ==
  \/ detect_memory \/ simple_memory_detection
  \/ \E device \in Devices : bootloader_init(device) \/ handover_to_kernel(device)
  \/ long_mode_entry

Kernel == start \/ kernel_main \/ memory_init \/ init_pmm \/ init_pmm_done

BootNext == Firmware \/ Loader \/ Kernel \/ Ready

\* The firmware answers every call, and the processor goes on.
BootSpec == BootInit /\ [][BootNext]_bootVars /\ WF_bootVars(Firmware \/ Loader \/ Kernel)

-----------------------------------------------------------------------------
(* Properties.                                                             *)

\* The record signs the map and counts its entries; the room is limited.
Counted ==
  IF dwords[0] # MAGIC THEN 0
  ELSE IF dwords[3] > MAX_MEMORY_MAP_ENTRIES THEN MAX_MEMORY_MAP_ENTRIES ELSE dwords[3]

\* The lengths of the usable regions, and of those above the first MB.
Lengths == [k \in DOMAIN low |-> IF Usable(low[k]) THEN low[k].length ELSE 0]
HighLengths == [k \in DOMAIN low |-> IF Usable(low[k]) /\ low[k].base # 0 THEN low[k].length ELSE 0]

\* n |-> w[0] + ... + w[n - 1]
Sums(w) ==
  LET sum[n \in 0 .. MAX_MEMORY_MAP_ENTRIES] == IF n = 0 THEN 0 ELSE sum[n - 1] + w[n - 1]
  IN sum

\* Although _start overwrites RDI, where handover_to_kernel put the address
\* of the record, init_pmm finds the record and takes from the map it names
\* every usable region once and in order, no more than there is room for,
\* and sums that are right modulo 2^32.  Without a signature it takes none.
\* The magic number gets through both clearings of the BSS, and a record that
\* was handed over with it is signed.
PmmMatchesRecord ==
  /\ boot_pc \in {"memory_init", "pmm", "ready"} =>
       (verified <=> rsi = MAGIC) /\ (verified => dwords[0] = MAGIC)
  /\ boot_pc = "ready" =>
       LET taken == {k \in 0 .. (Counted - 1) : Usable(low[k])}
       IN /\ Len(pmm.regions) = Cardinality(taken)
          /\ \A k \in taken :
               pmm.regions[Cardinality({j \in taken : j <= k})]
                 = [base |-> low[k].base, length |-> low[k].length]
          /\ pmm.total = Sums(Lengths)[Counted] % WORD
          /\ pmm.free = Sums(HighLengths)[Counted] % WORD
          /\ Sums(Lengths)[Counted] < WORD => pmm.free <= pmm.total

\* If the firmware some day ends its list or reports an error (it may not, and
\* detect_memory_e820 then never ends), then memory_init comes to its end,
\* whatever was answered and whatever lies at the address of the map.
BootGoesOn == <>(boot_pc # "e820") => <>(boot_pc = "ready")

AsRegions(s) == [k \in DOMAIN s |-> [base |-> s[k].base, length |-> s[k].length]]

\* What the comment in prepare_boot_info says of its memory_map: the regions
\* of the kernel are those the loader detected (all of which are in buffer if
\* it is not full).
KernelGetsTheMap ==
  boot_pc = "ready" /\ verified /\ Len(buffer) < MaxAnswers =>
    LET ram == SelectSeq(buffer, LAMBDA e : Usable(e) /\ e.length # 0)
    IN Len(ram) <= MAX_MEMORY_MAP_ENTRIES => pmm.regions = AsRegions(ram)
=============================================================================
