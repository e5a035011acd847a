------------------------------ MODULE KernelBoot ------------------------------
(***************************************************************************)
(* The boot flow of examples/minimal_boot.rs main(): create the loader     *)
(* (kernel/mod.rs: create_kernel_loader), find and stage the kernel        *)
(* (kernel/loader.rs: load_kernel_raw, detect_elf_start_sector), check the *)
(* staged image (find_elf_signature), check the entry point, materialise   *)
(* the segments and jump.                                                  *)
(*                                                                         *)
(* A sector is abstracted to whether it begins with the ELF magic.  The    *)
(* virtio read of one sector (VirtioBlk::read_block, modelled in           *)
(* VirtioBlkRead) is abstracted to its outcome: an error for a sector at   *)
(* or past the capacity, the sector's content otherwise.  When the device  *)
(* may time out or fail, a read may also return an error, or Ok with what  *)
(* the shared data buffer holds (the data of an earlier request, or the    *)
(* buffer's zeros), and from then on the driver and the device are out of  *)
(* step (VirtioBlkRead's synced, and its read_stale run).  The parsed image is abstracted to whether   *)
(* its entry point lies in the accepted window and whether load_segments   *)
(* returns Ok (ElfParser, modelled in ElfLoadSegments).  The code's sizes  *)
(* (100 sectors scanned, 1968 sectors staged, a 1 MiB buffer of 2048       *)
(* sectors) are constants.                                                 *)
(***************************************************************************)
EXTENDS Naturals

CONSTANTS
  Capacities,     \* disk capacities (config.capacity) to explore
  ScanLimit,      \* detect_elf_start_sector scans sectors 0..ScanLimit-1 (100)
  BulkSectors,    \* load_kernel_raw stages BulkSectors - start sectors (1968)
  BufferSectors,  \* BUFFER_SIZE / 512 (2048)
  ReadMayFail     \* read_block may fail on a sector within the capacity

ASSUME BootConstantsAssumption ==
  /\ Capacities \subseteq Nat \ {0}
  /\ ScanLimit \in Nat \ {0} /\ BulkSectors \in Nat /\ BufferSectors \in Nat
  /\ ReadMayFail \in BOOLEAN

Contents == {"elf", "junk"}     \* a sector begins with 7F 'E' 'L' 'F', or not
Stages == {"probe", "detect", "bulk", "check", "parse", "jumped", "halted",
           "shutdown"}

VARIABLES
  cap,          \* the disk's capacity in sectors (fixed)
  disk,         \* what each sector begins with (fixed)
  stage,        \* where main() is
  scan,         \* the sector detect_elf_start_sector reads next
  start,        \* elf_start_sector
  off,          \* sector_offset of the bulk read loop
  buffer,       \* the staging buffer at SAFE_BUFFER_BASE, by sector
  bytesLoaded,  \* bytes_loaded, in sectors
  target,       \* "entry" or "default": where the kernel was entered
  loaded,       \* load_segments returned Ok before the jump
  synced,       \* history: no read_block request has timed out or failed
  asked         \* the sectors read_block has requested from the device

readVars == <<synced, asked>>
vars == <<cap, disk, stage, scan, start, off, buffer, bytesLoaded, target,
          loaded, readVars>>

BufIdx == 0..BufferSectors - 1

-----------------------------------------------------------------------------
(* RAM behind the staging buffer starts out zero (QEMU).                   *)
Init ==
  /\ cap \in Capacities
  /\ disk \in [0..cap - 1 -> Contents]
  /\ stage = "probe"
  /\ scan = 0 /\ start = 0 /\ off = 0
  /\ buffer = [i \in BufIdx |-> "junk"]
  /\ bytesLoaded = 0
  /\ target = "none"
  /\ loaded = FALSE
  /\ synced = TRUE
  /\ asked = {}

Results == Contents \cup {"err"}

(* What the shared data buffer at 0x80070050 can hold when an answer that *)
(* is not the current request's is copied out: zeros, or the data of a     *)
(* sector requested so far.                                                *)
StaleData(s) == {"junk"} \cup {disk[x] : x \in asked \cup {s}}

(* read_block(s) returns r.  A sector at or past the capacity is IoError   *)
(* before any request.  In step, the device answers with the sector.  When *)
(* the device may time out or fail, a read may instead return Timeout      *)
(* after its retries, or Ok with the buffer copied for another answer (a   *)
(* late completion, or an IOERR completion whose status is never read);   *)
(* the driver is then out of step for good.                               *)
ReadBlock(s, r) ==
  \/ /\ s >= cap /\ r = "err"
     /\ UNCHANGED readVars
  \/ /\ s < cap /\ synced /\ r = disk[s]
     /\ asked' = asked \cup {s}
     /\ UNCHANGED synced
  \/ /\ s < cap /\ ReadMayFail /\ r \in {"err"} \cup StaleData(s)
     /\ asked' = asked \cup {s}
     /\ synced' = FALSE

(* create_kernel_loader: probe_all_devices found a device, or main() shuts *)
(* down.  load_kernel_raw's initialize() then returns at once, since the   *)
(* probe initialised the device.                                           *)
Probe ==
  /\ stage = "probe"
  /\ \E found \in BOOLEAN : stage' = IF found THEN "detect" ELSE "shutdown"
  /\ UNCHANGED <<cap, disk, scan, start, off, buffer, bytesLoaded, target,
                 loaded, readVars>>

(* The scan of detect_elf_start_sector has a sector left: sector 0, then *)
(* for sector in 1..100.  The mutant includes the bound.                   *)
ScanMoreInclusive(s) == s <= ScanLimit
ScanMore(s) == s < ScanLimit

(* detect_elf_start_sector: sector 0, then 1..ScanLimit-1, read one at a   *)
(* time; a read error moves on; the first sector that begins with the      *)
(* magic is the start; with none, the start is sector 1.                   *)
Detect ==
  /\ stage = "detect"
  /\ IF ScanMore(scan)
       THEN \E r \in Results :
              /\ ReadBlock(scan, r)
              /\ IF r = "elf"
                   THEN start' = scan /\ stage' = "bulk" /\ UNCHANGED scan
                   ELSE scan' = scan + 1 /\ UNCHANGED <<start, stage>>
       ELSE start' = 1 /\ stage' = "bulk" /\ UNCHANGED <<scan, readVars>>
  /\ UNCHANGED <<cap, disk, off, buffer, bytesLoaded, target, loaded>>

(* 1968u32.saturating_sub(start_sector).  The mutant counts the window's *)
(* end as well.                                                            *)
SectorsToReadInclusive ==
  IF start <= BulkSectors THEN BulkSectors - start + 1 ELSE 0
SectorsToRead == IF start < BulkSectors THEN BulkSectors - start ELSE 0

(* The disk sector the bulk loop reads at sector_offset o.                *)
ActualSector(o) == start + o

(* One iteration of the bulk read loop of load_kernel_raw: no sectors to   *)
(* read is IoError; a read error is IoError; a sector past the buffer is   *)
(* BufferTooSmall; otherwise the sector is copied to offset                *)
(* sector_offset * 512 and bytes_loaded follows.  Each error makes main()  *)
(* shut down.  After the loop the buffer's magic is only reported on.     *)
Bulk ==
  /\ stage = "bulk"
  /\ IF SectorsToRead = 0
       THEN stage' = "shutdown" /\ UNCHANGED <<off, buffer, bytesLoaded, readVars>>
     ELSE IF off >= SectorsToRead
       THEN stage' = "check" /\ UNCHANGED <<off, buffer, bytesLoaded, readVars>>
     ELSE   \E r \in Results :
            /\ ReadBlock(ActualSector(off), r)
            /\ IF r = "err" \/ off + 1 > BufferSectors
                THEN stage' = "shutdown" /\ UNCHANGED <<off, buffer, bytesLoaded>>
                ELSE /\ buffer' = [buffer EXCEPT ![off] = r]
                     /\ bytesLoaded' = off + 1
                     /\ off' = off + 1
                     /\ UNCHANGED stage
  /\ UNCHANGED <<cap, disk, scan, start, target, loaded>>

(* main(): find_elf_signature looks at offset 0 of the first bytes_loaded  *)
(* bytes of the buffer; without the magic main() halts.  ElfParser::new    *)
(* then accepts the slice: it is at least 512 bytes and has the magic.     *)
(* The mutant only asks for a non-empty buffer.                            *)
FoundSignatureNoMagic == bytesLoaded > 0
FoundSignature == bytesLoaded > 0 /\ buffer[0] = "elf"

Check ==
  /\ stage = "check"
  /\ stage' = IF FoundSignature THEN "parse" ELSE "halted"
  /\ UNCHANGED <<cap, disk, scan, start, off, buffer, bytesLoaded, target,
                 loaded, readVars>>

(* main(): an entry point outside [0x80000000, 0x90000000) makes main()    *)
(* jump to 0x80400000 at once; otherwise load_segments runs, and an error  *)
(* it returns is only printed before the jump to the entry point.          *)
Parse ==
  /\ stage = "parse"
  /\ \E entryValid, segmentsOk \in BOOLEAN :
       IF entryValid
         THEN target' = "entry" /\ loaded' = segmentsOk
         ELSE target' = "default" /\ UNCHANGED loaded
  /\ stage' = "jumped"
  /\ UNCHANGED <<cap, disk, scan, start, off, buffer, bytesLoaded, readVars>>

Next == Probe \/ Detect \/ Bulk \/ Check \/ Parse

(* main() runs alone on hart 0 with interrupts off: it keeps running.     *)
Spec == Init /\ [][Next]_vars /\ WF_vars(Next)

-----------------------------------------------------------------------------
TypeOK ==
  /\ cap \in Capacities
  /\ disk \in [0..cap - 1 -> Contents]
  /\ stage \in Stages
  /\ scan \in 0..ScanLimit
  /\ start \in 0..ScanLimit
  /\ off \in 0..BulkSectors
  /\ buffer \in [BufIdx -> Contents]
  /\ bytesLoaded \in 0..BufferSectors
  /\ target \in {"none", "entry", "default"}
  /\ loaded \in BOOLEAN
  /\ synced \in BOOLEAN
  /\ asked \subseteq 0..cap - 1

(* Spec 4.5 and scenario c: as long as every read_block has been answered *)
(* by its own request (no timeout, no failed completion), main() only      *)
(* enters a kernel whose image the loader found on the disk: the start     *)
(* sector begins with the magic, and the staged bytes are the disk's       *)
(* sectors from the start sector on.  Detect's skip over a failed read and *)
(* the bulk loop's copy both rest on it.                                   *)
JumpsOnlyIntoStagedElf ==
  stage = "jumped" /\ synced =>
    /\ start < cap /\ disk[start] = "elf"
    /\ \A i \in 0..bytesLoaded - 1 :
         start + i < cap /\ buffer[i] = disk[start + i]

(* Spec 4.5 phase 2 reads total_sectors - start_sector sectors: whenever  *)
(* the disk holds an image within the scanned sectors and the device does *)
(* not fail, main() eventually enters a kernel.                            *)
ElfOnDisk == \E s \in 0..ScanLimit - 1 : s < cap /\ disk[s] = "elf"
BootsWhenElfOnDisk == (stage = "detect" /\ ElfOnDisk) ~> (stage = "jumped")

(* The refinement mapping onto KernelLoader: main() is booting until it   *)
(* jumps (entered) or shuts down or halts (stopped); the image entered is  *)
(* the first bytes_loaded sectors of the staging buffer; the device has    *)
(* faulted once a read has lost step with it.                              *)
LoaderPhase ==
  IF stage = "jumped" THEN "entered"
  ELSE IF stage \in {"halted", "shutdown"} THEN "stopped"
  ELSE "boot"

LoaderImage ==
  IF stage = "jumped" THEN [i \in 0..bytesLoaded - 1 |-> buffer[i]]
                      ELSE [i \in {} |-> "junk"]

Loader == INSTANCE KernelLoader
            WITH phase <- LoaderPhase, image <- LoaderImage, faulty <- ~synced

(* Spec 4.5 as a specification of its own: the boot flow of main() with   *)
(* create_kernel_loader, load_kernel_raw and detect_elf_start_sector       *)
(* implements KernelLoader.  Booting ends; a kernel is entered only with  *)
(* the magic at its start and the length of the staging window from a      *)
(* scanned sector inside the disk, and, while the device has not faulted,  *)
(* only as the disk's sectors from a scanned sector with the magic.        *)
ImplementsKernelLoader == Loader!Spec

(* Spec 4.5: the segments are materialised before the handoff; the kernel *)
(* is never entered with its segments missing.                             *)
JumpAfterLoad == stage = "jumped" => loaded

=============================================================================
