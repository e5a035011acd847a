----------------------------- MODULE KernelLoader -----------------------------
(***************************************************************************)
(* What the kernel loader promises the boot flow (spec 4.5): from a disk   *)
(* the hart either stops (a shutdown or the halt loop) or enters a kernel  *)
(* whose image in RAM is the disk's sectors from a scanned sector holding  *)
(* the ELF magic up to the end of the staging window, and fits the        *)
(* staging buffer.  The device may fault (a read answered by another       *)
(* request, or failed); after a fault the image entered still begins with  *)
(* the magic and spans the window from a scanned sector inside the disk,  *)
(* but its sectors need not be the disk's.  Once the hart has stopped or   *)
(* entered the kernel, nothing the loader owns changes.  Which sector is   *)
(* chosen and how the sectors are read is left to the implementation.      *)
(***************************************************************************)
EXTENDS Naturals

CONSTANTS
  Capacities,     \* disk capacities in sectors
  ScanLimit,      \* the image starts at one of sectors 0..ScanLimit
  BulkSectors,    \* the staging window ends before this sector
  BufferSectors   \* the staging buffer holds this many sectors

Contents == {"elf", "junk"}

VARIABLES
  cap,    \* the disk's capacity (fixed)
  disk,   \* what each sector begins with (fixed)
  phase,  \* "boot", "entered" or "stopped"
  image,  \* the kernel image entered: sector contents by offset
  faulty  \* the device has faulted (for good)

avars == <<cap, disk, phase, image, faulty>>

(* No image: a function with an empty domain.                             *)
NoImage == [i \in {} |-> "junk"]

(* The scanned sectors an image may start at: those with the magic.      *)
ElfStarts == {s \in 0..ScanLimit : s < cap /\ disk[s] = "elf"}

(* The n sectors of the disk from sector s on.                            *)
DiskRun(s, n) == [i \in 0..n - 1 |-> disk[s + i]]

Init ==
  /\ cap \in Capacities
  /\ disk \in [0..cap - 1 -> Contents]
  /\ phase = "boot"
  /\ image = NoImage
  /\ faulty = FALSE

(* The images the hart may enter from start sector s: the window from s, *)
(* at least one sector, inside the disk and the buffer, beginning with the *)
(* magic; without a fault, exactly the disk's sectors, from a sector that  *)
(* has the magic.                                                          *)
Images(s) ==
  LET n == BulkSectors - s
  IN  IF n \in 1..BufferSectors /\ s + n <= cap
        THEN IF faulty THEN {im \in [0..n - 1 -> Contents] : im[0] = "elf"}
             ELSE IF s \in ElfStarts THEN {DiskRun(s, n)} ELSE {}
        ELSE {}

(* The hart enters a kernel staged from a scanned sector.                 *)
Enter ==
  /\ phase = "boot"
  /\ \E s \in 0..ScanLimit : image' \in Images(s)
  /\ phase' = "entered"
  /\ UNCHANGED <<cap, disk, faulty>>

(* A read loses step with the device.                                      *)
Fault ==
  /\ phase = "boot" /\ ~faulty
  /\ faulty' = TRUE
  /\ UNCHANGED <<cap, disk, phase, image>>

(* The hart stops without entering a kernel, possibly on a fault.          *)
Stop ==
  /\ phase = "boot"
  /\ phase' = "stopped"
  /\ faulty' \in {faulty, TRUE}
  /\ UNCHANGED <<cap, disk, image>>

Next == Enter \/ Fault \/ Stop

(* Booting ends: the hart enters a kernel or stops.                        *)
Spec == Init /\ [][Next]_avars /\ WF_avars(Next)

=============================================================================
