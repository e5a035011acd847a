--------------------------- MODULE KernelBoot_proofs ---------------------------
(***************************************************************************)
(* Proofs about KernelBoot: while every read has been answered by its own *)
(* request, main() only enters a kernel whose image it staged from the     *)
(* disk, from a sector that begins with the ELF magic; and the boot flow   *)
(* refines KernelLoader.                                                   *)
(***************************************************************************)
EXTENDS KernelBoot, TLAPS

(* The bulk loop has read sectors start .. start + off - 1, all inside the *)
(* disk: read_block's range check comes before any request.                *)
InDisk == \A j \in 0..off - 1 : start + j < cap

(* The staged sectors are the disk's, in order.                           *)
Staged == \A j \in 0..off - 1 : buffer[j] = disk[start + j]

(* Nothing is staged before the start sector is known.                    *)
NothingStagedYet == stage \in {"probe", "detect"} => off = 0

(* Past Check, the buffer holds at least one sector and begins with the   *)
(* magic.                                                                  *)
MagicChecked == stage \in {"parse", "jumped"} => off > 0 /\ buffer[0] = "elf"

(* The bulk loop stops at the end of the staging window: past it, exactly *)
(* the sectors_to_read sectors from the start sector are staged.           *)
Window ==
  /\ stage = "bulk" => off <= SectorsToRead
  /\ stage \in {"check", "parse", "jumped"} => off = SectorsToRead

Inv == /\ TypeOK /\ bytesLoaded = off /\ NothingStagedYet /\ InDisk
       /\ (synced => Staged) /\ MagicChecked /\ Window

-----------------------------------------------------------------------------
(* What read_block(s) returning r tells: a sector was returned only from  *)
(* inside the disk; while the driver stays in step the sector is s's own;  *)
(* and the driver never gets back in step.                                 *)
LEMMA ReadBlockFacts ==
  ASSUME NEW s \in Nat, NEW r \in Results, ReadBlock(s, r), TypeOK
  PROVE  /\ r # "err" => s < cap /\ r \in Contents
         /\ synced' => synced /\ (r # "err" => r = disk[s])
         /\ synced' = synced \/ synced' = FALSE
         /\ synced' \in BOOLEAN
         /\ asked' \subseteq 0..cap - 1
<1>1. cap \in Nat /\ asked \subseteq 0..cap - 1 /\ synced \in BOOLEAN
  BY BootConstantsAssumption DEF TypeOK
<1>2. r # "err" => r \in Contents
  BY DEF Results
<1>3. CASE s >= cap /\ r = "err" /\ UNCHANGED readVars
  BY <1>1, <1>3 DEF readVars
<1>4. CASE /\ s < cap /\ synced /\ r = disk[s]
           /\ asked' = asked \cup {s} /\ UNCHANGED synced
  BY <1>1, <1>2, <1>4
<1>5. CASE /\ s < cap /\ ReadMayFail /\ r \in {"err"} \cup StaleData(s)
           /\ asked' = asked \cup {s} /\ synced' = FALSE
  <2>1. asked' \subseteq 0..cap - 1
    BY <1>1, <1>5
  <2>2. QED
    BY <1>2, <1>5, <2>1, Zenon
<1>6. QED
  BY <1>3, <1>4, <1>5 DEF ReadBlock

(* 1968u32.saturating_sub(start_sector) is never negative.                *)
LEMMA WindowSize ==
  ASSUME NEW st \in Nat
  PROVE  0 <= (IF st < BulkSectors THEN BulkSectors - st ELSE 0)
BY BootConstantsAssumption

LEMMA InitInv == Init => Inv
<1> SUFFICES ASSUME Init PROVE Inv
  OBVIOUS
<1> USE BootConstantsAssumption
<1>1. TypeOK
  <2>1. /\ cap \in Capacities /\ disk \in [0..cap - 1 -> Contents]
        /\ stage \in Stages /\ target \in {"none", "entry", "default"}
        /\ loaded \in BOOLEAN /\ synced \in BOOLEAN /\ asked \subseteq 0..cap - 1
    BY DEF Init, Stages
  <2>2. scan \in 0..ScanLimit /\ start \in 0..ScanLimit /\ off \in 0..BulkSectors
        /\ bytesLoaded \in 0..BufferSectors
    BY DEF Init
  <2>3. buffer \in [BufIdx -> Contents]
    BY DEF Init, Contents
  <2>4. QED
    BY <2>1, <2>2, <2>3 DEF TypeOK
<1>2. QED
  BY <1>1 DEF Init, Inv, NothingStagedYet, InDisk, Staged, MagicChecked, Window

LEMMA ProbeInv ==
  ASSUME Inv, Probe
  PROVE  Inv'
BY DEF Inv, Probe, TypeOK, Stages, NothingStagedYet, InDisk, Staged,
       MagicChecked, Window, readVars

(* detect_elf_start_sector moves the scan on or fixes the start sector;  *)
(* the bulk loop has not begun, so nothing staged depends on the start.   *)
LEMMA DetectInv ==
  ASSUME Inv, Detect
  PROVE  Inv'
<1>1. stage = "detect" /\ off = 0 /\ scan \in 0..ScanLimit /\ TypeOK
  BY DEF Detect, Inv, NothingStagedYet, TypeOK
<1>2. /\ UNCHANGED <<cap, disk, off, buffer, bytesLoaded, target, loaded>>
      /\ stage' \in {"detect", "bulk"}
      /\ scan' \in 0..ScanLimit /\ start' \in 0..ScanLimit
      /\ synced' \in BOOLEAN /\ asked' \subseteq 0..cap - 1
  <2>1. UNCHANGED <<cap, disk, off, buffer, bytesLoaded, target, loaded>>
    BY DEF Detect
  <2>2. CASE ScanMore(scan)
    <3>1. PICK r \in Results :
            /\ ReadBlock(scan, r)
            /\ IF r = "elf"
                 THEN start' = scan /\ stage' = "bulk" /\ UNCHANGED scan
                 ELSE scan' = scan + 1 /\ UNCHANGED <<start, stage>>
      BY <2>2 DEF Detect
    <3>2. scan < ScanLimit
      BY <2>2 DEF ScanMore
    <3>3. synced' \in BOOLEAN /\ asked' \subseteq 0..cap - 1
      <4>1. scan \in Nat /\ ReadBlock(scan, r)
        BY <1>1, <3>1
      <4>2. QED
        BY <1>1, <4>1, ReadBlockFacts
    <3>4. QED
      BY <1>1, <2>1, <3>1, <3>2, <3>3, BootConstantsAssumption DEF Inv, TypeOK
  <2>3. CASE ~ScanMore(scan)
    <3>1. start' = 1 /\ stage' = "bulk" /\ scan' = scan /\ UNCHANGED readVars
      BY <2>3 DEF Detect
    <3>2. QED
      BY <1>1, <2>1, <3>1, BootConstantsAssumption DEF TypeOK, readVars
  <2>4. QED
    BY <2>2, <2>3
<1>3. TypeOK'
  BY <1>1, <1>2, BootConstantsAssumption DEF TypeOK, Stages
<1>4. Window'
  <2>1. off' = 0 /\ start' \in Nat /\ BulkSectors \in Nat
    BY <1>1, <1>2, BootConstantsAssumption
  <2>2. 0 <= (IF start' < BulkSectors THEN BulkSectors - start' ELSE 0)
    BY <2>1, WindowSize, Zenon
  <2>3. off' <= (IF start' < BulkSectors THEN BulkSectors - start' ELSE 0)
    BY <2>1, <2>2, Zenon
  <2>4. stage' \notin {"check", "parse", "jumped"}
    BY <1>2
  <2>5. QED
    BY <2>3, <2>4, Zenon DEF Window, SectorsToRead
<1>5. QED
  BY <1>1, <1>2, <1>3, <1>4 DEF Inv, NothingStagedYet, InDisk, Staged,
                                MagicChecked

(* One iteration of the bulk loop stages the sector start + off; a read   *)
(* that loses step may stage another sector's data, but never one from     *)
(* outside the disk.                                                       *)
LEMMA BulkInv ==
  ASSUME Inv, Bulk
  PROVE  Inv'
<1> USE BootConstantsAssumption
<1>1. stage = "bulk" /\ UNCHANGED <<cap, disk, scan, start, target, loaded>>
  BY DEF Bulk
<1>2. CASE SectorsToRead = 0 \/ off >= SectorsToRead
  <2>1. /\ UNCHANGED <<off, buffer, bytesLoaded, synced, asked>>
        /\ stage' = IF SectorsToRead = 0 THEN "shutdown" ELSE "check"
    BY <1>2 DEF Bulk, readVars
  <2>2. stage' = "check" => off = SectorsToRead
    <3>1. off \in Nat /\ SectorsToRead \in Nat /\ off <= SectorsToRead
      BY <1>1 DEF Inv, TypeOK, Window, SectorsToRead
    <3>2. QED
      BY <1>2, <2>1, <3>1
  <2>3. Window'
    BY <1>1, <2>1, <2>2 DEF Window, SectorsToRead
  <2>4. QED
    BY <1>1, <2>1, <2>3 DEF Inv, TypeOK, Stages, NothingStagedYet, InDisk,
                            Staged, MagicChecked
<1>3. CASE ~(SectorsToRead = 0 \/ off >= SectorsToRead)
  <2>1. PICK r \in Results :
          /\ ReadBlock(ActualSector(off), r)
          /\ IF r = "err" \/ off + 1 > BufferSectors
               THEN stage' = "shutdown" /\ UNCHANGED <<off, buffer, bytesLoaded>>
               ELSE /\ buffer' = [buffer EXCEPT ![off] = r]
                    /\ bytesLoaded' = off + 1
                    /\ off' = off + 1
                    /\ UNCHANGED stage
    BY <1>3 DEF Bulk
  <2>2. off \in 0..BulkSectors /\ start \in 0..ScanLimit /\ TypeOK
    BY DEF Inv, TypeOK
  <2>3. /\ r # "err" => start + off < cap /\ r \in Contents
        /\ synced' => synced /\ (r # "err" => r = disk[start + off])
        /\ synced' \in BOOLEAN /\ asked' \subseteq 0..cap - 1
    <3>1. start + off \in Nat /\ ReadBlock(start + off, r)
      BY <2>1, <2>2 DEF ActualSector
    <3>2. QED
      BY <2>2, <3>1, ReadBlockFacts
  <2>4. CASE r = "err" \/ off + 1 > BufferSectors
    BY <1>1, <2>1, <2>3, <2>4 DEF Inv, TypeOK, Stages, NothingStagedYet,
                                  InDisk, Staged, MagicChecked, Window
  <2>5. CASE ~(r = "err" \/ off + 1 > BufferSectors)
    <3>1. /\ buffer' = [buffer EXCEPT ![off] = r]
          /\ bytesLoaded' = off + 1 /\ off' = off + 1 /\ stage' = stage
      BY <2>1, <2>5
    <3>2. off < BufferSectors /\ start + off < cap /\ r \in Contents
      BY <2>2, <2>3, <2>5
    <3>3. off + 1 <= BulkSectors
      BY <1>3, <2>2 DEF SectorsToRead
    <3>4. TypeOK'
      BY <1>1, <2>2, <2>3, <3>1, <3>2, <3>3 DEF Inv, TypeOK, BufIdx
    <3>5. InDisk'
      BY <1>1, <2>2, <3>1, <3>2 DEF Inv, InDisk
    <3>6. synced' => Staged'
      <4>1. synced' => r = disk[start + off] /\ Staged
        BY <2>3, <2>5 DEF Inv
      <4>2. QED
        BY <1>1, <2>2, <3>1, <3>2, <4>1 DEF Inv, TypeOK, Staged, BufIdx
    <3>7. Window'
      BY <1>1, <1>3, <2>2, <3>1 DEF Window, SectorsToRead
    <3>8. QED
      BY <1>1, <3>1, <3>4, <3>5, <3>6, <3>7 DEF Inv, NothingStagedYet,
                                                MagicChecked
  <2>6. QED
    BY <2>4, <2>5
<1>4. QED
  BY <1>2, <1>3

(* Check lets main() go on only with the magic at the buffer's start.     *)
LEMMA CheckInv ==
  ASSUME Inv, Check
  PROVE  Inv'
BY DEF Inv, Check, FoundSignature, TypeOK, Stages, NothingStagedYet, InDisk,
       Staged, MagicChecked, Window, SectorsToRead, readVars

LEMMA ParseInv ==
  ASSUME Inv, Parse
  PROVE  Inv'
BY DEF Inv, Parse, TypeOK, Stages, NothingStagedYet, InDisk, Staged,
       MagicChecked, Window, SectorsToRead, readVars

LEMMA StepInv == Inv /\ [Next]_vars => Inv'
<1> SUFFICES ASSUME Inv, [Next]_vars PROVE Inv'
  OBVIOUS
<1>1. CASE UNCHANGED vars
  BY <1>1 DEF vars, readVars, Inv, TypeOK, NothingStagedYet, InDisk, Staged,
               MagicChecked, Window, SectorsToRead
<1>2. QED
  BY <1>1, ProbeInv, DetectInv, BulkInv, CheckInv, ParseInv DEF Next

THEOREM InvHolds == Spec => []Inv
BY InitInv, StepInv, PTL DEF Spec

(* The boot flow stays well typed: the scan and the start sector stay     *)
(* within the scanned range, the bulk loop within the staging window and   *)
(* the buffer, and read_block only requests sectors inside the disk, for   *)
(* every capacity and size the constants allow.                            *)
THEOREM TypeCorrect == Spec => []TypeOK
BY InvHolds, PTL DEF Inv

(* JumpsOnlyIntoStagedElf for every disk, capacity, scan limit, staging    *)
(* window and buffer size, whether or not the device may time out or fail: *)
(* while every read has been answered by its own request, main() enters a  *)
(* kernel only when the start sector begins with the magic and the staged  *)
(* sectors are the disk's.                                                 *)
THEOREM StagedElf == Spec => []JumpsOnlyIntoStagedElf
<1>1. Inv => JumpsOnlyIntoStagedElf
  <2> SUFFICES ASSUME Inv, stage = "jumped", synced
               PROVE  JumpsOnlyIntoStagedElf
    BY DEF JumpsOnlyIntoStagedElf
  <2>1. off > 0 /\ buffer[0] = "elf" /\ off \in Nat /\ Staged /\ InDisk
    BY DEF Inv, MagicChecked, TypeOK
  <2>2. start + 0 < cap /\ buffer[0] = disk[start + 0]
    BY <2>1 DEF Staged, InDisk
  <2>3. QED
    BY <2>1, <2>2 DEF Inv, Staged, InDisk, JumpsOnlyIntoStagedElf, TypeOK
<1>2. QED
  BY <1>1, InvHolds, PTL

-----------------------------------------------------------------------------
(* The refinement of KernelLoader under the mapping LoaderPhase,           *)
(* LoaderImage and faulty = ~synced.  Every stage before the jump maps to  *)
(* the phase "boot" with no image: steps among them are stutters, or a     *)
(* Fault when a read loses step with the device.                           *)
Booting == {"probe", "detect", "bulk", "check", "parse"}

LEMMA BootingMapped ==
  ASSUME stage \in Booting
  PROVE  LoaderPhase = "boot" /\ LoaderImage = Loader!NoImage
BY DEF Booting, LoaderPhase, LoaderImage, Loader!NoImage

LEMMA BootingMappedPrime ==
  ASSUME stage' \in Booting
  PROVE  LoaderPhase' = "boot" /\ LoaderImage' = Loader!NoImage
BY DEF Booting, LoaderPhase, LoaderImage, Loader!NoImage

(* A step between two booting stages is a stutter of KernelLoader, or its *)
(* Fault when the driver falls out of step.                                *)
LEMMA BootingStep ==
  ASSUME stage \in Booting, stage' \in Booting, UNCHANGED <<cap, disk>>,
         synced \in BOOLEAN, synced' = synced \/ synced' = FALSE
  PROVE  [Loader!Next]_Loader!avars
<1>1. LoaderPhase = "boot" /\ LoaderImage = Loader!NoImage
      /\ LoaderPhase' = "boot" /\ LoaderImage' = Loader!NoImage
  BY BootingMapped, BootingMappedPrime
<1>2. CASE synced' = synced
  BY <1>1, <1>2 DEF Loader!avars
<1>3. CASE synced' # synced
  <2>1. synced /\ ~synced'
    BY <1>3
  <2>2. Loader!Fault
    BY <1>1, <2>1 DEF Loader!Fault
  <2>3. QED
    BY <2>2 DEF Loader!Next
<1>4. QED
  BY <1>2, <1>3

(* A shutdown or the halt loop reached from a booting stage is Stop; the  *)
(* read that caused a shutdown may have faulted.                          *)
LEMMA StopStep ==
  ASSUME stage \in Booting, stage' \in {"halted", "shutdown"},
         UNCHANGED <<cap, disk>>,
         synced \in BOOLEAN, synced' = synced \/ synced' = FALSE
  PROVE  Loader!Stop
<1>1. LoaderPhase' = "stopped" /\ LoaderImage' = Loader!NoImage
  BY DEF LoaderPhase, LoaderImage, Loader!NoImage
<1>2. (~synced') \in {~synced, TRUE}
  OBVIOUS
<1>3. QED
  BY <1>1, <1>2, BootingMapped DEF Loader!Stop

(* The jump at the end of main() is Enter from the start sector: the      *)
(* image spans the window from it inside the disk and begins with the      *)
(* magic; in step with the device, it is the disk's sectors from a sector  *)
(* that carries the magic.                                                 *)
LEMMA EnterStep ==
  ASSUME Inv, Parse
  PROVE  Loader!Enter
<1>1. /\ stage = "parse" /\ stage' = "jumped"
      /\ UNCHANGED <<cap, disk, scan, start, off, buffer, bytesLoaded, synced>>
  BY DEF Parse, readVars
<1>2. /\ off > 0 /\ buffer[0] = "elf" /\ off = SectorsToRead
      /\ bytesLoaded = off /\ off \in Nat /\ start \in 0..ScanLimit
      /\ bytesLoaded \in 0..BufferSectors /\ InDisk /\ (synced => Staged)
      /\ cap \in Capacities /\ buffer \in [BufIdx -> Contents]
  BY <1>1 DEF Inv, MagicChecked, Window, TypeOK
<1>3. start < BulkSectors /\ off = BulkSectors - start
  BY <1>2, BootConstantsAssumption DEF SectorsToRead
<1>4. off \in 1..BufferSectors /\ start + off <= cap
  <2>1. start + (off - 1) < cap
    BY <1>2 DEF InDisk
  <2>2. QED
    BY <1>2, <2>1, BootConstantsAssumption
<1>5. LoaderImage' = [i \in 0..off - 1 |-> buffer[i]]
  BY <1>1, <1>2 DEF LoaderImage
<1>6. LoaderImage' \in Loader!Images(start)
  <2>1. CASE synced
    <3>1. \A i \in 0..off - 1 : buffer[i] = disk[start + i]
      BY <1>2, <2>1 DEF Staged
    <3>2. start \in Loader!ElfStarts
      <4>1. start + 0 < cap /\ buffer[0] = disk[start + 0]
        BY <1>2, <3>1 DEF InDisk
      <4>2. QED
        BY <1>2, <4>1 DEF Loader!ElfStarts
    <3>3. LoaderImage' = Loader!DiskRun(start, off)
      BY <1>5, <3>1 DEF Loader!DiskRun
    <3>4. QED
      BY <1>3, <1>4, <2>1, <3>2, <3>3 DEF Loader!Images
  <2>2. CASE ~synced
    <3>1. LoaderImage' \in [0..off - 1 -> Contents] /\ LoaderImage'[0] = "elf"
      BY <1>2, <1>4, <1>5, BootConstantsAssumption DEF BufIdx
    <3>2. QED
      BY <1>3, <1>4, <2>2, <3>1 DEF Loader!Images, Loader!Contents, Contents
  <2>3. QED
    BY <2>1, <2>2
<1>7. LoaderPhase = "boot" /\ LoaderPhase' = "entered"
  BY <1>1, BootingMapped DEF Booting, LoaderPhase
<1>8. QED
  BY <1>1, <1>2, <1>6, <1>7 DEF Loader!Enter

LEMMA InitRefines == Init => Loader!Init
<1> SUFFICES ASSUME Init PROVE Loader!Init
  OBVIOUS
<1>1. stage \in Booting
  BY DEF Init, Booting
<1>2. QED
  BY <1>1, BootingMapped DEF Init, Loader!Init, Contents, Loader!Contents

(* Every step of main() is a step of KernelLoader or a stutter.            *)
LEMMA StepRefines == Inv /\ [Next]_vars => [Loader!Next]_Loader!avars
<1> SUFFICES ASSUME Inv, [Next]_vars PROVE [Loader!Next]_Loader!avars
  OBVIOUS
<1>0. synced \in BOOLEAN
  BY DEF Inv, TypeOK
<1>1. CASE Probe
  <2>1. stage \in Booting /\ stage' \in {"detect", "shutdown"}
        /\ UNCHANGED <<cap, disk, synced>>
    BY <1>1 DEF Probe, Booting, readVars
  <2>2. QED
    BY <1>0, <2>1, BootingStep, StopStep DEF Booting, Loader!Next
<1>2. CASE Detect
  <2>1. stage \in Booting /\ stage' \in Booting /\ UNCHANGED <<cap, disk>>
    BY <1>2 DEF Detect, Booting
  <2>2. synced' = synced \/ synced' = FALSE
    <3>1. CASE ScanMore(scan)
      <4>1. PICK r \in Results : ReadBlock(scan, r)
        BY <1>2, <3>1 DEF Detect
      <4>2. scan \in Nat /\ TypeOK
        BY DEF Inv, TypeOK
      <4>3. QED
        BY <4>1, <4>2, ReadBlockFacts
    <3>2. CASE ~ScanMore(scan)
      BY <1>2, <3>2 DEF Detect, readVars
    <3>3. QED
      BY <3>1, <3>2
  <2>3. QED
    BY <1>0, <2>1, <2>2, BootingStep
<1>3. CASE Bulk
  <2>1. stage \in Booting /\ stage' \in {"bulk", "check", "shutdown"}
        /\ UNCHANGED <<cap, disk>>
    BY <1>3 DEF Bulk, Booting
  <2>2. synced' = synced \/ synced' = FALSE
    <3>1. CASE SectorsToRead = 0 \/ off >= SectorsToRead
      BY <1>3, <3>1 DEF Bulk, readVars
    <3>2. CASE ~(SectorsToRead = 0 \/ off >= SectorsToRead)
      <4>1. PICK r \in Results : ReadBlock(ActualSector(off), r)
        BY <1>3, <3>2 DEF Bulk
      <4>2. start + off \in Nat /\ TypeOK
        BY DEF Inv, TypeOK
      <4>3. QED
        BY <4>1, <4>2, ReadBlockFacts DEF ActualSector
    <3>3. QED
      BY <3>1, <3>2
  <2>3. QED
    BY <1>0, <2>1, <2>2, BootingStep, StopStep DEF Booting, Loader!Next
<1>4. CASE Check
  <2>1. stage \in Booting /\ stage' \in {"parse", "halted"}
        /\ UNCHANGED <<cap, disk, synced>>
    BY <1>4 DEF Check, Booting, readVars
  <2>2. QED
    BY <1>0, <2>1, BootingStep, StopStep DEF Booting, Loader!Next
<1>5. CASE Parse
  BY <1>5, EnterStep DEF Loader!Next
<1>6. CASE UNCHANGED vars
  BY <1>6 DEF vars, readVars, Loader!avars, LoaderPhase, LoaderImage
<1>7. QED
  BY <1>1, <1>2, <1>3, <1>4, <1>5, <1>6 DEF Next

(* The safety part of ImplementsKernelLoader for every capacity, scan     *)
(* limit, staging window and buffer size, whether or not the device may   *)
(* time out or fail: main() starts as KernelLoader starts, and each of its *)
(* steps leaves the loader's state alone, or is a Fault, a Stop, or an     *)
(* Enter of an image that spans the window from a scanned sector inside    *)
(* the disk and begins with the magic, and that, while no read has lost    *)
(* step, is the disk's sectors from a sector with the magic.  The fairness *)
(* part stays with TLC.                                                    *)
THEOREM LoaderRefinement == Spec => Loader!Init /\ [][Loader!Next]_Loader!avars
<1>1. Init => Loader!Init
  BY InitRefines
<1>2. Inv /\ [Next]_vars => [Loader!Next]_Loader!avars
  BY StepRefines
<1>3. QED
  BY <1>1, <1>2, InvHolds, PTL DEF Spec

=============================================================================
