---------------------------- MODULE VirtioBlkProbe ----------------------------
(***************************************************************************)
(* Discovery and initialisation of the virtio-blk device                   *)
(* (src/library/rustsbi/src/virtio/blk/device.rs: probe_all_devices,       *)
(* initialize, feature_negotiation_legacy, initialize_virtqueue_legacy,    *)
(* read_configuration_simple; memory.rs: allocate_queue_memory; queue.rs:  *)
(* Virtqueue::new, validate_memory_layout).                                *)
(*                                                                         *)
(* The hardware behind the MMIO bases is chosen once, in Init, from every  *)
(* configuration a virtio-mmio transport can present: no device, a device  *)
(* of another class, an empty slot (device id 0), or a block device with a *)
(* legacy (version 1) or modern (version 2) transport, that keeps or       *)
(* clears FEATURES_OK, and reports some capacity.  The STATUS register is  *)
(* a set of bits; writing it stores the value written, except that an      *)
(* empty slot ignores every write and reads 0 (QEMU's virtio-mmio without  *)
(* a backend).  QUEUE_PFN reads back the page frame written on a legacy    *)
(* transport and 0 on a modern one, which does not implement it.           *)
(* The probe runs alone on hart 0; initialize() touches one device only,   *)
(* which answers each access at once, so it is one step.                   *)
(***************************************************************************)
EXTENDS Naturals, Sequences, FiniteSets

CONSTANTS
  NBases,      \* MMIO bases scanned (possible_bases, 8 in the code)
  MaxFound,    \* capacity of found_devices (8)
  QueueNum,    \* queue size written to QUEUE_NUM (2)
  Capacities,  \* capacity values the config space may report
  NoDevice     \* probe_all_devices returned None

ASSUME NBasesAssumption == NBases \in Nat \ {0}
ASSUME FoundAssumption == MaxFound \in Nat
ASSUME QueueNumAssumption == QueueNum \in 1..1024
ASSUME CapacitiesAssumption == Capacities \subseteq Nat
ASSUME NoDeviceAssumption == NoDevice \notin 1..NBases

Bases == 1..NBases
StatusBits == {"ACK", "DRIVER", "FEATURES_OK", "DRIVER_OK"}
QueuePfn == 524400          \* 0x80070: descriptor table 0x80070000 >> 12
DefaultCapacity == 2048
CapacityLimit == 10000000

(* What sits behind one MMIO base; the config space of a device without   *)
(* a backend reads as 0.                                                   *)
Devices ==
  [magic : BOOLEAN, id : {0, 1}, version : {1}, keepsFeaturesOk : {FALSE},
   capacity : {0}]
  \cup [magic : {TRUE}, id : {2}, version : {1, 2},
        keepsFeaturesOk : BOOLEAN, capacity : Capacities]

VARIABLES
  dev,        \* the hardware behind each base (fixed)
  stage,      \* "scan", "tryBlk", "tryGen" or "done"
  scanIdx,    \* the base the scan loop reads next
  found,      \* found_devices[0..found_count): <<base, device id>>
  tryIdx,     \* the index i of the current candidate loop
  result,     \* the device probe_all_devices returns, or NoDevice
  status,     \* what each device's STATUS register reads
  pfn,        \* what each device's QUEUE_PFN register reads
  capacity    \* config.capacity of the returned device

vars == <<dev, stage, scanIdx, found, tryIdx, result, status, pfn, capacity>>

-----------------------------------------------------------------------------
(* Before the probe every device is reset and has no queue.                *)
Init ==
  /\ dev \in [Bases -> Devices]
  /\ stage = "scan"
  /\ scanIdx = 1
  /\ found = <<>>
  /\ tryIdx = 1
  /\ result = NoDevice
  /\ status = [b \in Bases |-> {}]
  /\ pfn = [b \in Bases |-> 0]
  /\ capacity = 0

(* The value STATUS holds after the driver writes v to device d.           *)
StatusAfterWrite(d, v) ==
  IF d.id # 2 THEN {}
  ELSE IF d.keepsFeaturesOk THEN v ELSE v \ {"FEATURES_OK"}

(* The read-back after ACKNOWLEDGE | DRIVER must show both bits            *)
(* (device.rs:242-249).                                                   *)
DriverStateOk(st) == {"ACK", "DRIVER"} \subseteq st

(* read_configuration_simple: 0 and implausibly large capacities become    *)
(* the default of 2048 sectors.  The mutant forgets the upper limit.      *)
ConfigCapacityNoLimit(c) == IF c > 0 THEN c ELSE DefaultCapacity
ConfigCapacity(c) ==
  IF c > 0 /\ c < CapacityLimit THEN c ELSE DefaultCapacity

(* The fixed queue layout for q descriptors: descriptor table at          *)
(* 0x80070000, available ring right after it, used ring at 0x80071000.     *)
(* Addresses are kept relative to 0x80070000, which is 16-aligned, so      *)
(* every alignment test is unchanged.                                      *)
DescAddr == 0
AvailAddr(q) == DescAddr + 16 * q
UsedAddr == 4096

(* allocate_queue_memory accepts the layout: alignment, and neither the   *)
(* descriptor table nor the available ring reaches the used ring.         *)
AllocateQueueMemoryOk(q) ==
  /\ DescAddr % 16 = 0 /\ AvailAddr(q) % 2 = 0 /\ UsedAddr % 4 = 0
  /\ DescAddr + 16 * q <= UsedAddr
  /\ AvailAddr(q) + 6 + 2 * q <= UsedAddr

(* Virtqueue::new accepts it: a size in 1..1024, alignment, the layout    *)
(* QEMU expects (validate_memory_layout), and no overlap.                  *)
VirtqueueNewOk(q) ==
  /\ q \in 1..1024
  /\ DescAddr % 16 = 0 /\ AvailAddr(q) % 2 = 0 /\ UsedAddr % 4 = 0
  /\ DescAddr + 16 * q <= AvailAddr(q)
  /\ AvailAddr(q) + 6 + 2 * q <= UsedAddr

(* feature_negotiation_legacy: DRIVER_FEATURES = 0, then STATUS is read   *)
(* and written back with FEATURES_OK; its loss is only reported.           *)
FeaturesStatus(d, st) == StatusAfterWrite(d, st \cup {"FEATURES_OK"})

(* What QUEUE_PFN reads back after initialize_virtqueue_legacy writes     *)
(* 0x80070: the frame on a legacy block device, 0 on a modern transport   *)
(* or an empty slot.  A mismatch is only reported.                         *)
QueuePfnRead(d) == IF d.id = 2 /\ d.version = 1 THEN QueuePfn ELSE 0

(* initialize() of the device at base b, run to its end or its first      *)
(* error: reset, ACKNOWLEDGE, DRIVER and its read-back; FEATURES_OK set    *)
(* by read-modify-write, whose loss is only reported; capacity; queue 0    *)
(* with QUEUE_NUM and QUEUE_PFN, whose read-back mismatch is only          *)
(* reported; Virtqueue::new; DRIVER_OK written alone, and read back.       *)
(* Its effect on the device registers and whether it returned Ok.          *)
InitOutcome(b) ==
  LET d == dev[b]
      afterDriver == StatusAfterWrite(d, {"ACK", "DRIVER"})
      afterFeatures == FeaturesStatus(d, afterDriver)
      final == StatusAfterWrite(d, {"DRIVER_OK"})
  IN IF ~DriverStateOk(afterDriver)
       THEN [ok |-> FALSE, status |-> afterDriver, pfn |-> 0, cap |-> 0]
     ELSE IF ~AllocateQueueMemoryOk(QueueNum)
       THEN [ok |-> FALSE, status |-> afterFeatures, pfn |-> 0, cap |-> 0]
     ELSE IF ~VirtqueueNewOk(QueueNum)
       THEN [ok |-> FALSE, status |-> afterFeatures, pfn |-> QueuePfnRead(d),
             cap |-> 0]
     ELSE [ok |-> "DRIVER_OK" \in final, status |-> final, pfn |-> QueuePfnRead(d),
           cap |-> ConfigCapacity(d.capacity)]

(* The scan loop has a base left to read (for &base_addr in              *)
(* &possible_bases).  The mutant stops one base early.                     *)
MoreBasesOffByOne(i) == i < NBases
MoreBases(i) == i <= NBases

(* One iteration of the scan loop: a base with the virtio magic and        *)
(* device id 2 or 0 is recorded while found_devices has room; the others   *)
(* are skipped.  After the last base the block-device pass starts.         *)
Scan ==
  /\ stage = "scan"
  /\ IF MoreBases(scanIdx)
       THEN /\ found' = IF dev[scanIdx].magic /\ dev[scanIdx].id \in {0, 2}
                           /\ Len(found) < MaxFound
                          THEN Append(found, <<scanIdx, dev[scanIdx].id>>)
                          ELSE found
            /\ scanIdx' = scanIdx + 1
            /\ UNCHANGED stage
       ELSE /\ stage' = "tryBlk"
            /\ UNCHANGED <<scanIdx, found>>
  /\ UNCHANGED <<dev, tryIdx, result, status, pfn, capacity>>

(* Returning the device ends the probe.  The mutant keeps looping.        *)
AdoptNoReturn(b) == result' = b /\ UNCHANGED stage
Adopt(b) == result' = b /\ stage' = "done"

(* One iteration of a candidate loop over found_devices for device id     *)
(* wanted: a candidate with that id is initialised and returned when       *)
(* initialize() is Ok; past the end the loop gives way to after.           *)
TryCandidate(wanted, after) ==
  /\ IF tryIdx <= Len(found)
       THEN LET b == found[tryIdx][1]
                o == InitOutcome(b)
            IN IF found[tryIdx][2] = wanted
                 THEN /\ status' = [status EXCEPT ![b] = o.status]
                      /\ pfn' = [pfn EXCEPT ![b] = o.pfn]
                      /\ tryIdx' = tryIdx + 1
                      /\ IF o.ok
                           THEN Adopt(b) /\ capacity' = o.cap
                           ELSE UNCHANGED <<stage, result, capacity>>
                 ELSE /\ tryIdx' = tryIdx + 1
                      /\ UNCHANGED <<status, pfn, stage, result, capacity>>
       ELSE /\ stage' = after
            /\ tryIdx' = 1
            /\ UNCHANGED <<status, pfn, result, capacity>>
  /\ UNCHANGED <<dev, scanIdx, found>>

(* First pass: block devices (id 2); then the fallback pass over empty    *)
(* slots (id 0); then None.                                                *)
TryBlock == stage = "tryBlk" /\ TryCandidate(2, "tryGen")
TryGeneric == stage = "tryGen" /\ TryCandidate(0, "done")

Next == Scan \/ TryBlock \/ TryGeneric

Spec == Init /\ [][Next]_vars /\ WF_vars(Next)

-----------------------------------------------------------------------------
TypeOK ==
  /\ dev \in [Bases -> Devices]
  /\ stage \in {"scan", "tryBlk", "tryGen", "done"}
  /\ scanIdx \in 1..NBases + 1
  /\ found \in Seq(Bases \X {0, 2}) /\ Len(found) <= MaxFound
  /\ tryIdx \in 1..MaxFound + 1
  /\ result \in Bases \cup {NoDevice}
  /\ status \in [Bases -> SUBSET StatusBits]
  /\ pfn \in [Bases -> {0, QueuePfn}]
  /\ capacity \in 0..CapacityLimit - 1

(* The base of the first block device, in the order of possible_bases.    *)
FirstBlockBase ==
  LET blk == {b \in Bases : dev[b].magic /\ dev[b].id = 2}
  IN IF blk = {} THEN NoDevice ELSE CHOOSE b \in blk : \A c \in blk : b <= c

(* Spec 4.3 Discovery: the probe returns the first base, in scan order,   *)
(* whose block device survives initialisation; empty slots (id 0) are      *)
(* never adopted, although the code's fallback pass tries them.            *)
ProbeAdoptsFirstBlock == stage = "done" => result = FirstBlockBase

(* probe_all_devices stops at the first device that initialises: no      *)
(* device but the one it returns has been moved out of reset, so no other *)
(* device is left half-initialised on the bus.                            *)
OnlyAdoptedDeviceActive ==
  \A b \in Bases : status[b] # {} \/ pfn[b] # 0 => b = result

=============================================================================
